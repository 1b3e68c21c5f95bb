-------------------------- MODULE SchedulerProofs --------------------------
(***************************************************************************)
(* Theorems about Scheduler, for any integrations in any order, any of     *)
(* which may be broken, and any number of visits and restarts.             *)
(***************************************************************************)
EXTENDS Scheduler, SequenceTheorems, TLAPS

-----------------------------------------------------------------------------
(***************************************************************************)
(* The list of a pass                                                      *)
(***************************************************************************)
\* What is selected is no longer than the rows.
LEMMA SelectionTyped ==
    ASSUME NEW n \in 0..Len(Order), NEW list \in [1..n -> Sources]
    PROVE  list \in Seq(Sources) /\ Len(list) <= Len(Order)
  <1>1. Len(Order) \in Nat
    BY OrderIsComplete, LenProperties
  <1>2. n \in Nat /\ n <= Len(Order)
    BY <1>1
  <1>3. list \in Seq(Sources) /\ Len(list) = n
    BY <1>2
  <1> QED BY <1>2, <1>3

\* The rest of a list is one shorter.
LEMMA RestTyped ==
    ASSUME TypeOK, todo # <<>>
    PROVE  /\ Current \in Sources
           /\ Tail(todo) \in Seq(Sources) /\ Len(Tail(todo)) = Len(todo) - 1
           /\ Len(todo) \in Nat /\ Len(todo) > 0
           /\ Len(Tail(todo)) <= Len(Order)
  <1>1. todo \in Seq(Sources) /\ Len(todo) <= Len(Order) /\ Len(Order) \in Nat
    BY OrderIsComplete, LenProperties DEF TypeOK
  <1>2. Current \in Sources /\ Tail(todo) \in Seq(Sources) /\ Len(Tail(todo)) = Len(todo) - 1
    BY <1>1, HeadTailProperties DEF Current
  <1>3. Len(todo) \in Nat /\ Len(todo) > 0
    BY <1>1, EmptySeq, LenProperties
  <1> QED BY <1>1, <1>2, <1>3

-----------------------------------------------------------------------------
(***************************************************************************)
(* Types, and who holds the coordinator                                    *)
(***************************************************************************)
LEMMA PassTyped ==
    ASSUME TypeOK, Pass
    PROVE  TypeOK'
  <1>1. CASE BeginPass
    <2>1. todo' \in Seq(Sources) /\ Len(todo') <= Len(Order)
      BY <1>1, SelectionTyped DEF BeginPass
    <2> QED BY <1>1, <2>1 DEF BeginPass, TypeOK
  <1>2. CASE EndPass
    BY <1>2 DEF EndPass, TypeOK
  <1>3. CASE Check
    <2>1. /\ todo' \in {todo, Tail(todo)} /\ todo # <<>> /\ pc' \in {"PASS", "DUE"}
          /\ pc' = "DUE" => todo' = todo
          /\ pc = "PASS" /\ UNCHANGED <<enabled, due, occupant, visits>>
      BY <1>3 DEF Check
    <2>2. todo' \in Seq(Sources) /\ Len(todo') <= Len(Order)
      BY <2>1, RestTyped DEF TypeOK
    <2> QED BY <2>1, <2>2 DEF TypeOK
  <1>4. CASE StartSync
    BY <1>4 DEF StartSync, TypeOK
  <1>5. CASE Refused \/ Raise
    <2>1. todo' = <<>> /\ pc' = "SLEEP" /\ occupant' # "SCHEDULER"
          /\ occupant' \in {"NONE", "SCHEDULER", "OTHER"}
          /\ UNCHANGED <<enabled, due, visits>>
      BY <1>5 DEF Refused, Raise, TypeOK
    <2>2. <<>> \in Seq(Sources) /\ Len(<<>>) <= Len(Order)
      BY OrderIsComplete, LenProperties, EmptySeq
    <2> QED BY <2>1, <2>2 DEF TypeOK
  <1>6. CASE EndSync
    <2>1. todo # <<>>
      BY <1>6 DEF EndSync, TypeOK
    <2>2. /\ todo' = Tail(todo) /\ pc' = "PASS" /\ occupant' = "NONE"
          /\ due' \in [Sources -> BOOLEAN] /\ UNCHANGED <<enabled, visits>>
      BY <1>6 DEF EndSync, TypeOK
    <2>3. Tail(todo) \in Seq(Sources) /\ Len(Tail(todo)) <= Len(Order)
      BY <2>1, RestTyped
    <2> QED BY <2>2, <2>3 DEF TypeOK
  <1> QED BY <1>1, <1>2, <1>3, <1>4, <1>5, <1>6 DEF Pass

LEMMA OthersTyped ==
    ASSUME TypeOK, Visit \/ Leave \/ Restart \/ \E s \in Sources : Tick(s) \/ Switch(s)
    PROVE  TypeOK'
  <1>1. CASE Visit \/ Leave
    <2>1. /\ occupant # "SCHEDULER" /\ occupant' \in {"NONE", "OTHER"}
          /\ due' \in [Sources -> BOOLEAN] /\ UNCHANGED <<enabled, pc, todo>>
      BY <1>1 DEF Visit, Leave, TypeOK
    <2>2. visits' \in 0..MaxVisits
      BY <1>1, VisitsAreBounded DEF Visit, Leave, TypeOK
    <2> QED BY <2>1, <2>2 DEF TypeOK
  <1>2. CASE Restart
    <2>1. <<>> \in Seq(Sources) /\ Len(<<>>) <= Len(Order)
      BY OrderIsComplete, LenProperties, EmptySeq
    <2> QED BY <1>2, <2>1, VisitsAreBounded DEF Restart, TypeOK
  <1>3. ASSUME NEW s \in Sources, Tick(s) \/ Switch(s) PROVE TypeOK'
    BY <1>3 DEF Tick, Switch, TypeOK
  <1> QED BY <1>1, <1>2, <1>3

\* The scheduler holds the coordinator exactly while it synchronizes, however
\* that ends, and nobody else does then.
THEOREM TypeCorrect == Spec => []TypeOK
  <1>1. Init => TypeOK
    <2>1. <<>> \in Seq(Sources) /\ Len(<<>>) <= Len(Order)
      BY OrderIsComplete, LenProperties, EmptySeq
    <2> QED BY <2>1, VisitsAreBounded DEF Init, TypeOK
  <1>2. TypeOK /\ [Next]_vars => TypeOK'
    <2>1. TypeOK /\ UNCHANGED vars => TypeOK'
      BY DEF vars, TypeOK
    <2> QED BY <2>1, PassTyped, OthersTyped DEF Next
  <1> QED BY <1>1, <1>2, PTL DEF Spec

-----------------------------------------------------------------------------
(***************************************************************************)
(* The length of a pass                                                    *)
(***************************************************************************)
\* The distance to the end is a number, and bounded by the list.
LEMMA StepsLeftIsNat == TypeOK => StepsLeft \in 0..(3 * Len(Order) + 1)
  <1> SUFFICES ASSUME TypeOK PROVE StepsLeft \in 0..(3 * Len(Order) + 1)
    OBVIOUS
  <1>1. Len(todo) \in Nat /\ Len(Order) \in Nat /\ Len(todo) <= Len(Order)
    BY LenProperties, OrderIsComplete DEF TypeOK
  <1>2. pc = "SYNC" => Len(todo) > 0
    BY RestTyped DEF TypeOK
  <1> QED BY <1>1, <1>2 DEF TypeOK, StepsLeft

LEMMA PassCloser ==
    ASSUME TypeOK, pc # "SLEEP", Pass
    PROVE  StepsLeft' < StepsLeft
  <1>0. Len(todo) \in Nat /\ StepsLeft \in Nat
    BY LenProperties, StepsLeftIsNat DEF TypeOK
  <1>1. CASE EndPass
    BY <1>0, <1>1 DEF EndPass, StepsLeft
  <1>2. CASE Check
    <2>1. pc = "PASS" /\ Len(todo) > 0
      BY <1>2, RestTyped DEF Check
    <2>2. \/ pc' = "DUE" /\ todo' = todo
          \/ pc' = "PASS" /\ Len(todo') = Len(todo) - 1
      BY <1>2, RestTyped DEF Check
    <2> QED BY <1>0, <2>1, <2>2 DEF StepsLeft
  <1>3. CASE StartSync
    BY <1>0, <1>3 DEF StartSync, StepsLeft
  <1>4. CASE Refused \/ Raise
    <2>1. todo # <<>> /\ pc \in {"DUE", "SYNC"} /\ StepsLeft' = 0
      BY <1>4 DEF Refused, Raise, TypeOK, StepsLeft
    <2>2. Len(todo) > 0
      BY <2>1, RestTyped
    <2>3. StepsLeft > 0
      BY <1>0, <2>1, <2>2 DEF StepsLeft
    <2> QED BY <2>1, <2>3
  <1>5. CASE EndSync
    <2>1. todo # <<>>
      BY <1>5 DEF EndSync, TypeOK
    <2>2. Len(todo') = Len(todo) - 1
      BY <1>5, <2>1, RestTyped DEF EndSync
    <2> QED BY <1>0, <1>5, <2>2 DEF EndSync, StepsLeft
  <1>6. ~BeginPass
    BY DEF BeginPass
  <1> QED BY <1>1, <1>2, <1>3, <1>4, <1>5, <1>6 DEF Pass

\* A pass has at most 3 * Len(Order) + 1 steps: it never has more to go than
\* that, each step of the scheduler takes at least one off, and nothing that
\* others do adds to it.
THEOREM PassBounded ==
    Spec => PassShrinks /\ [](StepsLeft \in 0..(3 * Len(Order) + 1))
  <1>1. TypeOK /\ [Next]_vars
          => [pc # "SLEEP" => /\ Pass => StepsLeft' < StepsLeft
                              /\ StepsLeft' <= StepsLeft]_vars
    <2> SUFFICES ASSUME TypeOK, [Next]_vars, pc # "SLEEP"
                 PROVE  (Pass => StepsLeft' < StepsLeft) /\ StepsLeft' <= StepsLeft
      OBVIOUS
    <2>0. TypeOK'
      BY PassTyped, OthersTyped DEF Next, vars, TypeOK
    <2>1. StepsLeft \in Nat /\ StepsLeft' \in Nat
      BY <2>0, StepsLeftIsNat DEF StepsLeft, TypeOK
    <2>2. CASE Pass
      <3>1. StepsLeft' < StepsLeft
        BY <2>2, PassCloser
      <3> QED BY <2>1, <3>1
    <2>3. CASE ~Pass
      <3>1. CASE Visit \/ Leave \/ UNCHANGED vars \/ \E s \in Sources : Tick(s) \/ Switch(s)
        <4>1. pc' = pc /\ todo' = todo
          BY <3>1 DEF Visit, Leave, Tick, Switch, vars
        <4>2. StepsLeft' = StepsLeft
          BY <4>1 DEF StepsLeft
        <4> QED BY <2>1, <2>3, <4>2
      <3>2. CASE Restart
        <4>1. StepsLeft' = 0
          BY <3>2 DEF Restart, StepsLeft
        <4> QED BY <2>1, <2>3, <4>1
      <3> QED BY <2>3, <3>1, <3>2 DEF Next
    <2> QED BY <2>2, <2>3
  <1> QED BY <1>1, TypeCorrect, StepsLeftIsNat, PTL DEF Spec, PassShrinks
=============================================================================
