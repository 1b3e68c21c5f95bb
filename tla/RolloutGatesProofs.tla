------------------------- MODULE RolloutGatesProofs -------------------------
(***************************************************************************)
(* What holds of the switches for any number of instances, jobs and        *)
(* requests, as long as the short handlers do not overlap.                 *)
(***************************************************************************)
EXTENDS RolloutGates, TLAPS

-----------------------------------------------------------------------------
(***************************************************************************)
(* Rows and writes                                                         *)
(***************************************************************************)
LEMMA NewRowTyped == NewRow \in Row
BY BoundsAreNumbers DEF NewRow, Row, Modes

\* A write of a copy keeps the row a row.
LEMMA WrittenTyped ==
    ASSUME NEW now \in Row, NEW was \in Row, NEW will \in Row
    PROVE  Written(now, was, will) \in Row
BY DEF Written, Row

\* What a write does to the columns the switches own.
LEMMA WrittenColumns ==
    ASSUME NEW now \in Row, NEW was \in Row, NEW will \in Row
    PROVE  /\ Written(now, was, will).active
                = IF will.active # was.active THEN will.active ELSE now.active
           /\ Written(now, was, will).enabled
                = IF will.enabled # was.enabled THEN will.enabled ELSE now.enabled
           /\ Written(now, was, will).mode
                = IF will.mode # was.mode THEN will.mode ELSE now.mode
           /\ Written(now, was, will).synced
                = IF will.synced # was.synced THEN will.synced ELSE now.synced
           /\ Written(now, was, will).rehearsed
                = IF will.rehearsed # was.rehearsed THEN will.rehearsed ELSE now.rehearsed
BY DEF Written, Row

LEMMA NotTyped ==
    ASSUME NEW b \in BOOLEAN, NEW c \in BOOLEAN
    PROVE  (~b) \in BOOLEAN /\ (b /\ ~c) \in BOOLEAN
OBVIOUS

\* Rows with columns changed are rows.
LEMMA ActiveTyped ==
    ASSUME NEW r \in Row, NEW a \in BOOLEAN
    PROVE  [r EXCEPT !.active = a] \in Row
BY DEF Row
LEMMA RehearsedTyped ==
    ASSUME NEW r \in Row, NEW d \in BOOLEAN
    PROVE  [r EXCEPT !.rehearsed = d] \in Row
BY DEF Row
LEMMA EnabledTyped ==
    ASSUME NEW r \in Row, NEW e \in BOOLEAN, NEW a \in BOOLEAN
    PROVE  [r EXCEPT !.enabled = e, !.active = a] \in Row
BY DEF Row
LEMMA ModeTyped ==
    ASSUME NEW r \in Row, NEW m \in Modes, NEW a \in BOOLEAN
    PROVE  [r EXCEPT !.mode = m, !.active = a] \in Row
BY DEF Row

LEMMA StageTyped == "INVENTORY_ONLY" \in Stages /\ "APPROVAL_REQUIRED" \in Stages
BY DEF Stages, RolloutModes

-----------------------------------------------------------------------------
(***************************************************************************)
(* Types                                                                   *)
(***************************************************************************)
ReqRow  == [pc : {"idle", "commit", "void", "clear"}, on : Instances \cup {Nobody},
            was : Row, will : Row, mode : Stages, todo : SUBSET Jobs]
CallRow == {Free} \cup [op : {"test", "sync"}, on : Instances, was : Row]

LEMMA IdleTyped == Idle \in ReqRow /\ Free \in CallRow
BY NewRowTyped, StageTyped DEF Idle, ReqRow, CallRow

LEMMA InitTyped == Init => TypeOK
BY NewRowTyped, IdleTyped, StageTyped, BoundsAreNumbers
   DEF Init, TypeOK, ReqRow, CallRow, JobStates

\* Handlers that read and write in one commit keep the types.
LEMMA SimpleTyped ==
    ASSUME TypeOK, Simple
    PROVE  TypeOK'
  <1> USE DEF TypeOK, history
  <1>0. Rehearsed \in [Instances -> Row]
    <2>1. ASSUME NEW i \in Instances
          PROVE  [row[i] EXCEPT !.rehearsed = @ \/ (Known(i) /\ row[i].enabled)] \in Row
      <3>1. (row[i].rehearsed \/ (Known(i) /\ row[i].enabled)) \in BOOLEAN
        OBVIOUS
      <3>2. row[i] \in Row
        OBVIOUS
      <3> QED BY <3>1, <3>2, RehearsedTyped, Zenon
    <2> QED BY <2>1 DEF Rehearsed
  <1>1. CASE Recalculate
    BY <1>1, <1>0 DEF Recalculate
  <1>2. ASSUME NEW i \in Instances, Create(i)
        PROVE  TypeOK'
    BY <1>2, NewRowTyped DEF Create
  <1>3. ASSUME NEW j \in Jobs, NEW i \in Radarrs, Prepare(j, i)
        PROVE  TypeOK'
    BY <1>3 DEF Prepare, Unrelated, JobStates, Queued
  <1>4. ASSUME NEW j \in Jobs, Approve(j)
        PROVE  TypeOK'
    BY <1>4 DEF Approve, Unrelated, JobStates, Queued
  <1>5. ASSUME NEW j \in Jobs, Cancel(j)
        PROVE  TypeOK'
    BY <1>5 DEF Cancel, Unrelated, JobStates
  <1>6. ASSUME NEW j \in Jobs, Execute(j)
        PROVE  TypeOK'
    <2>1. row' \in [Instances -> Row]
      BY <1>6, <1>0 DEF Execute
    <2>2. job' \in [Jobs -> [state : JobStates, on : Radarrs \cup {Nobody}]]
      BY <1>6 DEF Execute, JobStates
    <2> QED BY <1>6, <2>1, <2>2 DEF Execute, Unrelated
  <1> QED BY <1>1, <1>2, <1>3, <1>4, <1>5, <1>6 DEF Simple

\* A handler that has loaded an instance keeps the types.
LEMMA LoadTyped ==
    ASSUME TypeOK, NEW s \in Short, NEW i \in Instances, NEW will \in Row,
           NEW todo \in SUBSET Jobs, Load(s, i, will, todo)
    PROVE  TypeOK'
  <1>1. [pc |-> "commit", on |-> i, was |-> row[i], will |-> will,
         mode |-> rollout, todo |-> todo] \in ReqRow
    BY DEF ReqRow, TypeOK
  <1> QED BY <1>1 DEF Load, TypeOK, ReqRow, history

LEMMA SwitchTyped ==
    ASSUME TypeOK, NEW s \in Short, Switch(s)
    PROVE  TypeOK'
  <1>0. AllQueued \in SUBSET Jobs
    BY DEF AllQueued
  <1>1. ASSUME NEW i \in Instances, Edit(s, i)
        PROVE  TypeOK'
    <2>1. row[i].conn + 1 \in 0..MaxEdits /\ row[i] \in Row
      BY <1>1, BoundsAreNumbers DEF Edit, TypeOK, Row
    <2>2. [row[i] EXCEPT !.enabled = FALSE, !.active = FALSE, !.health = "UNTESTED",
                         !.proved = FALSE, !.conn = @ + 1] \in Row
      BY <2>1 DEF Row
    <2> QED BY <1>1, <2>2, LoadTyped DEF Edit
  <1>2. ASSUME NEW i \in Instances, ToggleEnabled(s, i)
        PROVE  TypeOK'
    <2>1. ToggledRow(row[i]) \in Row
      <3>1. row[i] \in Row
        BY DEF TypeOK
      <3>2. row[i].enabled \in BOOLEAN /\ row[i].active \in BOOLEAN
        BY <3>1 DEF Row
      <3>3. (~row[i].enabled) \in BOOLEAN /\ (row[i].active /\ ~row[i].enabled) \in BOOLEAN
        BY <3>2, NotTyped, Zenon
      <3> QED BY <3>1, <3>3, EnabledTyped, Zenon DEF ToggledRow
    <2> QED BY <1>0, <1>2, <2>1, LoadTyped DEF ToggleEnabled
  <1>3. ASSUME NEW i \in Instances, ToggleActive(s, i)
        PROVE  TypeOK'
    <2>1. [row[i] EXCEPT !.active = ~@] \in Row
      <3>1. row[i] \in Row
        BY DEF TypeOK
      <3>2. row[i].active \in BOOLEAN
        BY <3>1 DEF Row
      <3>3. (~row[i].active) \in BOOLEAN
        BY <3>2, NotTyped, Zenon
      <3> QED BY <3>1, <3>3, ActiveTyped, Zenon
    <2> QED BY <1>0, <1>3, <2>1, LoadTyped DEF ToggleActive
  <1>4. ASSUME NEW i \in Instances, NEW m \in Modes, ChangeMode(s, i, m)
        PROVE  TypeOK'
    <2>1. ModeRow(row[i], m) \in Row
      <3>1. row[i] \in Row
        BY DEF TypeOK
      <3>2. (row[i].active /\ m # "IGNORED") \in BOOLEAN
        BY <3>1 DEF Row
      <3> QED BY <3>1, <3>2, ModeTyped, Zenon DEF ModeRow
    <2> QED BY <1>0, <1>4, <2>1, LoadTyped DEF ChangeMode
  <1>5. ASSUME NEW target \in Stages, ChangeRollout(s, target)
        PROVE  TypeOK'
    <2>1. [Idle EXCEPT !.pc = "commit", !.mode = target, !.todo = VoidedBy(target)] \in ReqRow
      BY <1>0, IdleTyped DEF ReqRow, VoidedBy
    <2> QED BY <1>5, <2>1 DEF ChangeRollout, TypeOK, ReqRow, history
  <1> QED BY <1>1, <1>2, <1>3, <1>4, <1>5 DEF Switch

\* The commits of a switch handler keep the types.
LEMMA AdvanceTyped ==
    ASSUME TypeOK, NEW s \in Short, NEW left \in SUBSET Jobs, Advance(s, left)
    PROVE  req' \in [Short -> ReqRow]
  <1>1. req[s] \in ReqRow
    BY DEF TypeOK, ReqRow
  <1>2. /\ [req[s] EXCEPT !.pc = "void", !.todo = left] \in ReqRow
        /\ [req[s] EXCEPT !.pc = "clear", !.todo = {}] \in ReqRow
    BY <1>1 DEF ReqRow
  <1> QED BY <1>2, IdleTyped DEF Advance, TypeOK, ReqRow

LEMMA CancelledTyped ==
    ASSUME TypeOK, NEW js
    PROVE  Cancelled(js) \in [Jobs -> [state : JobStates, on : Radarrs \cup {Nobody}]]
BY DEF TypeOK, Cancelled, JobStates

LEMMA AllInactiveTyped == TypeOK => AllInactive \in [Instances -> Row]
BY ActiveTyped DEF TypeOK, AllInactive

LEMMA ServeTyped ==
    ASSUME TypeOK, NEW s \in Short, Serve(s)
    PROVE  TypeOK'
  <1>0. req[s] \in ReqRow /\ AllQueued \subseteq Jobs /\ \A is : Approved(is) \subseteq Jobs
    BY DEF TypeOK, ReqRow, AllQueued, Approved
  <1>1. CASE CommitSwitch(s)
    <2> DEFINE r == Written(row[req[s].on], req[s].was, req[s].will)
    <2>1. req[s].on \in Instances /\ row[req[s].on] \in Row
      BY <1>0, <1>1 DEF CommitSwitch, TypeOK, ReqRow
    <2>2. r \in Row
      BY <1>0, <2>1, WrittenTyped DEF ReqRow
    <2>3. row' \in [Instances -> Row]
      BY <1>1, <2>1, <2>2 DEF CommitSwitch, TypeOK
    <2>4. fresh' \in [Instances -> BOOLEAN] /\ lapsed' \subseteq Jobs
      <3> HIDE DEF r
      <3>1. Remember(req[s].on, r)
        BY <1>1 DEF CommitSwitch, r
      <3> QED BY <1>0, <2>1, <2>2, <3>1 DEF Remember, TypeOK, Row
    <2>5. voided' \subseteq Jobs
      BY <1>0, <1>1 DEF CommitSwitch, TypeOK
    <2>6. PICK js \in OneOf(req[s].todo) :
             job' = Cancelled(js) /\ Advance(s, req[s].todo \ js)
      BY <1>1 DEF CommitSwitch
    <2>7. req' \in [Short -> ReqRow]
      BY <1>0, <2>6, AdvanceTyped DEF ReqRow
    <2>8. job' \in [Jobs -> [state : JobStates, on : Radarrs \cup {Nobody}]]
      BY <2>6, CancelledTyped
    <2> QED BY <1>1, <2>3, <2>4, <2>5, <2>7, <2>8 DEF CommitSwitch, TypeOK, ReqRow
  <1>2. CASE CommitFails(s)
    BY <1>2, IdleTyped DEF CommitFails, TypeOK, ReqRow, history
  <1>3. CASE CommitRollout(s)
    <2>1. PICK js \in OneOf(req[s].todo) :
             /\ job' = Cancelled(js)
             /\ IF js = {} /\ Clears(req[s])
                THEN /\ row' = AllInactive
                     /\ req' = [req EXCEPT ![s] = Idle]
                     /\ lapsed' = lapsed \cup Approved(Active)
                ELSE Advance(s, req[s].todo \ js) /\ UNCHANGED <<row, lapsed>>
      BY <1>3 DEF CommitRollout
    <2>2. req' \in [Short -> ReqRow]
      BY <1>0, <2>1, AdvanceTyped, IdleTyped DEF TypeOK, ReqRow
    <2>3. row' \in [Instances -> Row]
      BY <2>1, AllInactiveTyped DEF TypeOK
    <2>4. lapsed' \subseteq Jobs /\ voided' \subseteq Jobs
      BY <1>0, <1>3, <2>1 DEF CommitRollout, TypeOK
    <2>5. rollout' \in Stages
      BY <1>0, <1>3 DEF CommitRollout, ReqRow
    <2>6. job' \in [Jobs -> [state : JobStates, on : Radarrs \cup {Nobody}]]
      BY <2>1, CancelledTyped
    <2> QED BY <1>3, <2>2, <2>3, <2>4, <2>5, <2>6 DEF CommitRollout, TypeOK, ReqRow
  <1>4. CASE Void(s)
    <2>1. PICK j \in req[s].todo :
             job' = Cancelled({j}) /\ Advance(s, req[s].todo \ {j})
      BY <1>4 DEF Void
    <2>2. req' \in [Short -> ReqRow]
      BY <1>0, <2>1, AdvanceTyped DEF ReqRow
    <2>3. job' \in [Jobs -> [state : JobStates, on : Radarrs \cup {Nobody}]]
      BY <2>1, CancelledTyped
    <2> QED BY <1>4, <2>2, <2>3 DEF Void, TypeOK, ReqRow, history
  <1>5. CASE Clear(s)
    BY <1>0, <1>5, IdleTyped, AllInactiveTyped DEF Clear, TypeOK, ReqRow
  <1> QED BY <1>1, <1>2, <1>3, <1>4, <1>5 DEF Serve

\* Tests and synchronizations keep the types.
LEMMA CallingTyped ==
    ASSUME TypeOK, NEW l \in Long, Calling(l)
    PROVE  TypeOK'
  <1>1. ASSUME NEW i \in Instances, StartTest(l, i) \/ StartSync(l, i)
        PROVE  TypeOK'
    BY <1>1 DEF StartTest, StartSync, TypeOK, history
  <1>2. CASE FinishTest(l)
    <2>1. call[l] \in [op : {"test", "sync"}, on : Instances, was : Row]
      BY <1>2 DEF FinishTest, TypeOK, Free
    <2>2. PICK h \in {"HEALTHY", "UNHEALTHY"} :
             LET w == Written(row[call[l].on], call[l].was, [call[l].was EXCEPT !.health = h]) IN
             /\ row' = [row EXCEPT ![call[l].on] = IF h = "HEALTHY" THEN [w EXCEPT !.proved = TRUE]
                                                                    ELSE w]
             /\ tested' = IF h = "HEALTHY" THEN [tested EXCEPT ![call[l].on] = call[l].was.conn]
                                            ELSE tested
      BY <1>2 DEF FinishTest
    <2>3. [call[l].was EXCEPT !.health = h] \in Row
      BY <2>1 DEF Row
    <2>4. Written(row[call[l].on], call[l].was, [call[l].was EXCEPT !.health = h]) \in Row
      BY <2>1, <2>3, WrittenTyped DEF TypeOK
    <2>5. row' \in [Instances -> Row]
      <3>1. ASSUME NEW w \in Row
            PROVE  [w EXCEPT !.proved = TRUE] \in Row
        BY DEF Row
      <3> QED BY <2>1, <2>2, <2>4, <3>1 DEF TypeOK
    <2>6. tested' \in [Instances -> 0..(MaxEdits + 1)]
      BY <2>1, <2>2, BoundsAreNumbers DEF TypeOK, Row
    <2> QED BY <1>2, <2>5, <2>6 DEF FinishTest, TypeOK
  <1>3. CASE FinishSync(l)
    <2>1. call[l] \in [op : {"test", "sync"}, on : Instances, was : Row]
      BY <1>3 DEF FinishSync, TypeOK, Free
    <2>2. Written(row[call[l].on], call[l].was, call[l].was) \in Row
      BY <2>1, WrittenTyped DEF TypeOK
    <2>3. [Written(row[call[l].on], call[l].was, call[l].was) EXCEPT !.synced = TRUE] \in Row
      BY <2>2 DEF Row
    <2>4. row' \in [Instances -> Row]
      BY <1>3, <2>1, <2>3 DEF FinishSync, TypeOK
    <2>5. fresh' \in [Instances -> BOOLEAN]
      BY <1>3 DEF FinishSync, TypeOK
    <2> QED BY <1>3, <2>4, <2>5 DEF FinishSync, TypeOK
  <1>4. CASE CallFails(l)
    BY <1>4 DEF CallFails, TypeOK, history
  <1> QED BY <1>1, <1>2, <1>3, <1>4 DEF Calling

LEMMA NextTyped == TypeOK /\ [Next]_vars => TypeOK'
  <1> SUFFICES ASSUME TypeOK, [Next]_vars PROVE TypeOK'
    OBVIOUS
  <1>1. CASE Simple
    BY <1>1, SimpleTyped
  <1>2. CASE Crash
    BY <1>2, IdleTyped, BoundsAreNumbers DEF Crash, TypeOK, ReqRow, history
  <1>3. ASSUME NEW s \in Short, Switch(s)
        PROVE  TypeOK'
    BY <1>3, SwitchTyped
  <1>4. ASSUME NEW s \in Short, Serve(s)
        PROVE  TypeOK'
    BY <1>4, ServeTyped
  <1>5. ASSUME NEW l \in Long, Calling(l)
        PROVE  TypeOK'
    BY <1>5, CallingTyped
  <1>6. CASE UNCHANGED vars
    BY <1>6 DEF vars, history, TypeOK
  <1>7. ASSUME NEW i \in Instances, Delete(i)
        PROVE  TypeOK'
    BY <1>7, NewRowTyped DEF Delete, TypeOK, history
  <1> QED BY <1>1, <1>2, <1>3, <1>4, <1>5, <1>6, <1>7 DEF Next

\* The switches, the rows and the requests keep their types.
THEOREM GatesTyped == Spec => []TypeOK
BY InitTyped, NextTyped, PTL DEF Spec

-----------------------------------------------------------------------------
(***************************************************************************)
(* One short handler at a time                                             *)
(***************************************************************************)
OneHandler == \A s, t \in Short : (req[s].pc # "idle" /\ req[t].pc # "idle") => s = t

LEMMA AloneIdle == (~Overlap /\ Alone) => \A s \in Short : req[s].pc = "idle"
BY DEF Alone

\* A handler at work changes its own request only, and leaves the commit of
\* its switch behind.
LEMMA ServeMoves ==
    ASSUME TypeOK, NEW s \in Short, Serve(s)
    PROVE  /\ req[s].pc # "idle"
           /\ req'[s].pc # "commit"
           /\ \A t \in Short \ {s} : req'[t] = req[t]
  <1>0. req[s] \in ReqRow /\ req \in [Short -> ReqRow] /\ Idle.pc = "idle"
    BY DEF TypeOK, ReqRow, Idle
  <1>1. ASSUME NEW left, Advance(s, left)
        PROVE  req'[s].pc # "commit" /\ \A t \in Short \ {s} : req'[t] = req[t]
    BY <1>0, <1>1 DEF Advance, ReqRow
  <1> QED BY <1>0, <1>1 DEF Serve, CommitSwitch, CommitFails, CommitRollout, Void, Clear

\* A handler that begins was alone, and is at its first commit.
LEMMA SwitchMoves ==
    ASSUME ~Overlap, TypeOK, NEW s \in Short, Switch(s)
    PROVE  /\ \A t \in Short : req[t].pc = "idle"
           /\ \A t \in Short \ {s} : req'[t] = req[t]
           /\ UNCHANGED <<rollout, status, row, job, call, crashes, history>>
BY AloneIdle DEF Switch, Edit, ToggleEnabled, ToggleActive, ChangeMode, ChangeRollout, Load, TypeOK

LEMMA SimpleIsAlone ==
    ASSUME ~Overlap, Simple
    PROVE  (\A s \in Short : req[s].pc = "idle") /\ UNCHANGED <<req, rollout, crashes, voided>>
BY AloneIdle DEF Simple, Recalculate, Create, Prepare, Approve, Cancel, Execute,
                 Unrelated, history

\* A removal turns nothing on.
LEMMA DeleteMoves ==
    ASSUME TypeOK, NEW i \in Instances, Delete(i)
    PROVE  /\ UNCHANGED <<req, rollout, job, crashes, voided>>
           /\ ~Known(i)' /\ \A k \in Instances : k # i => row'[k] = row[k]
           /\ \A k \in Instances : Known(k)' => Known(k)
           /\ ~row'[i].active
BY DEF Delete, Known, NewRow, TypeOK, history

\* A call to another machine touches no switch.
LEMMA CallingMoves ==
    ASSUME TypeOK, NEW l \in Long, Calling(l)
    PROVE  /\ UNCHANGED <<req, rollout, status, job, crashes, voided>>
           /\ \A i \in Instances :
                 /\ row'[i].enabled = row[i].enabled
                 /\ row'[i].active = row[i].active
                 /\ row'[i].mode = row[i].mode
                 /\ row[i].synced => row'[i].synced
                 /\ row[i].rehearsed => row'[i].rehearsed
  <1>1. ASSUME NEW i \in Instances, StartTest(l, i) \/ StartSync(l, i)
        PROVE  UNCHANGED <<req, rollout, status, job, crashes, voided, row>>
    BY <1>1 DEF StartTest, StartSync, history
  <1>2. CASE CallFails(l)
    BY <1>2 DEF CallFails, history
  <1>3. ASSUME FinishTest(l) \/ FinishSync(l), NEW i \in Instances, i # call[l].on
        PROVE  row'[i] = row[i]
    BY <1>3 DEF FinishTest, FinishSync, TypeOK
  <1>4. CASE FinishTest(l)
    <2>1. call[l] \in [op : {"test", "sync"}, on : Instances, was : Row]
      BY <1>4 DEF FinishTest, TypeOK, Free
    <2>2. PICK h \in {"HEALTHY", "UNHEALTHY"} :
             LET w == Written(row[call[l].on], call[l].was, [call[l].was EXCEPT !.health = h]) IN
             row' = [row EXCEPT ![call[l].on] = IF h = "HEALTHY" THEN [w EXCEPT !.proved = TRUE]
                                                                ELSE w]
      BY <1>4 DEF FinishTest
    <2> DEFINE will == [call[l].was EXCEPT !.health = h]
               w    == Written(row[call[l].on], call[l].was, will)
    <2>3. will \in Row /\ row[call[l].on] \in Row
      BY <2>1 DEF Row, TypeOK
    <2>4. w \in Row
      BY <2>1, <2>3, WrittenTyped
    <2>5. /\ will.active = call[l].was.active /\ will.enabled = call[l].was.enabled
          /\ will.mode = call[l].was.mode /\ will.synced = call[l].was.synced
          /\ will.rehearsed = call[l].was.rehearsed
      BY <2>1 DEF Row
    <2> HIDE DEF will
    <2>6. /\ w.active = row[call[l].on].active /\ w.enabled = row[call[l].on].enabled
          /\ w.mode = row[call[l].on].mode /\ w.synced = row[call[l].on].synced
          /\ w.rehearsed = row[call[l].on].rehearsed
      BY <2>1, <2>3, <2>5, WrittenColumns
    <2>7. row'[call[l].on] = IF h = "HEALTHY" THEN [w EXCEPT !.proved = TRUE] ELSE w
      BY <2>1, <2>2 DEF TypeOK, will
    <2> HIDE DEF w
    <2>8. /\ row'[call[l].on].active = w.active /\ row'[call[l].on].enabled = w.enabled
          /\ row'[call[l].on].mode = w.mode /\ row'[call[l].on].synced = w.synced
          /\ row'[call[l].on].rehearsed = w.rehearsed
      BY <2>4, <2>7 DEF Row
    <2> QED BY <1>3, <1>4, <2>6, <2>8 DEF FinishTest
  <1>5. CASE FinishSync(l)
    <2>1. call[l] \in [op : {"test", "sync"}, on : Instances, was : Row]
      BY <1>5 DEF FinishSync, TypeOK, Free
    <2> DEFINE w == Written(row[call[l].on], call[l].was, call[l].was)
    <2>2. w \in Row /\ row[call[l].on] \in Row
      BY <2>1, WrittenTyped DEF TypeOK
    <2>3. /\ w.active = row[call[l].on].active /\ w.enabled = row[call[l].on].enabled
          /\ w.mode = row[call[l].on].mode /\ w.rehearsed = row[call[l].on].rehearsed
      BY <2>1, <2>2, WrittenColumns
    <2>4. row'[call[l].on] = [w EXCEPT !.synced = TRUE]
      BY <1>5, <2>1 DEF FinishSync, TypeOK
    <2> HIDE DEF w
    <2>5. /\ row'[call[l].on].active = w.active /\ row'[call[l].on].enabled = w.enabled
          /\ row'[call[l].on].mode = w.mode /\ row'[call[l].on].synced
          /\ row'[call[l].on].rehearsed = w.rehearsed
      BY <2>2, <2>4 DEF Row
    <2> QED BY <1>3, <1>5, <2>3, <2>5 DEF FinishSync
  <1> QED BY <1>1, <1>2, <1>4, <1>5 DEF Calling

LEMMA HandlersStep ==
    ASSUME ~Overlap, TypeOK, OneHandler, [Next]_vars
    PROVE  OneHandler'
  <1>1. ASSUME NEW s \in Short, Switch(s)
        PROVE  OneHandler'
    BY <1>1, SwitchMoves DEF OneHandler
  <1>2. ASSUME NEW s \in Short, Serve(s)
        PROVE  OneHandler'
    BY <1>2, ServeMoves DEF OneHandler
  <1>3. CASE Crash
    BY <1>3 DEF Crash, Idle, OneHandler
  <1>4. ASSUME NEW l \in Long, Calling(l)
        PROVE  OneHandler'
    BY <1>4, CallingMoves DEF OneHandler
  <1>5. CASE Simple
    BY <1>5, SimpleIsAlone DEF OneHandler
  <1>6. CASE UNCHANGED vars
    BY <1>6 DEF vars, OneHandler
  <1>7. ASSUME NEW i \in Instances, Delete(i)
        PROVE  OneHandler'
    BY <1>7, DeleteMoves DEF OneHandler
  <1> QED BY <1>1, <1>2, <1>3, <1>4, <1>5, <1>6, <1>7 DEF Next

\* One short handler is at work at a time: the meaning of ~Overlap.
THEOREM HandlersDoNotOverlap ==
    ASSUME ~Overlap
    PROVE  Spec => []OneHandler
  <1>1. Init => OneHandler
    BY DEF Init, OneHandler, Idle
  <1>2. TypeOK /\ OneHandler /\ [Next]_vars => OneHandler'
    BY HandlersStep
  <1> QED BY <1>1, <1>2, GatesTyped, PTL DEF Spec

-----------------------------------------------------------------------------
(***************************************************************************)
(* Active Management is permitted                                          *)
(***************************************************************************)
\* A copy that is about to be written still agrees with the row on what the
\* switches own, and holds no more proofs than the row, unless it is removed.
CopyCurrent ==
    \A s \in Short : (req[s].pc = "commit" /\ req[s].on # Nobody /\ Known(req[s].on)) =>
        LET was == req[s].was
            now == row[req[s].on] IN
        /\ was.enabled = now.enabled /\ was.active = now.active /\ was.mode = now.mode
        /\ was.synced => now.synced
        /\ was.rehearsed => now.rehearsed

\* What a switch will make active, it found permitted.
MayBeActive(i, r) == /\ r.enabled /\ r.synced /\ r.rehearsed
                     /\ i \in Radarrs => r.mode # "IGNORED"
WillBePermitted ==
    \A s \in Short : (req[s].pc = "commit" /\ req[s].on # Nobody) =>
        /\ req[s].will.synced = req[s].was.synced
        /\ req[s].will.rehearsed = req[s].was.rehearsed
        /\ req[s].will.active => MayBeActive(req[s].on, req[s].will)

PermitInv == CopyCurrent /\ WillBePermitted /\ ActiveIsPermitted

LEMMA LoadPermits ==
    ASSUME ~Overlap, TypeOK, PermitInv, NEW s \in Short, NEW i \in Instances,
           NEW will \in Row, NEW todo \in SUBSET Jobs, Load(s, i, will, todo),
           will.synced = row[i].synced, will.rehearsed = row[i].rehearsed,
           will.active => MayBeActive(i, will)
    PROVE  PermitInv'
  <1>1. \A t \in Short : t # s => req'[t].pc = "idle"
    BY AloneIdle DEF Load, TypeOK
  <1>2. /\ req'[s].on = i /\ req'[s].was = row[i] /\ req'[s].will = will
        /\ row' = row
    BY DEF Load, TypeOK
  <1> QED BY <1>1, <1>2 DEF PermitInv, CopyCurrent, WillBePermitted, ActiveIsPermitted,
                            MayBeActive

LEMMA SwitchPermits ==
    ASSUME ~Overlap, TypeOK, PermitInv, NEW s \in Short, Switch(s)
    PROVE  PermitInv'
  <1>0. AllQueued \in SUBSET Jobs
    BY DEF AllQueued
  <1>1. ASSUME NEW i \in Instances, Edit(s, i)
        PROVE  PermitInv'
    <2> DEFINE will == [row[i] EXCEPT !.enabled = FALSE, !.active = FALSE,
                          !.health = "UNTESTED", !.proved = FALSE, !.conn = @ + 1]
    <2>1. row[i].conn + 1 \in 0..MaxEdits /\ row[i] \in Row
      BY <1>1, BoundsAreNumbers DEF Edit, TypeOK, Row
    <2>2. /\ will \in Row /\ will.synced = row[i].synced
          /\ will.rehearsed = row[i].rehearsed /\ ~will.active
      BY <2>1 DEF Row
    <2>3. Load(s, i, will, {})
      BY <1>1 DEF Edit
    <2> HIDE DEF will
    <2> QED BY <2>2, <2>3, LoadPermits
  <1>2. ASSUME NEW i \in Instances, ToggleEnabled(s, i)
        PROVE  PermitInv'
    <2> DEFINE will == ToggledRow(row[i])
    <2>1. row[i] \in Row /\ row[i].enabled \in BOOLEAN /\ row[i].active \in BOOLEAN
      BY DEF TypeOK, Row
    <2>2. (~row[i].enabled) \in BOOLEAN /\ (row[i].active /\ ~row[i].enabled) \in BOOLEAN
      BY <2>1, NotTyped, Zenon
    <2>3. will \in Row
      BY <2>1, <2>2, EnabledTyped, Zenon DEF ToggledRow
    <2>4. will.synced = row[i].synced /\ will.rehearsed = row[i].rehearsed
      BY <2>1 DEF ToggledRow, Row
    <2>5. ~(row[i].active /\ ~row[i].enabled)
      BY DEF PermitInv, ActiveIsPermitted
    <2>6. ~will.active
      BY <2>1, <2>5 DEF ToggledRow, Row
    <2>7. Load(s, i, will, {}) \/ Load(s, i, will, AllQueued)
      BY <1>2 DEF ToggleEnabled
    <2> HIDE DEF will
    <2> QED BY <1>0, <2>3, <2>4, <2>6, <2>7, LoadPermits
  <1>3. ASSUME NEW i \in Instances, ToggleActive(s, i)
        PROVE  PermitInv'
    <2> DEFINE will == [row[i] EXCEPT !.active = ~@]
    <2>1. row[i] \in Row /\ row[i].active \in BOOLEAN
      BY DEF TypeOK, Row
    <2>2. (~row[i].active) \in BOOLEAN
      BY <2>1, NotTyped, Zenon
    <2>3. will \in Row
      BY <2>1, <2>2, ActiveTyped, Zenon
    <2>4. /\ will.synced = row[i].synced /\ will.rehearsed = row[i].rehearsed
          /\ will.enabled = row[i].enabled /\ will.mode = row[i].mode
      BY <2>1 DEF Row
    <2>5. will.active => ~row[i].active
      BY <2>1 DEF Row
    <2>6. will.active => MayBeActive(i, will)
      BY <1>3, <2>4, <2>5 DEF ToggleActive, Permitted, MayBeActive
    <2>7. Load(s, i, will, {}) \/ Load(s, i, will, AllQueued)
      BY <1>3 DEF ToggleActive
    <2> HIDE DEF will
    <2> QED BY <1>0, <2>3, <2>4, <2>6, <2>7, LoadPermits
  <1>4. ASSUME NEW i \in Instances, NEW m \in Modes, ChangeMode(s, i, m)
        PROVE  PermitInv'
    <2> DEFINE will == ModeRow(row[i], m)
    <2>1. row[i] \in Row /\ (row[i].active /\ m # "IGNORED") \in BOOLEAN
      BY DEF TypeOK, Row
    <2>2. will \in Row
      BY <2>1, ModeTyped, Zenon DEF ModeRow
    <2>3. /\ will.synced = row[i].synced /\ will.rehearsed = row[i].rehearsed
          /\ will.enabled = row[i].enabled /\ will.mode = m
          /\ will.active => row[i].active /\ m # "IGNORED"
      BY <2>1 DEF ModeRow, Row
    <2>4. will.active => MayBeActive(i, will)
      BY <2>3 DEF PermitInv, ActiveIsPermitted, MayBeActive
    <2>5. Load(s, i, will, {}) \/ Load(s, i, will, AllQueued)
      BY <1>4 DEF ChangeMode
    <2> HIDE DEF will
    <2> QED BY <1>0, <2>2, <2>3, <2>4, <2>5, LoadPermits
  <1>5. ASSUME NEW target \in Stages, ChangeRollout(s, target)
        PROVE  PermitInv'
    <2>1. /\ \A t \in Short : req'[t].pc = "idle" \/ req'[t].on = Nobody
          /\ row' = row
      BY <1>5, AloneIdle DEF ChangeRollout, TypeOK, Idle
    <2> QED BY <2>1 DEF PermitInv, CopyCurrent, WillBePermitted, ActiveIsPermitted
  <1> QED BY <1>1, <1>2, <1>3, <1>4, <1>5 DEF Switch

LEMMA ServePermits ==
    ASSUME TypeOK, OneHandler, PermitInv, NEW s \in Short, Serve(s)
    PROVE  PermitInv'
  <1>1. \A t \in Short : req'[t].pc # "commit"
    BY ServeMoves DEF OneHandler
  <1>2. ASSUME CommitSwitch(s)
        PROVE  ActiveIsPermitted'
    <2> DEFINE q == req[s]
               r == Written(row[q.on], q.was, q.will)
    <2>1. /\ q \in ReqRow /\ q.on \in Instances /\ row[q.on] \in Row
          /\ q.was \in Row /\ q.will \in Row
      BY <1>2 DEF CommitSwitch, TypeOK, ReqRow
    <2>2. /\ q.pc = "commit" /\ q.on # Nobody
      BY <1>2 DEF CommitSwitch
    <2>3. r.active => MayBeActive(q.on, r)
      <3> HIDE DEF q
      <3>1. /\ r.active = IF q.will.active # q.was.active THEN q.will.active
                                                          ELSE row[q.on].active
            /\ r.enabled = IF q.will.enabled # q.was.enabled THEN q.will.enabled
                                                             ELSE row[q.on].enabled
            /\ r.mode = IF q.will.mode # q.was.mode THEN q.will.mode ELSE row[q.on].mode
            /\ r.synced = IF q.will.synced # q.was.synced THEN q.will.synced
                                                          ELSE row[q.on].synced
            /\ r.rehearsed = IF q.will.rehearsed # q.was.rehearsed THEN q.will.rehearsed
                                                                   ELSE row[q.on].rehearsed
        BY <2>1, WrittenColumns
      <3>2. /\ q.was.enabled = row[q.on].enabled /\ q.was.active = row[q.on].active
            /\ q.was.mode = row[q.on].mode
            /\ q.was.synced => row[q.on].synced
            /\ q.was.rehearsed => row[q.on].rehearsed
        BY <1>2, <2>2 DEF PermitInv, CopyCurrent, CommitSwitch, q
      <3>3. /\ q.will.synced = q.was.synced /\ q.will.rehearsed = q.was.rehearsed
            /\ q.will.active => MayBeActive(q.on, q.will)
        BY <2>2 DEF PermitInv, WillBePermitted, q
      <3> QED BY <3>1, <3>2, <3>3 DEF MayBeActive
    <2>4. row' = [row EXCEPT ![q.on] = r]
      BY <1>2 DEF CommitSwitch
    <2> HIDE DEF r
    <2> QED BY <2>1, <2>3, <2>4 DEF PermitInv, ActiveIsPermitted, MayBeActive, TypeOK
  <1>3. ASSUME CommitRollout(s) \/ Clear(s)
        PROVE  ActiveIsPermitted'
    <2>1. row' = row \/ row' = AllInactive
      BY <1>3 DEF CommitRollout, Clear
    <2>2. \A i \in Instances : AllInactive[i].active = FALSE
      BY DEF AllInactive, TypeOK, Row
    <2> QED BY <2>1, <2>2 DEF PermitInv, ActiveIsPermitted
  <1>4. ASSUME CommitFails(s) \/ Void(s)
        PROVE  ActiveIsPermitted'
    BY <1>4 DEF CommitFails, Void, PermitInv, ActiveIsPermitted
  <1> QED BY <1>1, <1>2, <1>3, <1>4 DEF Serve, PermitInv, CopyCurrent, WillBePermitted

LEMMA SimplePermits ==
    ASSUME ~Overlap, TypeOK, PermitInv, Simple
    PROVE  PermitInv'
  <1>1. \A s \in Short : req'[s].pc = "idle"
    BY SimpleIsAlone
  <1>2. \A i \in Instances :
           \/ ~row'[i].active
           \/ /\ row'[i].active = row[i].active /\ row'[i].enabled = row[i].enabled
              /\ row'[i].mode = row[i].mode /\ row'[i].synced = row[i].synced
              /\ row[i].rehearsed => row'[i].rehearsed
    <2>1. ASSUME NEW i \in Instances
          PROVE  /\ Rehearsed[i].active = row[i].active /\ Rehearsed[i].enabled = row[i].enabled
                 /\ Rehearsed[i].mode = row[i].mode /\ Rehearsed[i].synced = row[i].synced
                 /\ row[i].rehearsed => Rehearsed[i].rehearsed
      <3>1. row[i] \in Row /\ Rehearsed[i] =
              [row[i] EXCEPT !.rehearsed = row[i].rehearsed \/ (Known(i) /\ row[i].enabled)]
        BY DEF Rehearsed, TypeOK
      <3> QED BY <3>1 DEF Row
    <2>2. ASSUME NEW i \in Instances, Create(i), NEW k \in Instances
          PROVE  row'[k] = row[k] \/ ~row'[k].active
      BY <2>2 DEF Create, NewRow, TypeOK
    <2>3. CASE row' = row \/ row' = Rehearsed
      BY <2>1, <2>3
    <2>4. ASSUME NEW j \in Jobs, \/ \E i \in Radarrs : Prepare(j, i)
                                \/ Approve(j) \/ Cancel(j) \/ Execute(j)
          PROVE  row' = row \/ row' = Rehearsed
      BY <2>4 DEF Prepare, Approve, Cancel, Execute
    <2> QED BY <2>2, <2>3, <2>4 DEF Simple, Recalculate
  <1> QED BY <1>1, <1>2 DEF PermitInv, CopyCurrent, WillBePermitted, ActiveIsPermitted

LEMMA CallingPermits ==
    ASSUME TypeOK, PermitInv, NEW l \in Long, Calling(l)
    PROVE  PermitInv'
  <1>1. req' = req /\ \A s \in Short : req[s].on # Nobody => req[s].on \in Instances
    BY CallingMoves DEF TypeOK
  <1>2. CopyCurrent'
    BY <1>1, CallingMoves DEF PermitInv, CopyCurrent, Known
  <1>3. WillBePermitted'
    BY <1>1 DEF PermitInv, WillBePermitted
  <1>4. ActiveIsPermitted'
    BY CallingMoves DEF PermitInv, ActiveIsPermitted
  <1> QED BY <1>2, <1>3, <1>4 DEF PermitInv

LEMMA DeletePermits ==
    ASSUME TypeOK, PermitInv, NEW i \in Instances, Delete(i)
    PROVE  PermitInv'
  <1>1. \A s \in Short : req[s].on # Nobody => req[s].on \in Instances
    BY DEF TypeOK
  <1>2. CopyCurrent'
    BY <1>1, DeleteMoves DEF PermitInv, CopyCurrent
  <1>3. (WillBePermitted /\ ActiveIsPermitted)'
    BY DeleteMoves DEF PermitInv, WillBePermitted, ActiveIsPermitted
  <1> QED BY <1>2, <1>3 DEF PermitInv

\* Active Management is on for enabled, synchronized and rehearsed instances
\* only, for every number of instances, tests and synchronizations, and
\* wherever the process dies.
THEOREM ActivePermitted ==
    ASSUME ~Overlap
    PROVE  Spec => []ActiveIsPermitted
  <1>1. Init => PermitInv
    <2> SUFFICES ASSUME Init PROVE PermitInv
      OBVIOUS
    <2>1. (\A s \in Short : req[s].pc = "idle") /\ \A i \in Instances : ~row[i].active
      BY DEF Init, Idle, NewRow
    <2> QED BY <2>1 DEF PermitInv, CopyCurrent, WillBePermitted, ActiveIsPermitted
  <1>2. TypeOK /\ OneHandler /\ PermitInv /\ [Next]_vars => PermitInv'
    <2> SUFFICES ASSUME TypeOK, OneHandler, PermitInv, [Next]_vars PROVE PermitInv'
      OBVIOUS
    <2>1. CASE Crash
      BY <2>1 DEF Crash, Idle, PermitInv, CopyCurrent, WillBePermitted, ActiveIsPermitted
    <2>2. CASE UNCHANGED vars
      BY <2>2 DEF vars, PermitInv, CopyCurrent, Known, WillBePermitted, ActiveIsPermitted
    <2> QED BY <2>1, <2>2, SimplePermits, DeletePermits, SwitchPermits, ServePermits,
            CallingPermits DEF Next
  <1>3. PermitInv => ActiveIsPermitted
    BY DEF PermitInv
  <1> QED BY <1>1, <1>2, <1>3, GatesTyped, HandlersDoNotOverlap, PTL DEF Spec

-----------------------------------------------------------------------------
(***************************************************************************)
(* Without a crash: a lower stage clears, a switch-off empties the queue   *)
(***************************************************************************)
\* What a switch will make active was asked for in the last stage.
WillNeedApproval ==
    \A s \in Short : (req[s].pc = "commit" /\ req[s].on # Nobody /\ req[s].will.active)
                        => rollout = "APPROVAL_REQUIRED"

\* A switch-off is going to cancel every job that is queued.
SelectsQueue ==
    \A s \in Short : (req[s].pc = "commit" /\ SwitchesOff(req[s])) => AllQueued \subseteq req[s].todo

VoidedExist == \A j \in voided : job[j].state # "NONE"

DrainInv == /\ CopyCurrent /\ WillNeedApproval /\ ActiveNeedsApproval
            /\ SelectsQueue /\ VoidedExist /\ QueuedIsCurrent

\* While no handler is past its first commit, nothing waits for one.
LEMMA NothingPending ==
    ASSUME DrainInv, \A s \in Short : req[s].pc \in {"idle", "commit"}
    PROVE  /\ \A j \in voided : job[j].state \notin Queued
           /\ \A i \in Instances : row[i].active => rollout = "APPROVAL_REQUIRED"
BY DEF DrainInv, QueuedIsCurrent, ActiveNeedsApproval

LEMMA SimpleDrains ==
    ASSUME ~Overlap, TypeOK, DrainInv, Simple
    PROVE  DrainInv'
  <1>1. (\A s \in Short : req[s].pc = "idle" /\ req'[s].pc = "idle")
        /\ rollout' = rollout /\ voided' = voided
    BY SimpleIsAlone
  <1>2. \A j \in Jobs : \/ job'[j].state = job[j].state
                        \/ job[j].state = "NONE" /\ job'[j].state # "NONE"
                        \/ job[j].state \in Queued /\ job'[j].state # "NONE"
                        \/ job'[j].state \in {"CANCELLED", "EXECUTED", "BLOCKED"}
    <2>1. ASSUME NEW j \in Jobs, NEW i \in Radarrs, Prepare(j, i), NEW k \in Jobs
          PROVE  \/ job'[k].state = job[k].state
                 \/ job[k].state = "NONE" /\ job'[k].state # "NONE"
      BY <2>1 DEF Prepare, TypeOK
    <2>2. ASSUME NEW j \in Jobs, Approve(j) \/ Cancel(j) \/ Execute(j), NEW k \in Jobs
          PROVE  \/ job'[k].state = job[k].state
                 \/ job[k].state \in Queued /\ job'[k].state # "NONE"
                 \/ job'[k].state \in {"CANCELLED", "EXECUTED", "BLOCKED"}
      BY <2>2 DEF Approve, Cancel, Execute, TypeOK, Queued
    <2>3. ASSUME NEW i \in Instances, Recalculate \/ Create(i)
          PROVE  job' = job
      BY <2>3 DEF Recalculate, Create
    <2>4. CASE Recalculate
      BY <2>4 DEF Recalculate
    <2> QED BY <2>1, <2>2, <2>3, <2>4 DEF Simple
  <1>3. \A i \in Instances : row'[i].active => row[i].active
    <2>1. ASSUME NEW i \in Instances
          PROVE  Rehearsed[i].active = row[i].active
      <3>1. row[i] \in Row /\ Rehearsed[i] =
              [row[i] EXCEPT !.rehearsed = row[i].rehearsed \/ (Known(i) /\ row[i].enabled)]
        BY DEF Rehearsed, TypeOK
      <3> QED BY <3>1 DEF Row
    <2>2. ASSUME NEW i \in Instances, Create(i), NEW k \in Instances
          PROVE  row'[k].active => row[k].active
      BY <2>2 DEF Create, NewRow, TypeOK
    <2>3. CASE row' = row \/ row' = Rehearsed
      BY <2>1, <2>3
    <2>4. ASSUME NEW j \in Jobs, \/ \E i \in Radarrs : Prepare(j, i)
                                \/ Approve(j) \/ Cancel(j) \/ Execute(j)
          PROVE  row' = row \/ row' = Rehearsed
      BY <2>4 DEF Prepare, Approve, Cancel, Execute
    <2> QED BY <2>2, <2>3, <2>4 DEF Simple, Recalculate
  <1>4. /\ \A j \in voided : job[j].state \notin Queued /\ job[j].state # "NONE"
        /\ \A i \in Instances : row[i].active => rollout = "APPROVAL_REQUIRED"
    BY <1>1, NothingPending DEF DrainInv, VoidedExist
  <1>5. VoidedExist' /\ QueuedIsCurrent'
    <2>1. voided \subseteq Jobs
      BY DEF TypeOK
    <2> QED BY <1>1, <1>2, <1>4, <2>1 DEF VoidedExist, QueuedIsCurrent, Queued
  <1>6. ActiveNeedsApproval'
    BY <1>1, <1>3, <1>4 DEF ActiveNeedsApproval
  <1> QED BY <1>1, <1>5, <1>6 DEF DrainInv, CopyCurrent, WillNeedApproval, SelectsQueue

\* A handler that loads finds nothing pending and takes the queue with it.
LEMMA LoadDrains ==
    ASSUME ~Overlap, TypeOK, DrainInv, NEW s \in Short, NEW i \in Instances,
           NEW will \in Row, NEW todo \in SUBSET Jobs, Load(s, i, will, todo),
           will.active => (row[i].active \/ rollout = "APPROVAL_REQUIRED"),
           \/ todo = AllQueued
           \/ row[i].conn # will.conn
           \/ /\ row[i].enabled => will.enabled
              /\ row[i].active => will.active
              /\ row[i].mode = "MANAGED" => will.mode = "MANAGED"
    PROVE  DrainInv'
  <1>1. /\ \A t \in Short : req[t].pc = "idle"
        /\ \A t \in Short : t # s => req'[t] = req[t]
    BY AloneIdle DEF Load, TypeOK
  <1>2. /\ req'[s].on = i /\ req'[s].was = row[i] /\ req'[s].will = will
        /\ req'[s].pc = "commit" /\ req'[s].todo = todo
        /\ UNCHANGED <<row, job, rollout, voided>>
    BY DEF Load, TypeOK, history
  <1>3. /\ \A j \in voided : job[j].state \notin Queued
        /\ \A k \in Instances : row[k].active => rollout = "APPROVAL_REQUIRED"
    BY <1>1, NothingPending
  <1>4. CopyCurrent' /\ WillNeedApproval'
    BY <1>1, <1>2, <1>3 DEF CopyCurrent, WillNeedApproval
  <1>5. SelectsQueue'
    <2>1. AllQueued' = AllQueued /\ i # Nobody
      BY <1>2, NobodyIsNoInstance DEF AllQueued
    <2>2. SwitchesOff(req[s])' => todo = AllQueued
      BY <1>2, <2>1 DEF SwitchesOff
    <2> QED BY <1>1, <1>2, <2>1, <2>2 DEF SelectsQueue
  <1>6. VoidedExist' /\ QueuedIsCurrent' /\ ActiveNeedsApproval'
    BY <1>2, <1>3 DEF DrainInv, VoidedExist, QueuedIsCurrent, ActiveNeedsApproval
  <1> QED BY <1>4, <1>5, <1>6 DEF DrainInv

LEMMA SwitchDrains ==
    ASSUME ~Overlap, TypeOK, DrainInv, NEW s \in Short, Switch(s)
    PROVE  DrainInv'
  <1>0. AllQueued \in SUBSET Jobs
    BY DEF AllQueued
  <1>1. ASSUME NEW i \in Instances, Edit(s, i)
        PROVE  DrainInv'
    <2> DEFINE will == [row[i] EXCEPT !.enabled = FALSE, !.active = FALSE,
                          !.health = "UNTESTED", !.proved = FALSE, !.conn = @ + 1]
    <2>1. row[i].conn + 1 \in 0..MaxEdits /\ row[i] \in Row /\ row[i].conn \in Nat
      BY <1>1, BoundsAreNumbers DEF Edit, TypeOK, Row
    <2>2. will \in Row
      BY <2>1 DEF Row
    <2>3. will.active = FALSE /\ will.conn = row[i].conn + 1
      BY <2>1 DEF Row
    <2>4. row[i].conn # row[i].conn + 1
      BY <2>1
    <2>5. Load(s, i, will, {})
      BY <1>1 DEF Edit
    <2> HIDE DEF will
    <2> QED BY <2>2, <2>3, <2>4, <2>5, LoadDrains
  <1>2. ASSUME NEW i \in Instances, ToggleEnabled(s, i)
        PROVE  DrainInv'
    <2> DEFINE will == ToggledRow(row[i])
    <2>1. row[i] \in Row /\ row[i].enabled \in BOOLEAN /\ row[i].active \in BOOLEAN
      BY DEF TypeOK, Row
    <2>2. (~row[i].enabled) \in BOOLEAN /\ (row[i].active /\ ~row[i].enabled) \in BOOLEAN
      BY <2>1, NotTyped, Zenon
    <2>3. will \in Row
      BY <2>1, <2>2, EnabledTyped, Zenon DEF ToggledRow
    <2>4. /\ will.active => row[i].active
          /\ ~row[i].enabled => (row[i].active => will.active)
          /\ will.mode = row[i].mode
      BY <2>1 DEF ToggledRow, Row
    <2>5. Load(s, i, will, IF row[i].enabled THEN AllQueued ELSE {})
      BY <1>2 DEF ToggleEnabled
    <2> HIDE DEF will
    <2> QED BY <1>0, <2>3, <2>4, <2>5, LoadDrains
  <1>3. ASSUME NEW i \in Instances, ToggleActive(s, i)
        PROVE  DrainInv'
    <2> DEFINE will == [row[i] EXCEPT !.active = ~@]
    <2>1. row[i] \in Row /\ row[i].active \in BOOLEAN
      BY DEF TypeOK, Row
    <2>2. (~row[i].active) \in BOOLEAN
      BY <2>1, NotTyped, Zenon
    <2>3. will \in Row
      BY <2>1, <2>2, ActiveTyped, Zenon
    <2>4. will.enabled = row[i].enabled /\ will.mode = row[i].mode
      BY <2>1 DEF Row
    <2>5. will.active => rollout = "APPROVAL_REQUIRED"
      BY <1>3, <2>1 DEF ToggleActive, Row
    <2>6. Load(s, i, will, IF row[i].active THEN AllQueued ELSE {})
      BY <1>3 DEF ToggleActive
    <2> HIDE DEF will
    <2> QED BY <1>0, <2>3, <2>4, <2>5, <2>6, LoadDrains
  <1>4. ASSUME NEW i \in Instances, NEW m \in Modes, ChangeMode(s, i, m)
        PROVE  DrainInv'
    <2> DEFINE will == ModeRow(row[i], m)
    <2>1. row[i] \in Row /\ (row[i].active /\ m # "IGNORED") \in BOOLEAN
      BY DEF TypeOK, Row
    <2>2. will \in Row
      BY <2>1, ModeTyped, Zenon DEF ModeRow
    <2>3. /\ will.enabled = row[i].enabled /\ will.mode = m
          /\ will.active => row[i].active
          /\ m = "MANAGED" => (row[i].active => will.active)
      BY <2>1 DEF ModeRow, Row
    <2>4. Load(s, i, will, IF m = "MANAGED" THEN {} ELSE AllQueued)
      BY <1>4 DEF ChangeMode
    <2> HIDE DEF will
    <2> QED BY <1>0, <2>2, <2>3, <2>4, LoadDrains
  <1>5. ASSUME NEW target \in Stages, ChangeRollout(s, target)
        PROVE  DrainInv'
    <2>1. /\ \A t \in Short : req[t].pc = "idle"
          /\ \A t \in Short : t # s => req'[t] = req[t]
          /\ req'[s].on = Nobody /\ req'[s].mode = target
          /\ req'[s].pc = "commit" /\ req'[s].todo = VoidedBy(target)
          /\ UNCHANGED <<row, job, rollout, voided>>
      BY <1>5, AloneIdle DEF ChangeRollout, TypeOK, Idle, history
    <2>2. /\ \A j \in voided : job[j].state \notin Queued
          /\ \A k \in Instances : row[k].active => rollout = "APPROVAL_REQUIRED"
      BY <2>1, NothingPending
    <2>3. CopyCurrent' /\ WillNeedApproval'
      BY <2>1 DEF CopyCurrent, WillNeedApproval
    <2>4. SelectsQueue'
      BY <2>1 DEF SelectsQueue, SwitchesOff, VoidedBy, AllQueued
    <2>5. VoidedExist' /\ QueuedIsCurrent' /\ ActiveNeedsApproval'
      BY <2>1, <2>2 DEF DrainInv, VoidedExist, QueuedIsCurrent, ActiveNeedsApproval
    <2> QED BY <2>3, <2>4, <2>5 DEF DrainInv
  <1> QED BY <1>1, <1>2, <1>3, <1>4, <1>5 DEF Switch

LEMMA CancelledStates ==
    ASSUME TypeOK, NEW js, NEW j \in Jobs
    PROVE  Cancelled(js)[j].state = IF j \in js THEN "CANCELLED" ELSE job[j].state
BY DEF Cancelled, TypeOK

\* Where a handler stands after a commit that leaves the jobs left to cancel.
LEMMA Advances ==
    ASSUME TypeOK, NEW s \in Short, NEW left \in SUBSET Jobs, Advance(s, left)
    PROVE  /\ left # {} => req'[s].pc = "void" /\ req'[s].todo = left
           /\ left = {} => req'[s].pc = IF Clears(req[s]) THEN "clear" ELSE "idle"
           /\ Clears(req[s]) => req'[s].pc \in {"void", "clear"} /\ Clears(req'[s])
  <1>1. req[s] \in ReqRow /\ req \in [Short -> ReqRow]
    BY DEF TypeOK, ReqRow
  <1> QED BY <1>1 DEF Advance, Clears, ReqRow, Idle

LEMMA ServeDrains ==
    ASSUME TypeOK, OneHandler, DrainInv, NEW s \in Short, Serve(s)
    PROVE  DrainInv'
  <1>0. /\ req[s] \in ReqRow /\ req[s].todo \in SUBSET Jobs
        /\ \A t \in Short : req'[t].pc # "commit"
        /\ \A t \in Short : t # s => req[t].pc = "idle" /\ req'[t] = req[t]
    BY ServeMoves DEF OneHandler, TypeOK, ReqRow
  <1>1. (CopyCurrent /\ WillNeedApproval /\ SelectsQueue)'
    BY <1>0 DEF CopyCurrent, WillNeedApproval, SelectsQueue
  <1>2. req[s].pc = "commit" =>
           /\ \A j \in voided : job[j].state \notin Queued
           /\ \A i \in Instances : row[i].active => rollout = "APPROVAL_REQUIRED"
    BY <1>0, NothingPending
  <1>3. req[s].pc = "commit" => (SwitchesOff(req[s]) => AllQueued \subseteq req[s].todo)
    BY DEF DrainInv, SelectsQueue
  <1>4. \A j \in AllQueued : job[j].state \in Queued /\ j \in Jobs /\ job[j].state # "NONE"
    BY DEF AllQueued, Queued
  <1>5. \A js \in OneOf(req[s].todo) :
           js \in SUBSET Jobs /\ (req[s].todo = {} => js = {}) /\ (js = {} => req[s].todo = {})
    BY <1>0 DEF OneOf
  <1>6. voided \subseteq Jobs /\ \A j \in voided : job[j].state # "NONE"
    BY DEF TypeOK, DrainInv, VoidedExist
  <1>7. CASE CommitSwitch(s)
    <2>0. req[s].pc = "commit" /\ rollout' = rollout /\ ~Clears(req[s])
      BY <1>7 DEF CommitSwitch, Clears
    <2>1. PICK js \in OneOf(req[s].todo) :
             job' = Cancelled(js) /\ Advance(s, req[s].todo \ js)
      BY <1>7 DEF CommitSwitch
    <2>2. voided' = IF SwitchesOff(req[s]) THEN voided \cup AllQueued ELSE voided
      BY <1>7 DEF CommitSwitch
    <2>3. \A j \in voided' : j \in Jobs /\ job[j].state # "NONE"
                           /\ (job[j].state \in Queued => j \in req[s].todo)
      BY <1>2, <1>3, <1>4, <1>6, <2>0, <2>2
    <2>4. VoidedExist'
      BY <2>1, <2>3, CancelledStates DEF VoidedExist
    <2>5. QueuedIsCurrent'
      <3>1. ASSUME NEW j \in voided', job'[j].state \in Queued
            PROVE  j \in req[s].todo \ js
        BY <2>1, <2>3, <3>1, CancelledStates DEF Queued
      <3>2. req[s].todo \ js # {} => req'[s].pc = "void" /\ req'[s].todo = req[s].todo \ js
        BY <1>0, <2>1, Advances
      <3> QED BY <3>1, <3>2 DEF QueuedIsCurrent
    <2>6. ActiveNeedsApproval'
      <3> DEFINE q == req[s]
                 r == Written(row[q.on], q.was, q.will)
      <3>1. /\ q.on \in Instances /\ row[q.on] \in Row /\ q.was \in Row /\ q.will \in Row
        BY <1>0, <1>7 DEF CommitSwitch, TypeOK, ReqRow
      <3>2. r.active = IF q.will.active # q.was.active THEN q.will.active ELSE row[q.on].active
        <4> HIDE DEF q
        <4> QED BY <3>1, WrittenColumns
      <3>3. q.will.active => rollout = "APPROVAL_REQUIRED"
        BY <1>7 DEF DrainInv, WillNeedApproval, CommitSwitch
      <3>4. row' = [row EXCEPT ![q.on] = r]
        BY <1>7 DEF CommitSwitch
      <3> HIDE DEF r
      <3> QED BY <1>2, <2>0, <3>1, <3>2, <3>3, <3>4 DEF ActiveNeedsApproval, TypeOK
    <2> QED BY <1>1, <2>4, <2>5, <2>6 DEF DrainInv
  <1>8. CASE CommitRollout(s)
    <2>0. req[s].pc = "commit" /\ rollout' = req[s].mode /\ req[s].on = Nobody
      BY <1>8 DEF CommitRollout
    <2>1. PICK js \in OneOf(req[s].todo) :
             /\ job' = Cancelled(js)
             /\ IF js = {} /\ Clears(req[s])
                THEN /\ row' = AllInactive
                     /\ req' = [req EXCEPT ![s] = Idle]
                ELSE Advance(s, req[s].todo \ js) /\ row' = row
      BY <1>8 DEF CommitRollout
    <2>2. voided' = IF SwitchesOff(req[s]) THEN voided \cup AllQueued ELSE voided
      BY <1>8 DEF CommitRollout
    <2>3. \A j \in voided' : j \in Jobs /\ job[j].state # "NONE"
                           /\ (job[j].state \in Queued => j \in req[s].todo)
      BY <1>2, <1>3, <1>4, <1>6, <2>0, <2>2
    <2>4. VoidedExist'
      BY <2>1, <2>3, CancelledStates DEF VoidedExist
    <2>5. QueuedIsCurrent'
      <3>1. ASSUME NEW j \in voided', job'[j].state \in Queued
            PROVE  j \in req[s].todo \ js
        BY <2>1, <2>3, <3>1, CancelledStates DEF Queued
      <3>2. ASSUME req[s].todo \ js # {}
            PROVE  req'[s].pc = "void" /\ req'[s].todo = req[s].todo \ js
        BY <1>0, <1>5, <2>1, <3>2, Advances
      <3> QED BY <3>1, <3>2 DEF QueuedIsCurrent
    <2>6. ActiveNeedsApproval'
      <3>1. CASE js = {} /\ Clears(req[s])
        <4>1. \A i \in Instances : AllInactive[i].active = FALSE
          BY DEF AllInactive, TypeOK, Row
        <4> QED BY <2>1, <3>1, <4>1 DEF ActiveNeedsApproval
      <3>2. CASE ~(js = {} /\ Clears(req[s]))
        <4>1. Clears(req[s]) => req'[s].pc \in {"void", "clear"} /\ Clears(req'[s])
          BY <1>0, <2>1, <3>2, Advances
        <4>2. ~Clears(req[s]) => rollout' = "APPROVAL_REQUIRED"
          BY <2>0 DEF Clears
        <4> QED BY <4>1, <4>2 DEF ActiveNeedsApproval, Clears
      <3> QED BY <3>1, <3>2
    <2> QED BY <1>1, <2>4, <2>5, <2>6 DEF DrainInv
  <1>9. CASE Void(s)
    <2>1. PICK j \in req[s].todo : job' = Cancelled({j}) /\ Advance(s, req[s].todo \ {j})
      BY <1>9 DEF Void
    <2>2. UNCHANGED <<row, rollout, voided>> /\ req[s].pc = "void"
      BY <1>9 DEF Void, history
    <2>3. VoidedExist'
      BY <1>6, <2>1, <2>2, CancelledStates DEF VoidedExist
    <2>4. QueuedIsCurrent'
      <3>1. ASSUME NEW k \in voided, job'[k].state \in Queued
            PROVE  k \in req[s].todo \ {j}
        <4>1. k # j /\ job[k].state \in Queued
          BY <1>6, <2>1, <3>1, CancelledStates DEF Queued
        <4> QED BY <1>0, <4>1 DEF DrainInv, QueuedIsCurrent
      <3>2. req[s].todo \ {j} # {} => req'[s].pc = "void" /\ req'[s].todo = req[s].todo \ {j}
        BY <1>0, <2>1, Advances
      <3> QED BY <2>2, <3>1, <3>2 DEF QueuedIsCurrent
    <2>5. ActiveNeedsApproval'
      <3>1. Clears(req[s]) => req'[s].pc \in {"void", "clear"} /\ Clears(req'[s])
        BY <1>0, <2>1, Advances
      <3>2. ~Clears(req[s]) => \A i \in Instances : row[i].active => rollout = "APPROVAL_REQUIRED"
        BY <1>0 DEF DrainInv, ActiveNeedsApproval
      <3> QED BY <2>2, <3>1, <3>2 DEF ActiveNeedsApproval, Clears
    <2> QED BY <1>1, <2>3, <2>4, <2>5 DEF DrainInv
  <1>10. CASE Clear(s)
    <2>1. /\ row' = AllInactive /\ UNCHANGED <<job, rollout, voided>>
          /\ req[s].pc = "clear"
      BY <1>10 DEF Clear
    <2>2. \A i \in Instances : AllInactive[i].active = FALSE
      BY DEF AllInactive, TypeOK, Row
    <2>3. \A j \in voided : job[j].state \notin Queued
      BY <1>0, <2>1 DEF DrainInv, QueuedIsCurrent
    <2> QED BY <1>1, <1>6, <2>1, <2>2, <2>3
            DEF DrainInv, ActiveNeedsApproval, QueuedIsCurrent, VoidedExist
  <1>11. CASE CommitFails(s)
    <2>1. UNCHANGED <<row, job, rollout, voided>> /\ req[s].pc = "commit"
      BY <1>11 DEF CommitFails, history
    <2> QED BY <1>1, <1>2, <1>6, <2>1
            DEF DrainInv, ActiveNeedsApproval, QueuedIsCurrent, VoidedExist
  <1> QED BY <1>7, <1>8, <1>9, <1>10, <1>11 DEF Serve

LEMMA CallingDrains ==
    ASSUME TypeOK, DrainInv, NEW l \in Long, Calling(l)
    PROVE  DrainInv'
  <1>1. req' = req /\ rollout' = rollout /\ job' = job /\ voided' = voided
        /\ \A s \in Short : req[s].on # Nobody => req[s].on \in Instances
    BY CallingMoves DEF TypeOK
  <1>2. CopyCurrent'
    BY <1>1, CallingMoves DEF DrainInv, CopyCurrent, Known
  <1>3. (WillNeedApproval /\ SelectsQueue /\ VoidedExist /\ QueuedIsCurrent)'
    BY <1>1 DEF DrainInv, WillNeedApproval, SelectsQueue, SwitchesOff, AllQueued, VoidedExist,
                QueuedIsCurrent
  <1>4. ActiveNeedsApproval'
    BY <1>1, CallingMoves DEF DrainInv, ActiveNeedsApproval
  <1> QED BY <1>2, <1>3, <1>4 DEF DrainInv

LEMMA DeleteDrains ==
    ASSUME TypeOK, DrainInv, NEW i \in Instances, Delete(i)
    PROVE  DrainInv'
  <1>1. \A s \in Short : req[s].on # Nobody => req[s].on \in Instances
    BY DEF TypeOK
  <1>2. CopyCurrent'
    BY <1>1, DeleteMoves DEF DrainInv, CopyCurrent
  <1>3. (WillNeedApproval /\ SelectsQueue /\ VoidedExist /\ QueuedIsCurrent)'
    BY DeleteMoves DEF DrainInv, WillNeedApproval, SelectsQueue, SwitchesOff, AllQueued,
                       VoidedExist, QueuedIsCurrent
  <1>4. ActiveNeedsApproval'
    BY DeleteMoves DEF DrainInv, ActiveNeedsApproval, Clears
  <1> QED BY <1>2, <1>3, <1>4 DEF DrainInv

\* Only a restart counts as one.
LEMMA CrashCounted == [Next]_vars => Crash \/ UNCHANGED crashes
  BY DEF Next, Simple, Recalculate, Create, Delete, Prepare, Approve, Cancel, Execute, Unrelated,
         Switch, Edit, ToggleEnabled, ToggleActive, ChangeMode, ChangeRollout, Load,
         Serve, CommitSwitch, CommitFails, CommitRollout, Void, Clear,
         Calling, StartTest, StartSync, FinishTest, FinishSync, CallFails, vars

LEMMA SwitchesBind ==
    ASSUME ~Overlap PROVE Spec => [](crashes = 0 => DrainInv)
  <1> DEFINE Inv == crashes = 0 => DrainInv
  <1>1. Init => Inv
    <2> SUFFICES ASSUME Init PROVE DrainInv
      OBVIOUS
    <2>1. /\ \A s \in Short : req[s].pc = "idle"
          /\ \A i \in Instances : ~row[i].active
          /\ voided = {}
      BY DEF Init, Idle, NewRow
    <2> QED BY <2>1 DEF DrainInv, CopyCurrent, WillNeedApproval, ActiveNeedsApproval,
                        SelectsQueue, VoidedExist, QueuedIsCurrent
  <1>2. TypeOK /\ OneHandler /\ Inv /\ [Next]_vars => Inv'
    <2> SUFFICES ASSUME TypeOK, OneHandler, Inv, [Next]_vars, crashes' = 0 PROVE DrainInv'
      OBVIOUS
    <2>1. crashes = 0 /\ ~Crash
      <3>1. crashes \in Nat
        BY BoundsAreNumbers DEF TypeOK
      <3>2. ~Crash
        BY <3>1 DEF Crash
      <3> QED BY <3>2, CrashCounted
    <2>2. CASE UNCHANGED vars
      BY <2>1, <2>2 DEF vars, history, DrainInv, CopyCurrent, Known, WillNeedApproval,
                  ActiveNeedsApproval, SelectsQueue, SwitchesOff, AllQueued, VoidedExist,
                  QueuedIsCurrent, Clears
    <2> QED BY <2>1, <2>2, SimpleDrains, DeleteDrains, SwitchDrains, ServeDrains,
            CallingDrains DEF Next
  <1> QED BY <1>1, <1>2, GatesTyped, HandlersDoNotOverlap, PTL DEF Spec

\* As long as the process lives, a lower rollout stage leaves no instance active.
THEOREM ModeTakesEffect == ASSUME ~Overlap PROVE Spec => []ActiveEndsWithMode
  <1>1. (crashes = 0 => DrainInv) => ActiveEndsWithMode
    BY DEF DrainInv, ActiveEndsWithMode
  <1> QED BY <1>1, SwitchesBind, PTL

\* As long as the process lives, a switch-off leaves no job of its time queued.
THEOREM SwitchesTakeEffect == ASSUME ~Overlap PROVE Spec => []QueueEndsWithSwitch
  <1>1. (crashes = 0 => DrainInv) => QueueEndsWithSwitch
    BY DEF DrainInv, QueueEndsWithSwitch
  <1> QED BY <1>1, SwitchesBind, PTL
=============================================================================
