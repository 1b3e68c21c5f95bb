------------------------------ MODULE Scheduler ------------------------------
(***************************************************************************)
(* The inventory scheduler (services/scheduler.py): a loop of passes, each *)
(* of which selects the enabled integrations once, then synchronizes those *)
(* that are due, one after the other, each under the coordinator it shares *)
(* with everything an administrator starts (sync_coordinator.py).          *)
(*                                                                         *)
(* What a synchronization does to the inventory is Inventory's business;   *)
(* here it ends, well or with an error it records (sync_integration), or   *)
(* raises what nobody catches before the loop.                             *)
(***************************************************************************)
EXTENDS Naturals, Sequences, FiniteSets

CONSTANTS
    Sources,    \* integrations
    Order,      \* the order in which they are selected
    Broken,     \* those whose synchronization raises: credentials that cannot
                \* be decrypted, an answer of an unexpected shape
    MaxVisits   \* how often others take the coordinator or the process restarts

ASSUME OrderIsComplete == Order \in Seq(Sources) /\ \A s \in Sources : \E i \in DOMAIN Order : Order[i] = s
ASSUME BrokenAreSources == Broken \subseteq Sources
ASSUME VisitsAreBounded == MaxVisits \in Nat

VARIABLES
    enabled,   \* integration_instance.enabled, and not IGNORED
    due,       \* no attempt within stale_after_seconds
    pc,        \* where the scheduler's thread is
    todo,      \* what is left of the pass's list of integrations
    occupant,  \* who holds the coordinator
    visits     \* how often somebody else has

vars == <<enabled, due, pc, todo, occupant, visits>>

Init ==
    /\ enabled \in [Sources -> BOOLEAN]
    /\ due \in [Sources -> BOOLEAN]
    /\ pc = "SLEEP" /\ todo = <<>>
    /\ occupant = "NONE"
    /\ visits = 0

-----------------------------------------------------------------------------
(***************************************************************************)
(* A pass.  Its rows are loaded once and never expire, so a source keeps   *)
(* the switches it had when the pass began.                                *)
(***************************************************************************)
Current == Head(todo)

\* Every enabled integration is selected once, in the order of the rows.
RowOf(s) == CHOOSE i \in DOMAIN Order : Order[i] = s
Selected(list) ==
    /\ {list[k] : k \in DOMAIN list} = {s \in Sources : enabled[s]}
    /\ \A j, k \in DOMAIN list : j < k => RowOf(list[j]) < RowOf(list[k])

BeginPass ==
    /\ pc = "SLEEP"
    /\ \E n \in 0..Len(Order) : \E list \in [1..n -> Sources] :
          Selected(list) /\ todo' = list
    /\ pc' = "PASS"
    /\ UNCHANGED <<enabled, due, occupant, visits>>

EndPass ==
    /\ pc = "PASS" /\ todo = <<>>
    /\ pc' = "SLEEP"
    /\ UNCHANGED <<enabled, due, todo, occupant, visits>>

\* Is it time?  The mutant never gets to the next source.
MutCheck ==
    /\ pc = "PASS" /\ todo # <<>>
    /\ pc' = IF due[Current] THEN "DUE" ELSE "PASS"
    /\ UNCHANGED <<enabled, due, todo, occupant, visits>>
Check ==
    /\ pc = "PASS" /\ todo # <<>>
    /\ pc' = IF due[Current] THEN "DUE" ELSE "PASS"
    /\ todo' = IF due[Current] THEN todo ELSE Tail(todo)
    /\ UNCHANGED <<enabled, due, occupant, visits>>

\* The coordinator is taken, or busy: then the rest of the pass is dropped.
StartSync ==
    /\ pc = "DUE" /\ occupant = "NONE"
    /\ pc' = "SYNC" /\ occupant' = "SCHEDULER"
    /\ UNCHANGED <<enabled, due, todo, visits>>
Refused ==
    /\ pc = "DUE" /\ occupant # "NONE"
    /\ pc' = "SLEEP" /\ todo' = <<>>
    /\ UNCHANGED <<enabled, due, occupant, visits>>

\* The synchronization is committed, successful or failed: either way
\* last_attempt_at is now.  The mutant tries the same source again at
\* once.
MutAgain ==
    /\ pc = "SYNC" /\ Current \notin Broken
    /\ due' \in {due, [due EXCEPT ![Current] = FALSE]}
    /\ pc' = "PASS" /\ todo' = todo /\ occupant' = "NONE"
    /\ UNCHANGED <<enabled, visits>>
EndSync ==
    /\ pc = "SYNC" /\ Current \notin Broken
    /\ due' = [due EXCEPT ![Current] = FALSE]
    /\ pc' = "PASS" /\ todo' = Tail(todo) /\ occupant' = "NONE"
    /\ UNCHANGED <<enabled, visits>>

\* It raises: everything is rolled back, the attempt included, and the pass is
\* over.  The mutant keeps the coordinator.
MutRaise ==
    /\ pc = "SYNC" /\ Current \in Broken
    /\ pc' = "SLEEP" /\ todo' = <<>>
    /\ UNCHANGED <<enabled, due, occupant, visits>>
Raise ==
    /\ pc = "SYNC" /\ Current \in Broken
    /\ pc' = "SLEEP" /\ todo' = <<>> /\ occupant' = "NONE"
    /\ UNCHANGED <<enabled, due, visits>>

-----------------------------------------------------------------------------
(***************************************************************************)
(* Everybody else.                                                         *)
(***************************************************************************)
\* Time passes.
Tick(s) ==
    /\ due' = [due EXCEPT ![s] = TRUE]
    /\ UNCHANGED <<enabled, pc, todo, occupant, visits>>

\* An administrator enables, disables, manages or ignores an integration.
Switch(s) ==
    /\ enabled' = [enabled EXCEPT ![s] = ~@]
    /\ UNCHANGED <<due, pc, todo, occupant, visits>>

\* A deletion, or a synchronization by hand (integration_sync) of s.
Visit ==
    /\ occupant = "NONE" /\ visits < MaxVisits
    /\ occupant' = "OTHER" /\ visits' = visits + 1
    /\ UNCHANGED <<enabled, due, pc, todo>>
Leave ==
    /\ occupant = "OTHER"
    /\ occupant' = "NONE"
    /\ \E s \in Sources : due' \in {due, [due EXCEPT ![s] = FALSE]}
    /\ UNCHANGED <<enabled, pc, todo, visits>>

\* The process dies and starts again.
Restart ==
    /\ visits < MaxVisits
    /\ pc' = "SLEEP" /\ todo' = <<>> /\ occupant' = "NONE" /\ visits' = visits + 1
    /\ UNCHANGED <<enabled, due>>

Pass == BeginPass \/ EndPass \/ Check \/ StartSync \/ Refused \/ EndSync \/ Raise
Next == Pass \/ Visit \/ Leave \/ Restart \/ \E s \in Sources : Tick(s) \/ Switch(s)

\* The thread goes on, and who holds the coordinator releases it.
Spec == Init /\ [][Next]_vars /\ WF_vars(Pass) /\ WF_vars(Leave)

-----------------------------------------------------------------------------
(***************************************************************************)
(* Properties.                                                             *)
(***************************************************************************)
\* The scheduler holds the coordinator exactly while it synchronizes, however
\* that ends.
TypeOK ==
    /\ enabled \in [Sources -> BOOLEAN] /\ due \in [Sources -> BOOLEAN]
    /\ pc \in {"SLEEP", "PASS", "DUE", "SYNC"}
    /\ todo \in Seq(Sources) /\ Len(todo) <= Len(Order)
    /\ occupant \in {"NONE", "SCHEDULER", "OTHER"} /\ visits \in 0..MaxVisits
    /\ pc \in {"DUE", "SYNC"} => todo # <<>>
    /\ occupant = "SCHEDULER" <=> pc = "SYNC"

\* How far the pass is from its end, in steps of the scheduler.
StepsLeft ==
    CASE pc = "SLEEP" -> 0
      [] pc = "PASS"  -> 3 * Len(todo) + 1
      [] pc = "DUE"   -> 3 * Len(todo)
      [] pc = "SYNC"  -> 3 * Len(todo) - 1

\* A pass is bounded by its list: each of its steps brings it nearer to its end,
\* and nothing that others do meanwhile, becoming due again or being enabled
\* included, takes it farther.
PassShrinks ==
    [][pc # "SLEEP" => /\ Pass => StepsLeft' < StepsLeft
                       /\ StepsLeft' <= StepsLeft]_vars

\* Every pass ends, however often sources become due while it lasts.
PassEnds == [](pc # "SLEEP" => <>(pc = "SLEEP"))

\* A source that is due is synchronized sooner or later, unless it is disabled:
\* refusals, restarts and errors of other sources only delay it.  (Violated when
\* a source that comes before it raises.)
EverySourceIsSynced ==
    \A s \in Sources \ Broken : (due[s] /\ enabled[s]) ~> (~due[s] \/ ~enabled[s])

\* What is disabled is not synchronized by the scheduler (violated when it is
\* disabled during a pass).
DisabledIsNotScheduled == [][StartSync => enabled[Current]]_vars
=============================================================================
