---------------------------- MODULE RolloutGates ----------------------------
(***************************************************************************)
(* The switches that stand between an approval and a deletion: the global  *)
(* rollout mode (services/rollout.py), and for every Radarr, Sonarr and    *)
(* qBittorrent instance its Enable switch, its Active Management switch,   *)
(* its management mode and the proofs Active Management asks for, a        *)
(* connection test, a full synchronization and a dry run                   *)
(* (services/integrations.py and the handlers of main.py).                 *)
(*                                                                         *)
(* A handler loads rows into its own session, decides on that copy, and an *)
(* UPDATE carries only the columns that differ from the copy.  A switch    *)
(* that is turned off also cancels the queued jobs, one commit per job:    *)
(* the first of these commits flushes the switch itself, and a rollout     *)
(* change clears Active Management in one more commit after the last.      *)
(*                                                                         *)
(* Tests and synchronizations hold their copy across a call to another     *)
(* machine, so they always overlap with the rest, and so does the removal  *)
(* of an instance, which deletes its inventory with it while the commits   *)
(* of the others wait.  The other handlers take milliseconds: they overlap *)
(* only where Overlap says so.  Refusals, which change nothing, are not    *)
(* steps.  The workflow a job goes through is DeletionJob's; here it is    *)
(* one step.                                                               *)
(***************************************************************************)
EXTENDS Naturals

CONSTANTS
    Radarrs,     \* Arr instances whose movies have deletion jobs
    QBits,       \* qBittorrent instances
    Jobs,        \* deletion jobs, one per movie
    Short,       \* slots for switch handlers in progress
    Long,        \* slots for connection tests and synchronizations
    Nobody,      \* no instance
    MaxEdits,    \* bound on the changes of one instance's connection
    MaxCrashes,  \* bound on the restarts of the process
    Overlap      \* short handlers may overlap

Instances == Radarrs \cup QBits

ASSUME NobodyIsNoInstance == Nobody \notin Instances
ASSUME KindsDiffer        == Radarrs \cap QBits = {}
ASSUME BoundsAreNumbers   == MaxEdits \in Nat /\ MaxCrashes \in Nat
ASSUME OverlapIsBoolean   == Overlap \in BOOLEAN

VARIABLES
    rollout,  \* rollout_policy.mode
    status,   \* which instances are configured; a removed one never returns
    row,      \* the integration_instances rows
    job,      \* the deletion_jobs rows: state and instance
    req,      \* the switch handlers in progress
    call,     \* the tests and synchronizations in progress
    crashes,  \* restarts so far
    voided,   \* history: queued when a switch-off was committed
    lapsed,   \* history: approved, and Active Management has been off since
    tested,   \* history: connection the last successful test used
    fresh     \* history: this connection synchronized since last enabled

history == <<voided, lapsed, tested, fresh>>
vars    == <<rollout, status, row, job, req, call, crashes, history>>

RolloutModes == <<"INVENTORY_ONLY", "DRY_RUN", "APPROVAL_REQUIRED">>
Stages       == {RolloutModes[n] : n \in 1..3}
Rank(mode)   == CHOOSE n \in 1..3 : RolloutModes[n] = mode
Modes        == {"IGNORED", "PROTECTED", "MANAGED"}
Queued       == {"PENDING_APPROVAL", "APPROVED"}
JobStates    == {"NONE", "BLOCKED", "EXECUTED", "CANCELLED"} \cup Queued

\* A row: proved stands for last_success_at, synced for full_sync_completed_at
\* and rehearsed for dry_run_evaluated_at being set; conn is the version of
\* the address and credentials.
Row == [enabled : BOOLEAN, active : BOOLEAN, mode : Modes,
        health : {"UNTESTED", "HEALTHY", "UNHEALTHY"}, proved : BOOLEAN,
        synced : BOOLEAN, rehearsed : BOOLEAN, conn : 0..MaxEdits]

\* create_integration saves an instance disabled and untested.
NewRow == [enabled |-> FALSE, active |-> FALSE, mode |-> "PROTECTED",
           health |-> "UNTESTED", proved |-> FALSE, synced |-> FALSE,
           rehearsed |-> FALSE, conn |-> 0]

\* The steps of a switch handler: the commit of the switch, the commits of the
\* cancellations that remain, and the clearing that ends a rollout change.
Idle == [pc |-> "idle", on |-> Nobody, was |-> NewRow, will |-> NewRow,
         mode |-> "INVENTORY_ONLY", todo |-> {}]
Free == [op |-> "idle", on |-> Nobody, was |-> NewRow]

Init ==
    /\ rollout = "INVENTORY_ONLY"
    /\ status = [i \in Instances |-> "unknown"]
    /\ row = [i \in Instances |-> NewRow]
    /\ job = [j \in Jobs |-> [state |-> "NONE", on |-> Nobody]]
    /\ req = [s \in Short |-> Idle]
    /\ call = [l \in Long |-> Free]
    /\ crashes = 0
    /\ voided = {} /\ lapsed = {}
    /\ tested = [i \in Instances |-> MaxEdits + 1]
    /\ fresh = [i \in Instances |-> FALSE]

-----------------------------------------------------------------------------
(***************************************************************************)
(* Rows, copies and writes.                                                *)
(***************************************************************************)
Known(i) == status[i] = "known"
Alone    == Overlap \/ \A s \in Short : req[s].pc = "idle"

\* An UPDATE sets the columns the handler changed in its copy.
Written(now, was, will) ==
    [f \in DOMAIN now |-> IF will[f] # was[f] THEN will[f] ELSE now[f]]

\* The jobs whose approval is no longer good once the instances is are active
\* no more.
Approved(is) == {j \in Jobs : job[j].on \in is /\ job[j].state \in {"APPROVED", "BLOCKED"}}

\* What a commit that leaves instance i with row r does to the histories.
Remember(i, r) ==
    /\ fresh' = [fresh EXCEPT ![i] = @ /\ r.enabled /\ r.conn = row[i].conn]
    /\ lapsed' = IF row[i].active /\ ~r.active THEN lapsed \cup Approved({i}) ELSE lapsed

Unrelated == UNCHANGED <<rollout, status, req, call, crashes, voided, tested>>

-----------------------------------------------------------------------------
(***************************************************************************)
(* The handlers that read and write in one commit.                         *)
(***************************************************************************)
\* create_integration: a new instance is saved disabled; a known address
\* returns the instance that has it.
Create(i) ==
    /\ Alone /\ status[i] = "unknown"
    /\ status' = [status EXCEPT ![i] = "known"]
    /\ row' = [row EXCEPT ![i] = NewRow]
    /\ UNCHANGED <<rollout, job, req, call, crashes, history>>

\* integrations_delete and remove_integration_local_data: refused while a job
\* refers to the instance, and for qBittorrent while any job is unfinished.
Delete(i) ==
    /\ Known(i)
    /\ \A j \in Jobs : job[j].on # i
    /\ i \in QBits => \A j \in Jobs : job[j].state \in {"NONE", "EXECUTED", "CANCELLED"}
    /\ status' = [status EXCEPT ![i] = "removed"]
    /\ row' = [row EXCEPT ![i] = NewRow]
    /\ UNCHANGED <<rollout, job, req, call, crashes, history>>

\* evaluate_dry_run marks every enabled instance as rehearsed.
Rehearsed == [i \in Instances |->
                  [row[i] EXCEPT !.rehearsed = @ \/ (Known(i) /\ row[i].enabled)]]
Recalculate ==
    /\ Alone
    /\ row' = Rehearsed
    /\ UNCHANGED <<rollout, status, job, req, call, crashes, history>>

\* create_movie_job for an eligible movie of instance i.
Prepare(j, i) ==
    /\ Alone /\ Known(i) /\ job[j].state = "NONE"
    /\ rollout = "APPROVAL_REQUIRED"
    /\ row[i].mode = "MANAGED" /\ row[i].enabled /\ row[i].active
    /\ job' = [job EXCEPT ![j] = [state |-> "PENDING_APPROVAL", on |-> i]]
    /\ UNCHANGED <<row, lapsed, fresh>> /\ Unrelated

\* approve_movie_job asks for no switch; cancel_movie_job.
Approve(j) ==
    /\ Alone /\ job[j].state = "PENDING_APPROVAL"
    /\ job' = [job EXCEPT ![j].state = "APPROVED"]
    /\ UNCHANGED <<row, lapsed, fresh>> /\ Unrelated
Cancel(j) ==
    /\ Alone /\ job[j].state \in Queued \cup {"BLOCKED"}
    /\ job' = [job EXCEPT ![j].state = "CANCELLED"]
    /\ UNCHANGED <<row, lapsed, fresh>> /\ Unrelated

\* _ensure_capability_gates.
Gates(i) ==
    /\ rollout = "APPROVAL_REQUIRED" /\ row[i].enabled /\ row[i].active
    /\ row[i].mode = "MANAGED" /\ row[i].health = "HEALTHY"

\* execute_movie_job up to the revalidation, which calculates a dry run.  A job
\* that waits for approval is approved by the execution; any evidence may block
\* it, before the dry run or after.
Execute(j) ==
    /\ Alone /\ job[j].state \in Queued \cup {"BLOCKED"}
    /\ \E s \in {"EXECUTED", "BLOCKED"} :
          /\ s = "EXECUTED" => Gates(job[j].on)
          /\ job' = [job EXCEPT ![j].state = s]
          /\ row' \in {Rehearsed} \cup (IF s = "BLOCKED" THEN {row} ELSE {})
    /\ UNCHANGED <<lapsed, fresh>> /\ Unrelated

-----------------------------------------------------------------------------
(***************************************************************************)
(* The switches: the handler loads, decides and selects the queued jobs.   *)
(***************************************************************************)
AllQueued == {j \in Jobs : job[j].state \in Queued}

\* Slot s takes a request about instance i whose copy becomes will.
Load(s, i, will, todo) ==
    /\ Alone /\ req[s].pc = "idle" /\ Known(i)
    /\ req' = [req EXCEPT ![s] = [pc |-> "commit", on |-> i, was |-> row[i],
                                  will |-> will, mode |-> rollout, todo |-> todo]]
    /\ UNCHANGED <<rollout, status, row, job, call, crashes, history>>

\* update_integration with a new address or new credentials.
Edit(s, i) ==
    /\ row[i].conn < MaxEdits
    /\ Load(s, i, [row[i] EXCEPT !.enabled = FALSE, !.active = FALSE,
                                 !.health = "UNTESTED", !.proved = FALSE,
                                 !.conn = @ + 1], {})

\* integrations_enabled: disabling also ends Active Management and the queue.
\* The mutant forgets Active Management.
MutEnabledRow(r) == [r EXCEPT !.enabled = ~@]
ToggledRow(r) ==
    [r EXCEPT !.enabled = ~@, !.active = @ /\ ~r.enabled]
ToggleEnabled(s, i) ==
    Load(s, i, ToggledRow(row[i]), IF row[i].enabled THEN AllQueued ELSE {})

\* change_management_mode; only a MANAGED instance keeps its queue.
ModeRow(r, m) == [r EXCEPT !.mode = m, !.active = @ /\ m # "IGNORED"]
ChangeMode(s, i, m) ==
    /\ i \in Radarrs
    /\ Load(s, i, ModeRow(row[i], m), IF m = "MANAGED" THEN {} ELSE AllQueued)

\* set_active_management and its handler.
Permitted(i, r) ==
    /\ r.enabled
    /\ i \in Radarrs => r.mode # "IGNORED"
    /\ r.health = "HEALTHY" /\ r.proved
    /\ r.synced /\ r.rehearsed
\* The mutant does not ask for the rollout mode.
MutAnyRollout(s, i) ==
    /\ row[i].active \/ Permitted(i, row[i])
    /\ Load(s, i, [row[i] EXCEPT !.active = ~@], IF row[i].active THEN AllQueued ELSE {})
ToggleActive(s, i) ==
    /\ row[i].active \/ (rollout = "APPROVAL_REQUIRED" /\ Permitted(i, row[i]))
    /\ Load(s, i, [row[i] EXCEPT !.active = ~@], IF row[i].active THEN AllQueued ELSE {})

\* change_rollout_mode: one stage up at most, any number down.  A change
\* cancels the queue; below APPROVAL_REQUIRED nothing stays active.
VoidedBy(target) == IF target = rollout THEN {} ELSE AllQueued
ChangeRollout(s, target) ==
    /\ Alone /\ req[s].pc = "idle"
    /\ Rank(target) <= Rank(rollout) + 1
    /\ req' = [req EXCEPT ![s] = [Idle EXCEPT !.pc = "commit", !.mode = target,
                                              !.todo = VoidedBy(target)]]
    /\ UNCHANGED <<rollout, status, row, job, call, crashes, history>>

-----------------------------------------------------------------------------
(***************************************************************************)
(* The commits of a switch handler.                                        *)
(***************************************************************************)
\* The jobs one commit cancels: none, when none is left.
OneOf(todo) == IF todo = {} THEN {{}} ELSE {{j} : j \in todo}

Cancelled(js) == [j \in Jobs |-> IF j \in js THEN [job[j] EXCEPT !.state = "CANCELLED"]
                                             ELSE job[j]]

\* The request turns something off that the queue depends on; a new connection
\* is not among the switches that cancel jobs.
SwitchesOff(q) ==
    IF q.on = Nobody THEN q.mode # rollout
    ELSE /\ q.was.conn = q.will.conn
         /\ \/ q.was.enabled /\ ~q.will.enabled
            \/ q.was.active /\ ~q.will.active
            \/ q.was.mode = "MANAGED" /\ q.will.mode # "MANAGED"

\* A rollout change still has Active Management to clear.
Clears(q) == q.on = Nobody /\ q.mode # "APPROVAL_REQUIRED"

\* The clearing: SELECT of the active instances, then the last commit.
Active      == {i \in Instances : row[i].active}
AllInactive == [i \in Instances |-> [row[i] EXCEPT !.active = FALSE]]

\* Slot s has jobs left to cancel, or the clearing, or is done.  The mutant
\* leaves the loop of invalidate_queued_jobs after its first commit.
MutAdvance(s, left) ==
    req' = [req EXCEPT ![s] = IF Clears(@) THEN [@ EXCEPT !.pc = "clear", !.todo = {}] ELSE Idle]
Advance(s, left) ==
    req' = [req EXCEPT ![s] = IF left # {} THEN [@ EXCEPT !.pc = "void", !.todo = left]
                              ELSE IF Clears(@) THEN [@ EXCEPT !.pc = "clear", !.todo = {}]
                              ELSE Idle]

\* The first commit of a switch of one instance flushes the switch, with the
\* first cancellation if there is any.  The row may be gone: an error.
CommitSwitch(s) ==
    LET q == req[s]
        r == Written(row[q.on], q.was, q.will) IN
    /\ q.pc = "commit" /\ q.on # Nobody /\ Known(q.on)
    /\ \E js \in OneOf(q.todo) :
          /\ job' = Cancelled(js)
          /\ Advance(s, q.todo \ js)
    /\ row' = [row EXCEPT ![q.on] = r]
    /\ Remember(q.on, r)
    /\ voided' = IF SwitchesOff(q) THEN voided \cup AllQueued ELSE voided
    /\ UNCHANGED <<rollout, status, call, crashes, tested>>
CommitFails(s) ==
    /\ req[s].pc = "commit" /\ req[s].on # Nobody /\ ~Known(req[s].on)
    /\ req' = [req EXCEPT ![s] = Idle]
    /\ UNCHANGED <<rollout, status, row, job, call, crashes, history>>

\* The first commit of a rollout change flushes the mode.
CommitRollout(s) ==
    LET q == req[s] IN
    /\ q.pc = "commit" /\ q.on = Nobody
    /\ rollout' = q.mode
    /\ \E js \in OneOf(q.todo) :
          /\ job' = Cancelled(js)
          /\ IF js = {} /\ Clears(q)
             THEN /\ row' = AllInactive
                  /\ req' = [req EXCEPT ![s] = Idle]
                  /\ lapsed' = lapsed \cup Approved(Active)
             ELSE Advance(s, q.todo \ js) /\ UNCHANGED <<row, lapsed>>
    /\ voided' = IF SwitchesOff(q) THEN voided \cup AllQueued ELSE voided
    /\ UNCHANGED <<status, call, crashes, tested, fresh>>

\* invalidate_queued_jobs, the commits after the first.
Void(s) ==
    /\ req[s].pc = "void"
    /\ \E j \in req[s].todo :
          /\ job' = Cancelled({j})
          /\ Advance(s, req[s].todo \ {j})
    /\ UNCHANGED <<rollout, status, row, call, crashes, history>>

Clear(s) ==
    /\ req[s].pc = "clear"
    /\ row' = AllInactive
    /\ req' = [req EXCEPT ![s] = Idle]
    /\ lapsed' = lapsed \cup Approved(Active)
    /\ UNCHANGED <<rollout, status, job, call, crashes, voided, tested, fresh>>

-----------------------------------------------------------------------------
(***************************************************************************)
(* Tests and synchronizations: load, a call to another machine, commit.    *)
(***************************************************************************)
StartTest(l, i) ==
    /\ call[l].op = "idle" /\ Known(i)
    /\ call' = [call EXCEPT ![l] = [op |-> "test", on |-> i, was |-> row[i]]]
    /\ UNCHANGED <<rollout, status, row, job, req, crashes, history>>

\* sync_integration of an enabled instance, under the coordinator.
StartSync(l, i) ==
    /\ call[l].op = "idle" /\ Known(i) /\ row[i].enabled
    /\ \A k \in Long : call[k].op # "sync"
    /\ call' = [call EXCEPT ![l] = [op |-> "sync", on |-> i, was |-> row[i]]]
    /\ UNCHANGED <<rollout, status, row, job, req, crashes, history>>

\* test_integration records health, and the time of a success, always new.
FinishTest(l) ==
    LET c == call[l] IN
    /\ c.op = "test" /\ Known(c.on)
    /\ \E h \in {"HEALTHY", "UNHEALTHY"} :
          LET w == Written(row[c.on], c.was, [c.was EXCEPT !.health = h]) IN
          /\ row' = [row EXCEPT ![c.on] = IF h = "HEALTHY" THEN [w EXCEPT !.proved = TRUE]
                                                          ELSE w]
          /\ tested' = IF h = "HEALTHY" THEN [tested EXCEPT ![c.on] = c.was.conn] ELSE tested
    /\ call' = [call EXCEPT ![l] = Free]
    /\ UNCHANGED <<rollout, status, job, req, crashes, voided, lapsed, fresh>>

\* The commit of a successful synchronization sets full_sync_completed_at; a
\* synchronization that fails changes none of these columns.
FinishSync(l) ==
    LET c == call[l] IN
    /\ c.op = "sync" /\ Known(c.on)
    /\ row' = [row EXCEPT ![c.on] = [Written(@, c.was, c.was) EXCEPT !.synced = TRUE]]
    /\ fresh' = [fresh EXCEPT ![c.on] = @ \/ (row[c.on].enabled
                                              /\ c.was.conn = row[c.on].conn)]
    /\ call' = [call EXCEPT ![l] = Free]
    /\ UNCHANGED <<rollout, status, job, req, crashes, voided, lapsed, tested>>

\* A synchronization fails, or the instance is gone when a call returns.
CallFails(l) ==
    /\ call[l].op = "sync" \/ (call[l].op = "test" /\ ~Known(call[l].on))
    /\ call' = [call EXCEPT ![l] = Free]
    /\ UNCHANGED <<rollout, status, row, job, req, crashes, history>>

\* The process restarts: what is not committed is gone.
Crash ==
    /\ crashes < MaxCrashes
    /\ crashes' = crashes + 1
    /\ req' = [s \in Short |-> Idle]
    /\ call' = [l \in Long |-> Free]
    /\ UNCHANGED <<rollout, status, row, job, history>>

-----------------------------------------------------------------------------
Serve(s)    == CommitSwitch(s) \/ CommitFails(s) \/ CommitRollout(s) \/ Void(s) \/ Clear(s)
Simple      == \/ Recalculate
               \/ \E i \in Instances : Create(i)
               \/ \E j \in Jobs : \/ \E i \in Radarrs : Prepare(j, i)
                                  \/ Approve(j) \/ Cancel(j) \/ Execute(j)
Switch(s)   == \/ \E i \in Instances : \/ Edit(s, i) \/ ToggleEnabled(s, i)
                                       \/ ToggleActive(s, i)
                                       \/ \E m \in Modes : ChangeMode(s, i, m)
               \/ \E target \in Stages : ChangeRollout(s, target)
Calling(l)  == \/ \E i \in Instances : StartTest(l, i) \/ StartSync(l, i)
               \/ FinishTest(l) \/ FinishSync(l) \/ CallFails(l)

Next == \/ Simple \/ Crash
        \/ \E i \in Instances : Delete(i)
        \/ \E s \in Short : Switch(s) \/ Serve(s)
        \/ \E l \in Long : Calling(l)

\* A handler that has begun runs to its end unless the process dies.
Spec == Init /\ [][Next]_vars /\ \A s \in Short : WF_vars(Serve(s))

-----------------------------------------------------------------------------
(***************************************************************************)
(* Properties.                                                             *)
(***************************************************************************)
TypeOK ==
    /\ rollout \in Stages
    /\ status \in [Instances -> {"unknown", "known", "removed"}]
    /\ row \in [Instances -> Row]
    /\ job \in [Jobs -> [state : JobStates, on : Radarrs \cup {Nobody}]]
    /\ req \in [Short -> [pc : {"idle", "commit", "void", "clear"},
                          on : Instances \cup {Nobody}, was : Row, will : Row,
                          mode : Stages, todo : SUBSET Jobs]]
    /\ call \in [Long -> {Free} \cup [op : {"test", "sync"}, on : Instances, was : Row]]
    /\ crashes \in 0..MaxCrashes
    /\ voided \subseteq Jobs /\ lapsed \subseteq Jobs
    /\ tested \in [Instances -> 0..(MaxEdits + 1)]
    /\ fresh \in [Instances -> BOOLEAN]

\* Active Management is on only for an instance that is enabled, not ignored,
\* fully synchronized and rehearsed, whatever tests and synchronizations were
\* under way when a switch changed and wherever the process died.
ActiveIsPermitted ==
    \A i \in Instances : row[i].active =>
        /\ row[i].enabled /\ row[i].synced /\ row[i].rehearsed
        /\ i \in Radarrs => row[i].mode # "IGNORED"

\* Below APPROVAL_REQUIRED no instance is active, except while the rollout
\* change that will clear it is still cancelling jobs (violated once the process
\* dies in between).
ActiveNeedsApproval ==
    \A i \in Instances : row[i].active =>
        \/ rollout = "APPROVAL_REQUIRED"
        \/ \E s \in Short : req[s].pc \in {"void", "clear"} /\ Clears(req[s])

\* A job that was queued when a switch-off was committed is queued no more,
\* or the handler of a switch-off is about to cancel it.
QueuedIsCurrent ==
    \A j \in voided : job[j].state \in Queued =>
        \E s \in Short : req[s].pc = "void" /\ j \in req[s].todo

\* As long as the process lives, no instance stays active below
\* APPROVAL_REQUIRED, and no job stays queued across a switch-off, though a
\* switch takes effect in many commits.
ActiveEndsWithMode  == crashes = 0 => ActiveNeedsApproval
QueueEndsWithSwitch == crashes = 0 => QueuedIsCurrent

\* Every switch-off empties the queue it found (invalidate_queued_jobs), unless
\* the process dies.
SwitchOffDrainsQueue ==
    \A j \in Jobs : (j \in voided) ~> (job[j].state \notin Queued \/ crashes > 0)

\* A job is not executed on an approval given before Active Management of its
\* instance was last switched off.
ApprovalsDoNotRevive ==
    [][\A j \in lapsed : job[j].state \in {"APPROVED", "BLOCKED"}
                            => job'[j].state # "EXECUTED"]_vars

\* Active Management is switched on for a connection that has been fully
\* synchronized since the instance was last enabled.
ActivationFollowsSync ==
    [][\A i \in Instances : (~row[i].active /\ row'[i].active) => fresh[i]]_vars

\* Active Management is switched on for the connection the last successful
\* test used.
ActivationFollowsTest ==
    [][\A i \in Instances : (~row[i].active /\ row'[i].active)
                               => tested[i] = row[i].conn]_vars
=============================================================================
