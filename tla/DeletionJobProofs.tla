------------------------- MODULE DeletionJobProofs -------------------------
(***************************************************************************)
(* Theorems about DeletionJob, for any sets of requests and torrents, and  *)
(* through FairImplements about DeletionProgress.                          *)
(*                                                                         *)
(* Part 1, types.                                                          *)
(* Part 2, safety, and with it that the workflow implements                *)
(* RemovalProtocol.  The argument: RadarrSettled is stable, since nothing  *)
(* brings a movie back under its Radarr id, and so is an inactive          *)
(* lifecycle while the movie is absent.  A state once truly written        *)
(* therefore stays true, in the row and in every stale copy of the row;    *)
(* and a step writes a state after Radarr only when its request already    *)
(* holds such a state or has just confirmed the deletion and the           *)
(* exclusion.                                                              *)
(* Part 3, what COMPLETED means: of Plex, for a movie that has the rating  *)
(* key of its item there (without the key the workflow does not look, and  *)
(* completes); and of the torrents, when requests come one at a time.      *)
(* Part 4, what lasts when nobody decides on a stale row.                  *)
(* Part 5, who can bring back a job that ended, when anybody may act.      *)
(***************************************************************************)
EXTENDS DeletionProgress, TLAPS

-----------------------------------------------------------------------------
(***************************************************************************)
(* Types                                                                   *)
(***************************************************************************)
\* The sets of states are sets of the row's states.
LEMMA StatesTyped ==
    /\ JobStates \subseteq RowStates
    /\ BeforeRadarr \subseteq RowStates
    /\ AfterRadarr \subseteq RowStates
    /\ ExecutableJobStates \subseteq RowStates
  BY DEF RowStates, JobStates, ExecutableJobStates

\* The writes of a request keep the types of the job, the requests and the
\* coordinator.
LEMMA WritesTyped ==
    ASSUME TypeOK, NEW e \in Executors
    PROVE  /\ Idle \in Request
           /\ \A s \in RowStates : WrittenState(e, s) \in RowStates
           /\ \A d \in SUBSET Torrents :
                WrittenDeletions(e, d) \subseteq SUBSET Torrents
           /\ BlockedState(e) \in RowStates
           /\ FailedState(e) \in RowStates
           /\ \A s \in RowStates : Dispatch(s) \in Steps
  <1>1. req[e] \in Request /\ job.state \in RowStates /\ job.deleted \in SUBSET Torrents
    BY DEF TypeOK, JobRow
  <1>2. Idle \in Request
    BY DEF Idle, Request, RowStates
  <1>3. \A s \in RowStates : WrittenState(e, s) \in RowStates
    BY <1>1 DEF WrittenState
  <1>4. \A d \in SUBSET Torrents : WrittenDeletions(e, d) \subseteq SUBSET Torrents
    BY <1>1 DEF WrittenDeletions
  <1>5. BlockedState(e) \in RowStates /\ FailedState(e) \in RowStates
    BY <1>1 DEF BlockedState, FailedState, Request, RowStates, JobStates, BeforeRadarr,
                AfterRadarr, TerminalJobStates
  <1>6. \A s \in RowStates : Dispatch(s) \in Steps
    BY DEF Dispatch, Steps
  <1> QED BY <1>2, <1>3, <1>4, <1>5, <1>6

\* A request's record is replaced by another one.
LEMMA StoreTyped ==
    ASSUME TypeOK, NEW e \in Executors, NEW r \in Request,
           req' = [req EXCEPT ![e] = r]
    PROVE  req' \in [Executors -> Request]
  BY DEF TypeOK

\* A request whose step changes is still a request.
LEMMA StepTyped ==
    ASSUME NEW r \in Request, NEW p \in Steps
    PROVE  /\ [r EXCEPT !.pc = p] \in Request
           /\ \A s \in RowStates : [r EXCEPT !.state = s, !.pc = p] \in Request
           /\ \A t \in Torrents : [r EXCEPT !.pc = p, !.cur = t] \in Request
           /\ \A s \in RowStates, ready \in BOOLEAN :
                [r EXCEPT !.state = s, !.pc = p, !.ready = ready] \in Request
           /\ \A s \in RowStates, snap \in SUBSET Torrents :
                [r EXCEPT !.state = s, !.pc = p, !.snap = snap,
                          !.deleted = {}] \in Request
           /\ \A d \in SUBSET Torrents :
                [r EXCEPT !.deleted = d, !.aliased = TRUE, !.cur = NoTorrent,
                          !.pc = p] \in Request
  BY DEF Request

\* A write to the row leaves a row.
LEMMA RowTyped ==
    ASSUME TypeOK, NEW s \in RowStates, NEW d \in SUBSET Torrents
    PROVE  /\ [job EXCEPT !.state = s] \in JobRow
           /\ [job EXCEPT !.deleted = d] \in JobRow
           /\ [job EXCEPT !.state = s, !.deleted = d] \in JobRow
  BY DEF TypeOK, JobRow

\* Leaving the coordinator, and moving to another state, keep the types of
\* what they write.
LEMMA FinishTyped ==
    ASSUME TypeOK, NEW e \in Executors, NEW s \in RowStates, Finish(e, s)
    PROVE  /\ job' \in JobRow
           /\ req' \in [Executors -> Request]
           /\ active' \in Executors \cup {NoOne}
  BY WritesTyped, RowTyped DEF Finish, TypeOK

\* A step that blocks or fails a request keeps the types.
LEMMA BlockTyped ==
    ASSUME TypeOK, NEW e \in Executors, Block(e) \/ Fail(e)
    PROVE  /\ job' \in JobRow
           /\ req' \in [Executors -> Request]
           /\ active' \in Executors \cup {NoOne}
  BY WritesTyped, FinishTyped DEF Block, Fail

\* A step that moves a request to another state keeps the types.
LEMMA TransitionTyped ==
    ASSUME TypeOK, NEW e \in Executors, NEW s \in RowStates, NEW p \in Steps,
           Transition(e, s, p)
    PROVE  /\ job' \in JobRow
           /\ req' \in [Executors -> Request]
           /\ active' \in Executors \cup {NoOne}
  <1>1. req[e] \in Request
    BY DEF TypeOK
  <1>2. [req[e] EXCEPT !.state = s, !.pc = p] \in Request
    BY <1>1, StepTyped
  <1>3. req' \in [Executors -> Request]
    BY <1>2, StoreTyped DEF Transition
  <1> QED BY <1>3, WritesTyped, RowTyped DEF Transition, TypeOK

\* Every step of an admitted request keeps the types.
LEMMA WorkflowTyped ==
    ASSUME TypeOK, NEW e \in Executors, Workflow(e)
    PROVE  TypeOK'
  <1> USE DEF TypeOK, row, policy, world
  <1>0. req[e] \in Request
    OBVIOUS
  <1>1. CASE EnterWorkflow(e, radarr)
    <2> DEFINE s == IF req[e].state = "PENDING_APPROVAL" THEN "APPROVED"
                    ELSE req[e].state
    <2>1. s \in RowStates /\ Dispatch(s) \in Steps
      BY <1>0, StatesTyped, WritesTyped DEF Request, BeforeRadarr
    <2>2. job' \in JobRow
      BY <1>1, <2>1, WritesTyped, RowTyped DEF EnterWorkflow
    <2>3. [req[e] EXCEPT !.state = s, !.pc = Dispatch(s), !.ready = radarr] \in Request
      BY <1>0, <2>1, StepTyped
    <2>4. req' \in [Executors -> Request]
      BY <1>1, <2>3, StoreTyped DEF EnterWorkflow
    <2> QED BY <1>1, <2>2, <2>4 DEF EnterWorkflow
  <1>2. CASE RefuseRequest(e)
    BY <1>0, <1>2, WritesTyped DEF RefuseRequest
  <1>3. CASE CheckRevalidationGates(e)
    BY <1>0, <1>3, BlockTyped, StepTyped DEF CheckRevalidationGates, Steps
  <1>4. CASE LiveRevalidate(e)
    <2>1. PICK snap \in SUBSET Torrents, d \in SUBSET Torrents :
            /\ job' = [state |-> "REVALIDATED", snap |-> snap, deleted |-> d]
            /\ req' = [req EXCEPT ![e] = [@ EXCEPT !.state = "REVALIDATED",
                            !.pc = "radarr", !.snap = snap, !.deleted = {}]]
      BY <1>4, WritesTyped DEF LiveRevalidate
    <2>2. job' \in JobRow
      BY <2>1, StatesTyped DEF JobRow, BeforeRadarr
    <2>3. [req[e] EXCEPT !.state = "REVALIDATED", !.pc = "radarr", !.snap = snap,
                         !.deleted = {}] \in Request
      BY <1>0, StepTyped, StatesTyped DEF Steps, BeforeRadarr
    <2>4. req' \in [Executors -> Request]
      BY <2>1, <2>3, StoreTyped
    <2> QED BY <1>4, <2>2, <2>4 DEF LiveRevalidate
  <1>5. CASE EvidenceBlocks(e)
    BY <1>0, <1>5, BlockTyped DEF EvidenceBlocks
  <1>6. CASE RequestRadarrDelete(e)
    BY <1>0, <1>6, BlockTyped, TransitionTyped, StatesTyped
    DEF RequestRadarrDelete, Steps, BeforeRadarr
  <1>7. CASE RadarrDelete(e)
    BY <1>0, <1>7, StepTyped, StoreTyped DEF RadarrDelete, Steps
  <1>8. CASE RadarrDeleteSkipped(e)
    BY <1>0, <1>8, BlockTyped, StepTyped, StoreTyped
    DEF RadarrDeleteSkipped, Steps
  <1>9. CASE ConfirmRadarrDelete(e)
    <2>1. CASE Block(e) \/ Fail(e)
      BY <1>9, <2>1, BlockTyped DEF ConfirmRadarrDelete, EnsureExclusion
    <2>2. CASE EnsureExclusion(e) /\ UNCHANGED active
               /\ req' = [req EXCEPT ![e].pc = "radarrDone"]
      <3>1. [req[e] EXCEPT !.pc = "radarrDone"] \in Request
        BY <1>0, StepTyped DEF Steps
      <3>2. req' \in [Executors -> Request]
        BY <2>2, <3>1, StoreTyped
      <3>3. req[e].deleted \in SUBSET Torrents
        BY <1>0 DEF Request
      <3>4. job' \in JobRow
        BY <2>2, <3>3, WritesTyped, RowTyped, StatesTyped DEF EnsureExclusion, BeforeRadarr
      <3> QED BY <1>9, <2>2, <3>2, <3>4 DEF ConfirmRadarrDelete, EnsureExclusion
    <2> QED BY <1>9, <2>1, <2>2 DEF ConfirmRadarrDelete
  <1>10. CASE RecordRadarrDeleted(e)
    BY <1>0, <1>10, TransitionTyped, StatesTyped
    DEF RecordRadarrDeleted, Steps, AfterRadarr
  <1>11. CASE BlockAtTorrents(e)
    BY <1>0, <1>11, BlockTyped DEF BlockAtTorrents
  <1>12. CASE StartTorrentDeletes(e)
    <2> DEFINE s == IF req[e].snap = {} THEN "TORRENT_DELETED"
                    ELSE "TORRENT_DELETE_REQUESTED"
               p == IF req[e].snap = {} THEN "reconcile" ELSE "torrentLoop"
    <2>1. s \in RowStates
      BY StatesTyped DEF AfterRadarr
    <2>2. p \in Steps
      BY DEF Steps
    <2>3. WrittenDeletions(e, req[e].deleted) \subseteq SUBSET Torrents
      BY <1>0, WritesTyped DEF Request
    <2>4. PICK d \in WrittenDeletions(e, req[e].deleted) :
            job' = [job EXCEPT !.state = WrittenState(e, s), !.deleted = d]
      BY <1>12 DEF StartTorrentDeletes
    <2>5. job' \in JobRow
      BY <2>1, <2>4, <2>3, WritesTyped, RowTyped
    <2>6. [req[e] EXCEPT !.state = s, !.pc = p] \in Request
      BY <1>0, <2>1, <2>2, StepTyped
    <2>7. req' \in [Executors -> Request]
      BY <1>12, <2>6, StoreTyped DEF StartTorrentDeletes
    <2> QED BY <1>12, <2>5, <2>7 DEF StartTorrentDeletes
  <1>13. ASSUME NEW t \in Torrents, TorrentDelete(e, t) PROVE TypeOK'
    BY <1>0, <1>13, StepTyped, StoreTyped DEF TorrentDelete, Steps
  <1>14. CASE BlockTorrentDelete(e)
    BY <1>0, <1>14, BlockTyped DEF BlockTorrentDelete
  <1>15. ASSUME NEW t \in Torrents, ConfirmTorrentDelete(e, t) PROVE TypeOK'
    <2>1. CASE t \in present
      BY <1>15, <2>1, BlockTyped DEF ConfirmTorrentDelete
    <2>2. CASE t \notin present
      <3> DEFINE d == req[e].deleted \cup {t}
      <3>1. d \in SUBSET Torrents
        BY <1>0, <1>15 DEF Request
      <3>2. [req[e] EXCEPT !.deleted = d, !.aliased = TRUE, !.cur = NoTorrent,
                           !.pc = "torrentLoop"] \in Request
        BY <1>0, <3>1, StepTyped DEF Steps
      <3>3. req' \in [Executors -> Request]
        BY <1>15, <2>2, <3>2, StoreTyped DEF ConfirmTorrentDelete
      <3>4. job' \in JobRow
        BY <1>15, <2>2, <3>1, RowTyped, StatesTyped DEF ConfirmTorrentDelete, BeforeRadarr
      <3> QED BY <1>15, <2>2, <3>3, <3>4 DEF ConfirmTorrentDelete
    <2> QED BY <2>1, <2>2
  <1>16. CASE FinishTorrentDeletes(e)
    BY <1>0, <1>16, TransitionTyped, StatesTyped
    DEF FinishTorrentDeletes, Steps, AfterRadarr
  <1>17. CASE BlockAtReconcile(e)
    BY <1>0, <1>17, BlockTyped DEF BlockAtReconcile
  <1>18. CASE RequestPlexRefresh(e)
    <2> DEFINE s == IF req[e].state \in {"PLEX_REFRESH_REQUESTED", "PLEX_REFRESHED",
                                        "RECONCILE_REQUIRED"}
                    THEN req[e].state ELSE "PLEX_REFRESH_REQUESTED"
               p == "plexCall"
    <2>1. s \in RowStates
      BY <1>0, StatesTyped DEF AfterRadarr, Request
    <2>2. p \in Steps
      BY DEF Steps
    <2>3. WrittenDeletions(e, req[e].deleted) \subseteq SUBSET Torrents
      BY <1>0, WritesTyped DEF Request
    <2>4. PICK d \in WrittenDeletions(e, req[e].deleted) :
            job' = [job EXCEPT !.state = WrittenState(e, s), !.deleted = d]
      BY <1>18 DEF RequestPlexRefresh
    <2>5. job' \in JobRow
      BY <2>1, <2>4, <2>3, WritesTyped, RowTyped
    <2>6. [req[e] EXCEPT !.state = s, !.pc = p] \in Request
      BY <1>0, <2>1, <2>2, StepTyped
    <2>7. req' \in [Executors -> Request]
      BY <1>18, <2>6, StoreTyped DEF RequestPlexRefresh
    <2> QED BY <1>18, <2>5, <2>7 DEF RequestPlexRefresh
  <1>19. CASE RefreshPlex(e)
    <2> DEFINE s == "PLEX_REFRESHED"
               p == IF plexItem /\ PlexMatched THEN "stillListed" ELSE "absent"
    <2>1. s \in RowStates
      BY StatesTyped DEF AfterRadarr
    <2>2. p \in Steps
      BY DEF Steps
    <2>3. WrittenDeletions(e, req[e].deleted) \subseteq SUBSET Torrents
      BY <1>0, WritesTyped DEF Request
    <2>4. PICK d \in WrittenDeletions(e, req[e].deleted) :
            job' = [job EXCEPT !.state = WrittenState(e, s), !.deleted = d]
      BY <1>19 DEF RefreshPlex
    <2>5. job' \in JobRow
      BY <2>1, <2>4, <2>3, WritesTyped, RowTyped
    <2>6. [req[e] EXCEPT !.state = s, !.pc = p] \in Request
      BY <1>0, <2>1, <2>2, StepTyped
    <2>7. req' \in [Executors -> Request]
      BY <1>19, <2>6, StoreTyped DEF RefreshPlex
    <2> QED BY <1>19, <2>5, <2>7 DEF RefreshPlex
  <1>20. CASE SettleJob(e)
    BY <1>0, <1>20, FinishTyped, StatesTyped DEF SettleJob, AfterRadarr
  <1>21. CASE LookUpMovie(e)
    BY <1>0, <1>21, StepTyped, StoreTyped DEF LookUpMovie, Steps
  <1>22. CASE RadarrDeleteRefused(e)
    BY <1>0, <1>22, BlockTyped DEF RadarrDeleteRefused
  <1> QED BY <1>1, <1>2, <1>3, <1>4, <1>5, <1>6, <1>7, <1>8, <1>9, <1>10,
         <1>11, <1>12, <1>13, <1>14, <1>15, <1>16, <1>17, <1>18, <1>19, <1>20,
         <1>21, <1>22 DEF Workflow

\* So does asking for the coordinator.
LEMMA AdmissionTyped ==
    ASSUME TypeOK, NEW e \in Executors, Admission(e)
    PROVE  TypeOK'
  <1> USE DEF TypeOK, row, policy, world
  <1>0. req[e] \in Request
    OBVIOUS
  <1>1. ASSUME NEW kind \in {"execute", "reconcile"}, LoadJob(e, kind)
        PROVE  TypeOK'
    <2> DEFINE r == [Idle EXCEPT !.pc = "loaded", !.kind = kind,
                                 !.state = job.state, !.snap = job.snap,
                                 !.deleted = job.deleted]
    <2>1. r \in Request
      BY <1>1 DEF Idle, Request, JobRow
    <2>2. req' \in [Executors -> Request]
      BY <1>1, <2>1, StoreTyped DEF LoadJob
    <2> QED BY <1>1, <2>2 DEF LoadJob
  <1>2. CASE AcquireCoordinator(e)
    BY <1>0, <1>2, StepTyped DEF AcquireCoordinator, Steps
  <1>3. CASE SyncAlreadyRunning(e)
    BY <1>3, WritesTyped DEF SyncAlreadyRunning
  <1> QED BY <1>1, <1>2, <1>3 DEF Admission

\* So does whatever goes wrong in a request.
LEMMA MishapTyped ==
    ASSUME TypeOK, NEW e \in Executors, Mishap(e)
    PROVE  TypeOK'
  <1> USE DEF TypeOK, row, policy, world
  <1>0. req[e] \in Request
    OBVIOUS
  <1>1. CASE EnterUnhealthy(e)
    <2> DEFINE s == IF req[e].state = "PENDING_APPROVAL" THEN "APPROVED"
                    ELSE req[e].state
    <2>1. s \in RowStates /\ Dispatch(s) \in Steps
      BY <1>0, StatesTyped, WritesTyped DEF Request, BeforeRadarr
    <2>2. job' \in JobRow
      BY <1>1, <2>1, WritesTyped, RowTyped DEF EnterUnhealthy, EnterWorkflow
    <2>3. [req[e] EXCEPT !.state = s, !.pc = Dispatch(s), !.ready = FALSE] \in Request
      BY <1>0, <2>1, StepTyped
    <2>4. req' \in [Executors -> Request]
      BY <1>1, <2>3, StoreTyped DEF EnterUnhealthy, EnterWorkflow
    <2> QED BY <1>1, <2>2, <2>4 DEF EnterUnhealthy, EnterWorkflow
  <1>2. CASE RadarrDeleteIneffective(e)
    BY <1>0, <1>2, StepTyped DEF RadarrDeleteIneffective, Steps
  <1>3. ASSUME NEW t \in Torrents, TorrentDeleteIneffective(e, t)
        PROVE  TypeOK'
    BY <1>0, <1>3, StepTyped, StoreTyped DEF TorrentDeleteIneffective, Steps
  <1>4. CASE ReconcileBlocks(e)
    BY <1>4, BlockTyped DEF ReconcileBlocks
  <1>5. CASE ExternalStepFails(e)
    BY <1>5, BlockTyped DEF ExternalStepFails
  <1>6. CASE CrashRequest(e)
    BY <1>6, WritesTyped DEF CrashRequest
  <1> QED BY <1>1, <1>2, <1>3, <1>4, <1>5, <1>6 DEF Mishap

\* Membership is a Boolean: what a switch handler records of the queue.
LEMMA MembershipIsBoolean == ASSUME NEW x, NEW S PROVE (x \in S) \in BOOLEAN
  OBVIOUS

\* So do the administrative requests.
LEMMA AdministrationTyped ==
    ASSUME TypeOK, NEW a \in Admins, Administration(a)
    PROVE  TypeOK'
  <1> USE RowTyped, StatesTyped
      DEF TypeOK, row, policy, world, AdminOps, BeforeRadarr, RowStates, JobStates,
          TerminalJobStates
  <1>1. CASE LoadToApprove(a)
    BY <1>1 DEF LoadToApprove
  <1>2. CASE LoadToCancel(a)
    BY <1>2 DEF LoadToCancel
  <1>3. ASSUME NEW op \in {"radarrOff", "qbitOff", "lower", "raise"},
               LoadToSwitch(a, op)
        PROVE  TypeOK'
    <2>1. (job.state \in Queued) \in BOOLEAN
      BY MembershipIsBoolean
    <2>2. [op |-> op, hit |-> job.state \in Queued] \in [op : AdminOps, hit : BOOLEAN]
      BY <2>1
    <2> QED BY <1>3, <2>2 DEF LoadToSwitch
  <1>4. CASE ApproveMovieJob(a)
    BY <1>4 DEF ApproveMovieJob
  <1>5. CASE CancelMovieJob(a)
    BY <1>5 DEF CancelMovieJob
  <1>6. CASE SwitchRadarrOff(a)
    BY <1>6 DEF SwitchRadarrOff, InvalidateQueuedJobs
  <1>7. CASE SwitchQbitOff(a)
    BY <1>7 DEF SwitchQbitOff, InvalidateQueuedJobs
  <1>8. CASE LowerRollout(a)
    <2>1. job' \in JobRow
      BY <1>8 DEF LowerRollout, InvalidateQueuedJobs
    <2>2. adm' \in [Admins -> [op : AdminOps, hit : BOOLEAN]]
      <3>1. (IF adm[a].hit THEN "clear" ELSE "idle") \in AdminOps
        OBVIOUS
      <3> QED BY <1>8, <3>1 DEF LowerRollout
    <2>3. radarr' \in BOOLEAN /\ qbit' \in BOOLEAN
      BY <1>8 DEF LowerRollout
    <2> QED BY <1>8, <2>1, <2>2, <2>3 DEF LowerRollout
  <1>9. CASE ClearActiveManagement(a)
    BY <1>9 DEF ClearActiveManagement
  <1>10. CASE RaiseRollout(a)
    BY <1>10 DEF RaiseRollout, InvalidateQueuedJobs
  <1>11. CASE CrashAdmin(a)
    BY <1>11 DEF CrashAdmin
  <1> QED BY <1>1, <1>2, <1>3, <1>4, <1>5, <1>6, <1>7, <1>8, <1>9, <1>10, <1>11
          DEF Administration

\* TypeOK is an invariant.
THEOREM TypeCorrect == Spec => []TypeOK
  <1>1. Init => TypeOK
    <2>1. Idle \in Request
      BY DEF Idle, Request, RowStates
    <2>2. [state |-> "NONE", snap |-> {}, deleted |-> {}] \in JobRow
      BY DEF JobRow, RowStates
    <2>3. [op |-> "idle", hit |-> FALSE] \in [op : AdminOps, hit : BOOLEAN]
      BY DEF AdminOps
    <2> QED BY <2>1, <2>2, <2>3 DEF Init, TypeOK
  <1>2. TypeOK /\ [Next]_vars => TypeOK'
    <2> SUFFICES ASSUME TypeOK, [Next]_vars PROVE TypeOK'
      OBVIOUS
    <2> USE DEF TypeOK, row, policy, world
    <2>1. CASE CreateMovieJob
      BY <2>1, RowTyped, StatesTyped DEF CreateMovieJob, BeforeRadarr
    <2>2. ASSUME NEW e \in Executors, Admission(e) \/ Workflow(e) \/ Mishap(e)
          PROVE  TypeOK'
      BY <2>2, AdmissionTyped, WorkflowTyped, MishapTyped
    <2>3. ASSUME NEW a \in Admins, Administration(a)
          PROVE  TypeOK'
      BY <2>3, AdministrationTyped
    <2>4. CASE Drift
      BY <2>4 DEF Drift, RadarrEdited, RadarrSwitchedOn, QbitEdited, QbitSwitchedOn,
                  SyncRadarr, MovieChanges, TorrentVanishes
    <2>5. CASE PlexScan
      BY <2>5 DEF PlexScan
    <2>6. CASE UNCHANGED vars
      BY <2>6 DEF vars
    <2> QED BY <2>1, <2>2, <2>3, <2>4, <2>5, <2>6 DEF Next
  <1> QED BY <1>1, <1>2, PTL DEF Spec

-----------------------------------------------------------------------------
(***************************************************************************)
(* What every step preserves                                               *)
(***************************************************************************)
Lasting ==
    /\ RadarrSettled => RadarrSettled'
    /\ movie = "absent" /\ lifecycle # "ACTIVE" => lifecycle' # "ACTIVE"
    /\ present' \subseteq present

\* A settled Radarr, a lifecycle inactive for a missing movie and the absence
\* of a torrent last.
LEMMA NextLasting ==
    ASSUME TypeOK, Next
    PROVE  Lasting
  <1> USE DEF Lasting, RadarrSettled, TypeOK, world, row, policy
  <1>1. CASE CreateMovieJob
    BY <1>1 DEF CreateMovieJob
  <1>2. ASSUME NEW e \in Executors, Admission(e) PROVE Lasting
    BY <1>2 DEF Admission, LoadJob, AcquireCoordinator, SyncAlreadyRunning
  <1>3. ASSUME NEW e \in Executors, Workflow(e) PROVE Lasting
    BY <1>3 DEF Workflow, EnterWorkflow, RefuseRequest, CheckRevalidationGates,
       LiveRevalidate, EvidenceBlocks, RequestRadarrDelete, RadarrDelete, SameIdentity,
       LookUpMovie, RadarrDeleteRefused, RadarrDeleteSkipped, ConfirmRadarrDelete,
       EnsureExclusion, RecordRadarrDeleted,
       BlockAtTorrents, StartTorrentDeletes, TorrentDelete, BlockTorrentDelete,
       ConfirmTorrentDelete, FinishTorrentDeletes, BlockAtReconcile,
       RequestPlexRefresh, RefreshPlex, SettleJob
  <1>4. ASSUME NEW e \in Executors, Mishap(e) PROVE Lasting
    BY <1>4 DEF Mishap, EnterUnhealthy, EnterWorkflow, RadarrDeleteIneffective,
       TorrentDeleteIneffective, ReconcileBlocks, ExternalStepFails, CrashRequest
  <1>5. ASSUME NEW a \in Admins, Administration(a) PROVE Lasting
    BY <1>5 DEF Administration, LoadToApprove, LoadToCancel, LoadToSwitch,
       ApproveMovieJob, CancelMovieJob, SwitchRadarrOff, SwitchQbitOff, LowerRollout,
       ClearActiveManagement, RaiseRollout, CrashAdmin
  <1>6. CASE Drift \/ PlexScan
    BY <1>6 DEF Drift, RadarrEdited, RadarrSwitchedOn, QbitEdited, QbitSwitchedOn,
       SyncRadarr, MovieChanges, TorrentVanishes, PlexScan
  <1> QED BY <1>1, <1>2, <1>3, <1>4, <1>5, <1>6 DEF Next

\* So what a session holds stays true while its request stands still.
LEMMA StandsStill ==
    ASSUME TypeOK, Lasting, NEW r \in Request, SessionHolds(r)
    PROVE  SessionHolds(r)'
  BY DEF SessionHolds, Backed, RadarrSettled, Lasting

\* A request that holds nothing claims nothing.
LEMMA IdleHolds == SessionHolds(Idle)'
  BY DEF SessionHolds, Backed, Idle, AfterRadarr, AfterRadarrSteps, Steps

\* A step of the request that holds the coordinator, which keeps it.
LEMMA AdvanceSafe ==
    ASSUME TypeOK, Safe, Lasting,
           NEW e \in Executors, req[e].pc \in Steps,
           NEW r \in Request, r.pc \in Steps, req' = [req EXCEPT ![e] = r],
           SessionHolds(r)', active' = active,
           ProgressIsReal', TorrentsAfterRadarr', RecordedDeletionsHold'
    PROVE  Safe'
  <1>1. SessionsHold'
    <2> SUFFICES ASSUME NEW x \in Executors PROVE SessionHolds(req[x])'
      BY DEF SessionsHold
    <2>1. CASE x = e
      BY <2>1 DEF TypeOK
    <2>2. CASE x # e
      BY <2>2, StandsStill DEF TypeOK, Safe, SessionsHold
    <2> QED BY <2>1, <2>2
  <1>2. OneExecutor'
    BY DEF TypeOK, Safe, OneExecutor
  <1> QED BY <1>1, <1>2 DEF Safe
\* A step that ends the request and releases the coordinator.
LEMMA FinishSafe ==
    ASSUME TypeOK, Safe, Lasting,
           NEW e \in Executors, req[e].pc \in Steps,
           NEW s \in RowStates, Finish(e, s), Backed(s)', TorrentsAfterRadarr'
    PROVE  Safe'
  <1>1. SessionsHold'
    <2> SUFFICES ASSUME NEW x \in Executors PROVE SessionHolds(req[x])'
      BY DEF SessionsHold
    <2>1. CASE x = e
      BY <2>1, IdleHolds DEF TypeOK, Finish
    <2>2. CASE x # e
      BY <2>2, StandsStill DEF TypeOK, Safe, SessionsHold, Finish
    <2> QED BY <2>1, <2>2
  <1>2. OneExecutor'
    BY NoOneIsNoExecutor DEF TypeOK, Safe, OneExecutor, Finish, Idle, Steps
  <1>3. ProgressIsReal' /\ RecordedDeletionsHold'
    BY DEF TypeOK, JobRow, Safe, Lasting, ProgressIsReal, Backed, RecordedDeletionsHold,
           RadarrSettled, Finish, WrittenState
  <1> QED BY <1>1, <1>2, <1>3 DEF Safe

\* A request blocked or failed in mid-workflow leaves a true state.
LEMMA BlockedIsBacked ==
    ASSUME TypeOK, Safe, Lasting,
           NEW e \in Executors, req[e].pc \in Steps \ {"entry"},
           NEW s \in {BlockedState(e), FailedState(e)}
    PROVE  Backed(s)'
  <1>1. SessionHolds(req[e])
    BY DEF Safe, SessionsHold
  <1>2. BlockedState(e) \in AfterRadarr => req[e].state \in AfterRadarr
    BY <1>1 DEF BlockedState, SessionHolds, AfterRadarr, ExternalChangeStarted
  <1>3. FailedState(e) \in AfterRadarr => req[e].state \in AfterRadarr
    BY <1>1 DEF FailedState, SessionHolds, AfterRadarr
  <1>4. s \in AfterRadarr => RadarrSettled /\ lifecycle # "ACTIVE"
    BY <1>1, <1>2, <1>3 DEF SessionHolds, Backed
  <1> QED BY <1>4 DEF Backed, Lasting, RadarrSettled

\* A blocked or failed request leaves a row and a coordinator that are right.
LEMMA BlockSafe ==
    ASSUME TypeOK, Safe, Lasting,
           NEW e \in Executors, req[e].pc \in Steps \ {"entry"},
           Block(e) \/ Fail(e), removed' = removed
    PROVE  Safe'
  <1>1. TorrentsAfterRadarr'
    BY DEF Safe, TorrentsAfterRadarr, Lasting
  <1>2. PICK s \in {BlockedState(e), FailedState(e)} : Finish(e, s)
    BY DEF Block, Fail
  <1>3. s \in RowStates
    BY WritesTyped
  <1>4. Backed(s)'
    BY BlockedIsBacked
  <1> QED BY <1>1, <1>2, <1>3, <1>4, FinishSafe

\* What a step writes to the row holds when what it writes does.
LEMMA WriteSafe ==
    ASSUME TypeOK, Safe, Lasting, NEW e \in Executors, NEW s, Backed(s)',
           job'.state = WrittenState(e, s),
           job'.deleted \in WrittenDeletions(e, req[e].deleted) \cup {job.deleted}
    PROVE  ProgressIsReal' /\ RecordedDeletionsHold'
  BY DEF Safe, SessionsHold, SessionHolds, WrittenState, WrittenDeletions, Lasting,
         ProgressIsReal, Backed, RadarrSettled, RecordedDeletionsHold

\* A step that leaves the row alone keeps it true.
LEMMA RowStandsStill ==
    ASSUME TypeOK, Safe, Lasting, job' = job
    PROVE  ProgressIsReal' /\ RecordedDeletionsHold'
  BY DEF Safe, Lasting, ProgressIsReal, Backed, RadarrSettled, RecordedDeletionsHold

\* Nothing but a torrent deletion adds to the torrents removed.
LEMMA RemovedStandsStill ==
    ASSUME Safe, Lasting, removed' = removed
    PROVE  TorrentsAfterRadarr'
  BY DEF Safe, Lasting, TorrentsAfterRadarr

\* A job is dispatched to the steps after Radarr's only from their states.
LEMMA DispatchAfterRadarr ==
    ASSUME NEW s \in ExecutableJobStates \ {"PENDING_APPROVAL"}
    PROVE  /\ Dispatch(s) \in Steps \ {"entry", "radarrDone"}
           /\ Dispatch(s) \in AfterRadarrSteps => s \in AfterRadarr
  BY DEF Dispatch, Steps, AfterRadarrSteps, ExecutableJobStates, BeforeRadarr,
         AfterRadarr, TerminalJobStates

\* A step that changes nothing of its request but the step it is at.
LEMMA PcSafe ==
    ASSUME TypeOK, Safe, Lasting,
           NEW e \in Executors, req[e].pc \in Steps \ {"entry"},
           NEW p \in Steps, req' = [req EXCEPT ![e].pc = p],
           p = "radarrDone" => RadarrSettled',
           p \in AfterRadarrSteps <=> req[e].pc \in AfterRadarrSteps,
           active' = active,
           ProgressIsReal', TorrentsAfterRadarr', RecordedDeletionsHold'
    PROVE  Safe'
  <1>1. req[e] \in Request /\ SessionHolds(req[e])
    BY DEF TypeOK, Safe, SessionsHold
  <1>2. PICK r : r = [req[e] EXCEPT !.pc = p]
    OBVIOUS
  <1>3. r \in Request /\ req' = [req EXCEPT ![e] = r]
    BY <1>1, <1>2, StepTyped
  <1>4. /\ r.pc = p /\ r.state = req[e].state /\ r.kind = req[e].kind
        /\ r.deleted = req[e].deleted
    BY <1>1, <1>2 DEF Request
  <1>5. SessionHolds(r)'
    BY <1>1, <1>4 DEF SessionHolds, Backed, RadarrSettled, Lasting
  <1> QED BY <1>3, <1>4, <1>5, AdvanceSafe

-----------------------------------------------------------------------------
(***************************************************************************)
(* Every step is safe                                                      *)
(***************************************************************************)
LEMMA EnterSafe ==
    ASSUME TypeOK, Safe, Lasting, NEW e \in Executors, NEW ready \in BOOLEAN,
           EnterWorkflow(e, ready)
    PROVE  Safe'
  <1>1. PICK s : s = IF req[e].state = "PENDING_APPROVAL" THEN "APPROVED"
                     ELSE req[e].state
    OBVIOUS
  <1>2. req[e] \in Request /\ SessionHolds(req[e])
    BY DEF TypeOK, Safe, SessionsHold
  <1>3. s \in ExecutableJobStates \ {"PENDING_APPROVAL"}
    BY <1>1 DEF EnterWorkflow, ExecutableJobStates, BeforeRadarr, AfterRadarr,
                TerminalJobStates
  <1>4. Dispatch(s) \in Steps /\ s \in RowStates
    BY <1>3, DispatchAfterRadarr, StatesTyped
  <1>5. s \in AfterRadarr => s = req[e].state
    BY <1>1 DEF AfterRadarr
  <1>6. Backed(s)'
    BY <1>2, <1>5 DEF SessionHolds, Backed, RadarrSettled, Lasting
  <1>7. PICK r : r = [req[e] EXCEPT !.state = s, !.pc = Dispatch(s), !.ready = ready]
    OBVIOUS
  <1>8. r \in Request /\ req' = [req EXCEPT ![e] = r]
    BY <1>1, <1>2, <1>4, <1>7, StepTyped DEF EnterWorkflow
  <1>9. /\ r.pc = Dispatch(s) /\ r.state = s /\ r.kind = req[e].kind
        /\ r.deleted = req[e].deleted
    BY <1>2, <1>7 DEF Request
  <1>10. r.kind = "reconcile" => r.pc \in AfterRadarrSteps
    BY <1>1, <1>2, <1>9 DEF EnterWorkflow, Dispatch, AfterRadarrSteps, Request
  <1>11. SessionHolds(r)'
    BY <1>2, <1>3, <1>6, <1>9, <1>10, DispatchAfterRadarr DEF SessionHolds, Lasting
  <1>12. job' = [job EXCEPT !.state = WrittenState(e, s)]
    BY <1>1 DEF EnterWorkflow
  <1>13. ProgressIsReal' /\ RecordedDeletionsHold'
    BY <1>6, <1>12, WriteSafe DEF TypeOK, JobRow
  <1>14. TorrentsAfterRadarr'
    BY RemovedStandsStill DEF EnterWorkflow, world
  <1> QED BY <1>4, <1>8, <1>9, <1>11, <1>13, <1>14, AdvanceSafe DEF EnterWorkflow, Steps

\* A refused request releases the coordinator and claims nothing.
LEMMA RefuseSafe ==
    ASSUME TypeOK, Safe, Lasting, NEW e \in Executors, RefuseRequest(e)
    PROVE  Safe'
  <1>1. PICK s : s = req[e].state
    OBVIOUS
  <1>2. s \in RowStates /\ Finish(e, s)
    BY <1>1 DEF TypeOK, JobRow, Request, RefuseRequest, Finish, WrittenState, row
  <1>3. Backed(s)'
    BY <1>1 DEF Safe, SessionsHold, SessionHolds, Backed, RadarrSettled, Lasting
  <1>4. TorrentsAfterRadarr' /\ req[e].pc \in Steps
    BY RemovedStandsStill DEF RefuseRequest, world, Steps
  <1> QED BY <1>2, <1>3, <1>4, FinishSafe

\* A revalidation starts the deletion over, and records none.
LEMMA RevalidateSafe ==
    ASSUME TypeOK, Safe, Lasting, NEW e \in Executors, LiveRevalidate(e)
    PROVE  Safe'
  <1>1. PICK snap \in SUBSET present, d \in WrittenDeletions(e, {}) :
          /\ job' = [state |-> "REVALIDATED", snap |-> snap, deleted |-> d]
          /\ req' = [req EXCEPT ![e] = [@ EXCEPT !.state = "REVALIDATED",
                            !.pc = "radarr", !.snap = snap, !.deleted = {}]]
    BY DEF LiveRevalidate
  <1>2. req[e] \in Request /\ SessionHolds(req[e]) /\ req[e].pc = "evidence"
    BY DEF TypeOK, Safe, SessionsHold, LiveRevalidate
  <1>3. PICK r : r = [req[e] EXCEPT !.state = "REVALIDATED", !.pc = "radarr",
                                    !.snap = snap, !.deleted = {}]
    OBVIOUS
  <1>4. r \in Request /\ req' = [req EXCEPT ![e] = r]
    BY <1>1, <1>2, <1>3, StepTyped, StatesTyped DEF TypeOK, Steps, BeforeRadarr
  <1>5. r.pc = "radarr" /\ r.state = "REVALIDATED" /\ r.kind = req[e].kind /\ r.deleted = {}
    BY <1>2, <1>3 DEF Request
  <1>6. SessionHolds(r)'
    BY <1>2, <1>5 DEF SessionHolds, Backed, AfterRadarr, AfterRadarrSteps, Steps
  <1>7. ProgressIsReal'
    BY <1>1 DEF ProgressIsReal, Backed, AfterRadarr
  <1>8. RecordedDeletionsHold'
    BY <1>1 DEF Safe, RecordedDeletionsHold, WrittenDeletions, Lasting
  <1>9. TorrentsAfterRadarr'
    BY RemovedStandsStill DEF LiveRevalidate, world
  <1> QED BY <1>2, <1>4, <1>5, <1>6, <1>7, <1>8, <1>9, AdvanceSafe
          DEF LiveRevalidate, Steps

\* Transition to a state that is backed, on the same side of Radarr's deletion.
LEMMA TransitionSafe ==
    ASSUME TypeOK, Safe, Lasting,
           NEW e \in Executors, req[e].pc \in Steps \ {"entry"},
           NEW s \in RowStates, NEW p \in Steps \ {"entry", "radarrDone"},
           job'.state = WrittenState(e, s),
           job'.deleted \in WrittenDeletions(e, req[e].deleted) \cup {job.deleted},
           req' = [req EXCEPT ![e] = [@ EXCEPT !.state = s, !.pc = p]],
           active' = active, removed' = removed, Backed(s)',
           p \in AfterRadarrSteps => s \in AfterRadarr,
           req[e].pc \in AfterRadarrSteps => p \in AfterRadarrSteps
    PROVE  Safe'
  <1>1. req[e] \in Request /\ SessionHolds(req[e])
    BY DEF TypeOK, Safe, SessionsHold
  <1>2. PICK r : r = [req[e] EXCEPT !.state = s, !.pc = p]
    OBVIOUS
  <1>3. r \in Request /\ req' = [req EXCEPT ![e] = r]
    BY <1>1, <1>2, StepTyped
  <1>4. /\ r.pc = p /\ r.state = s /\ r.kind = req[e].kind
        /\ r.deleted = req[e].deleted
    BY <1>1, <1>2 DEF Request
  <1>5. SessionHolds(r)'
    BY <1>1, <1>4 DEF SessionHolds, Lasting
  <1>6. ProgressIsReal' /\ RecordedDeletionsHold' /\ TorrentsAfterRadarr'
    BY WriteSafe, RemovedStandsStill
  <1> QED BY <1>3, <1>4, <1>5, <1>6, AdvanceSafe

\* The steps of the Radarr deletion.
LEMMA RadarrSafe ==
    ASSUME TypeOK, Safe, Lasting, NEW e \in Executors,
           \/ CheckRevalidationGates(e) \/ EvidenceBlocks(e) \/ RequestRadarrDelete(e)
           \/ RadarrDelete(e) \/ RadarrDeleteSkipped(e) \/ RadarrDeleteIneffective(e)
           \/ LookUpMovie(e) \/ RadarrDeleteRefused(e)
           \/ ConfirmRadarrDelete(e) \/ RecordRadarrDeleted(e)
    PROVE  Safe'
  <1> USE DEF world, row
  <1>1. CASE CheckRevalidationGates(e)
    <2>1. CASE Block(e)
      BY <1>1, <2>1, BlockSafe DEF CheckRevalidationGates, Steps
    <2>2. CASE req' = [req EXCEPT ![e].pc = "evidence"] /\ UNCHANGED <<job, active>>
      BY <1>1, <2>2, PcSafe, RowStandsStill, RemovedStandsStill
         DEF CheckRevalidationGates, Steps, AfterRadarrSteps
    <2> QED BY <1>1, <2>1, <2>2 DEF CheckRevalidationGates
  <1>2. CASE EvidenceBlocks(e)
    BY <1>2, BlockSafe DEF EvidenceBlocks, Steps
  <1>3. CASE RequestRadarrDelete(e)
    <2>1. CASE Block(e)
      BY <1>3, <2>1, BlockSafe DEF RequestRadarrDelete, Steps
    <2>2. CASE Transition(e, "RADARR_DELETE_REQUESTED", "radarrCall")
      <3>1. Backed("RADARR_DELETE_REQUESTED")'
        BY DEF Backed, AfterRadarr
      <3>2. job'.state = WrittenState(e, "RADARR_DELETE_REQUESTED")
            /\ job'.deleted = job.deleted
        BY <2>2 DEF Transition, TypeOK, JobRow
      <3>3. "RADARR_DELETE_REQUESTED" \in RowStates
        BY StatesTyped DEF BeforeRadarr
      <3> QED BY <1>3, <2>2, <3>1, <3>2, <3>3, TransitionSafe
              DEF RequestRadarrDelete, Transition, Steps, AfterRadarrSteps
    <2> QED BY <1>3, <2>1, <2>2 DEF RequestRadarrDelete
  <1>4. CASE LookUpMovie(e) \/ RadarrDelete(e) \/ RadarrDeleteIneffective(e)
    BY <1>4, PcSafe, RowStandsStill, RemovedStandsStill
       DEF LookUpMovie, RadarrDelete, RadarrDeleteIneffective, Steps, AfterRadarrSteps
  <1>5. CASE RadarrDeleteSkipped(e)
    <2>1. CASE Block(e)
      BY <1>5, <2>1, BlockSafe DEF RadarrDeleteSkipped, Steps
    <2>2. CASE req' = [req EXCEPT ![e].pc = "radarrConfirm"] /\ UNCHANGED <<job, active>>
      BY <1>5, <2>2, PcSafe, RowStandsStill, RemovedStandsStill
         DEF RadarrDeleteSkipped, Steps, AfterRadarrSteps
    <2> QED BY <1>5, <2>1, <2>2 DEF RadarrDeleteSkipped
  <1>6. CASE ConfirmRadarrDelete(e)
    <2>1. CASE Block(e) \/ Fail(e)
      BY <1>6, <2>1, BlockSafe DEF ConfirmRadarrDelete, Steps
    <2>2. CASE /\ movie = "absent" /\ EnsureExclusion(e) /\ UNCHANGED active
               /\ req' = [req EXCEPT ![e].pc = "radarrDone"]
      <3>1. RadarrSettled'
        BY <1>6, <2>2 DEF ConfirmRadarrDelete, EnsureExclusion, RadarrSettled
      <3>2. PICK d \in WrittenDeletions(e, req[e].deleted) :
              job' = [job EXCEPT !.deleted = d]
        BY <2>2 DEF EnsureExclusion
      <3>3. job'.state = job.state /\ job'.deleted = d
        BY <3>2 DEF TypeOK, JobRow
      <3>4. ProgressIsReal'
        BY <3>3 DEF Safe, ProgressIsReal, Backed, Lasting, RadarrSettled
      <3>5. RecordedDeletionsHold'
        BY <3>2, <3>3 DEF Safe, SessionsHold, SessionHolds, RecordedDeletionsHold,
                          WrittenDeletions, Lasting
      <3> QED BY <1>6, <2>2, <3>1, <3>4, <3>5, PcSafe, RemovedStandsStill
              DEF ConfirmRadarrDelete, Steps, AfterRadarrSteps
    <2> QED BY <1>6, <2>1, <2>2 DEF ConfirmRadarrDelete
  <1>7. CASE RecordRadarrDeleted(e)
    <2>1. Backed("RADARR_DELETED")'
      BY <1>7 DEF RecordRadarrDeleted, Backed, Safe, SessionsHold, SessionHolds, Lasting
    <2>2. job'.state = WrittenState(e, "RADARR_DELETED") /\ job'.deleted = job.deleted
      BY <1>7 DEF RecordRadarrDeleted, Transition, TypeOK, JobRow
    <2>3. "RADARR_DELETED" \in RowStates
      BY StatesTyped DEF AfterRadarr
    <2> QED BY <1>7, <2>1, <2>2, <2>3, TransitionSafe
            DEF RecordRadarrDeleted, Transition, Steps, AfterRadarr, AfterRadarrSteps
  <1>8. CASE RadarrDeleteRefused(e)
    BY <1>8, BlockSafe DEF RadarrDeleteRefused, Steps
  <1> QED BY <1>1, <1>2, <1>3, <1>4, <1>5, <1>6, <1>7, <1>8

\* The steps of the torrent deletions.  They start only in a state after
\* Radarr's deletion, which is why no torrent goes before it.
LEMMA TorrentsSafe ==
    ASSUME TypeOK, Safe, Lasting, NEW e \in Executors,
           \/ BlockAtTorrents(e) \/ StartTorrentDeletes(e) \/ BlockTorrentDelete(e)
           \/ FinishTorrentDeletes(e)
           \/ \E t \in Torrents : \/ TorrentDelete(e, t) \/ ConfirmTorrentDelete(e, t)
                                  \/ TorrentDeleteIneffective(e, t)
    PROVE  Safe'
  <1> USE DEF world, row
  <1>0. req[e] \in Request /\ SessionHolds(req[e])
    BY DEF TypeOK, Safe, SessionsHold
  <1>1. CASE BlockAtTorrents(e) \/ BlockTorrentDelete(e)
    BY <1>1, BlockSafe DEF BlockAtTorrents, BlockTorrentDelete, Steps
  <1>2. CASE StartTorrentDeletes(e)
    <2>1. PICK s, p : /\ s = IF req[e].snap = {} THEN "TORRENT_DELETED"
                             ELSE "TORRENT_DELETE_REQUESTED"
                      /\ p = IF req[e].snap = {} THEN "reconcile" ELSE "torrentLoop"
      OBVIOUS
    <2>2. /\ s \in RowStates /\ s \in AfterRadarr
          /\ p \in Steps \ {"entry", "radarrDone"} /\ p \in AfterRadarrSteps
      BY <2>1, StatesTyped DEF AfterRadarr, Steps, AfterRadarrSteps
    <2>3. PICK d \in WrittenDeletions(e, req[e].deleted) :
            job' = [job EXCEPT !.state = WrittenState(e, s), !.deleted = d]
      BY <1>2, <2>1 DEF StartTorrentDeletes
    <2>4. job'.state = WrittenState(e, s) /\ job'.deleted = d
      BY <2>3 DEF TypeOK, JobRow
    <2>5. req[e].state \in AfterRadarr
      BY <1>0, <1>2 DEF StartTorrentDeletes, SessionHolds, AfterRadarrSteps
    <2>6. Backed(s)'
      BY <1>0, <2>5 DEF SessionHolds, Backed, RadarrSettled, Lasting
    <2>7. req' = [req EXCEPT ![e] = [@ EXCEPT !.state = s, !.pc = p]]
      BY <1>2, <2>1 DEF StartTorrentDeletes
    <2> QED BY <1>2, <2>2, <2>3, <2>4, <2>6, <2>7, TransitionSafe
            DEF StartTorrentDeletes, Steps
  <1>3. ASSUME NEW t \in Torrents, TorrentDelete(e, t) \/ TorrentDeleteIneffective(e, t)
        PROVE  Safe'
    <2>1. PICK r : r = [req[e] EXCEPT !.pc = "torrentConfirm", !.cur = t]
      OBVIOUS
    <2>2. r \in Request /\ req' = [req EXCEPT ![e] = r]
      BY <1>0, <1>3, <2>1, StepTyped DEF TorrentDelete, TorrentDeleteIneffective, Steps
    <2>3. /\ r.pc = "torrentConfirm" /\ r.state = req[e].state
          /\ r.kind = req[e].kind /\ r.deleted = req[e].deleted
      BY <1>0, <2>1 DEF Request
    <2>4. req[e].pc = "torrentLoop" /\ req[e].state \in AfterRadarr
      BY <1>0, <1>3 DEF TorrentDelete, TorrentDeleteIneffective, SessionHolds,
                        AfterRadarrSteps
    <2>5. SessionHolds(r)'
      BY <1>0, <2>3, <2>4 DEF SessionHolds, Backed, RadarrSettled, Lasting,
                              AfterRadarrSteps
    <2>6. TorrentsAfterRadarr'
      BY <1>0, <2>4 DEF SessionHolds, Backed, Lasting, TorrentsAfterRadarr
    <2> QED BY <1>3, <2>2, <2>3, <2>4, <2>5, <2>6, AdvanceSafe, RowStandsStill
            DEF TorrentDelete, TorrentDeleteIneffective, Steps
  <1>4. ASSUME NEW t \in Torrents, ConfirmTorrentDelete(e, t)
        PROVE  Safe'
    <2>1. CASE t \in present
      BY <1>4, <2>1, BlockSafe DEF ConfirmTorrentDelete, Steps
    <2>2. CASE t \notin present
      <3>1. PICK d, r : /\ d = req[e].deleted \cup {t}
                        /\ r = [req[e] EXCEPT !.deleted = d, !.aliased = TRUE,
                                      !.cur = NoTorrent, !.pc = "torrentLoop"]
        OBVIOUS
      <3>2. d \in SUBSET Torrents /\ d \cap present = {}
        BY <1>0, <2>2, <3>1 DEF Request, SessionHolds
      <3>3. r \in Request /\ req' = [req EXCEPT ![e] = r]
        BY <1>0, <1>4, <2>2, <3>1, <3>2, StepTyped DEF ConfirmTorrentDelete, Steps
      <3>4. /\ r.pc = "torrentLoop" /\ r.state = req[e].state
            /\ r.kind = req[e].kind /\ r.deleted = d
        BY <1>0, <3>1 DEF Request
      <3>5. SessionHolds(r)'
        BY <1>0, <1>4, <3>2, <3>4 DEF ConfirmTorrentDelete, SessionHolds, Backed,
           RadarrSettled, Lasting, AfterRadarrSteps, Steps
      <3>6. job'.state = job.state /\ job'.deleted \in {job.deleted, d}
        BY <1>4, <2>2, <3>1 DEF ConfirmTorrentDelete, TypeOK, JobRow
      <3>7. ProgressIsReal' /\ RecordedDeletionsHold' /\ TorrentsAfterRadarr'
        BY <1>4, <3>2, <3>6 DEF ConfirmTorrentDelete, Safe, ProgressIsReal, Backed,
           RecordedDeletionsHold, TorrentsAfterRadarr, RadarrSettled, Lasting
      <3> QED BY <1>4, <2>2, <3>3, <3>4, <3>5, <3>7, AdvanceSafe
              DEF ConfirmTorrentDelete, Steps
    <2> QED BY <2>1, <2>2
  <1>5. CASE FinishTorrentDeletes(e)
    <2>1. "TORRENT_DELETED" \in RowStates /\ "TORRENT_DELETED" \in AfterRadarr
      BY StatesTyped DEF AfterRadarr
    <2>2. Backed("TORRENT_DELETED")'
      BY <1>0, <1>5 DEF FinishTorrentDeletes, SessionHolds, Backed, RadarrSettled,
                        Lasting, AfterRadarrSteps
    <2>3. job'.state = WrittenState(e, "TORRENT_DELETED") /\ job'.deleted = job.deleted
      BY <1>5 DEF FinishTorrentDeletes, Transition, TypeOK, JobRow
    <2> QED BY <1>5, <2>1, <2>2, <2>3, TransitionSafe
            DEF FinishTorrentDeletes, Transition, Steps, AfterRadarrSteps
  <1> QED BY <1>1, <1>2, <1>3, <1>4, <1>5

\* The steps of the reconciliation with Plex.
LEMMA ReconcileSafe ==
    ASSUME TypeOK, Safe, Lasting, NEW e \in Executors,
           \/ BlockAtReconcile(e) \/ ReconcileBlocks(e) \/ RequestPlexRefresh(e)
           \/ RefreshPlex(e) \/ SettleJob(e)
    PROVE  Safe'
  <1> USE DEF world, row
  <1>0. req[e] \in Request /\ SessionHolds(req[e])
    BY DEF TypeOK, Safe, SessionsHold
  <1>1. CASE BlockAtReconcile(e) \/ ReconcileBlocks(e)
    BY <1>1, BlockSafe DEF BlockAtReconcile, ReconcileBlocks, Steps
  <1>2. ASSUME NEW s \in AfterRadarr, req[e].pc \in AfterRadarrSteps
        PROVE  Backed(s)'
    BY <1>0, <1>2 DEF SessionHolds, Backed, RadarrSettled, Lasting
  <1>3. CASE RequestPlexRefresh(e)
    <2>1. PICK s : s = IF req[e].state \in {"PLEX_REFRESH_REQUESTED",
                             "PLEX_REFRESHED", "RECONCILE_REQUIRED"}
                       THEN req[e].state ELSE "PLEX_REFRESH_REQUESTED"
      OBVIOUS
    <2>2. s \in RowStates /\ s \in AfterRadarr
      BY <2>1, StatesTyped DEF AfterRadarr
    <2>3. /\ \E d \in WrittenDeletions(e, req[e].deleted) :
               job' = [job EXCEPT !.state = WrittenState(e, s), !.deleted = d]
          /\ req' = [req EXCEPT ![e] = [@ EXCEPT !.state = s, !.pc = "plexCall"]]
      BY <1>3, <2>1, Zenon DEF RequestPlexRefresh
    <2>4. PICK d \in WrittenDeletions(e, req[e].deleted) :
            job' = [job EXCEPT !.state = WrittenState(e, s), !.deleted = d]
      BY <2>3
    <2>5. job'.state = WrittenState(e, s) /\ job'.deleted = d
      BY <2>4 DEF TypeOK, JobRow
    <2> QED BY <1>2, <1>3, <2>2, <2>3, <2>5, TransitionSafe
            DEF RequestPlexRefresh, Steps, AfterRadarrSteps
  <1>4. CASE RefreshPlex(e)
    <2>1. PICK p : p = IF plexItem /\ PlexMatched THEN "stillListed" ELSE "absent"
      OBVIOUS
    <2>2. "PLEX_REFRESHED" \in RowStates /\ "PLEX_REFRESHED" \in AfterRadarr
      BY StatesTyped DEF AfterRadarr
    <2>3. PICK d \in WrittenDeletions(e, req[e].deleted) :
            job' = [job EXCEPT !.state = WrittenState(e, "PLEX_REFRESHED"), !.deleted = d]
      BY <1>4 DEF RefreshPlex
    <2>4. job'.state = WrittenState(e, "PLEX_REFRESHED") /\ job'.deleted = d
      BY <2>3 DEF TypeOK, JobRow
    <2>5. req' = [req EXCEPT ![e] = [@ EXCEPT !.state = "PLEX_REFRESHED", !.pc = p]]
      BY <1>4, <2>1 DEF RefreshPlex
    <2> QED BY <1>2, <1>4, <2>1, <2>2, <2>3, <2>4, <2>5, TransitionSafe
            DEF RefreshPlex, Steps, AfterRadarrSteps
  <1>5. CASE SettleJob(e)
    <2>1. PICK s \in {"COMPLETED", "RECONCILE_REQUIRED"} : Finish(e, s)
      BY <1>5 DEF SettleJob
    <2>2. s \in RowStates /\ s \in AfterRadarr
      BY StatesTyped DEF AfterRadarr
    <2> QED BY <1>2, <1>5, <2>1, <2>2, FinishSafe, RemovedStandsStill
            DEF SettleJob, Steps, AfterRadarrSteps
  <1> QED BY <1>1, <1>3, <1>4, <1>5

\* Asking for the coordinator, and the failures.
LEMMA RequestSafe ==
    ASSUME TypeOK, Safe, Lasting, NEW e \in Executors,
           Admission(e) \/ EnterUnhealthy(e) \/ ExternalStepFails(e) \/ CrashRequest(e)
    PROVE  Safe'
  <1> USE DEF world, row
  <1>1. ASSUME NEW kind \in {"execute", "reconcile"}, LoadJob(e, kind)
        PROVE  Safe'
    <2>1. PICK r : r = [Idle EXCEPT !.pc = "loaded", !.kind = kind,
                                 !.state = job.state, !.snap = job.snap,
                                 !.deleted = job.deleted]
      OBVIOUS
    <2>2. r.pc = "loaded" /\ r.state = job.state /\ r.deleted = job.deleted
      BY <2>1 DEF Idle
    <2>3. req' = [req EXCEPT ![e] = r]
      BY <1>1, <2>1 DEF LoadJob
    <2>4. SessionHolds(r)'
      BY <2>2 DEF Safe, SessionHolds, ProgressIsReal, Backed, RadarrSettled,
                  RecordedDeletionsHold, Lasting, AfterRadarrSteps, Steps
    <2>5. SessionsHold'
      <3> SUFFICES ASSUME NEW x \in Executors PROVE SessionHolds(req[x])'
        BY DEF SessionsHold
      <3>1. CASE x = e
        BY <2>3, <2>4, <3>1 DEF TypeOK
      <3>2. CASE x # e
        BY <2>3, <3>2, StandsStill DEF TypeOK, Safe, SessionsHold
      <3> QED BY <3>1, <3>2
    <2>6. OneExecutor'
      BY <1>1, <2>2, <2>3 DEF LoadJob, TypeOK, Safe, OneExecutor, Steps
    <2> QED BY <1>1, <2>5, <2>6, RowStandsStill, RemovedStandsStill DEF LoadJob, Safe
  <1>2. CASE AcquireCoordinator(e)
    <2>1. SessionsHold'
      <3> SUFFICES ASSUME NEW x \in Executors PROVE SessionHolds(req[x])'
        BY DEF SessionsHold
      <3>1. SessionHolds(req[x]) /\ req[x] \in Request
        BY DEF Safe, SessionsHold, TypeOK
      <3>2. CASE x = e
        <4>1. /\ req'[x].pc = "entry" /\ req'[x].state = req[x].state
              /\ req'[x].deleted = req[x].deleted
          BY <1>2, <3>1, <3>2 DEF AcquireCoordinator, TypeOK, Request
        <4> QED BY <3>1, <4>1 DEF SessionHolds, Backed, RadarrSettled, Lasting,
                                  AfterRadarrSteps
      <3>3. CASE x # e
        BY <1>2, <3>1, <3>3, StandsStill DEF AcquireCoordinator, TypeOK
      <3> QED BY <3>2, <3>3
    <2>2. OneExecutor'
      BY <1>2, NoOneIsNoExecutor DEF AcquireCoordinator, TypeOK, Request, Safe,
                                     OneExecutor, Steps
    <2> QED BY <1>2, <2>1, <2>2, RowStandsStill, RemovedStandsStill
            DEF AcquireCoordinator, Safe
  <1>3. CASE SyncAlreadyRunning(e) \/ CrashRequest(e)
    <2>1. SessionsHold'
      <3> SUFFICES ASSUME NEW x \in Executors PROVE SessionHolds(req[x])'
        BY DEF SessionsHold
      <3>1. CASE x = e
        BY <1>3, <3>1, IdleHolds DEF SyncAlreadyRunning, CrashRequest, TypeOK
      <3>2. CASE x # e
        BY <1>3, <3>2, StandsStill DEF SyncAlreadyRunning, CrashRequest, TypeOK,
                                       Safe, SessionsHold
      <3> QED BY <3>1, <3>2
    <2>2. OneExecutor'
      BY <1>3, NoOneIsNoExecutor DEF SyncAlreadyRunning, CrashRequest, TypeOK, Idle,
                                     Safe, OneExecutor, Steps
    <2> QED BY <1>3, <2>1, <2>2, RowStandsStill, RemovedStandsStill
            DEF SyncAlreadyRunning, CrashRequest, Safe
  <1>4. CASE EnterUnhealthy(e)
    BY <1>4, EnterSafe DEF EnterUnhealthy
  <1>5. CASE ExternalStepFails(e)
    BY <1>5, BlockSafe DEF ExternalStepFails, Calling, Steps
  <1> QED BY <1>1, <1>2, <1>3, <1>4, <1>5 DEF Admission

\* No administrative request writes a state after Radarr.
LEMMA AdministrationSafe ==
    ASSUME TypeOK, Safe, Lasting,
           CreateMovieJob \/ \E a \in Admins : Administration(a)
    PROVE  Safe'
  <1>1. UNCHANGED <<active, req, removed>>
    BY DEF CreateMovieJob, Administration, LoadToApprove, LoadToCancel, LoadToSwitch,
       ApproveMovieJob, CancelMovieJob, SwitchRadarrOff, SwitchQbitOff, LowerRollout,
       ClearActiveManagement, RaiseRollout, CrashAdmin, world, row
  <1>2. \/ job' = job
        \/ \E s \in {"PENDING_APPROVAL", "APPROVED", "CANCELLED"} :
             job' = [job EXCEPT !.state = s]
    BY DEF CreateMovieJob, Administration, LoadToApprove, LoadToCancel, LoadToSwitch,
       ApproveMovieJob, CancelMovieJob, SwitchRadarrOff, SwitchQbitOff, LowerRollout,
       ClearActiveManagement, RaiseRollout, CrashAdmin, InvalidateQueuedJobs, row
  <1>3. ProgressIsReal' /\ RecordedDeletionsHold'
    <2>1. CASE job' = job
      BY <2>1, RowStandsStill
    <2>2. ASSUME NEW s \in {"PENDING_APPROVAL", "APPROVED", "CANCELLED"},
                 job' = [job EXCEPT !.state = s]
          PROVE  ProgressIsReal' /\ RecordedDeletionsHold'
      BY <2>2 DEF TypeOK, JobRow, Safe, Lasting, ProgressIsReal, Backed, AfterRadarr,
                  RecordedDeletionsHold
    <2> QED BY <1>2, <2>1, <2>2
  <1>4. SessionsHold' /\ OneExecutor'
    BY <1>1, StandsStill DEF TypeOK, Safe, SessionsHold, OneExecutor
  <1> QED BY <1>1, <1>3, <1>4, RemovedStandsStill DEF Safe

\* The rest of the world touches neither the row nor a session.
LEMMA OutsideSafe ==
    ASSUME TypeOK, Safe, Lasting, Drift \/ PlexScan \/ UNCHANGED vars
    PROVE  Safe'
  <1>1. UNCHANGED <<job, active, req, removed>>
    BY DEF Drift, RadarrEdited, RadarrSwitchedOn, QbitEdited, QbitSwitchedOn, SyncRadarr,
           MovieChanges, TorrentVanishes, PlexScan, row, world, vars
  <1>2. SessionsHold' /\ OneExecutor'
    BY <1>1, StandsStill DEF TypeOK, Safe, SessionsHold, OneExecutor
  <1> QED BY <1>1, <1>2, RowStandsStill, RemovedStandsStill DEF Safe

-----------------------------------------------------------------------------
\* The initial states are safe.
LEMMA SafeInit == Init => Safe
  BY NoOneIsNoExecutor DEF Init, Safe, OneExecutor, ProgressIsReal, SessionsHold, SessionHolds,
     Backed, Idle, TorrentsAfterRadarr, RecordedDeletionsHold, AfterRadarr,
     AfterRadarrSteps, Steps

\* Every step keeps the workflow safe.
LEMMA SafeNext == TypeOK /\ Safe /\ [Next]_vars => Safe'
  <1> SUFFICES ASSUME TypeOK, Safe, [Next]_vars PROVE Safe'
    OBVIOUS
  <1>1. Lasting
    BY NextLasting DEF vars, world, row, Lasting, RadarrSettled
  <1>2. CASE CreateMovieJob \/ \E a \in Admins : Administration(a)
    BY <1>1, <1>2, AdministrationSafe
  <1>3. ASSUME NEW e \in Executors, Workflow(e) PROVE Safe'
    BY <1>1, <1>3, EnterSafe, RefuseSafe, RevalidateSafe, RadarrSafe, TorrentsSafe,
       ReconcileSafe DEF Workflow, TypeOK
  <1>4. ASSUME NEW e \in Executors, Mishap(e) \/ Admission(e) PROVE Safe'
    BY <1>1, <1>4, RequestSafe, RadarrSafe, TorrentsSafe, ReconcileSafe DEF Mishap
  <1>5. CASE Drift \/ PlexScan \/ UNCHANGED vars
    BY <1>1, <1>5, OutsideSafe
  <1> QED BY <1>2, <1>3, <1>4, <1>5 DEF Next

\* Safe is an invariant.
THEOREM Safety == Spec => []Safe
  BY TypeCorrect, SafeInit, SafeNext, PTL DEF Spec

\* Exactly the admitted request runs, for any number of requests.
THEOREM RunsAlone == Spec => []OneExecutor
  BY Safety, PTL DEF Safe

\* What the row and every session say of Radarr is so.
THEOREM ProgressCorrect == Spec => [](ProgressIsReal /\ SessionsHold)
  BY Safety, PTL DEF Safe

\* What a request holds in its session is so, however old it is: the state it
\* loaded, the step it goes on with, the deletions it will not repeat.
THEOREM SessionsCorrect == Spec => []SessionsHold
  BY Safety, PTL DEF Safe

\* No torrent is removed before Radarr's deletion and exclusion.
THEOREM RadarrFirst == Spec => []TorrentsAfterRadarr
  BY Safety, PTL DEF Safe

\* A deletion that the row records and a resumed run skips has happened.
THEOREM RecordCorrect == Spec => []RecordedDeletionsHold
  BY Safety, PTL DEF Safe

-----------------------------------------------------------------------------
(***************************************************************************)
(* The workflow implements RemovalProtocol                                 *)
(***************************************************************************)
\* A step that leaves Radarr, the torrents and the look alone claims, withdraws
\* a claim or stutters.
LEMMA QuietStep ==
    ASSUME Safe, Safe', UNCHANGED <<movie, exclusion, removed>>, Looked' = Looked
    PROVE  [Promise!Next]_(Promise!pvars)
  <1>1. CASE job.state # "COMPLETED" /\ job'.state = "COMPLETED"
    <2>1. RadarrSettled
      BY <1>1 DEF Safe, ProgressIsReal, Backed, AfterRadarr, RadarrSettled
    <2> QED BY <1>1, <2>1 DEF RadarrSettled, Promise!Next, Promise!Claim
  <1>2. CASE job.state = "COMPLETED" /\ job'.state # "COMPLETED"
    BY <1>2 DEF Promise!Next, Promise!Withdraw
  <1>3. CASE (job.state = "COMPLETED") = (job'.state = "COMPLETED")
    BY <1>3 DEF Promise!pvars
  <1> QED BY <1>1, <1>2, <1>3

\* A step that gives the deletion up forgets the look, and may withdraw a claim.
LEMMA GivingUpStep ==
    ASSUME UNCHANGED <<movie, exclusion, removed>>, ~Looked',
           job'.state = "COMPLETED" => job.state = "COMPLETED"
    PROVE  [Promise!Next]_(Promise!pvars)
  <1>1. CASE (job.state = "COMPLETED") = (job'.state = "COMPLETED")
    BY <1>1 DEF Promise!Next, Promise!Forget
  <1>2. CASE job'.state # "COMPLETED"
    <2>1. Looked' = FALSE
      BY DEF Looked
    <2> QED BY <1>2, <2>1 DEF Promise!Next, Promise!Withdraw
  <1> QED BY <1>1, <1>2

\* Only the admitted request can be about to delete: when it moves on, no
\* request is.
LEMMA LookIsOver ==
    ASSUME TypeOK, Safe, NEW e \in Executors, req[e].pc = "radarrDelete",
           req'[e].pc # "radarrDelete",
           \A x \in Executors \ {e} : req'[x] = req[x]
    PROVE  Looked /\ ~Looked'
  BY DEF Safe, OneExecutor, Steps, Looked

\* A request that neither was nor is about to delete changes nothing of it.
LEMMA LookStands ==
    ASSUME NEW e \in Executors, req[e].pc # "radarrDelete",
           req'[e].pc # "radarrDelete",
           \A x \in Executors \ {e} : req'[x] = req[x]
    PROVE  Looked' = Looked
  BY DEF Looked

\* The same, of a step to another pc, and of one to another state and pc.
LEMMA LookMoves ==
    ASSUME TypeOK, NEW e \in Executors, req[e].pc # "radarrDelete",
           NEW s, NEW p, p # "radarrDelete",
           \/ req' = [req EXCEPT ![e].pc = p]
           \/ req' = [req EXCEPT ![e] = [@ EXCEPT !.state = s, !.pc = p]]
    PROVE  Looked' = Looked
  <1>1. req[e] \in Request
    BY DEF TypeOK
  <1>2. PICK r : /\ r \in {[req[e] EXCEPT !.pc = p], [req[e] EXCEPT !.state = s, !.pc = p]}
                 /\ req' = [req EXCEPT ![e] = r]
    OBVIOUS
  <1>3. r.pc = p
    BY <1>1, <1>2 DEF Request
  <1>4. req'[e].pc = p /\ \A x \in Executors \ {e} : req'[x] = req[x]
    BY <1>2, <1>3 DEF TypeOK
  <1> QED BY <1>4, LookStands

\* A step that ends the request leaves its record idle.
LEMMA FinishForgets ==
    ASSUME TypeOK, NEW e \in Executors, Block(e) \/ Fail(e)
    PROVE  /\ req'[e].pc = "idle"
           /\ \A x \in Executors \ {e} : req'[x] = req[x]
  BY DEF Block, Fail, Finish, Idle, TypeOK

\* A request that asks for the coordinator is not about to delete.
LEMMA LookAdmission ==
    ASSUME TypeOK, NEW e \in Executors, Admission(e)
    PROVE  /\ req[e].pc # "radarrDelete" /\ req'[e].pc # "radarrDelete"
           /\ \A x \in Executors \ {e} : req'[x] = req[x]
  <1>0. req[e] \in Request
    BY DEF TypeOK
  <1>1. ASSUME NEW kind, LoadJob(e, kind)
        PROVE  /\ req[e].pc # "radarrDelete" /\ req'[e].pc # "radarrDelete"
               /\ \A x \in Executors \ {e} : req'[x] = req[x]
    BY <1>1 DEF LoadJob, Idle, TypeOK
  <1>2. CASE AcquireCoordinator(e)
    BY <1>0, <1>2 DEF AcquireCoordinator, TypeOK, Request
  <1>3. CASE SyncAlreadyRunning(e)
    BY <1>3 DEF SyncAlreadyRunning, Idle, TypeOK
  <1> QED BY <1>1, <1>2, <1>3 DEF Admission

\* Nothing but the steps around the deletion concerns the look.
LEMMA LookElsewhere ==
    ASSUME TypeOK, NEW e \in Executors,
           \/ EnterWorkflow(e, radarr) \/ EnterUnhealthy(e) \/ RefuseRequest(e)
           \/ CheckRevalidationGates(e) \/ LiveRevalidate(e) \/ EvidenceBlocks(e)
           \/ RequestRadarrDelete(e) \/ RadarrDeleteSkipped(e)
           \/ ConfirmRadarrDelete(e) \/ RecordRadarrDeleted(e)
           \/ BlockAtTorrents(e) \/ StartTorrentDeletes(e)
           \/ \E t \in Torrents : TorrentDelete(e, t) \/ ConfirmTorrentDelete(e, t)
                                  \/ TorrentDeleteIneffective(e, t)
           \/ BlockTorrentDelete(e) \/ FinishTorrentDeletes(e)
           \/ BlockAtReconcile(e) \/ ReconcileBlocks(e) \/ RequestPlexRefresh(e)
           \/ RefreshPlex(e) \/ SettleJob(e)
    PROVE  Looked' = Looked
  <1> DEFINE Elsewhere == /\ req[e].pc # "radarrDelete" /\ req'[e].pc # "radarrDelete"
                          /\ \A x \in Executors \ {e} : req'[x] = req[x]
  <1>0. req[e] \in Request /\ \A s \in RowStates : Dispatch(s) # "radarrDelete"
    BY DEF TypeOK, Dispatch
  <1>1. CASE EnterWorkflow(e, radarr) \/ EnterUnhealthy(e)
    <2>1. PICK s \in RowStates, ready \in BOOLEAN :
            req' = [req EXCEPT ![e] = [@ EXCEPT !.state = s, !.pc = Dispatch(s),
                                                !.ready = ready]]
      BY <1>0, <1>1, StatesTyped DEF EnterWorkflow, EnterUnhealthy, Request, TypeOK,
                                     BeforeRadarr
    <2>2. Elsewhere
      BY <1>0, <1>1, <2>1 DEF EnterWorkflow, EnterUnhealthy, TypeOK, Request
    <2> QED BY <2>2, LookStands
  <1>2. CASE RefuseRequest(e) \/ SettleJob(e)
    <2>1. Elsewhere
      BY <1>2 DEF RefuseRequest, SettleJob, Finish, Idle, TypeOK
    <2> QED BY <2>1, LookStands
  <1>3. CASE /\ Block(e) \/ Fail(e)
             /\ req[e].pc # "radarrDelete"
    BY <1>3, FinishForgets, LookStands
  <1>4. ASSUME NEW p \in {"evidence", "radarrConfirm", "radarrDone"},
               req' = [req EXCEPT ![e].pc = p], req[e].pc # "radarrDelete"
        PROVE  Looked' = Looked
    BY <1>4, LookMoves
  <1>5. ASSUME NEW s, NEW p \in {"radarrCall", "torrents", "reconcile", "torrentLoop",
                                 "plexCall", "stillListed", "absent"},
               req' = [req EXCEPT ![e] = [@ EXCEPT !.state = s, !.pc = p]],
               req[e].pc # "radarrDelete"
        PROVE  Looked' = Looked
    BY <1>5, LookMoves
  <1>6. CASE CheckRevalidationGates(e) \/ EvidenceBlocks(e) \/ RadarrDeleteSkipped(e)
             \/ ConfirmRadarrDelete(e)
    <2>1. /\ req[e].pc # "radarrDelete"
          /\ \/ Block(e) \/ Fail(e)
             \/ \E p \in {"evidence", "radarrConfirm", "radarrDone"} :
                  req' = [req EXCEPT ![e].pc = p]
      BY <1>6 DEF CheckRevalidationGates, EvidenceBlocks, RadarrDeleteSkipped,
                  ConfirmRadarrDelete
    <2> QED BY <1>3, <1>4, <2>1
  <1>7. CASE \/ BlockAtTorrents(e) \/ BlockTorrentDelete(e) \/ BlockAtReconcile(e)
             \/ ReconcileBlocks(e)
    BY <1>3, <1>7 DEF BlockAtTorrents, BlockTorrentDelete, BlockAtReconcile,
                      ReconcileBlocks
  <1>8. CASE RequestRadarrDelete(e) \/ RecordRadarrDeleted(e) \/ FinishTorrentDeletes(e)
    <2>1. /\ req[e].pc # "radarrDelete"
          /\ \/ Block(e)
             \/ \E s \in RowStates, p \in {"radarrCall", "torrents", "reconcile"} :
                  Transition(e, s, p)
      BY <1>8, StatesTyped DEF RequestRadarrDelete, RecordRadarrDeleted,
         FinishTorrentDeletes, BeforeRadarr, AfterRadarr
    <2> QED BY <1>3, <1>5, <2>1 DEF Transition
  <1>9. CASE StartTorrentDeletes(e)
    <2>1. PICK s : s = IF req[e].snap = {} THEN "TORRENT_DELETED"
                       ELSE "TORRENT_DELETE_REQUESTED"
      OBVIOUS
    <2>2. PICK p : p = IF req[e].snap = {} THEN "reconcile" ELSE "torrentLoop"
      OBVIOUS
    <2>3. /\ req' = [req EXCEPT ![e] = [@ EXCEPT !.state = s, !.pc = p]]
          /\ req[e].pc # "radarrDelete"
      BY <1>9, <2>1, <2>2 DEF StartTorrentDeletes
    <2> QED BY <1>5, <2>2, <2>3
  <1>10. CASE RequestPlexRefresh(e)
    <2>1. PICK s : s = IF req[e].state \in {"PLEX_REFRESH_REQUESTED", "PLEX_REFRESHED",
                                            "RECONCILE_REQUIRED"}
                       THEN req[e].state ELSE "PLEX_REFRESH_REQUESTED"
      OBVIOUS
    <2>2. /\ req' = [req EXCEPT ![e] = [@ EXCEPT !.state = s, !.pc = "plexCall"]]
          /\ req[e].pc # "radarrDelete"
      BY <1>10, <2>1 DEF RequestPlexRefresh
    <2> QED BY <1>5, <2>2
  <1>11. CASE RefreshPlex(e)
    <2>1. PICK p : p = IF plexItem /\ PlexMatched THEN "stillListed" ELSE "absent"
      OBVIOUS
    <2>2. /\ req' = [req EXCEPT ![e] = [@ EXCEPT !.state = "PLEX_REFRESHED", !.pc = p]]
          /\ req[e].pc # "radarrDelete"
      BY <1>11, <2>1 DEF RefreshPlex
    <2> QED BY <1>5, <2>1, <2>2
  <1>12. CASE LiveRevalidate(e)
    <2>1. PICK snap : req' = [req EXCEPT ![e] = [@ EXCEPT !.state = "REVALIDATED",
                                  !.pc = "radarr", !.snap = snap, !.deleted = {}]]
      BY <1>12 DEF LiveRevalidate
    <2>2. PICK r : r = [req[e] EXCEPT !.state = "REVALIDATED", !.pc = "radarr",
                                      !.snap = snap, !.deleted = {}]
      OBVIOUS
    <2>3. r.pc = "radarr"
      BY <1>0, <2>2 DEF Request
    <2>4. Elsewhere
      BY <1>12, <2>1, <2>2, <2>3 DEF LiveRevalidate, TypeOK
    <2> QED BY <2>4, LookStands
  <1>13. ASSUME NEW t \in Torrents, TorrentDelete(e, t) \/ TorrentDeleteIneffective(e, t)
         PROVE  Looked' = Looked
    <2>1. PICK r : r = [req[e] EXCEPT !.pc = "torrentConfirm", !.cur = t]
      OBVIOUS
    <2>2. r.pc = "torrentConfirm"
      BY <1>0, <2>1 DEF Request
    <2>3. Elsewhere
      BY <1>13, <2>1, <2>2 DEF TorrentDelete, TorrentDeleteIneffective, TypeOK
    <2> QED BY <2>3, LookStands
  <1>14. ASSUME NEW t \in Torrents, ConfirmTorrentDelete(e, t)
         PROVE  Looked' = Looked
    <2>1. CASE t \in present
      BY <1>3, <1>14, <2>1 DEF ConfirmTorrentDelete
    <2>2. CASE t \notin present
      <3>1. PICK r : r = [req[e] EXCEPT !.deleted = req[e].deleted \cup {t},
                            !.aliased = TRUE, !.cur = NoTorrent, !.pc = "torrentLoop"]
        OBVIOUS
      <3>2. r.pc = "torrentLoop"
        BY <1>0, <3>1 DEF Request
      <3>3. Elsewhere
        BY <1>14, <2>2, <3>1, <3>2 DEF ConfirmTorrentDelete, TypeOK
      <3> QED BY <3>3, LookStands
    <2> QED BY <2>1, <2>2
  <1> QED BY <1>1, <1>2, <1>6, <1>7, <1>8, <1>9, <1>10, <1>11, <1>12, <1>13, <1>14

\* The steps around the deletion: a look that found the verified movie, the
\* deletion that follows it, or one that is given up.
LEMMA DeletionImplements ==
    ASSUME TypeOK, Safe, Safe', NEW e \in Executors,
           \/ LookUpMovie(e) \/ RadarrDelete(e) \/ RadarrDeleteRefused(e)
           \/ RadarrDeleteIneffective(e) \/ ExternalStepFails(e) \/ CrashRequest(e)
    PROVE  [Promise!Next]_(Promise!pvars)
  <1> USE DEF row, world
  <1>0. FailedState(e) # "COMPLETED" /\ BlockedState(e) \in RowStates
    BY WritesTyped DEF FailedState
  <1>1. CASE LookUpMovie(e)
    <2>1. Looked'
      BY <1>1 DEF LookUpMovie, Looked, TypeOK, Request
    <2> QED BY <1>1, <2>1 DEF LookUpMovie, SameIdentity, Promise!Next, Promise!Check
  <1>2. CASE RadarrDelete(e)
    <2>1. Looked /\ ~Looked'
      BY <1>2, LookIsOver DEF RadarrDelete, TypeOK, Request
    <2>2. exclusion' \in {exclusion, TRUE} /\ UNCHANGED <<removed, job>>
      BY <1>2 DEF RadarrDelete
    <2>3. Looked' = FALSE
      BY <2>1 DEF Looked
    <2>4. movie # "absent" /\ movie' = "absent"
      BY <1>2 DEF RadarrDelete
    <2> QED BY <2>1, <2>2, <2>3, <2>4 DEF Promise!Next, Promise!RemoveMovie
  <1>3. CASE RadarrDeleteRefused(e)
    <2>1. ~Looked'
      BY <1>3, FinishForgets, LookIsOver DEF RadarrDeleteRefused
    <2>2. job'.state = "COMPLETED" => job.state = "COMPLETED"
      BY <1>0, <1>3 DEF RadarrDeleteRefused, Fail, Finish, WrittenState, TypeOK, JobRow
    <2> QED BY <1>3, <2>1, <2>2, GivingUpStep DEF RadarrDeleteRefused
  <1>4. CASE RadarrDeleteIneffective(e)
    <2>1. ~Looked'
      BY <1>4, LookIsOver DEF RadarrDeleteIneffective, TypeOK, Request
    <2> QED BY <1>4, <2>1, GivingUpStep DEF RadarrDeleteIneffective
  <1>5. CASE ExternalStepFails(e)
    <2>1. job'.state = "COMPLETED" => job.state = "COMPLETED"
      BY <1>0, <1>5 DEF ExternalStepFails, Fail, Finish, WrittenState, TypeOK, JobRow
    <2>2. CASE req[e].pc = "radarrDelete"
      <3>1. ~Looked'
        BY <1>5, <2>2, FinishForgets, LookIsOver DEF ExternalStepFails
      <3>2. exclusion' = exclusion
        BY <1>5, <2>2 DEF ExternalStepFails
      <3> QED BY <1>5, <2>1, <3>1, <3>2, GivingUpStep DEF ExternalStepFails
    <2>3. CASE req[e].pc # "radarrDelete"
      <3>1. Looked' = Looked
        BY <1>5, <2>3, FinishForgets, LookStands DEF ExternalStepFails
      <3>2. CASE exclusion' = exclusion
        BY <1>5, <3>1, <3>2, QuietStep DEF ExternalStepFails
      <3>3. CASE exclusion' # exclusion
        <4>1. movie = "absent" /\ exclusion' = TRUE /\ ~exclusion
          BY <1>5, <3>3 DEF ExternalStepFails, TypeOK
        <4>2. job.state # "COMPLETED"
          BY <4>1 DEF Safe, ProgressIsReal, Backed, AfterRadarr, RadarrSettled
        <4> QED BY <1>5, <2>1, <3>1, <4>1, <4>2 DEF ExternalStepFails, Promise!Next,
                                                    Promise!Exclude
      <3> QED BY <3>2, <3>3
    <2> QED BY <2>2, <2>3
  <1>6. CASE CrashRequest(e)
    <2>1. req'[e].pc = "idle" /\ \A x \in Executors \ {e} : req'[x] = req[x]
      BY <1>6 DEF CrashRequest, Idle, TypeOK
    <2>2. CASE req[e].pc = "radarrDelete"
      BY <1>6, <2>1, <2>2, LookIsOver, GivingUpStep DEF CrashRequest
    <2>3. CASE req[e].pc # "radarrDelete"
      BY <1>6, <2>1, <2>3, LookStands, QuietStep DEF CrashRequest
    <2> QED BY <2>2, <2>3
  <1> QED BY <1>1, <1>2, <1>3, <1>4, <1>5, <1>6

\* Every step maps to a step of RemovalProtocol or to a stutter.
LEMMA NextImplements ==
    ASSUME TypeOK, Safe, Safe', [Next]_vars
    PROVE  [Promise!Next]_(Promise!pvars)
  <1> USE DEF row, world
  <1>1. CASE CreateMovieJob \/ \E a \in Admins : Administration(a)
    <2>1. UNCHANGED <<req, movie, exclusion, removed>>
      BY <1>1 DEF CreateMovieJob, Administration, LoadToApprove, LoadToCancel,
         LoadToSwitch, ApproveMovieJob, CancelMovieJob, SwitchRadarrOff, SwitchQbitOff,
         LowerRollout, ClearActiveManagement, RaiseRollout, CrashAdmin
    <2> QED BY <2>1, QuietStep DEF Looked
  <1>2. ASSUME NEW e \in Executors, Admission(e)
        PROVE  [Promise!Next]_(Promise!pvars)
    <2>1. UNCHANGED <<movie, exclusion, removed>>
      BY <1>2 DEF Admission, LoadJob, AcquireCoordinator, SyncAlreadyRunning
    <2> QED BY <1>2, <2>1, LookAdmission, LookStands, QuietStep
  <1>3. ASSUME NEW e \in Executors, Workflow(e) \/ Mishap(e)
        PROVE  [Promise!Next]_(Promise!pvars)
    <2>0. req[e] \in Request /\ SessionHolds(req[e])
      BY DEF TypeOK, Safe, SessionsHold
    <2>1. CASE \/ LookUpMovie(e) \/ RadarrDelete(e) \/ RadarrDeleteRefused(e)
               \/ RadarrDeleteIneffective(e) \/ ExternalStepFails(e) \/ CrashRequest(e)
      BY <2>1, DeletionImplements
    <2>2. CASE ConfirmRadarrDelete(e)
      <3>0. Looked' = Looked
        BY <2>2, LookElsewhere
      <3>1. CASE UNCHANGED exclusion
        BY <2>2, <3>0, <3>1, QuietStep DEF ConfirmRadarrDelete
      <3>2. CASE movie = "absent" /\ EnsureExclusion(e)
        BY <2>2, <3>0, <3>2 DEF ConfirmRadarrDelete, EnsureExclusion, TypeOK, JobRow,
                                Promise!Next, Promise!Exclude
      <3> QED BY <2>2, <3>1, <3>2 DEF ConfirmRadarrDelete
    <2>4. ASSUME NEW t \in Torrents, TorrentDelete(e, t)
          PROVE  [Promise!Next]_(Promise!pvars)
      <3>0. Looked' = Looked
        BY <2>4, LookElsewhere
      <3>1. RadarrSettled
        BY <2>0, <2>4 DEF TorrentDelete, SessionHolds, Backed, AfterRadarrSteps
      <3>2. CASE t \in present
        BY <2>4, <3>0, <3>1, <3>2 DEF TorrentDelete, RadarrSettled, Promise!Next,
                                      Promise!RemoveTorrent
      <3>3. CASE t \notin present
        BY <2>4, <3>0, <3>3, QuietStep DEF TorrentDelete
      <3> QED BY <3>2, <3>3
    <2>5. CASE \/ StartTorrentDeletes(e) \/ RequestPlexRefresh(e) \/ ReconcileBlocks(e)
      <3>1. exclusion = TRUE
        BY <2>0, <2>5 DEF StartTorrentDeletes, RequestPlexRefresh, ReconcileBlocks,
           SessionHolds, Backed, RadarrSettled, AfterRadarrSteps, TypeOK
      <3>2. UNCHANGED <<movie, exclusion, removed>>
        BY <2>5, <3>1 DEF StartTorrentDeletes, RequestPlexRefresh, ReconcileBlocks
      <3> QED BY <2>5, <3>2, LookElsewhere, QuietStep
    <2>6. CASE \/ EnterWorkflow(e, radarr) \/ EnterUnhealthy(e) \/ RefuseRequest(e)
               \/ CheckRevalidationGates(e) \/ LiveRevalidate(e) \/ EvidenceBlocks(e)
               \/ RequestRadarrDelete(e) \/ RadarrDeleteSkipped(e)
               \/ RecordRadarrDeleted(e) \/ BlockAtTorrents(e)
               \/ \E t \in Torrents : \/ ConfirmTorrentDelete(e, t)
                                      \/ TorrentDeleteIneffective(e, t)
               \/ BlockTorrentDelete(e) \/ FinishTorrentDeletes(e)
               \/ BlockAtReconcile(e) \/ RefreshPlex(e) \/ SettleJob(e)
      <3>1. Looked' = Looked
        BY <2>6, LookElsewhere
      <3>2. UNCHANGED <<movie, exclusion, removed>>
        BY <2>6 DEF EnterUnhealthy, EnterWorkflow, RefuseRequest,
           CheckRevalidationGates, LiveRevalidate, EvidenceBlocks, RequestRadarrDelete,
           RadarrDeleteSkipped, RecordRadarrDeleted, BlockAtTorrents,
           BlockTorrentDelete, ConfirmTorrentDelete, FinishTorrentDeletes,
           BlockAtReconcile, RefreshPlex, SettleJob, TorrentDeleteIneffective
      <3> QED BY <3>1, <3>2, QuietStep
    <2> QED BY <1>3, <2>1, <2>2, <2>4, <2>5, <2>6 DEF Workflow, Mishap
  <1>4. CASE Drift \/ PlexScan
    <2>0. Looked' = Looked
      BY <1>4 DEF Looked, Drift, RadarrEdited, RadarrSwitchedOn, QbitEdited,
         QbitSwitchedOn, SyncRadarr, MovieChanges, TorrentVanishes, PlexScan
    <2>1. CASE MovieChanges
      BY <2>0, <2>1 DEF MovieChanges, Promise!Next, Promise!Outside
    <2>2. CASE UNCHANGED <<movie, exclusion, removed>>
      BY <2>0, <2>2, QuietStep
    <2> QED BY <1>4, <2>1, <2>2 DEF Drift, RadarrEdited, RadarrSwitchedOn, QbitEdited,
               QbitSwitchedOn, SyncRadarr, TorrentVanishes, PlexScan
  <1>5. CASE UNCHANGED vars
    BY <1>5 DEF vars, Looked, Promise!pvars
  <1> QED BY <1>1, <1>2, <1>3, <1>4, <1>5 DEF Next

\* Radarr before the torrents, a look that found the verified movie before every
\* deletion, completion claimed of a movie that is gone and excluded: for any
\* requests, torrents, crashes and races.
THEOREM Implements == Spec => KeepsPromise
  <1>1. Init => Promise!Init
    BY DEF Init, Idle, Looked, Promise!Init
  <1>2. TypeOK /\ Safe /\ Safe' /\ [Next]_vars => [Promise!Next]_(Promise!pvars)
    BY NextImplements
  <1> QED BY <1>1, <1>2, TypeCorrect, Safety, PTL DEF Spec, KeepsPromise, Promise!Spec

\* The movie that was verified is not replaced by another one between the look
\* and the deletion: deletion_jobs.py:544 and 552 have nothing but time
\* between them, and no lock that Radarr knows of.
NotSwapped == [][Looked /\ movie = "same" => movie' # "other"]_vars

\* A missing movie stays missing; another one appears by itself only.
LEMMA NextMovie ==
    ASSUME TypeOK, [Next]_vars
    PROVE  /\ movie = "absent" => movie' = "absent"
           /\ movie' = "other" => movie = "other" \/ UNCHANGED req
  <1> USE DEF row, world, policy, vars
  <1>1. CASE CreateMovieJob \/ \E a \in Admins : Administration(a)
    BY <1>1 DEF CreateMovieJob, Administration, LoadToApprove, LoadToCancel,
       LoadToSwitch, ApproveMovieJob, CancelMovieJob, SwitchRadarrOff, SwitchQbitOff,
       LowerRollout, ClearActiveManagement, RaiseRollout, CrashAdmin
  <1>2. ASSUME NEW e \in Executors, Admission(e) PROVE UNCHANGED movie
    BY <1>2 DEF Admission, LoadJob, AcquireCoordinator, SyncAlreadyRunning
  <1>3. ASSUME NEW e \in Executors, Workflow(e) \/ Mishap(e)
        PROVE  movie' = movie \/ movie' = "absent"
    BY <1>3 DEF Workflow, EnterWorkflow, RefuseRequest, CheckRevalidationGates,
       LiveRevalidate, EvidenceBlocks, RequestRadarrDelete, RadarrDelete, LookUpMovie,
       RadarrDeleteRefused, RadarrDeleteSkipped, ConfirmRadarrDelete, RecordRadarrDeleted,
       BlockAtTorrents, StartTorrentDeletes, TorrentDelete, BlockTorrentDelete,
       ConfirmTorrentDelete, FinishTorrentDeletes, BlockAtReconcile,
       RequestPlexRefresh, RefreshPlex, SettleJob, Mishap, EnterUnhealthy,
       RadarrDeleteIneffective, TorrentDeleteIneffective, ReconcileBlocks,
       ExternalStepFails, CrashRequest
  <1>4. CASE Drift \/ PlexScan
    BY <1>4 DEF Drift, RadarrEdited, RadarrSwitchedOn, QbitEdited, QbitSwitchedOn,
       SyncRadarr, MovieChanges, TorrentVanishes, PlexScan
  <1>5. CASE UNCHANGED vars
    BY <1>5
  <1> QED BY <1>1, <1>2, <1>3, <1>4, <1>5 DEF Next

\* A request reaches the deletion by a look only, and the look found the
\* verified movie.
LEMMA LookFinds ==
    ASSUME TypeOK, Safe, [Next]_vars, Looked', ~Looked
    PROVE  movie = "same" /\ movie' = movie
  <1>1. PICK e \in Executors : req'[e].pc = "radarrDelete" /\ req[e].pc # "radarrDelete"
    BY DEF Looked
  <1>2. PICK x \in Executors : Admission(x) \/ Workflow(x) \/ Mishap(x)
    BY <1>1 DEF Next, CreateMovieJob, Administration, LoadToApprove, LoadToCancel,
       LoadToSwitch, ApproveMovieJob, CancelMovieJob, SwitchRadarrOff, SwitchQbitOff,
       LowerRollout, ClearActiveManagement, RaiseRollout, CrashAdmin, Drift,
       RadarrEdited, RadarrSwitchedOn, QbitEdited, QbitSwitchedOn, SyncRadarr,
       MovieChanges, TorrentVanishes, PlexScan, vars
  <1>3. CASE LookUpMovie(x)
    BY <1>3 DEF LookUpMovie, SameIdentity, world
  <1>4. CASE \/ RadarrDelete(x) \/ RadarrDeleteRefused(x)
             \/ RadarrDeleteIneffective(x)
    BY <1>4 DEF RadarrDelete, RadarrDeleteRefused, RadarrDeleteIneffective, Looked
  <1>5. CASE ExternalStepFails(x) \/ CrashRequest(x) \/ Admission(x)
    <2>1. CASE CrashRequest(x)
      BY <1>1, <2>1 DEF CrashRequest, Idle, TypeOK
    <2>2. CASE ExternalStepFails(x) \/ Admission(x)
      BY <1>1, <2>2, FinishForgets, LookAdmission DEF ExternalStepFails
    <2> QED BY <1>5, <2>1, <2>2
  <1> QED BY <1>2, <1>3, <1>4, <1>5, LookElsewhere DEF Workflow, Mishap

\* Unless the movie is replaced within that time, no request deletes any movie
\* but the verified one, whatever else happens at whatever moment.
THEOREM OnlyVerified == Spec /\ NotSwapped => OnlyVerifiedIsDeleted
  <1> DEFINE Matched == Looked => movie # "other"
             Kept == Looked /\ movie = "same" => movie' # "other"
             OnlyVerifiedStep == \A e \in Executors : DeletesAMovie(e) => movie = "same"
  <1>1. Init => Matched
    BY DEF Init
  <1>2. TypeOK /\ Safe /\ Matched /\ [Next]_vars /\ [Kept]_vars => Matched'
    <2> SUFFICES ASSUME TypeOK, Safe, Matched, [Next]_vars, [Kept]_vars, Looked'
                 PROVE  movie' # "other"
      OBVIOUS
    <2>1. CASE ~Looked
      BY <2>1, LookFinds
    <2>2. CASE Looked
      <3>1. CASE movie = "absent"
        BY <3>1, NextMovie
      <3>2. CASE movie = "same"
        BY <2>2, <3>2 DEF vars, world
      <3> QED BY <2>2, <3>1, <3>2 DEF TypeOK
    <2> QED BY <2>1, <2>2
  <1>3. TypeOK /\ Matched /\ [Next]_vars => [OnlyVerifiedStep]_vars
    <2> SUFFICES ASSUME TypeOK, Matched, [Next]_vars,
                        NEW e \in Executors, DeletesAMovie(e)
                 PROVE  movie = "same"
      OBVIOUS
    <2> QED BY NextMovie DEF DeletesAMovie, Looked, TypeOK
  <1>4. NotSwapped => [][Kept]_vars
    BY PTL DEF NotSwapped
  <1>5. OnlyVerifiedIsDeleted <=> [][OnlyVerifiedStep]_vars
    BY PTL DEF OnlyVerifiedIsDeleted
  <1> QED BY <1>1, <1>2, <1>3, <1>4, <1>5, TypeCorrect, Safety, PTL DEF Spec

-----------------------------------------------------------------------------
\* A job, and whoever holds a copy of it, is complete only when Plex was seen
\* without the item.
Seen ==
    /\ job.state = "COMPLETED" => ~plexItem
    /\ \A e \in Executors :
         req[e].state = "COMPLETED" \/ req[e].pc = "absent" => ~plexItem

\* A step of one request, by what it leaves in the row and in its record.
LEMMA StepSeen ==
    ASSUME TypeOK, Seen, plexItem' = plexItem, NEW e \in Executors, NEW r,
           req' = [req EXCEPT ![e] = r],
           r.state = "COMPLETED" \/ r.pc = "absent" => ~plexItem,
           job'.state = "COMPLETED" => ~plexItem
    PROVE  Seen'
  BY DEF TypeOK, Seen

\* A request that ends in a state other than COMPLETED, or after the absence.
LEMMA FinishSeen ==
    ASSUME TypeOK, Seen, plexItem' = plexItem, NEW e \in Executors,
           NEW s, s = "COMPLETED" => ~plexItem, Finish(e, s)
    PROVE  Seen'
  <1>1. job'.state = "COMPLETED" => ~plexItem
    BY DEF Finish, WrittenState, TypeOK, JobRow, Seen
  <1>2. PICK r : r = Idle
    OBVIOUS
  <1>3. r.state # "COMPLETED" /\ r.pc # "absent"
    BY <1>2 DEF Idle
  <1> QED BY <1>1, <1>2, <1>3, StepSeen DEF Finish

\* A request that blocks or fails does not end in COMPLETED of its own.
LEMMA BlockSeen ==
    ASSUME TypeOK, Seen, plexItem' = plexItem, NEW e \in Executors,
           Block(e) \/ Fail(e)
    PROVE  Seen'
  <1>1. PICK s \in {BlockedState(e), FailedState(e)} : Finish(e, s)
    BY DEF Block, Fail
  <1>2. s = "COMPLETED" => req[e].state = "COMPLETED"
    BY DEF BlockedState, FailedState
  <1> QED BY <1>1, <1>2, FinishSeen DEF Seen

\* A step to another state and another pc.
LEMMA MoveSeen ==
    ASSUME TypeOK, Seen, plexItem' = plexItem, NEW e \in Executors,
           NEW s, NEW p, s = "COMPLETED" \/ p = "absent" => ~plexItem,
           req' = [req EXCEPT ![e] = [@ EXCEPT !.state = s, !.pc = p]],
           job'.state = WrittenState(e, s)
    PROVE  Seen'
  <1>1. PICK r : r = [req[e] EXCEPT !.state = s, !.pc = p]
    OBVIOUS
  <1>2. r.state = s /\ r.pc = p
    BY <1>1 DEF TypeOK, Request
  <1>3. job'.state = "COMPLETED" => ~plexItem
    BY DEF WrittenState, Seen
  <1> QED BY <1>1, <1>2, <1>3, StepSeen

\* A step to another pc that leaves the state of the row alone.
LEMMA PcSeen ==
    ASSUME TypeOK, Seen, plexItem' = plexItem, NEW e \in Executors,
           NEW p, p # "absent", req' = [req EXCEPT ![e].pc = p],
           job'.state = job.state
    PROVE  Seen'
  <1>1. PICK r : r = [req[e] EXCEPT !.pc = p]
    OBVIOUS
  <1>2. r.state = req[e].state /\ r.pc = p
    BY <1>1 DEF TypeOK, Request
  <1> QED BY <1>1, <1>2, StepSeen DEF Seen

\* What a write of a state and of some deletions leaves in the state column.
LEMMA StateWritten ==
    ASSUME TypeOK, NEW w, NEW d, job' = [job EXCEPT !.state = w, !.deleted = d]
    PROVE  job'.state = w
  <1>1. job \in JobRow
    BY DEF TypeOK
  <1> QED BY <1>1 DEF JobRow

\* The item never comes back, and no state but COMPLETED is written except by
\* the step that follows its absence.
LEMMA SeenNext ==
    ASSUME PlexMatched = TRUE, TypeOK, Seen, [Next]_vars
    PROVE  Seen'
  <1> USE DEF TypeOK, JobRow, Seen, row, world
  <1>1. CASE CreateMovieJob \/ \E a \in Admins : Administration(a)
    BY <1>1 DEF CreateMovieJob, Administration, LoadToApprove, LoadToCancel,
       LoadToSwitch, ApproveMovieJob, CancelMovieJob, SwitchRadarrOff, SwitchQbitOff,
       LowerRollout, ClearActiveManagement, RaiseRollout, CrashAdmin,
       InvalidateQueuedJobs
  <1>2. CASE Drift \/ PlexScan \/ UNCHANGED vars
    BY <1>2 DEF Drift, RadarrEdited, RadarrSwitchedOn, QbitEdited, QbitSwitchedOn,
       SyncRadarr, MovieChanges, TorrentVanishes, PlexScan, vars
  <1>3. ASSUME NEW e \in Executors, Admission(e) \/ Workflow(e) \/ Mishap(e)
        PROVE  Seen'
    <2>0. req[e] \in Request /\ plexItem' = plexItem
      BY <1>3 DEF Admission, Workflow, Mishap, LoadJob, AcquireCoordinator,
         SyncAlreadyRunning, EnterUnhealthy, EnterWorkflow, RefuseRequest,
         CheckRevalidationGates, LiveRevalidate, EvidenceBlocks, RequestRadarrDelete,
         RadarrDelete, LookUpMovie, RadarrDeleteRefused, RadarrDeleteSkipped,
         ConfirmRadarrDelete, RecordRadarrDeleted,
         BlockAtTorrents, StartTorrentDeletes, TorrentDelete, BlockTorrentDelete,
         ConfirmTorrentDelete, FinishTorrentDeletes, BlockAtReconcile,
         RequestPlexRefresh, RefreshPlex, SettleJob, RadarrDeleteIneffective,
         TorrentDeleteIneffective, ReconcileBlocks, ExternalStepFails, CrashRequest
    <2>1. CASE Admission(e)
      <3>1. ASSUME NEW kind, LoadJob(e, kind) PROVE Seen'
        <4>1. PICK r : r = [Idle EXCEPT !.pc = "loaded", !.kind = kind,
                                 !.state = job.state, !.snap = job.snap,
                                 !.deleted = job.deleted]
          OBVIOUS
        <4>2. r.state = job.state /\ r.pc = "loaded"
          BY <4>1 DEF Idle
        <4> QED BY <2>0, <3>1, <4>1, <4>2, StepSeen DEF LoadJob
      <3>2. CASE AcquireCoordinator(e)
        BY <2>0, <3>2, PcSeen DEF AcquireCoordinator
      <3>3. CASE SyncAlreadyRunning(e)
        BY <2>0, <3>3, StepSeen DEF SyncAlreadyRunning, Idle
      <3> QED BY <2>1, <3>1, <3>2, <3>3 DEF Admission
    <2>2. ASSUME NEW ready, EnterWorkflow(e, ready) PROVE Seen'
      <3>1. PICK s : s = IF req[e].state = "PENDING_APPROVAL" THEN "APPROVED"
                         ELSE req[e].state
        OBVIOUS
      <3>2. PICK r : r = [req[e] EXCEPT !.state = s, !.pc = Dispatch(s), !.ready = ready]
        OBVIOUS
      <3>3. r.state = s /\ r.pc = Dispatch(s)
        BY <2>0, <3>2 DEF Request
      <3>4. s # "COMPLETED" /\ Dispatch(s) # "absent"
        BY <2>2, <3>1 DEF EnterWorkflow, ExecutableJobStates, TerminalJobStates, Dispatch
      <3>5. req' = [req EXCEPT ![e] = r]
        BY <2>2, <3>1, <3>2 DEF EnterWorkflow
      <3>6. job'.state = WrittenState(e, s)
        BY <2>2, <3>1 DEF EnterWorkflow
      <3> QED BY <2>0, <3>3, <3>4, <3>5, <3>6, StepSeen DEF WrittenState
    <2>3. CASE \/ RefuseRequest(e) \/ CrashRequest(e)
      BY <2>0, <2>3, StepSeen DEF RefuseRequest, CrashRequest, Idle
    <2>4. CASE LiveRevalidate(e)
      <3>1. PICK snap, d : /\ job' = [state |-> "REVALIDATED", snap |-> snap,
                                      deleted |-> d]
                           /\ req' = [req EXCEPT ![e] = [@ EXCEPT
                                 !.state = "REVALIDATED", !.pc = "radarr",
                                 !.snap = snap, !.deleted = {}]]
        BY <2>4 DEF LiveRevalidate
      <3>2. PICK r : r = [req[e] EXCEPT !.state = "REVALIDATED", !.pc = "radarr",
                                        !.snap = snap, !.deleted = {}]
        OBVIOUS
      <3>3. r.state = "REVALIDATED" /\ r.pc = "radarr" /\ req' = [req EXCEPT ![e] = r]
        BY <2>0, <3>1, <3>2 DEF Request
      <3> QED BY <2>0, <3>1, <3>3, StepSeen
    <2>5. CASE Block(e) \/ Fail(e)
      BY <2>0, <2>5, BlockSeen
    <2>6. CASE RecordRadarrDeleted(e) \/ FinishTorrentDeletes(e) \/ RequestRadarrDelete(e)
      <3>1. CASE Block(e)
        BY <2>5, <3>1
      <3>2. ASSUME NEW s \in {"RADARR_DELETE_REQUESTED", "RADARR_DELETED", "TORRENT_DELETED"},
                   NEW p \in {"radarrCall", "torrents", "reconcile"}, Transition(e, s, p)
            PROVE  Seen'
        <4>1. job'.state = WrittenState(e, s)
          BY <3>2 DEF Transition
        <4> QED BY <2>0, <3>2, <4>1, MoveSeen DEF Transition
      <3> QED BY <2>6, <3>1, <3>2
              DEF RecordRadarrDeleted, FinishTorrentDeletes, RequestRadarrDelete
    <2>7. CASE \/ CheckRevalidationGates(e) \/ RadarrDelete(e) \/ RadarrDeleteSkipped(e)
               \/ RadarrDeleteIneffective(e) \/ ConfirmRadarrDelete(e)
               \/ LookUpMovie(e) \/ RadarrDeleteRefused(e)
      BY <2>0, <2>5, <2>7, PcSeen
         DEF CheckRevalidationGates, RadarrDelete, RadarrDeleteSkipped, LookUpMovie,
             RadarrDeleteRefused, RadarrDeleteIneffective, ConfirmRadarrDelete, EnsureExclusion
    <2>8. CASE StartTorrentDeletes(e)
      <3>1. PICK s, p : /\ s = IF req[e].snap = {} THEN "TORRENT_DELETED"
                               ELSE "TORRENT_DELETE_REQUESTED"
                        /\ p = IF req[e].snap = {} THEN "reconcile" ELSE "torrentLoop"
        OBVIOUS
      <3>2. /\ req' = [req EXCEPT ![e] = [@ EXCEPT !.state = s, !.pc = p]]
            /\ \E d : job' = [job EXCEPT !.state = WrittenState(e, s), !.deleted = d]
        BY <2>8, <3>1, Zenon DEF StartTorrentDeletes
      <3>3. job'.state = WrittenState(e, s)
        <4>1. PICK d : job' = [job EXCEPT !.state = WrittenState(e, s), !.deleted = d]
          BY <3>2
        <4>2. PICK w : w = WrittenState(e, s)
          OBVIOUS
        <4> QED BY <4>1, <4>2, StateWritten
      <3>4. s # "COMPLETED" /\ p # "absent"
        BY <3>1
      <3> QED BY <2>0, <3>2, <3>3, <3>4, MoveSeen
    <2>9. ASSUME NEW t \in Torrents,
                 TorrentDelete(e, t) \/ TorrentDeleteIneffective(e, t)
          PROVE  Seen'
      <3>1. PICK r : r = [req[e] EXCEPT !.pc = "torrentConfirm", !.cur = t]
        OBVIOUS
      <3>2. r.state = req[e].state /\ r.pc = "torrentConfirm"
        BY <2>0, <3>1 DEF Request
      <3> QED BY <2>0, <2>9, <3>1, <3>2, StepSeen DEF TorrentDelete,
                                                      TorrentDeleteIneffective
    <2>10. ASSUME NEW t \in Torrents, ConfirmTorrentDelete(e, t)
           PROVE  Seen'
      <3>1. CASE t \in present
        BY <2>5, <2>10, <3>1 DEF ConfirmTorrentDelete
      <3>2. CASE t \notin present
        <4>1. PICK d, r : /\ d = req[e].deleted \cup {t}
                          /\ r = [req[e] EXCEPT !.deleted = d, !.aliased = TRUE,
                                        !.cur = NoTorrent, !.pc = "torrentLoop"]
          OBVIOUS
        <4>2. r.state = req[e].state /\ r.pc = "torrentLoop"
          BY <2>0, <4>1 DEF Request
        <4>3. req' = [req EXCEPT ![e] = r] /\ job'.state = job.state
          BY <2>10, <3>2, <4>1 DEF ConfirmTorrentDelete
        <4> QED BY <2>0, <4>2, <4>3, StepSeen
      <3> QED BY <3>1, <3>2
    <2>11. CASE RequestPlexRefresh(e)
      <3>1. PICK s, p : /\ s = IF req[e].state \in {"PLEX_REFRESH_REQUESTED",
                                     "PLEX_REFRESHED", "RECONCILE_REQUIRED"}
                               THEN req[e].state ELSE "PLEX_REFRESH_REQUESTED"
                        /\ p = "plexCall"
        OBVIOUS
      <3>2. /\ req' = [req EXCEPT ![e] = [@ EXCEPT !.state = s, !.pc = p]]
            /\ \E d : job' = [job EXCEPT !.state = WrittenState(e, s), !.deleted = d]
        BY <2>11, <3>1, Zenon DEF RequestPlexRefresh
      <3>3. job'.state = WrittenState(e, s)
        <4>1. PICK d : job' = [job EXCEPT !.state = WrittenState(e, s), !.deleted = d]
          BY <3>2
        <4>2. PICK w : w = WrittenState(e, s)
          OBVIOUS
        <4> QED BY <4>1, <4>2, StateWritten
      <3>4. s # "COMPLETED" /\ p # "absent"
        BY <3>1
      <3> QED BY <2>0, <3>2, <3>3, <3>4, MoveSeen
    <2>12. CASE RefreshPlex(e)
      <3>1. PICK p : p = IF plexItem /\ PlexMatched THEN "stillListed" ELSE "absent"
        OBVIOUS
      <3>2. /\ req' = [req EXCEPT ![e] = [@ EXCEPT !.state = "PLEX_REFRESHED", !.pc = p]]
            /\ \E d : job' = [job EXCEPT !.state = WrittenState(e, "PLEX_REFRESHED"),
                                         !.deleted = d]
        BY <2>12, <3>1 DEF RefreshPlex
      <3>3. job'.state = WrittenState(e, "PLEX_REFRESHED")
        <4>1. PICK d : job' = [job EXCEPT !.state = WrittenState(e, "PLEX_REFRESHED"),
                                          !.deleted = d]
          BY <3>2
        <4>2. PICK w : w = WrittenState(e, "PLEX_REFRESHED")
          OBVIOUS
        <4> QED BY <4>1, <4>2, StateWritten
      <3>4. p = "absent" => ~plexItem
        BY <3>1
      <3> QED BY <2>0, <3>2, <3>3, <3>4, MoveSeen
    <2>13. CASE SettleJob(e)
      BY <2>0, <2>13, FinishSeen DEF SettleJob
    <2> QED
      BY <1>3, <2>1, <2>2, <2>3, <2>4, <2>5, <2>6, <2>7, <2>8, <2>9, <2>10, <2>11,
         <2>12, <2>13 DEF Workflow, Mishap, EnterUnhealthy, EvidenceBlocks,
         BlockAtTorrents, BlockTorrentDelete, BlockAtReconcile, ReconcileBlocks,
         ExternalStepFails
  <1> QED BY <1>1, <1>2, <1>3 DEF Next

\* A movie matched to its Plex item is reported deleted only once Plex no
\* longer lists it, however requests race and crash.
THEOREM CompletionCorrect ==
    ASSUME PlexMatched = TRUE
    PROVE  Spec => []CompletedIsUnlisted
  <1>1. Init => Seen
    BY DEF Init, Seen, Idle
  <1>2. TypeOK /\ Seen /\ [Next]_vars => Seen'
    BY SeenNext
  <1>3. Seen => CompletedIsUnlisted
    BY DEF Seen, CompletedIsUnlisted
  <1> QED BY <1>1, <1>2, <1>3, TypeCorrect, PTL DEF Spec

-----------------------------------------------------------------------------
(***************************************************************************)
(* The torrents.  Only revalidation writes the snapshot.  A request that   *)
(* is alone holds the snapshot of the row, so the torrents it has seen     *)
(* gone are those of the row.                                              *)
(***************************************************************************)
PastTorrents == {"TORRENT_DELETED", "PLEX_REFRESH_REQUESTED", "PLEX_REFRESHED",
                 "RECONCILE_REQUIRED", "COMPLETED"}
Reconciling  == {"reconcile", "plexCall", "stillListed", "absent"}

Clean(s, snap) == s \in PastTorrents => snap \cap present = {}

SessionClean(r) ==
    r.pc # "idle" => /\ Clean(r.state, r.snap)
                     /\ r.pc \in Reconciling => r.state \in PastTorrents
                     /\ r.kind = "reconcile" /\ r.pc \in Steps \ {"entry"}
                            => r.pc \in Reconciling

Cleaned ==
    /\ Clean(job.state, job.snap)
    /\ \A e \in Executors :
          SessionClean(req[e]) /\ (req[e].pc # "idle" => req[e].snap = job.snap)

\* Requests come one at a time.
OneSlot == \A e, f \in Executors : e = f

\* A step of the request, by what it leaves in the row and in its record.
LEMMA CleanStep ==
    ASSUME TypeOK, OneSlot, NEW e \in Executors, NEW r,
           req' = [req EXCEPT ![e] = r], present' \subseteq present,
           Clean(job'.state, job'.snap), SessionClean(r),
           r.pc # "idle" => r.snap = job'.snap
    PROVE  Cleaned'
  <1>1. Clean(job.state, job.snap)'
    BY DEF Clean
  <1>2. SUFFICES ASSUME NEW f \in Executors
                 PROVE  (SessionClean(req[f]) /\ (req[f].pc # "idle" => req[f].snap = job.snap))'
    BY <1>1 DEF Cleaned, SessionClean, Clean
  <1>3. req'[f] = r
    BY DEF TypeOK, OneSlot
  <1>4. SessionClean(req[f])'
    BY <1>3 DEF SessionClean, Clean
  <1> QED BY <1>3, <1>4

\* A request that ends.
LEMMA FinishClean ==
    ASSUME TypeOK, OneSlot, Cleaned, NEW e \in Executors, present' \subseteq present,
           NEW s, s \in PastTorrents => job.snap \cap present = {}, Finish(e, s)
    PROVE  Cleaned'
  <1>1. job'.state = WrittenState(e, s) /\ job'.snap = job.snap
    BY DEF Finish, TypeOK, JobRow
  <1>2. Clean(job'.state, job'.snap)
    BY <1>1 DEF WrittenState, Cleaned, Clean
  <1>3. PICK r : r = Idle
    OBVIOUS
  <1>4. SessionClean(r) /\ r.pc = "idle"
    BY <1>3 DEF Idle, SessionClean
  <1> QED BY <1>2, <1>3, <1>4, CleanStep DEF Finish

\* A request blocked or failed past the torrents had seen them gone.
LEMMA BlockClean ==
    ASSUME TypeOK, OneSlot, Cleaned, NEW e \in Executors, present' \subseteq present,
           req[e].pc \in Steps \ {"entry"}, Block(e) \/ Fail(e)
    PROVE  Cleaned'
  <1>1. PICK s \in {BlockedState(e), FailedState(e)} : Finish(e, s)
    BY DEF Block, Fail
  <1>2. /\ SessionClean(req[e]) /\ req[e].snap = job.snap
        /\ req[e].pc # "idle"
    BY DEF Cleaned, Steps
  <1>3. req[e].kind = "reconcile" => req[e].state \in PastTorrents
    BY <1>2 DEF SessionClean
  <1>4. s \in PastTorrents => req[e].state \in PastTorrents
    BY <1>3 DEF BlockedState, FailedState, PastTorrents, ExternalChangeStarted, AfterRadarr
  <1>5. s \in PastTorrents => job.snap \cap present = {}
    BY <1>2, <1>4 DEF SessionClean, Clean
  <1> QED BY <1>1, <1>5, FinishClean

\* A step to another state and another pc.
LEMMA MoveClean ==
    ASSUME TypeOK, OneSlot, Cleaned, NEW e \in Executors, present' \subseteq present,
           req[e].pc # "idle", NEW s, NEW p,
           req' = [req EXCEPT ![e] = [@ EXCEPT !.state = s, !.pc = p]],
           job'.state = WrittenState(e, s), job'.snap = job.snap,
           s \in PastTorrents => req[e].snap \cap present = {},
           p \in Reconciling => s \in PastTorrents,
           req[e].kind = "reconcile" => p \in Reconciling
    PROVE  Cleaned'
  <1>1. PICK r : r = [req[e] EXCEPT !.state = s, !.pc = p]
    OBVIOUS
  <1>2. r.state = s /\ r.pc = p /\ r.snap = req[e].snap /\ r.kind = req[e].kind
    BY <1>1 DEF TypeOK, Request
  <1>3. SessionClean(r)
    BY <1>2 DEF SessionClean, Clean
  <1>4. req[e].snap = job.snap
    BY DEF Cleaned
  <1>5. Clean(job'.state, job'.snap)
    BY <1>4 DEF WrittenState, Cleaned, Clean
  <1>6. r.snap = job'.snap
    BY <1>2, <1>4
  <1>7. req' = [req EXCEPT ![e] = r]
    BY <1>1
  <1> QED BY <1>3, <1>5, <1>6, <1>7, CleanStep

\* A step to another pc, before reconciliation or in it.
LEMMA PcClean ==
    ASSUME TypeOK, OneSlot, Cleaned, NEW e \in Executors, present' \subseteq present,
           req[e].pc # "idle", NEW p, p \notin Reconciling,
           req[e].kind = "execute" \/ p = "entry",
           req' = [req EXCEPT ![e].pc = p],
           job'.state = job.state, job'.snap = job.snap
    PROVE  Cleaned'
  <1>1. PICK r : r = [req[e] EXCEPT !.pc = p]
    OBVIOUS
  <1>2. r.state = req[e].state /\ r.pc = p /\ r.snap = req[e].snap /\ r.kind = req[e].kind
    BY <1>1 DEF TypeOK, Request
  <1>3. SessionClean(r)
    BY <1>2 DEF SessionClean, Clean, Cleaned
  <1>4. Clean(job'.state, job'.snap) /\ r.snap = job'.snap
    BY <1>2 DEF Cleaned
  <1>7. req' = [req EXCEPT ![e] = r]
    BY <1>1
  <1> QED BY <1>3, <1>4, <1>7, CleanStep


\* What a write of a state and of some deletions leaves of the snapshot.
LEMMA WriteClean ==
    ASSUME TypeOK, NEW w, \E d : job' = [job EXCEPT !.state = w, !.deleted = d]
    PROVE  job'.state = w /\ job'.snap = job.snap
  <1>1. job \in JobRow
    BY DEF TypeOK
  <1> QED BY <1>1 DEF JobRow

\* Nothing but a revalidation changes the snapshot of the row, and no request
\* goes on to reconcile before it has seen the torrents gone.
LEMMA CleanedNext ==
    ASSUME OneSlot, TypeOK, Safe, Cleaned, [Next]_vars
    PROVE  Cleaned'
  <1> USE DEF TypeOK, JobRow, row, world
  <1>1. CASE CreateMovieJob \/ \E a \in Admins : Administration(a)
    <2>1. /\ req' = req /\ present' = present /\ job'.snap = job.snap
          /\ job'.state = job.state \/ job'.state \notin PastTorrents
      BY <1>1 DEF CreateMovieJob, Administration, LoadToApprove, LoadToCancel,
         LoadToSwitch, ApproveMovieJob, CancelMovieJob, SwitchRadarrOff, SwitchQbitOff,
         LowerRollout, ClearActiveManagement, RaiseRollout, CrashAdmin,
         InvalidateQueuedJobs, PastTorrents
    <2> QED BY <2>1 DEF Cleaned, SessionClean, Clean
  <1>2. CASE Drift \/ PlexScan \/ UNCHANGED vars
    <2>1. req' = req /\ present' \subseteq present /\ job' = job
      BY <1>2 DEF Drift, RadarrEdited, RadarrSwitchedOn, QbitEdited, QbitSwitchedOn,
         SyncRadarr, MovieChanges, TorrentVanishes, PlexScan, vars
    <2> QED BY <2>1 DEF Cleaned, SessionClean, Clean
  <1>3. ASSUME NEW e \in Executors, Admission(e) \/ Workflow(e) \/ Mishap(e)
        PROVE  Cleaned'
    <2>0. req[e] \in Request /\ present' \subseteq present
      BY <1>3 DEF Admission, Workflow, Mishap, LoadJob, AcquireCoordinator,
         SyncAlreadyRunning, EnterUnhealthy, EnterWorkflow, RefuseRequest,
         CheckRevalidationGates, LiveRevalidate, EvidenceBlocks, RequestRadarrDelete,
         RadarrDelete, LookUpMovie, RadarrDeleteRefused, RadarrDeleteSkipped,
         ConfirmRadarrDelete, RecordRadarrDeleted,
         BlockAtTorrents, StartTorrentDeletes, TorrentDelete, BlockTorrentDelete,
         ConfirmTorrentDelete, FinishTorrentDeletes, BlockAtReconcile,
         RequestPlexRefresh, RefreshPlex, SettleJob, RadarrDeleteIneffective,
         TorrentDeleteIneffective, ReconcileBlocks, ExternalStepFails, CrashRequest
    <2>a. /\ SessionClean(req[e]) /\ Clean(job.state, job.snap)
          /\ req[e].pc # "idle" => req[e].snap = job.snap
      BY DEF Cleaned
    <2>b. req[e].deleted \cap present = {}
      BY DEF Safe, SessionsHold, SessionHolds
    <2>1. CASE Admission(e)
      <3>1. ASSUME NEW kind, LoadJob(e, kind) PROVE Cleaned'
        <4>1. PICK r : r = [Idle EXCEPT !.pc = "loaded", !.kind = kind,
                                 !.state = job.state, !.snap = job.snap,
                                 !.deleted = job.deleted]
          OBVIOUS
        <4>2. r.state = job.state /\ r.pc = "loaded" /\ r.snap = job.snap
          BY <4>1 DEF Idle
        <4>3. SessionClean(r)
          BY <4>2, <2>a DEF SessionClean, Reconciling, Steps
        <4> QED BY <2>0, <2>a, <3>1, <4>1, <4>2, <4>3, CleanStep DEF LoadJob
      <3>2. CASE AcquireCoordinator(e)
        <4>1. /\ req[e].pc # "idle" /\ req' = [req EXCEPT ![e].pc = "entry"]
              /\ job'.state = job.state /\ job'.snap = job.snap
          BY <3>2 DEF AcquireCoordinator
        <4>2. PICK p : p = "entry" /\ p \notin Reconciling
          BY DEF Reconciling
        <4> QED BY <2>0, <4>1, <4>2, PcClean
      <3>3. CASE SyncAlreadyRunning(e)
        BY <2>0, <2>a, <3>3, CleanStep DEF SyncAlreadyRunning, Idle, SessionClean
      <3> QED BY <2>1, <3>1, <3>2, <3>3 DEF Admission
    <2>2. ASSUME NEW ready, EnterWorkflow(e, ready) PROVE Cleaned'
      <3>1. PICK s : s = IF req[e].state = "PENDING_APPROVAL" THEN "APPROVED"
                         ELSE req[e].state
        OBVIOUS
      <3>2. PICK r : r = [req[e] EXCEPT !.state = s, !.pc = Dispatch(s), !.ready = ready]
        OBVIOUS
      <3>3. /\ r.state = s /\ r.pc = Dispatch(s)
            /\ r.snap = req[e].snap /\ r.kind = req[e].kind
        BY <2>0, <3>2 DEF Request
      <3>4. /\ req[e].pc = "entry" /\ s \in ExecutableJobStates \ {"PENDING_APPROVAL"}
            /\ r.kind = "reconcile" => s = "RECONCILE_REQUIRED"
        BY <2>0, <2>2, <3>1, <3>3 DEF EnterWorkflow, ExecutableJobStates, Request,
           BeforeRadarr, AfterRadarr, TerminalJobStates
      <3>5. req' = [req EXCEPT ![e] = r]
        BY <2>2, <3>1, <3>2 DEF EnterWorkflow
      <3>6. job'.state = WrittenState(e, s) /\ job'.snap = job.snap
        BY <2>2, <3>1 DEF EnterWorkflow
      <3>7. Clean(s, req[e].snap)
        BY <2>a, <3>1, <3>4 DEF SessionClean, Clean, PastTorrents
      <3>8. Dispatch(s) \in Reconciling => s \in PastTorrents
        BY <3>4 DEF Dispatch, Reconciling, PastTorrents, ExecutableJobStates,
           BeforeRadarr, AfterRadarr, TerminalJobStates
      <3>9. s = "RECONCILE_REQUIRED" => Dispatch(s) \in Reconciling
        BY DEF Dispatch, Reconciling
      <3>10. SessionClean(r)
        BY <3>3, <3>4, <3>7, <3>8, <3>9 DEF SessionClean
      <3>11. Clean(job'.state, job'.snap) /\ r.snap = job'.snap
        BY <2>a, <3>3, <3>4, <3>6, <3>7 DEF WrittenState, Clean
      <3> QED BY <2>0, <3>5, <3>10, <3>11, CleanStep
    <2>3. CASE RefuseRequest(e) \/ CrashRequest(e)
      BY <2>0, <2>a, <2>3, CleanStep DEF RefuseRequest, CrashRequest, Idle, SessionClean
    <2>4. CASE LiveRevalidate(e)
      <3>1. PICK snap, d : /\ job' = [state |-> "REVALIDATED", snap |-> snap,
                                      deleted |-> d]
                           /\ req' = [req EXCEPT ![e] = [@ EXCEPT
                                 !.state = "REVALIDATED", !.pc = "radarr",
                                 !.snap = snap, !.deleted = {}]]
        BY <2>4 DEF LiveRevalidate
      <3>2. PICK r : r = [req[e] EXCEPT !.state = "REVALIDATED", !.pc = "radarr",
                                        !.snap = snap, !.deleted = {}]
        OBVIOUS
      <3>3. /\ r.state = "REVALIDATED" /\ r.pc = "radarr" /\ r.snap = snap
            /\ r.kind = req[e].kind /\ req' = [req EXCEPT ![e] = r]
        BY <2>0, <3>1, <3>2 DEF Request
      <3>4. req[e].kind # "reconcile"
        BY <2>4, <2>a DEF LiveRevalidate, SessionClean, Steps, Reconciling
      <3>5. SessionClean(r) /\ Clean(job'.state, job'.snap)
        BY <3>1, <3>3, <3>4 DEF SessionClean, Clean, PastTorrents, Reconciling
      <3> QED BY <2>0, <3>1, <3>3, <3>5, CleanStep
    <2>5. ASSUME req[e].pc \in Steps \ {"entry"}, Block(e) \/ Fail(e) PROVE Cleaned'
      BY <2>0, <2>5, BlockClean
    <2>6. req[e].pc \in Steps \ (Reconciling \cup {"entry"}) => req[e].kind = "execute"
      BY <2>0, <2>a DEF SessionClean, Request, Steps
    <2>7. CASE RecordRadarrDeleted(e) \/ FinishTorrentDeletes(e) \/ RequestRadarrDelete(e)
      <3>0. req[e].pc \in Steps \ (Reconciling \cup {"entry"})
        BY <2>7 DEF RecordRadarrDeleted, FinishTorrentDeletes, RequestRadarrDelete,
           Steps, Reconciling
      <3>1. CASE Block(e)
        BY <2>5, <3>0, <3>1
      <3>2. ASSUME NEW s, NEW p, Transition(e, s, p),
                   s \in PastTorrents => req[e].snap \cap present = {},
                   p \in Reconciling => s \in PastTorrents
            PROVE  Cleaned'
        <4>1. /\ job'.state = WrittenState(e, s) /\ job'.snap = job.snap
              /\ req' = [req EXCEPT ![e] = [@ EXCEPT !.state = s, !.pc = p]]
          BY <3>2 DEF Transition
        <4>2. req[e].pc # "idle" /\ req[e].kind # "reconcile"
          BY <2>6, <3>0 DEF Steps
        <4> QED BY <2>0, <3>2, <4>1, <4>2, MoveClean
      <3>3. CASE RecordRadarrDeleted(e)
        BY <3>2, <3>3 DEF RecordRadarrDeleted, PastTorrents, Reconciling
      <3>4. CASE FinishTorrentDeletes(e)
        <4>1. req[e].snap \cap present = {}
          BY <2>0, <2>b, <3>4 DEF FinishTorrentDeletes, Remaining, Request
        <4> QED BY <3>2, <3>4, <4>1 DEF FinishTorrentDeletes, PastTorrents
      <3>5. CASE RequestRadarrDelete(e)
        BY <3>1, <3>2, <3>5 DEF RequestRadarrDelete, PastTorrents, Reconciling
      <3> QED BY <2>7, <3>3, <3>4, <3>5
    <2>8. CASE \/ CheckRevalidationGates(e) \/ RadarrDelete(e) \/ RadarrDeleteSkipped(e)
               \/ RadarrDeleteIneffective(e) \/ ConfirmRadarrDelete(e)
               \/ LookUpMovie(e) \/ RadarrDeleteRefused(e)
      <3>0. req[e].pc \in Steps \ (Reconciling \cup {"entry"})
        BY <2>8 DEF CheckRevalidationGates, RadarrDelete, RadarrDeleteSkipped,
           LookUpMovie, RadarrDeleteRefused,
           RadarrDeleteIneffective, ConfirmRadarrDelete, Steps, Reconciling
      <3>1. CASE Block(e) \/ Fail(e)
        BY <2>5, <3>0, <3>1
      <3>2. ASSUME NEW p \in {"evidence", "radarrDelete", "radarrConfirm", "radarrDone"},
                   req' = [req EXCEPT ![e].pc = p],
                   job'.state = job.state, job'.snap = job.snap
            PROVE  Cleaned'
        <4>1. req[e].pc # "idle" /\ req[e].kind = "execute" /\ p \notin Reconciling
          BY <2>6, <3>0 DEF Steps, Reconciling
        <4> QED BY <2>0, <3>2, <4>1, PcClean
      <3> QED BY <2>8, <3>1, <3>2 DEF CheckRevalidationGates, RadarrDelete,
              RadarrDeleteSkipped, RadarrDeleteIneffective, ConfirmRadarrDelete,
              EnsureExclusion, LookUpMovie, RadarrDeleteRefused
    <2>9. CASE StartTorrentDeletes(e)
      <3>1. PICK s, p : /\ s = IF req[e].snap = {} THEN "TORRENT_DELETED"
                               ELSE "TORRENT_DELETE_REQUESTED"
                        /\ p = IF req[e].snap = {} THEN "reconcile" ELSE "torrentLoop"
        OBVIOUS
      <3>2. /\ req' = [req EXCEPT ![e] = [@ EXCEPT !.state = s, !.pc = p]]
            /\ \E d : job' = [job EXCEPT !.state = WrittenState(e, s), !.deleted = d]
        BY <2>9, <3>1, Zenon DEF StartTorrentDeletes
      <3>3. job'.state = WrittenState(e, s) /\ job'.snap = job.snap
        BY <3>2, WriteClean
      <3>4. req[e].pc # "idle" /\ req[e].kind = "execute"
        BY <2>6, <2>9 DEF StartTorrentDeletes, Steps, Reconciling
      <3>5. /\ s \in PastTorrents => req[e].snap \cap present = {}
            /\ p \in Reconciling => s \in PastTorrents
        BY <3>1 DEF PastTorrents, Reconciling
      <3> QED BY <2>0, <3>2, <3>3, <3>4, <3>5, MoveClean
    <2>10. ASSUME NEW t \in Torrents,
                  \/ TorrentDelete(e, t) \/ TorrentDeleteIneffective(e, t)
           PROVE  Cleaned'
      <3>1. PICK r : r = [req[e] EXCEPT !.pc = "torrentConfirm", !.cur = t]
        OBVIOUS
      <3>2. /\ r.state = req[e].state /\ r.pc = "torrentConfirm"
            /\ r.snap = req[e].snap /\ r.kind = req[e].kind
        BY <2>0, <3>1 DEF Request
      <3>3. req[e].pc = "torrentLoop" /\ req' = [req EXCEPT ![e] = r] /\ job' = job
        BY <2>10, <3>1 DEF TorrentDelete, TorrentDeleteIneffective
      <3>4. SessionClean(r) /\ r.snap = job'.snap
        BY <2>a, <2>6, <3>2, <3>3 DEF SessionClean, Clean, Reconciling, Steps
      <3> QED BY <2>0, <2>a, <3>3, <3>4, CleanStep
    <2>11. ASSUME NEW t \in Torrents, ConfirmTorrentDelete(e, t)
           PROVE  Cleaned'
      <3>0. req[e].pc \in Steps \ (Reconciling \cup {"entry"})
        BY <2>11 DEF ConfirmTorrentDelete, Steps, Reconciling
      <3>1. CASE t \in present
        BY <2>5, <2>11, <3>0, <3>1 DEF ConfirmTorrentDelete
      <3>2. CASE t \notin present
        <4>1. PICK d, r : /\ d = req[e].deleted \cup {t}
                          /\ r = [req[e] EXCEPT !.deleted = d, !.aliased = TRUE,
                                        !.cur = NoTorrent, !.pc = "torrentLoop"]
          OBVIOUS
        <4>2. /\ r.state = req[e].state /\ r.pc = "torrentLoop"
              /\ r.snap = req[e].snap /\ r.kind = req[e].kind
          BY <2>0, <4>1 DEF Request
        <4>3. /\ req' = [req EXCEPT ![e] = r]
              /\ job'.state = job.state /\ job'.snap = job.snap
          BY <2>11, <3>2, <4>1 DEF ConfirmTorrentDelete
        <4>4. SessionClean(r) /\ r.snap = job'.snap
          BY <2>a, <2>6, <3>0, <4>2, <4>3 DEF SessionClean, Clean, Reconciling, Steps
        <4>5. Clean(job'.state, job'.snap)
          BY <2>a, <4>3
        <4> QED BY <2>0, <4>3, <4>4, <4>5, CleanStep
      <3> QED BY <3>1, <3>2
    <2>12. CASE RequestPlexRefresh(e) \/ RefreshPlex(e)
      <3>1. req[e].pc \in Reconciling /\ req[e].pc # "idle"
        BY <2>12 DEF RequestPlexRefresh, RefreshPlex, Reconciling
      <3>2. req[e].snap \cap present = {}
        BY <2>a, <3>1 DEF SessionClean, Clean
      <3>3. PICK s \in PastTorrents, p \in Reconciling :
              /\ req' = [req EXCEPT ![e] = [@ EXCEPT !.state = s, !.pc = p]]
              /\ \E d : job' = [job EXCEPT !.state = WrittenState(e, s), !.deleted = d]
        <4>1. CASE RequestPlexRefresh(e)
          <5>1. PICK s : s = IF req[e].state \in {"PLEX_REFRESH_REQUESTED",
                                  "PLEX_REFRESHED", "RECONCILE_REQUIRED"}
                             THEN req[e].state ELSE "PLEX_REFRESH_REQUESTED"
            OBVIOUS
          <5>2. s \in PastTorrents
            BY <5>1 DEF PastTorrents
          <5>3. /\ req' = [req EXCEPT ![e] = [@ EXCEPT !.state = s, !.pc = "plexCall"]]
                /\ \E d : job' = [job EXCEPT !.state = WrittenState(e, s), !.deleted = d]
            BY <4>1, <5>1, Zenon DEF RequestPlexRefresh
          <5> QED BY <5>2, <5>3 DEF Reconciling
        <4>2. CASE RefreshPlex(e)
          <5>1. PICK p : p = IF plexItem /\ PlexMatched THEN "stillListed" ELSE "absent"
            OBVIOUS
          <5>2. /\ req' = [req EXCEPT ![e] = [@ EXCEPT !.state = "PLEX_REFRESHED", !.pc = p]]
                /\ \E d : job' = [job EXCEPT !.state = WrittenState(e, "PLEX_REFRESHED"),
                                             !.deleted = d]
            BY <4>2, <5>1 DEF RefreshPlex
          <5>3. p \in Reconciling /\ "PLEX_REFRESHED" \in PastTorrents
            BY <5>1 DEF Reconciling, PastTorrents
          <5> QED BY <5>2, <5>3
        <4> QED BY <2>12, <4>1, <4>2
      <3>4. job'.state = WrittenState(e, s) /\ job'.snap = job.snap
        BY <3>3, WriteClean
      <3> QED BY <2>0, <3>1, <3>2, <3>3, <3>4, MoveClean
    <2>13. CASE SettleJob(e)
      <3>1. req[e].pc \in Reconciling /\ req[e].pc # "idle"
        BY <2>13 DEF SettleJob, Reconciling
      <3>2. job.snap \cap present = {}
        BY <2>a, <3>1 DEF SessionClean, Clean
      <3> QED BY <2>0, <2>13, <3>2, FinishClean DEF SettleJob
    <2>14. CASE \/ EvidenceBlocks(e) \/ BlockAtTorrents(e) \/ BlockTorrentDelete(e)
                \/ BlockAtReconcile(e) \/ ReconcileBlocks(e) \/ ExternalStepFails(e)
      BY <2>5, <2>14 DEF EvidenceBlocks, BlockAtTorrents, BlockTorrentDelete,
         BlockAtReconcile, ReconcileBlocks, ExternalStepFails, Calling, Steps
    <2> QED
      BY <1>3, <2>1, <2>2, <2>3, <2>4, <2>7, <2>8, <2>9, <2>10, <2>11, <2>12, <2>13,
         <2>14 DEF Workflow, Mishap, EnterUnhealthy
  <1> QED BY <1>1, <1>2, <1>3 DEF Next


\* With requests that come one at a time, however they are interrupted, blocked
\* and resumed, a completed job leaves none of the torrents of its snapshot.
THEOREM NoTorrentLeft ==
    ASSUME OneSlot
    PROVE  Spec => []CompletedLeavesNoTorrent
  <1>1. Init => Cleaned
    BY DEF Init, Cleaned, Clean, SessionClean, Idle, PastTorrents
  <1>2. TypeOK /\ Safe /\ Cleaned /\ [Next]_vars => Cleaned'
    BY CleanedNext
  <1>3. Cleaned => CompletedLeavesNoTorrent
    BY DEF Cleaned, Clean, PastTorrents, CompletedLeavesNoTorrent
  <1> QED BY <1>1, <1>2, <1>3, TypeCorrect, Safety, PTL DEF Spec

-----------------------------------------------------------------------------
(***************************************************************************)
(* What lasts.  A request that is alone, while no administrator changes    *)
(* the job, decides on the row as it is: the state it holds is the row's,  *)
(* it is past its entry only with a state that is not final, and before    *)
(* Radarr only with a state from before Radarr.                            *)
(***************************************************************************)
InTime(r) ==
    /\ r.state # "NONE"
    /\ r.pc \in Steps \ {"entry"} => r.state \notin TerminalJobStates
    /\ r.pc \in {"revalidate", "evidence", "radarr"} => r.state \notin AfterRadarr

Fresh ==
    \A e \in Executors : req[e].pc # "idle" => req[e].state = job.state /\ InTime(req[e])

\* What a step leaves of the state in the row.
Remembers ==
    /\ job.state \in TerminalJobStates => job'.state = job.state
    /\ job.state \in AfterRadarr => job'.state \in AfterRadarr

\* A step of the request, by what it leaves in its record.
LEMMA FreshStep ==
    ASSUME TypeOK, OneSlot, NEW e \in Executors, NEW r,
           req' = [req EXCEPT ![e] = r],
           r.pc # "idle" => r.state = job'.state /\ InTime(r)
    PROVE  Fresh'
  <1> SUFFICES ASSUME NEW f \in Executors
               PROVE  (req[f].pc # "idle" => req[f].state = job.state /\ InTime(req[f]))'
    BY DEF Fresh, InTime
  <1>1. req'[f] = r
    BY DEF TypeOK, OneSlot
  <1> QED BY <1>1 DEF InTime

\* A request that ends.
LEMMA FinishFresh ==
    ASSUME TypeOK, OneSlot, Fresh, NEW e \in Executors, req[e].pc # "idle",
           NEW s, Finish(e, s),
           job.state \in TerminalJobStates => s = job.state,
           job.state \in AfterRadarr => s \in AfterRadarr
    PROVE  Fresh' /\ Remembers
  <1>1. job'.state = s
    BY DEF Finish, TypeOK, JobRow, Fresh, WrittenState
  <1>2. Fresh'
    <2>1. PICK r : r = Idle
      OBVIOUS
    <2> QED BY <2>1, FreshStep DEF Finish, Idle
  <1> QED BY <1>1, <1>2 DEF Remembers

\* A request blocked or failed after its entry keeps what it knows.
LEMMA BlockFresh ==
    ASSUME TypeOK, OneSlot, Fresh, NEW e \in Executors,
           req[e].pc \in Steps \ {"entry"}, Block(e) \/ Fail(e)
    PROVE  Fresh' /\ Remembers
  <1>1. PICK s \in {BlockedState(e), FailedState(e)} : Finish(e, s)
    BY DEF Block, Fail
  <1>2. /\ req[e].pc # "idle" /\ req[e].state = job.state
        /\ req[e].state \notin TerminalJobStates
    BY DEF Fresh, InTime, Steps
  <1>3. job.state \in AfterRadarr => s \in AfterRadarr
    BY <1>2 DEF BlockedState, FailedState, ExternalChangeStarted, AfterRadarr, TerminalJobStates
  <1> QED BY <1>1, <1>2, <1>3, FinishFresh

\* A step to another state and another pc.
LEMMA MoveFresh ==
    ASSUME TypeOK, OneSlot, Fresh, NEW e \in Executors, req[e].pc # "idle",
           NEW s, NEW p, NEW r, r.state = s, r.pc = p, req' = [req EXCEPT ![e] = r],
           job'.state = WrittenState(e, s), InTime(r),
           job.state \in TerminalJobStates => s = job.state,
           job.state \in AfterRadarr => s \in AfterRadarr
    PROVE  Fresh' /\ Remembers
  <1>1. job'.state = s
    BY DEF Fresh, WrittenState
  <1>2. Fresh'
    BY <1>1, FreshStep
  <1> QED BY <1>1, <1>2 DEF Remembers

\* A step to another pc.
LEMMA PcFresh ==
    ASSUME TypeOK, OneSlot, Fresh, NEW e \in Executors, req[e].pc # "idle", NEW p, NEW r,
           r.state = req[e].state, r.pc = p, req' = [req EXCEPT ![e] = r],
           job'.state = job.state, InTime(r)
    PROVE  Fresh' /\ Remembers
  <1>1. r.state = job'.state
    BY DEF Fresh
  <1>2. Fresh'
    BY <1>1, FreshStep
  <1> QED BY <1>2 DEF Remembers

\* One request at a time and no administrator: the copy a request holds is the
\* row's, and what the row says of Radarr or of the end is never taken back.
LEMMA FreshNext ==
    ASSUME OneSlot, Admins = {}, TypeOK, Fresh, [Next]_vars
    PROVE  Fresh' /\ Remembers
  <1> USE DEF TypeOK, JobRow, row
  <1>1. CASE CreateMovieJob
    <2>1. req' = req /\ job.state = "NONE" /\ job'.state = "PENDING_APPROVAL"
      BY <1>1 DEF CreateMovieJob
    <2>2. Remembers
      BY <2>1 DEF Remembers, TerminalJobStates, AfterRadarr
    <2>3. \A e \in Executors : req[e].pc = "idle"
      BY <2>1 DEF Fresh, InTime
    <2> QED BY <2>1, <2>2, <2>3 DEF Fresh
  <1>2. CASE Drift \/ PlexScan \/ UNCHANGED vars
    <2>1. req' = req /\ job' = job
      BY <1>2 DEF Drift, RadarrEdited, RadarrSwitchedOn, QbitEdited, QbitSwitchedOn,
         SyncRadarr, MovieChanges, TorrentVanishes, PlexScan, vars
    <2> QED BY <2>1 DEF Fresh, InTime, Remembers
  <1>3. ASSUME NEW e \in Executors, Admission(e) \/ Workflow(e) \/ Mishap(e)
        PROVE  Fresh' /\ Remembers
    <2>0. /\ req[e] \in Request
          /\ req[e].pc # "idle" => req[e].state = job.state /\ InTime(req[e])
      BY DEF Fresh
    <2>1. ASSUME NEW kind, LoadJob(e, kind) PROVE Fresh' /\ Remembers
      <3>1. PICK r : r = [Idle EXCEPT !.pc = "loaded", !.kind = kind,
                               !.state = job.state, !.snap = job.snap,
                               !.deleted = job.deleted]
        OBVIOUS
      <3>2. r.state = job.state /\ r.pc = "loaded"
        BY <3>1 DEF Idle
      <3>3. job' = job /\ job.state # "NONE" /\ req' = [req EXCEPT ![e] = r]
        BY <2>1, <3>1 DEF LoadJob
      <3>4. InTime(r)
        BY <3>2, <3>3 DEF InTime, Steps
      <3> QED BY <3>2, <3>3, <3>4, FreshStep DEF Remembers
    <2>2. CASE AcquireCoordinator(e)
      <3>1. PICK r : r = [req[e] EXCEPT !.pc = "entry"]
        OBVIOUS
      <3>2. /\ r.state = req[e].state /\ r.pc = "entry"
            /\ req' = [req EXCEPT ![e] = r] /\ job' = job /\ req[e].pc # "idle"
        BY <2>2, <3>1, <2>0 DEF AcquireCoordinator, Request
      <3>3. InTime(r)
        BY <3>2, <2>0 DEF InTime
      <3> QED BY <2>0, <3>2, <3>3, PcFresh
    <2>3. CASE SyncAlreadyRunning(e) \/ RefuseRequest(e) \/ CrashRequest(e)
      <3>1. PICK r : r = Idle
        OBVIOUS
      <3>2. r.pc = "idle" /\ req' = [req EXCEPT ![e] = r] /\ job' = job
        BY <2>3, <3>1 DEF SyncAlreadyRunning, RefuseRequest, CrashRequest, Idle
      <3> QED BY <3>2, FreshStep DEF Remembers
    <2>4. ASSUME NEW ready, EnterWorkflow(e, ready) PROVE Fresh' /\ Remembers
      <3>1. PICK s : s = IF req[e].state = "PENDING_APPROVAL" THEN "APPROVED"
                         ELSE req[e].state
        OBVIOUS
      <3>2. PICK r : r = [req[e] EXCEPT !.state = s, !.pc = Dispatch(s), !.ready = ready]
        OBVIOUS
      <3>3. /\ r.state = s /\ r.pc = Dispatch(s) /\ req[e].pc # "idle"
            /\ req' = [req EXCEPT ![e] = r] /\ job'.state = WrittenState(e, s)
        BY <2>4, <2>0, <3>1, <3>2 DEF EnterWorkflow, Request
      <3>4. req[e].state \in ExecutableJobStates
        BY <2>4 DEF EnterWorkflow, ExecutableJobStates, AfterRadarr, TerminalJobStates
      <3>5. s \in ExecutableJobStates /\ s # "NONE" /\ s \notin TerminalJobStates
        BY <3>1, <3>4 DEF ExecutableJobStates, BeforeRadarr, AfterRadarr, TerminalJobStates
      <3>6. Dispatch(s) \in {"revalidate", "evidence", "radarr"} => s \notin AfterRadarr
        BY DEF Dispatch, AfterRadarr
      <3>7. InTime(r)
        BY <3>3, <3>5, <3>6 DEF InTime
      <3>8. /\ job.state \in TerminalJobStates => s = job.state
            /\ job.state \in AfterRadarr => s \in AfterRadarr
        BY <2>0, <3>1, <3>3, <3>4 DEF ExecutableJobStates, AfterRadarr
      <3> QED BY <3>3, <3>7, <3>8, MoveFresh
    <2>5. ASSUME req[e].pc \in Steps \ {"entry"}, Block(e) \/ Fail(e)
          PROVE  Fresh' /\ Remembers
      BY <2>5, BlockFresh
    <2>6. CASE CheckRevalidationGates(e)
      <3>1. CASE Block(e)
        BY <2>5, <2>6, <3>1 DEF CheckRevalidationGates, Steps
      <3>2. CASE req' = [req EXCEPT ![e].pc = "evidence"] /\ job' = job
        <4>1. PICK r : r = [req[e] EXCEPT !.pc = "evidence"]
          OBVIOUS
        <4>2. /\ r.state = req[e].state /\ r.pc = "evidence" /\ req[e].pc = "revalidate"
              /\ req' = [req EXCEPT ![e] = r]
          BY <2>0, <2>6, <3>2, <4>1 DEF CheckRevalidationGates, Request
        <4>3. InTime(r)
          BY <2>0, <4>2 DEF InTime, Steps
        <4> QED BY <3>2, <4>2, <4>3, PcFresh
      <3> QED BY <2>6, <3>1, <3>2 DEF CheckRevalidationGates
    <2>7. CASE LiveRevalidate(e)
      <3>1. PICK snap : req' = [req EXCEPT ![e] = [@ EXCEPT !.state = "REVALIDATED",
                                    !.pc = "radarr", !.snap = snap, !.deleted = {}]]
        BY <2>7 DEF LiveRevalidate
      <3>2. PICK r : r = [req[e] EXCEPT !.state = "REVALIDATED", !.pc = "radarr",
                                        !.snap = snap, !.deleted = {}]
        OBVIOUS
      <3>a. r.state = "REVALIDATED" /\ r.pc = "radarr"
        BY <2>0, <3>2 DEF Request
      <3>b. req[e].pc = "evidence" /\ job'.state = "REVALIDATED"
        BY <2>7 DEF LiveRevalidate
      <3>3. /\ r.state = "REVALIDATED" /\ r.pc = "radarr"
            /\ req' = [req EXCEPT ![e] = r] /\ req[e].pc = "evidence"
            /\ job'.state = "REVALIDATED"
        BY <3>1, <3>2, <3>a, <3>b
      <3>4. InTime(r)
        BY <3>3 DEF InTime, TerminalJobStates, AfterRadarr
      <3>5. Fresh'
        BY <3>3, <3>4, FreshStep
      <3>6. job.state \notin TerminalJobStates /\ job.state \notin AfterRadarr
        BY <2>0, <3>3 DEF InTime, Steps
      <3> QED BY <3>5, <3>6 DEF Remembers
    <2>8. CASE RequestRadarrDelete(e)
      <3>1. CASE Block(e)
        BY <2>5, <2>8, <3>1 DEF RequestRadarrDelete, Steps
      <3>2. CASE Transition(e, "RADARR_DELETE_REQUESTED", "radarrCall")
        <4>1. PICK r : r = [req[e] EXCEPT !.state = "RADARR_DELETE_REQUESTED",
                                          !.pc = "radarrCall"]
          OBVIOUS
        <4>2. /\ r.state = "RADARR_DELETE_REQUESTED" /\ r.pc = "radarrCall"
              /\ req' = [req EXCEPT ![e] = r] /\ req[e].pc = "radarr"
              /\ job'.state = WrittenState(e, "RADARR_DELETE_REQUESTED")
          BY <2>0, <2>8, <3>2, <4>1 DEF RequestRadarrDelete, Transition, Request
        <4>3. InTime(r)
          BY <4>2 DEF InTime, TerminalJobStates
        <4>4. job.state \notin TerminalJobStates /\ job.state \notin AfterRadarr
          BY <2>0, <4>2 DEF InTime, Steps
        <4> QED BY <4>2, <4>3, <4>4, MoveFresh
      <3> QED BY <2>8, <3>1, <3>2 DEF RequestRadarrDelete
    <2>9. CASE \/ LookUpMovie(e) \/ RadarrDelete(e) \/ RadarrDeleteIneffective(e)
               \/ RadarrDeleteSkipped(e)
      <3>1. CASE Block(e)
        BY <2>5, <2>9, <3>1 DEF LookUpMovie, RadarrDelete, RadarrDeleteIneffective,
           RadarrDeleteSkipped, Steps
      <3>2. ASSUME NEW p \in {"radarrDelete", "radarrConfirm"},
                   req' = [req EXCEPT ![e].pc = p], job' = job
            PROVE  Fresh' /\ Remembers
        <4>1. PICK r : r = [req[e] EXCEPT !.pc = p]
          OBVIOUS
        <4>2. /\ r.state = req[e].state /\ r.pc = p
              /\ req[e].pc \in {"radarrCall", "radarrDelete"}
              /\ req' = [req EXCEPT ![e] = r]
          BY <2>0, <2>9, <3>2, <4>1 DEF LookUpMovie, RadarrDelete,
             RadarrDeleteIneffective, RadarrDeleteSkipped, Request
        <4>3. InTime(r)
          BY <2>0, <4>2 DEF InTime, Steps
        <4> QED BY <3>2, <4>2, <4>3, PcFresh
      <3> QED BY <2>9, <3>1, <3>2 DEF LookUpMovie, RadarrDelete,
                 RadarrDeleteIneffective, RadarrDeleteSkipped, row
    <2>10. CASE ConfirmRadarrDelete(e)
      <3>1. CASE Block(e) \/ Fail(e)
        BY <2>5, <2>10, <3>1 DEF ConfirmRadarrDelete, Steps
      <3>2. CASE EnsureExclusion(e) /\ req' = [req EXCEPT ![e].pc = "radarrDone"]
        <4>1. PICK r : r = [req[e] EXCEPT !.pc = "radarrDone"]
          OBVIOUS
        <4>2. /\ r.state = req[e].state /\ r.pc = "radarrDone" /\ req[e].pc = "radarrConfirm"
              /\ req' = [req EXCEPT ![e] = r] /\ job'.state = job.state
          BY <2>0, <2>10, <3>2, <4>1 DEF ConfirmRadarrDelete, EnsureExclusion, Request
        <4>3. InTime(r)
          BY <2>0, <4>2 DEF InTime, Steps
        <4> QED BY <4>2, <4>3, PcFresh
      <3> QED BY <2>10, <3>1, <3>2 DEF ConfirmRadarrDelete
    <2>11. ASSUME NEW s, NEW p, p \in Steps \ {"entry", "revalidate", "evidence", "radarr"},
                  s \in AfterRadarr \ TerminalJobStates,
                  req[e].pc \in Steps \ {"entry"},
                  req' = [req EXCEPT ![e] = [@ EXCEPT !.state = s, !.pc = p]],
                  job'.state = WrittenState(e, s)
           PROVE  Fresh' /\ Remembers
      <3>1. PICK r : r = [req[e] EXCEPT !.state = s, !.pc = p]
        OBVIOUS
      <3>2. r.state = s /\ r.pc = p /\ req' = [req EXCEPT ![e] = r] /\ req[e].pc # "idle"
        BY <2>0, <2>11, <3>1 DEF Request, Steps
      <3>3. InTime(r)
        BY <2>11, <3>2 DEF InTime, AfterRadarr
      <3>4. job.state \notin TerminalJobStates
        BY <2>0, <2>11, <3>2 DEF InTime
      <3> QED BY <2>11, <3>2, <3>3, <3>4, MoveFresh
    <2>12. CASE RecordRadarrDeleted(e)
      BY <2>11, <2>12 DEF RecordRadarrDeleted, Transition, Steps, AfterRadarr, TerminalJobStates
    <2>13. CASE StartTorrentDeletes(e)
      <3>1. PICK s : s = IF req[e].snap = {} THEN "TORRENT_DELETED"
                         ELSE "TORRENT_DELETE_REQUESTED"
        OBVIOUS
      <3>2. PICK p : p = IF req[e].snap = {} THEN "reconcile" ELSE "torrentLoop"
        OBVIOUS
      <3>3. /\ req[e].pc = "torrents" /\ job'.state = WrittenState(e, s)
            /\ req' = [req EXCEPT ![e] = [@ EXCEPT !.state = s, !.pc = p]]
        BY <2>13, <3>1, <3>2 DEF StartTorrentDeletes
      <3>4. s \in AfterRadarr \ TerminalJobStates
        BY <3>1 DEF AfterRadarr, TerminalJobStates
      <3>5. p \in Steps \ {"entry", "revalidate", "evidence", "radarr"}
        BY <3>2 DEF Steps
      <3> QED BY <2>11, <3>3, <3>4, <3>5 DEF Steps
    <2>14. ASSUME NEW t, TorrentDelete(e, t) \/ TorrentDeleteIneffective(e, t)
           PROVE  Fresh' /\ Remembers
      <3>1. PICK r : r = [req[e] EXCEPT !.pc = "torrentConfirm", !.cur = t]
        OBVIOUS
      <3>2. /\ r.state = req[e].state /\ r.pc = "torrentConfirm" /\ req[e].pc = "torrentLoop"
            /\ req' = [req EXCEPT ![e] = r] /\ job' = job
        BY <2>0, <2>14, <3>1 DEF TorrentDelete, TorrentDeleteIneffective, Request
      <3>3. InTime(r)
        BY <2>0, <3>2 DEF InTime, Steps
      <3> QED BY <3>2, <3>3, PcFresh
    <2>15. ASSUME NEW t, ConfirmTorrentDelete(e, t) PROVE Fresh' /\ Remembers
      <3>1. CASE Fail(e)
        BY <2>5, <2>15, <3>1 DEF ConfirmTorrentDelete, Steps
      <3>2. CASE ~Fail(e)
        <4>1. PICK r : r = [req[e] EXCEPT !.deleted = req[e].deleted \cup {t},
                              !.aliased = TRUE, !.cur = NoTorrent, !.pc = "torrentLoop"]
          OBVIOUS
        <4>2. /\ r.state = req[e].state /\ r.pc = "torrentLoop"
              /\ req' = [req EXCEPT ![e] = r] /\ req[e].pc = "torrentConfirm"
              /\ job'.state = job.state
          BY <2>0, <2>15, <3>2, <4>1 DEF ConfirmTorrentDelete, Request
        <4>3. InTime(r)
          BY <2>0, <4>2 DEF InTime, Steps
        <4> QED BY <4>2, <4>3, PcFresh
      <3> QED BY <3>1, <3>2
    <2>16. CASE FinishTorrentDeletes(e)
      BY <2>11, <2>16 DEF FinishTorrentDeletes, Transition, Steps, AfterRadarr, TerminalJobStates
    <2>17. CASE RequestPlexRefresh(e)
      <3>1. PICK s : s = IF req[e].state \in {"PLEX_REFRESH_REQUESTED", "PLEX_REFRESHED",
                                              "RECONCILE_REQUIRED"}
                         THEN req[e].state ELSE "PLEX_REFRESH_REQUESTED"
        OBVIOUS
      <3>2. /\ req[e].pc = "reconcile" /\ job'.state = WrittenState(e, s)
            /\ req' = [req EXCEPT ![e] = [@ EXCEPT !.state = s, !.pc = "plexCall"]]
        BY <2>17, <3>1 DEF RequestPlexRefresh
      <3>3. s \in AfterRadarr \ TerminalJobStates
        BY <3>1 DEF AfterRadarr, TerminalJobStates
      <3> QED BY <2>11, <3>2, <3>3 DEF Steps
    <2>18. CASE RefreshPlex(e)
      <3>1. PICK p : p = IF plexItem /\ PlexMatched THEN "stillListed" ELSE "absent"
        OBVIOUS
      <3>2. /\ req[e].pc = "plexCall" /\ job'.state = WrittenState(e, "PLEX_REFRESHED")
            /\ req' = [req EXCEPT ![e] = [@ EXCEPT !.state = "PLEX_REFRESHED", !.pc = p]]
        BY <2>18, <3>1 DEF RefreshPlex
      <3>3. p \in Steps \ {"entry", "revalidate", "evidence", "radarr"}
        BY <3>1 DEF Steps
      <3> QED BY <2>11, <3>2, <3>3 DEF Steps, AfterRadarr, TerminalJobStates
    <2>19. CASE SettleJob(e)
      <3>1. PICK s : s = IF req[e].pc = "absent" THEN "COMPLETED" ELSE "RECONCILE_REQUIRED"
        OBVIOUS
      <3>2. Finish(e, s) /\ req[e].pc \in {"stillListed", "absent"}
        BY <2>19, <3>1 DEF SettleJob
      <3>3. job.state \notin TerminalJobStates /\ req[e].pc # "idle"
        BY <2>0, <3>2 DEF InTime, Steps
      <3> QED BY <3>1, <3>2, <3>3, FinishFresh DEF AfterRadarr
    <2>20. CASE \/ EvidenceBlocks(e) \/ BlockAtTorrents(e) \/ BlockTorrentDelete(e)
                \/ BlockAtReconcile(e) \/ ReconcileBlocks(e) \/ ExternalStepFails(e)
                \/ RadarrDeleteRefused(e)
      BY <2>5, <2>20 DEF RadarrDeleteRefused, EvidenceBlocks, BlockAtTorrents, BlockTorrentDelete,
         BlockAtReconcile, ReconcileBlocks, ExternalStepFails, Calling, Steps
    <2> QED
      BY <1>3, <2>1, <2>2, <2>3, <2>4, <2>6, <2>7, <2>8, <2>9, <2>10, <2>12, <2>13,
         <2>14, <2>15, <2>16, <2>17, <2>18, <2>19, <2>20
      DEF Admission, Workflow, Mishap, EnterUnhealthy
  <1> QED BY <1>1, <1>2, <1>3 DEF Next, Administration

LEMMA FreshIsInvariant ==
    ASSUME OneSlot, Admins = {}
    PROVE  Spec => []Fresh
  <1>1. Init => Fresh
    BY DEF Init, Fresh, Idle
  <1>2. TypeOK /\ Fresh /\ [Next]_vars => Fresh'
    BY FreshNext
  <1> QED BY <1>1, <1>2, TypeCorrect, PTL DEF Spec

\* Under those conditions a job that ended has ended.
LEMMA EndsOnce ==
    ASSUME OneSlot, Admins = {}
    PROVE  Spec => TerminalStatesAreFinal
  <1>1. TypeOK /\ Fresh /\ [Next]_vars
          => [job.state \in TerminalJobStates => job.state' = job.state]_job
    BY FreshNext DEF Remembers
  <1> QED BY <1>1, TypeCorrect, FreshIsInvariant, PTL DEF Spec, TerminalStatesAreFinal

\* A row that says Radarr deleted the movie says so for ever, whatever fails,
\* crashes, is blocked or executed again afterwards.
THEOREM RadarrIsRemembered ==
    ASSUME OneSlot, Admins = {}
    PROVE  Spec => DeletionIsRemembered
  <1>1. TypeOK /\ Fresh /\ [Next]_vars
          => [job.state \in AfterRadarr => job.state' \in AfterRadarr]_job
    BY FreshNext DEF Remembers
  <1> QED BY <1>1, TypeCorrect, FreshIsInvariant, PTL DEF Spec, DeletionIsRemembered

-----------------------------------------------------------------------------
(***************************************************************************)
(* Who brings a job back that ended, when anybody may act at any time      *)
(***************************************************************************)
\* A request past its entry holds a state that is not terminal.
Going == \A e \in Executors :
            req[e].pc \in Steps \ {"entry"} => req[e].state \notin TerminalJobStates

\* A write to the record of one request.
LEMMA GoingStore ==
    ASSUME TypeOK, Going, NEW e \in Executors, NEW r, req' = [req EXCEPT ![e] = r],
           r.pc \in Steps \ {"entry"} => r.state \notin TerminalJobStates
    PROVE  Going'
  BY DEF TypeOK, Going

\* The same, of a step that ends the request,
LEMMA GoingEnds ==
    ASSUME TypeOK, Going, NEW e \in Executors, req' = [req EXCEPT ![e] = Idle]
    PROVE  Going'
  <1>1. PICK r : r = Idle
    OBVIOUS
  <1> QED BY <1>1, GoingStore DEF Idle, Steps

\* of one to another state and pc,
LEMMA GoingMoves ==
    ASSUME TypeOK, Going, NEW e \in Executors, NEW s, NEW p, s \notin TerminalJobStates,
           req' = [req EXCEPT ![e] = [@ EXCEPT !.state = s, !.pc = p]]
    PROVE  Going'
  <1>0. req[e] \in Request
    BY DEF TypeOK
  <1>1. PICK r : r = [req[e] EXCEPT !.state = s, !.pc = p]
    OBVIOUS
  <1>2. r.state = s
    BY <1>0, <1>1 DEF Request
  <1> QED BY <1>1, <1>2, GoingStore

\* and of one to another pc.
LEMMA GoingSteps ==
    ASSUME TypeOK, Going, NEW e \in Executors, NEW p,
           req[e].pc \in Steps \ {"entry"}, req' = [req EXCEPT ![e].pc = p]
    PROVE  Going'
  <1>0. req[e] \in Request
    BY DEF TypeOK
  <1>1. PICK r : r = [req[e] EXCEPT !.pc = p]
    OBVIOUS
  <1>2. r.state = req[e].state
    BY <1>0, <1>1 DEF Request
  <1> QED BY <1>1, <1>2, GoingStore DEF Going

\* No step of a request lets it go on with a terminal state.
LEMMA RequestGoing ==
    ASSUME TypeOK, Going, NEW e \in Executors, Admission(e) \/ Workflow(e) \/ Mishap(e)
    PROVE  Going'
  <1>0. req[e] \in Request
    BY DEF TypeOK
  <1>1. ASSUME NEW kind, LoadJob(e, kind) PROVE Going'
    <2>1. PICK r : r = [Idle EXCEPT !.pc = "loaded", !.kind = kind,
                                 !.state = job.state, !.snap = job.snap,
                                 !.deleted = job.deleted]
      OBVIOUS
    <2>2. r.pc = "loaded"
      BY <2>1 DEF Idle
    <2> QED BY <1>1, <2>1, <2>2, GoingStore DEF LoadJob, Steps
  <1>2. CASE AcquireCoordinator(e)
    <2>1. PICK r : r = [req[e] EXCEPT !.pc = "entry"]
      OBVIOUS
    <2>2. r.pc = "entry"
      BY <1>0, <2>1 DEF Request
    <2> QED BY <1>2, <2>1, <2>2, GoingStore DEF AcquireCoordinator
  <1>3. CASE \/ SyncAlreadyRunning(e) \/ RefuseRequest(e) \/ CrashRequest(e)
             \/ Block(e) \/ Fail(e) \/ SettleJob(e)
    BY <1>3, GoingEnds DEF SyncAlreadyRunning, RefuseRequest, CrashRequest, Block, Fail,
                           SettleJob, Finish
  <1>4. ASSUME NEW ready, EnterWorkflow(e, ready) PROVE Going'
    <2>1. PICK s : s = IF req[e].state = "PENDING_APPROVAL" THEN "APPROVED"
                       ELSE req[e].state
      OBVIOUS
    <2>2. PICK r : r = [req[e] EXCEPT !.state = s, !.pc = Dispatch(s), !.ready = ready]
      OBVIOUS
    <2>3. r.state = s
      BY <1>0, <2>2 DEF Request
    <2>4. s \notin TerminalJobStates
      BY <1>4, <2>1 DEF EnterWorkflow, ExecutableJobStates, TerminalJobStates
    <2>5. req' = [req EXCEPT ![e] = r]
      BY <1>4, <2>1, <2>2 DEF EnterWorkflow
    <2> QED BY <2>3, <2>4, <2>5, GoingStore
  <1>5. CASE \/ CheckRevalidationGates(e) \/ EvidenceBlocks(e) \/ LookUpMovie(e)
             \/ RadarrDelete(e) \/ RadarrDeleteRefused(e) \/ RadarrDeleteIneffective(e)
             \/ RadarrDeleteSkipped(e) \/ ConfirmRadarrDelete(e)
    <2>1. /\ req[e].pc \in Steps \ {"entry"}
          /\ Block(e) \/ Fail(e) \/ \E p \in Steps : req' = [req EXCEPT ![e].pc = p]
      BY <1>5 DEF CheckRevalidationGates, EvidenceBlocks, LookUpMovie, RadarrDelete,
         RadarrDeleteRefused, RadarrDeleteIneffective, RadarrDeleteSkipped,
         ConfirmRadarrDelete, Steps
    <2> QED BY <1>3, <2>1, GoingSteps
  <1>14. CASE RequestRadarrDelete(e) \/ RecordRadarrDeleted(e) \/ FinishTorrentDeletes(e)
    <2>1. Block(e) \/ \E s \in RowStates \ TerminalJobStates, p \in Steps :
                        Transition(e, s, p)
      BY <1>14, StatesTyped DEF RequestRadarrDelete, RecordRadarrDeleted,
         FinishTorrentDeletes, BeforeRadarr, AfterRadarr, TerminalJobStates, Steps
    <2> QED BY <1>3, <2>1, GoingMoves DEF Transition
  <1>6. CASE LiveRevalidate(e)
    <2>1. PICK snap : req' = [req EXCEPT ![e] = [@ EXCEPT !.state = "REVALIDATED",
                                  !.pc = "radarr", !.snap = snap, !.deleted = {}]]
      BY <1>6 DEF LiveRevalidate
    <2>2. PICK r : r = [req[e] EXCEPT !.state = "REVALIDATED", !.pc = "radarr",
                                      !.snap = snap, !.deleted = {}]
      OBVIOUS
    <2>3. r.state = "REVALIDATED"
      BY <1>0, <2>2 DEF Request
    <2> QED BY <2>1, <2>2, <2>3, GoingStore DEF TerminalJobStates
  <1>7. CASE \/ BlockAtTorrents(e) \/ BlockTorrentDelete(e) \/ BlockAtReconcile(e)
             \/ ReconcileBlocks(e) \/ ExternalStepFails(e)
    BY <1>3, <1>7 DEF BlockAtTorrents, BlockTorrentDelete, BlockAtReconcile,
                      ReconcileBlocks, ExternalStepFails
  <1>8. CASE StartTorrentDeletes(e)
    <2>1. PICK s : s = IF req[e].snap = {} THEN "TORRENT_DELETED"
                       ELSE "TORRENT_DELETE_REQUESTED"
      OBVIOUS
    <2>2. PICK p : p = IF req[e].snap = {} THEN "reconcile" ELSE "torrentLoop"
      OBVIOUS
    <2>3. req' = [req EXCEPT ![e] = [@ EXCEPT !.state = s, !.pc = p]]
      BY <1>8, <2>1, <2>2 DEF StartTorrentDeletes
    <2>4. s \notin TerminalJobStates
      BY <2>1 DEF TerminalJobStates
    <2> QED BY <2>3, <2>4, GoingMoves
  <1>9. ASSUME NEW t, TorrentDelete(e, t) \/ TorrentDeleteIneffective(e, t)
        PROVE  Going'
    <2>1. PICK r : r = [req[e] EXCEPT !.pc = "torrentConfirm", !.cur = t]
      OBVIOUS
    <2>2. r.state = req[e].state
      BY <1>0, <2>1 DEF Request
    <2> QED BY <1>9, <2>1, <2>2, GoingStore DEF TorrentDelete, TorrentDeleteIneffective,
                                                Going, Steps
  <1>10. ASSUME NEW t, ConfirmTorrentDelete(e, t) PROVE Going'
    <2>1. CASE ~Fail(e)
      <3>1. PICK r : r = [req[e] EXCEPT !.deleted = req[e].deleted \cup {t},
                            !.aliased = TRUE, !.cur = NoTorrent, !.pc = "torrentLoop"]
        OBVIOUS
      <3>2. r.state = req[e].state
        BY <1>0, <3>1 DEF Request
      <3>3. req' = [req EXCEPT ![e] = r] /\ req[e].pc \in Steps \ {"entry"}
        BY <1>10, <2>1, <3>1 DEF ConfirmTorrentDelete, Steps
      <3> QED BY <3>2, <3>3, GoingStore DEF Going
    <2> QED BY <1>3, <2>1
  <1>12. CASE RequestPlexRefresh(e)
    <2>1. PICK s : s = IF req[e].state \in {"PLEX_REFRESH_REQUESTED", "PLEX_REFRESHED",
                                            "RECONCILE_REQUIRED"}
                       THEN req[e].state ELSE "PLEX_REFRESH_REQUESTED"
      OBVIOUS
    <2>2. req' = [req EXCEPT ![e] = [@ EXCEPT !.state = s, !.pc = "plexCall"]]
      BY <1>12, <2>1 DEF RequestPlexRefresh
    <2>3. s \notin TerminalJobStates
      BY <2>1 DEF TerminalJobStates
    <2> QED BY <2>2, <2>3, GoingMoves
  <1>13. CASE RefreshPlex(e)
    <2>1. PICK p : p = IF plexItem /\ PlexMatched THEN "stillListed" ELSE "absent"
      OBVIOUS
    <2>2. PICK s : s = "PLEX_REFRESHED"
      OBVIOUS
    <2>3. req' = [req EXCEPT ![e] = [@ EXCEPT !.state = s, !.pc = p]]
      BY <1>13, <2>1, <2>2 DEF RefreshPlex
    <2>4. s \notin TerminalJobStates
      BY <2>2 DEF TerminalJobStates
    <2> QED BY <2>3, <2>4, GoingMoves
  <1> QED BY <1>1, <1>2, <1>3, <1>4, <1>5, <1>6, <1>7, <1>8, <1>9, <1>10, <1>12,
             <1>13, <1>14 DEF Admission, Workflow, Mishap, EnterUnhealthy

\* A request that changes the row has passed its entry, or passes it.
LEMMA RequestWrites ==
    ASSUME TypeOK, Going, NEW e \in Executors, Admission(e) \/ Workflow(e) \/ Mishap(e),
           job' # job
    PROVE  req[e].pc \in Steps /\ req[e].state \notin TerminalJobStates
  <1>1. CASE \E ready : EnterWorkflow(e, ready)
    BY <1>1 DEF EnterWorkflow, ExecutableJobStates, TerminalJobStates, Steps
  <1>2. CASE ~\E ready : EnterWorkflow(e, ready)
    <2>1. req[e].pc \in Steps \ {"entry"}
      BY <1>2 DEF Admission, Workflow, Mishap, LoadJob, AcquireCoordinator,
         SyncAlreadyRunning, EnterUnhealthy, RefuseRequest,
         CheckRevalidationGates, LiveRevalidate, EvidenceBlocks, RequestRadarrDelete,
         RadarrDelete, LookUpMovie, RadarrDeleteRefused, RadarrDeleteSkipped,
         ConfirmRadarrDelete, RecordRadarrDeleted,
         BlockAtTorrents, StartTorrentDeletes, TorrentDelete, BlockTorrentDelete,
         ConfirmTorrentDelete, FinishTorrentDeletes, BlockAtReconcile,
         RequestPlexRefresh, RefreshPlex, SettleJob, RadarrDeleteIneffective,
         TorrentDeleteIneffective, ReconcileBlocks, ExternalStepFails, CrashRequest,
         Calling, Steps, row
    <2> QED BY <2>1 DEF Going
  <1> QED BY <1>1, <1>2

\* A request whose copy of the row is another state, or an administrator who
\* decided on a row that was still open.
StaleWriter ==
    \/ \E e \in Executors : req[e].pc \in Steps /\ req[e].state # job.state
    \/ \E a \in Admins : adm[a].hit

\* However many requests and administrators act and whatever crashes, a job
\* that ended is brought back only by one of those who read the row before it
\* ended and write after: nobody who reads it as it is does.
THEOREM OnlyStaleWritersReopen ==
    Spec => [][job.state \in TerminalJobStates /\ job'.state # job.state
                  => StaleWriter]_vars
  <1> DEFINE Decided == \A a \in Admins : adm[a].op \in {"approve", "cancel"} => adm[a].hit
             Stale == job.state \in TerminalJobStates /\ job'.state # job.state
                         => StaleWriter
  <1>1. Init => Going /\ Decided
    BY DEF Init, Going, Idle, Steps
  <1>2. ASSUME NEW a \in Admins, TypeOK, Administration(a)
        PROVE  /\ UNCHANGED req
               /\ Decided => Decided'
               /\ Decided /\ job' # job => adm[a].hit
    <2>1. UNCHANGED req
      BY <1>2 DEF Administration, LoadToApprove, LoadToCancel, LoadToSwitch,
         ApproveMovieJob, CancelMovieJob, SwitchRadarrOff, SwitchQbitOff, LowerRollout,
         ClearActiveManagement, RaiseRollout, CrashAdmin
    <2>2. Decided => Decided'
      BY <1>2 DEF Administration, LoadToApprove, LoadToCancel, LoadToSwitch,
         ApproveMovieJob, CancelMovieJob, SwitchRadarrOff, SwitchQbitOff, LowerRollout,
         ClearActiveManagement, RaiseRollout, CrashAdmin, TypeOK, AdminOps
    <2>3. Decided /\ job' # job => adm[a].hit
      BY <1>2 DEF Administration, LoadToApprove, LoadToCancel, LoadToSwitch,
         ApproveMovieJob, CancelMovieJob, SwitchRadarrOff, SwitchQbitOff, LowerRollout,
         ClearActiveManagement, RaiseRollout, CrashAdmin, InvalidateQueuedJobs, row
    <2> QED BY <2>1, <2>2, <2>3
  <1>3. ASSUME NEW e \in Executors, Admission(e) \/ Workflow(e) \/ Mishap(e)
        PROVE  UNCHANGED adm
    BY <1>3 DEF Admission, Workflow, Mishap, LoadJob, AcquireCoordinator,
         SyncAlreadyRunning, EnterUnhealthy, EnterWorkflow, RefuseRequest,
         CheckRevalidationGates, LiveRevalidate, EvidenceBlocks, RequestRadarrDelete,
         RadarrDelete, LookUpMovie, RadarrDeleteRefused, RadarrDeleteSkipped,
         ConfirmRadarrDelete, RecordRadarrDeleted,
         BlockAtTorrents, StartTorrentDeletes, TorrentDelete, BlockTorrentDelete,
         ConfirmTorrentDelete, FinishTorrentDeletes, BlockAtReconcile,
         RequestPlexRefresh, RefreshPlex, SettleJob, RadarrDeleteIneffective,
         TorrentDeleteIneffective, ReconcileBlocks, ExternalStepFails, CrashRequest
  <1>5. TypeOK /\ Going /\ Decided /\ [Next]_vars => Going' /\ Decided'
    <2> SUFFICES ASSUME TypeOK, Going, Decided, [Next]_vars PROVE Going' /\ Decided'
      OBVIOUS
    <2>1. CASE \E e \in Executors : Admission(e) \/ Workflow(e) \/ Mishap(e)
      BY <1>3, <2>1, RequestGoing
    <2>2. CASE \E a \in Admins : Administration(a)
      BY <1>2, <2>2 DEF Going
    <2>3. CASE Drift \/ PlexScan \/ CreateMovieJob \/ UNCHANGED vars
      <3>1. UNCHANGED <<req, adm>>
        BY <2>3 DEF Drift, RadarrEdited, RadarrSwitchedOn, QbitEdited, QbitSwitchedOn,
           SyncRadarr, MovieChanges, TorrentVanishes, PlexScan, CreateMovieJob, vars
      <3> QED BY <3>1 DEF Going
    <2> QED BY <2>1, <2>2, <2>3 DEF Next
  <1>6. TypeOK /\ Going /\ Decided /\ [Next]_vars => [Stale]_vars
    <2> SUFFICES ASSUME TypeOK, Going, Decided, [Next]_vars,
                        job.state \in TerminalJobStates, job'.state # job.state
                 PROVE  StaleWriter
      OBVIOUS
    <2>1. ASSUME NEW e \in Executors, Admission(e) \/ Workflow(e) \/ Mishap(e)
          PROVE  StaleWriter
      BY <2>1, RequestWrites DEF StaleWriter
    <2>2. ASSUME NEW a \in Admins, Administration(a) PROVE StaleWriter
      BY <1>2, <2>2 DEF StaleWriter
    <2>3. CASE Drift \/ PlexScan \/ CreateMovieJob \/ UNCHANGED vars
      <3>1. job' = job \/ job.state = "NONE"
        BY <2>3 DEF Drift, RadarrEdited, RadarrSwitchedOn, QbitEdited, QbitSwitchedOn,
           SyncRadarr, MovieChanges, TorrentVanishes, PlexScan, CreateMovieJob, vars, row
      <3> QED BY <3>1 DEF TerminalJobStates
    <2> QED BY <2>1, <2>2, <2>3 DEF Next
  <1> QED BY <1>1, <1>5, <1>6, TypeCorrect, PTL DEF Spec

-----------------------------------------------------------------------------
(***************************************************************************)
(* Fairness takes nothing away: a behaviour of DeletionProgress is one of  *)
(* DeletionJob, and what is proved of the second holds of the first.       *)
(***************************************************************************)
THEOREM FairImplements == FairSpec => Spec
  <1>1. InitFair => Init
    BY DEF InitFair
  <1>2. [NextFair]_lvars => [Next]_vars
    BY DEF NextFair, Undisturbed, Disturbance, Next, Drift, lvars, vars, row, policy, world
  <1> QED BY <1>1, <1>2, PTL DEF FairSpec, Spec

\* So a run that a bounded number of things disturb keeps the promise, and when
\* requests come one at a time it never takes back what its row said.
THEOREM FairSafety ==
    /\ FairSpec => KeepsPromise /\ []Safe
    /\ OneSlot /\ Admins = {} =>
          (FairSpec => /\ []CompletedLeavesNoTorrent
                       /\ TerminalStatesAreFinal /\ DeletionIsRemembered)
  <1>1. FairSpec => KeepsPromise /\ []Safe
    BY FairImplements, Implements, Safety, PTL
  <1>2. ASSUME OneSlot, Admins = {}
        PROVE  FairSpec => /\ []CompletedLeavesNoTorrent
                           /\ TerminalStatesAreFinal /\ DeletionIsRemembered
    <2>1. Spec => []CompletedLeavesNoTorrent
      BY <1>2, NoTorrentLeft
    <2>2. Spec => TerminalStatesAreFinal
      BY <1>2, EndsOnce
    <2>3. Spec => DeletionIsRemembered
      BY <1>2, RadarrIsRemembered
    <2> QED BY <2>1, <2>2, <2>3, FairImplements, PTL
  <1> QED BY <1>1, <1>2
=============================================================================
