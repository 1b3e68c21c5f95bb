-------------------------- MODULE DeletionProgress --------------------------
(***************************************************************************)
(* DeletionJob with fairness: what happens in the end to a deletion that   *)
(* has begun, when a bounded number of things go wrong on the way.         *)
(*                                                                         *)
(* The server runs the request it has admitted; every outside call ends    *)
(* (the HTTP clients have timeouts).  Nothing in the server resumes a job: *)
(* that is an operator pressing Execute again for as long as the page      *)
(* offers it.  The operator also brings a disabled instance back, and Plex *)
(* finishes the scan it is asked for.                                      *)
(***************************************************************************)
EXTENDS DeletionJob

CONSTANT MaxFaults   \* bound on the things that go wrong

ASSUME MaxFaultsIsNat == MaxFaults \in Nat

VARIABLE faults      \* how many have

lvars == <<vars, faults>>

Disturbance ==
    \/ \E e \in Executors : Mishap(e)
    \/ RadarrEdited \/ QbitEdited

Undisturbed ==
    \/ CreateMovieJob
    \/ \E e \in Executors : Admission(e) \/ Workflow(e)
    \/ RadarrSwitchedOn \/ QbitSwitchedOn \/ SyncRadarr
    \/ MovieChanges \/ \E t \in Torrents : TorrentVanishes(t)
    \/ PlexScan

InitFair == Init /\ faults = 0

NextFair ==
    \/ Undisturbed /\ UNCHANGED faults
    \/ faults < MaxFaults /\ Disturbance /\ faults' = faults + 1

\* The operator presses Execute on a job that can still run.
Resume(e) == job.state \in ExecutableJobStates /\ LoadJob(e, "execute")

Fairness ==
    /\ \A e \in Executors :
         /\ WF_lvars(Workflow(e) /\ UNCHANGED faults)
         /\ WF_lvars(AcquireCoordinator(e) /\ UNCHANGED faults)
         /\ SF_lvars(Resume(e) /\ UNCHANGED faults)
    /\ WF_lvars(RadarrSwitchedOn /\ UNCHANGED faults)
    /\ WF_lvars(QbitSwitchedOn /\ UNCHANGED faults)
    /\ WF_lvars(PlexScan /\ UNCHANGED faults)

FairSpec == InitFair /\ [][NextFair]_lvars /\ Fairness

-----------------------------------------------------------------------------
\* A deletion that Radarr has carried out is completed, whichever step the
\* server died at and whatever the row then said: the job resumes from every
\* state of the workflow ("Process restart at every workflow step resumes
\* safely", build sheet 25.5).
DeletionResumes ==
    (ExternalChangeStarted(job.state) /\ movie = "absent")
        ~> job.state = "COMPLETED"

\* A request that holds the coordinator releases it: synchronizations, which
\* the coordinator refuses meanwhile, are not locked out for ever.
CoordinatorIsReleased ==
    \A e \in Executors : active = e ~> active # e
=============================================================================
