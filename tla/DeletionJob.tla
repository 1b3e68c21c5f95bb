---------------------------- MODULE DeletionJob ----------------------------
(***************************************************************************)
(* The movie-deletion workflow of app/services/deletion_jobs.py together   *)
(* with the HTTP handlers of app/main.py that drive it, the administrative *)
(* switches that gate it, the coordinator that serialises it and the four  *)
(* outside services it mutates or reads.  One lifecycle, hence one job:    *)
(* the table has a unique constraint on lifecycle_id.                      *)
(*                                                                         *)
(* Every handler runs in a worker thread with a SQLAlchemy session of its  *)
(* own.  A row a handler has loaded is never refreshed while the handler   *)
(* holds it (autoflush=False, expire_on_commit=False), and an UPDATE       *)
(* carries the columns whose value differs from the loaded one, under no   *)
(* version check.  So each request carries its copy of what it loaded, and *)
(* a write that changes nothing in the copy leaves the row alone.          *)
(*                                                                         *)
(* The evidence behind a decision (proposals, freshness, health, library   *)
(* pairing, playback, torrent mappings) is not state here: wherever the    *)
(* code consults it, both outcomes are possible.                           *)
(***************************************************************************)
EXTENDS Naturals, FiniteSets

CONSTANTS
    Executors,   \* slots for the execute and reconcile requests in progress
    Admins,      \* slots for approve, cancel and switch requests in progress
    Torrents,    \* the torrents that may be mapped to the movie
    NoOne,       \* the coordinator is free
    NoTorrent,   \* no torrent call is under way
    PlexMatched  \* the lifecycle has the rating key of its Plex item

ASSUME NoOneIsNoExecutor == NoOne \notin Executors
ASSUME NoTorrentIsNoTorrent == NoTorrent \notin Torrents
ASSUME PlexMatchedIsBoolean == PlexMatched \in BOOLEAN

VARIABLES
    job,         \* the deletion_job row: state, snapshot, deletions recorded
    lifecycle,   \* media_lifecycle.state
    rollout,     \* the global rollout mode is APPROVAL_REQUIRED
    radarr,      \* the job's Radarr is enabled, Managed, Active Management on
    qbit,        \* qBittorrent is enabled with Active Management on
    active,      \* the request the SyncCoordinator admitted
    req,         \* the execute/reconcile requests, with their session copies
    adm,         \* the short administrative requests
    movie,       \* what Radarr holds under the job's arr_item_id
    exclusion,   \* Radarr's import exclusion for the movie
    present,     \* torrents qBittorrent holds
    plexItem,    \* Plex still lists the movie
    removed      \* history: torrents this application removed

row    == <<job, lifecycle>>
policy == <<rollout, radarr, qbit>>
world  == <<movie, exclusion, present, plexItem, removed>>
vars   == <<row, policy, active, req, adm, world>>

-----------------------------------------------------------------------------
\* Job states (deletion_jobs.py:37-51 and the states the workflow assigns).
TerminalJobStates == {"COMPLETED", "CANCELLED"}
BeforeRadarr      == {"PENDING_APPROVAL", "APPROVED", "BLOCKED", "FAILED",
                      "REVALIDATED", "RADARR_DELETE_REQUESTED"}
AfterRadarr       == {"RADARR_DELETED", "TORRENT_DELETE_REQUESTED",
                      "TORRENT_DELETED", "PLEX_REFRESH_REQUESTED",
                      "PLEX_REFRESHED", "RECONCILE_REQUIRED", "COMPLETED"}
\* Mutants of the two sets of states: a completed job can be executed; a job
\* that crashed after the Plex refresh cannot.
MutExecutesCompleted == (BeforeRadarr \cup AfterRadarr) \ {"CANCELLED"}
MutRefreshedIsStuck  ==
    (BeforeRadarr \cup AfterRadarr) \ (TerminalJobStates \cup {"PLEX_REFRESHED"})
ExecutableJobStates == (BeforeRadarr \cup AfterRadarr) \ TerminalJobStates
JobStates   == BeforeRadarr \cup AfterRadarr \cup TerminalJobStates
RowStates   == JobStates \cup {"NONE"}     \* NONE: no job row yet
Queued      == {"PENDING_APPROVAL", "APPROVED"}
Cancellable == {"PENDING_APPROVAL", "APPROVED", "BLOCKED", "FAILED"}
ExternalChangeStarted(s) == s = "RADARR_DELETE_REQUESTED" \/ s \in AfterRadarr

\* A row whose write is still to come, or a request record that holds nothing.
Idle == [pc |-> "idle", kind |-> "execute", state |-> "NONE", ready |-> FALSE,
         snap |-> {}, deleted |-> {}, cur |-> NoTorrent, aliased |-> FALSE]

\* Mutant of Dispatch: an interrupted torrent deletion is taken for a finished
\* one.
MutTorrentsAssumed(s) ==
    CASE s \in {"APPROVED", "BLOCKED", "FAILED"}                -> "revalidate"
      [] s \in {"REVALIDATED", "RADARR_DELETE_REQUESTED"}       -> "radarr"
      [] s = "RADARR_DELETED"                                   -> "torrents"
      [] OTHER                                                  -> "reconcile"

\* The next workflow step execute_movie_job runs for a job in state s.
Dispatch(s) ==
    CASE s \in {"APPROVED", "BLOCKED", "FAILED"}                -> "revalidate"
      [] s \in {"REVALIDATED", "RADARR_DELETE_REQUESTED"}       -> "radarr"
      [] s \in {"RADARR_DELETED", "TORRENT_DELETE_REQUESTED"}   -> "torrents"
      [] OTHER                                                  -> "reconcile"

Steps == {"entry", "revalidate", "evidence", "radarr", "radarrCall",
          "radarrDelete", "radarrConfirm", "radarrDone", "torrents", "torrentLoop",
          "torrentConfirm", "reconcile", "plexCall", "stillListed", "absent"}

Init ==
    /\ job = [state |-> "NONE", snap |-> {}, deleted |-> {}]
    /\ lifecycle = "ACTIVE"
    /\ rollout = TRUE /\ radarr = TRUE /\ qbit = TRUE
    /\ active = NoOne
    /\ req = [e \in Executors |-> Idle]
    /\ adm = [a \in Admins |-> [op |-> "idle", hit |-> FALSE]]
    /\ movie = "same" /\ exclusion = FALSE
    /\ present = Torrents
    /\ plexItem = TRUE
    /\ removed = {}

-----------------------------------------------------------------------------
(***************************************************************************)
(* Writes of a request to the job row.                                     *)
(***************************************************************************)
\* The state column is written only when it differs from the loaded value.
WrittenState(e, s) == IF s = req[e].state THEN job.state ELSE s

\* external_state is one JSON column: it is written whole when any of its
\* fields changes, so when the list of deletions itself is the loaded one the
\* row ends with that list or with the one it has.
WrittenDeletions(e, d) == IF d = req[e].deleted THEN {job.deleted, d} ELSE {d}

\* Move to state s, commit, and go on with step p.
Transition(e, s, p) ==
    /\ job' = [job EXCEPT !.state = WrittenState(e, s)]
    /\ req' = [req EXCEPT ![e] = [@ EXCEPT !.state = s, !.pc = p]]
    /\ UNCHANGED active

\* Mutant of Finish: the coordinator is released on success only.
MutKeepsCoordinator(e, s) ==
    /\ job' = [job EXCEPT !.state = WrittenState(e, s)]
    /\ req' = [req EXCEPT ![e] = Idle]
    /\ active' = IF s \in AfterRadarr THEN NoOne ELSE active

\* Commit state s and leave the coordinator and the request.
Finish(e, s) ==
    /\ job' = [job EXCEPT !.state = WrittenState(e, s)]
    /\ req' = [req EXCEPT ![e] = Idle]
    /\ active' = NoOne

\* Mutant: a blocked job always starts again.
MutAlwaysBlocked(e) ==
    IF req[e].kind = "reconcile" THEN "RECONCILE_REQUIRED" ELSE "BLOCKED"

\* Where a raised DeletionBlocked, or any other error, leaves the job.
BlockedState(e) ==
    CASE req[e].kind = "reconcile"            -> "RECONCILE_REQUIRED"
      [] ExternalChangeStarted(req[e].state)  -> req[e].state
      [] OTHER                                -> "BLOCKED"

FailedState(e) ==
    CASE req[e].kind = "reconcile" -> "RECONCILE_REQUIRED"
      [] req[e].state \in {"RADARR_DELETE_REQUESTED", "RADARR_DELETED",
                           "TORRENT_DELETE_REQUESTED"} -> req[e].state
      [] req[e].state \in {"TORRENT_DELETED", "PLEX_REFRESH_REQUESTED",
                           "PLEX_REFRESHED", "RECONCILE_REQUIRED"}
            -> "RECONCILE_REQUIRED"
      [] OTHER -> "FAILED"

Block(e) == Finish(e, BlockedState(e))
Fail(e)  == Finish(e, FailedState(e))

\* _ensure_capability_gates.  The rollout policy is read again each time.
\* execute_movie_job holds the integration row it loaded on entry, so the gate
\* sees that copy; retry_movie_reconciliation holds none and reads the row.
GateOpen(e) ==
    /\ rollout
    /\ IF req[e].kind = "execute" THEN req[e].ready ELSE radarr

-----------------------------------------------------------------------------
(***************************************************************************)
(* Admission: the handler loads the job, then asks for the coordinator.    *)
(***************************************************************************)
LoadJob(e, kind) ==
    /\ req[e].pc = "idle"
    /\ job.state # "NONE"
    /\ req' = [req EXCEPT ![e] =
                 [Idle EXCEPT !.pc = "loaded", !.kind = kind,
                              !.state = job.state, !.snap = job.snap,
                              !.deleted = job.deleted]]
    /\ UNCHANGED <<row, policy, active, adm, world>>

AcquireCoordinator(e) ==
    /\ req[e].pc = "loaded"
    /\ active = NoOne
    /\ active' = e
    /\ req' = [req EXCEPT ![e].pc = "entry"]
    /\ UNCHANGED <<row, policy, adm, world>>

SyncAlreadyRunning(e) ==
    /\ req[e].pc = "loaded"
    /\ active # NoOne
    /\ req' = [req EXCEPT ![e] = Idle]
    /\ UNCHANGED <<row, policy, active, adm, world>>

\* execute_movie_job and retry_movie_reconciliation on entry.  A pending job is
\* authorised, or refused when its proposal is not eligible.
MayRefuse(e) ==
    \/ req[e].kind = "execute" /\ req[e].state \notin ExecutableJobStates
    \/ req[e].kind = "execute" /\ req[e].state = "PENDING_APPROVAL"
    \/ req[e].kind = "reconcile" /\ req[e].state # "RECONCILE_REQUIRED"

RefuseRequest(e) ==
    /\ req[e].pc = "entry"
    /\ MayRefuse(e)
    /\ req' = [req EXCEPT ![e] = Idle]
    /\ active' = NoOne
    /\ UNCHANGED <<row, policy, adm, world>>

\* The Radarr row is loaded and held from here on.
EnterWorkflow(e, ready) ==
    /\ req[e].pc = "entry"
    /\ IF req[e].kind = "execute" THEN req[e].state \in ExecutableJobStates
       ELSE req[e].state = "RECONCILE_REQUIRED"
    /\ LET s == IF req[e].state = "PENDING_APPROVAL" THEN "APPROVED"
                ELSE req[e].state
       IN  /\ job' = [job EXCEPT !.state = WrittenState(e, s)]
           /\ req' = [req EXCEPT ![e] = [@ EXCEPT !.state = s,
                                   !.pc = Dispatch(s), !.ready = ready]]
    /\ UNCHANGED <<lifecycle, policy, active, adm, world>>

\* An instance that is not healthy closes the gates as a switched-off one does.
EnterUnhealthy(e) == radarr /\ EnterWorkflow(e, FALSE)

-----------------------------------------------------------------------------
(***************************************************************************)
(* _live_revalidate: gates first, then the calls to Radarr, Plex,          *)
(* qBittorrent and Overseerr and the dry run, then one commit.             *)
(***************************************************************************)
CheckRevalidationGates(e) ==
    /\ req[e].pc = "revalidate"
    /\ IF GateOpen(e) /\ lifecycle = "ACTIVE"
       THEN req' = [req EXCEPT ![e].pc = "evidence"] /\ UNCHANGED <<job, active>>
       ELSE Block(e)
    /\ UNCHANGED <<lifecycle, policy, adm, world>>

\* Every check passes: the snapshot names torrents that are live now, of a
\* qBittorrent under Active Management.
LiveRevalidate(e) ==
    /\ req[e].pc = "evidence"
    /\ movie = "same"
    /\ \E snap \in IF qbit THEN SUBSET present ELSE {{}}, d \in WrittenDeletions(e, {}) :
         /\ job' = [state |-> "REVALIDATED", snap |-> snap, deleted |-> d]
         /\ req' = [req EXCEPT ![e] = [@ EXCEPT !.state = "REVALIDATED",
                            !.pc = "radarr", !.snap = snap, !.deleted = {}]]
    /\ UNCHANGED <<lifecycle, policy, active, adm, world>>

\* A check fails: the movie is gone or another one, it is playing, a torrent
\* is missing, the library is not paired, a source is stale, or the dry run no
\* longer finds it eligible.
EvidenceBlocks(e) ==
    /\ req[e].pc = "evidence"
    /\ Block(e)
    /\ UNCHANGED <<lifecycle, policy, adm, world>>

-----------------------------------------------------------------------------
(***************************************************************************)
(* _execute_radarr_delete                                                  *)
(***************************************************************************)
RequestRadarrDelete(e) ==
    /\ req[e].pc = "radarr"
    /\ IF GateOpen(e)
       THEN Transition(e, "RADARR_DELETE_REQUESTED", "radarrCall")
       ELSE Block(e)
    /\ UNCHANGED <<lifecycle, policy, adm, world>>

\* Mutant of SameIdentity: whatever Radarr has under the id is deleted.
MutAnyIdentity == movie # "absent"

\* The movie read back has the verified TMDb identity.
SameIdentity == movie = "same"

\* The look and the deletion are two calls (deletion_jobs.py:544 and 552).
LookUpMovie(e) ==
    /\ req[e].pc = "radarrCall"
    /\ SameIdentity
    /\ req' = [req EXCEPT ![e].pc = "radarrDelete"]
    /\ UNCHANGED <<row, policy, active, adm, world>>

\* No movie to delete, or another movie under the same id: never deleted.
RadarrDeleteSkipped(e) ==
    /\ req[e].pc = "radarrCall"
    /\ ~SameIdentity
    /\ IF movie = "absent"
       THEN req' = [req EXCEPT ![e].pc = "radarrConfirm"] /\ UNCHANGED <<job, active>>
       ELSE Block(e)
    /\ UNCHANGED <<lifecycle, policy, adm, world>>

\* Radarr deletes, and excludes, what it has under the id by now.
RadarrDelete(e) ==
    /\ req[e].pc = "radarrDelete"
    /\ movie # "absent"
    /\ movie' = "absent"
    /\ exclusion' \in IF movie = "same" THEN {exclusion, TRUE} ELSE {exclusion}
    /\ req' = [req EXCEPT ![e].pc = "radarrConfirm"]
    /\ UNCHANGED <<row, policy, active, adm, present, plexItem, removed>>

\* The movie is gone by now: Radarr answers that it has none.
RadarrDeleteRefused(e) ==
    /\ req[e].pc = "radarrDelete"
    /\ movie = "absent"
    /\ Fail(e)
    /\ UNCHANGED <<lifecycle, policy, adm, world>>

\* Radarr answers without removing the movie.
RadarrDeleteIneffective(e) ==
    /\ req[e].pc = "radarrDelete"
    /\ req' = [req EXCEPT ![e].pc = "radarrConfirm"]
    /\ UNCHANGED <<row, policy, active, adm, world>>

\* Mutant of EnsureExclusion: Radarr's answer to the deletion is trusted.
MutTrustsRadarr(e) ==
    /\ UNCHANGED exclusion
    /\ \E d \in WrittenDeletions(e, req[e].deleted) :
         job' = [job EXCEPT !.deleted = d]

\* _ensure_radarr_import_exclusion: the exclusion exists when it returns, and
\* external_state is committed.
EnsureExclusion(e) ==
    /\ exclusion' = TRUE
    /\ \E d \in WrittenDeletions(e, req[e].deleted) :
         job' = [job EXCEPT !.deleted = d]

\* Mutant: the movie is not read back.
MutNoReadBack(e) ==
    /\ req[e].pc = "radarrConfirm"
    /\ \/ ~GateOpen(e) /\ Block(e) /\ UNCHANGED exclusion
       \/ /\ GateOpen(e)
          /\ EnsureExclusion(e)
          /\ req' = [req EXCEPT ![e].pc = "radarrDone"]
          /\ UNCHANGED active
    /\ UNCHANGED <<lifecycle, policy, adm, movie, present, plexItem, removed>>

ConfirmRadarrDelete(e) ==
    /\ req[e].pc = "radarrConfirm"
    /\ \/ movie # "absent" /\ Fail(e) /\ UNCHANGED exclusion
       \/ movie = "absent" /\ ~GateOpen(e) /\ Block(e) /\ UNCHANGED exclusion
       \/ /\ movie = "absent" /\ GateOpen(e)
          /\ EnsureExclusion(e)
          /\ req' = [req EXCEPT ![e].pc = "radarrDone"]
          /\ UNCHANGED active
    /\ UNCHANGED <<lifecycle, policy, adm, movie, present, plexItem, removed>>

RecordRadarrDeleted(e) ==
    /\ req[e].pc = "radarrDone"
    /\ lifecycle' = "DELETED"
    /\ Transition(e, "RADARR_DELETED", "torrents")
    /\ UNCHANGED <<policy, adm, world>>

-----------------------------------------------------------------------------
(***************************************************************************)
(* _execute_torrent_deletes                                                *)
(***************************************************************************)
BlockAtTorrents(e) ==
    /\ req[e].pc = "torrents"
    /\ ~GateOpen(e)
    /\ Block(e)
    /\ UNCHANGED <<lifecycle, policy, adm, world>>

StartTorrentDeletes(e) ==
    LET s == IF req[e].snap = {} THEN "TORRENT_DELETED"
             ELSE "TORRENT_DELETE_REQUESTED"
    IN  /\ req[e].pc = "torrents"
        /\ GateOpen(e)
        /\ exclusion' = TRUE
        /\ \E d \in WrittenDeletions(e, req[e].deleted) :
             job' = [job EXCEPT !.state = WrittenState(e, s), !.deleted = d]
        /\ req' = [req EXCEPT ![e] = [@ EXCEPT !.state = s,
                !.pc = IF req[e].snap = {} THEN "reconcile" ELSE "torrentLoop"]]
        /\ UNCHANGED <<lifecycle, policy, active, adm, movie, present,
                       plexItem, removed>>

\* The torrents of the snapshot this request has not recorded as deleted.
Remaining(e) == req[e].snap \ req[e].deleted

TorrentDelete(e, t) ==
    /\ req[e].pc = "torrentLoop"
    /\ qbit
    /\ t \in Remaining(e)
    /\ present' = present \ {t}
    /\ removed' = removed \cup ({t} \cap present)
    /\ req' = [req EXCEPT ![e] = [@ EXCEPT !.pc = "torrentConfirm", !.cur = t]]
    /\ UNCHANGED <<row, policy, active, adm, movie, exclusion, plexItem>>

\* qBittorrent answers without removing the torrent.
TorrentDeleteIneffective(e, t) ==
    /\ req[e].pc = "torrentLoop"
    /\ qbit
    /\ t \in Remaining(e) \cap present
    /\ req' = [req EXCEPT ![e] = [@ EXCEPT !.pc = "torrentConfirm", !.cur = t]]
    /\ UNCHANGED <<row, policy, active, adm, world>>

BlockTorrentDelete(e) ==
    /\ req[e].pc = "torrentLoop"
    /\ Remaining(e) # {}
    /\ ~qbit
    /\ Block(e)
    /\ UNCHANGED <<lifecycle, policy, adm, world>>

\* Mutant of ConfirmTorrentDelete: qBittorrent's answer is trusted.
MutTrustsQbit(e, t) ==
    LET d == req[e].deleted \cup {t}
    IN  /\ req[e].pc = "torrentConfirm" /\ req[e].cur = t
        /\ job' = IF req[e].aliased THEN job ELSE [job EXCEPT !.deleted = d]
        /\ req' = [req EXCEPT ![e] = [@ EXCEPT !.deleted = d,
                !.aliased = TRUE, !.cur = NoTorrent, !.pc = "torrentLoop"]]
        /\ UNCHANGED <<lifecycle, policy, active, adm, world>>

\* The first confirmed deletion of a run assigns a new dict to the JSON column
\* and reaches the row.  Later ones mutate that same dict in place, and the
\* ORM sees no change to write.
ConfirmTorrentDelete(e, t) ==
    /\ req[e].pc = "torrentConfirm"
    /\ req[e].cur = t
    /\ IF t \in present
       THEN Fail(e)
       ELSE LET d == req[e].deleted \cup {t}
            IN  /\ job' = IF req[e].aliased THEN job
                          ELSE [job EXCEPT !.deleted = d]
                /\ req' = [req EXCEPT ![e] = [@ EXCEPT !.deleted = d,
                        !.aliased = TRUE, !.cur = NoTorrent, !.pc = "torrentLoop"]]
                /\ UNCHANGED active
    /\ UNCHANGED <<lifecycle, policy, adm, world>>

FinishTorrentDeletes(e) ==
    /\ req[e].pc = "torrentLoop"
    /\ Remaining(e) = {}
    /\ Transition(e, "TORRENT_DELETED", "reconcile")
    /\ UNCHANGED <<lifecycle, policy, adm, world>>

-----------------------------------------------------------------------------
(***************************************************************************)
(* _refresh_and_reconcile                                                  *)
(***************************************************************************)
BlockAtReconcile(e) ==
    /\ req[e].pc = "reconcile"
    /\ ~GateOpen(e)
    /\ Block(e)
    /\ UNCHANGED <<lifecycle, policy, adm, world>>

\* Radarr is unhealthy, or the exclusion is ensured and the library turns out
\* not to be paired with an enabled Plex.
ReconcileBlocks(e) ==
    /\ req[e].pc = "reconcile"
    /\ GateOpen(e)
    /\ exclusion' \in {exclusion, TRUE}
    /\ Block(e)
    /\ UNCHANGED <<lifecycle, policy, adm, movie, present, plexItem, removed>>

RequestPlexRefresh(e) ==
    LET s == IF req[e].state \in {"PLEX_REFRESH_REQUESTED", "PLEX_REFRESHED",
                                  "RECONCILE_REQUIRED"}
             THEN req[e].state ELSE "PLEX_REFRESH_REQUESTED"
    IN  /\ req[e].pc = "reconcile"
        /\ GateOpen(e)
        /\ exclusion' = TRUE
        /\ \E d \in WrittenDeletions(e, req[e].deleted) :
             job' = [job EXCEPT !.state = WrittenState(e, s), !.deleted = d]
        /\ req' = [req EXCEPT ![e] = [@ EXCEPT !.state = s, !.pc = "plexCall"]]
        /\ UNCHANGED <<lifecycle, policy, active, adm, movie, present,
                       plexItem, removed>>

\* The library is refreshed and the item looked up by the key the lifecycle
\* has; without a key it counts as absent.
RefreshPlex(e) ==
    /\ req[e].pc = "plexCall"
    /\ \E d \in WrittenDeletions(e, req[e].deleted) :
         job' = [job EXCEPT !.state = WrittenState(e, "PLEX_REFRESHED"),
                            !.deleted = d]
    /\ req' = [req EXCEPT ![e] = [@ EXCEPT !.state = "PLEX_REFRESHED",
            !.pc = IF plexItem /\ PlexMatched THEN "stillListed" ELSE "absent"]]
    /\ UNCHANGED <<lifecycle, policy, active, adm, world>>

\* Mutant of SettleJob: a refresh that was sent is taken for one that worked.
MutRefreshIsEnough(e) ==
    /\ req[e].pc \in {"stillListed", "absent"}
    /\ Finish(e, "COMPLETED")
    /\ UNCHANGED <<lifecycle, policy, adm, world>>

\* Overseerr is observed, whatever it answers, and the job settles.  What is
\* recorded of Overseerr goes with the deletions of the write before.
SettleJob(e) ==
    /\ req[e].pc \in {"stillListed", "absent"}
    /\ Finish(e, IF req[e].pc = "absent" THEN "COMPLETED" ELSE "RECONCILE_REQUIRED")
    /\ UNCHANGED <<lifecycle, policy, adm, world>>

-----------------------------------------------------------------------------
(***************************************************************************)
(* Failures: an outside call raises, or the request dies (the process is   *)
(* killed, or an error the workflow does not catch ends the handler) with  *)
(* nothing but its last commit in the database.                            *)
(***************************************************************************)
Calling(e) ==
    \/ req[e].pc \in {"evidence", "radarrCall", "radarrDelete", "radarrConfirm",
                      "torrentConfirm", "plexCall"}
    \/ req[e].pc \in {"torrents", "reconcile"} /\ GateOpen(e)
    \/ req[e].pc = "torrentLoop" /\ Remaining(e) # {} /\ qbit

\* The call may have taken effect.  The exclusion is the effect that no earlier
\* step has already shown without its outcome.
ExternalStepFails(e) ==
    /\ Calling(e)
    /\ Fail(e)
    /\ exclusion' \in
         IF movie = "absent" /\ GateOpen(e)
              /\ req[e].pc \in {"radarrConfirm", "torrents", "reconcile"}
         THEN {exclusion, TRUE} ELSE {exclusion}
    /\ UNCHANGED <<lifecycle, policy, adm, movie, present, plexItem, removed>>

CrashRequest(e) ==
    /\ req[e].pc # "idle"
    /\ req' = [req EXCEPT ![e] = Idle]
    /\ active' = IF active = e THEN NoOne ELSE active
    /\ UNCHANGED <<row, policy, adm, world>>

-----------------------------------------------------------------------------
(***************************************************************************)
(* Administrative requests.  None of them asks for the coordinator.  Each  *)
(* reads the job, decides, and commits what it decided.                    *)
(***************************************************************************)
CreateMovieJob ==
    /\ job.state = "NONE"
    /\ rollout /\ radarr
    /\ lifecycle = "ACTIVE"
    /\ job' = [job EXCEPT !.state = "PENDING_APPROVAL"]
    /\ UNCHANGED <<lifecycle, policy, active, req, adm, world>>

\* approve_movie_job, cancel_movie_job: the guard is read on the loaded job.
LoadToApprove(a) ==
    /\ adm[a].op = "idle"
    /\ job.state = "PENDING_APPROVAL"
    /\ adm' = [adm EXCEPT ![a] = [op |-> "approve", hit |-> TRUE]]
    /\ UNCHANGED <<row, policy, active, req, world>>

LoadToCancel(a) ==
    /\ adm[a].op = "idle"
    /\ job.state \in Cancellable
    /\ adm' = [adm EXCEPT ![a] = [op |-> "cancel", hit |-> TRUE]]
    /\ UNCHANGED <<row, policy, active, req, world>>

\* A switch handler flips its row and selects the queued jobs to invalidate.
LoadToSwitch(a, op) ==
    /\ adm[a].op = "idle"
    /\ adm' = [adm EXCEPT ![a] = [op |-> op, hit |-> job.state \in Queued]]
    /\ UNCHANGED <<row, policy, active, req, world>>

ApproveMovieJob(a) ==
    /\ adm[a].op = "approve"
    /\ job' = [job EXCEPT !.state = "APPROVED"]
    /\ adm' = [adm EXCEPT ![a] = [op |-> "idle", hit |-> FALSE]]
    /\ UNCHANGED <<lifecycle, policy, active, req, world>>

CancelMovieJob(a) ==
    /\ adm[a].op = "cancel"
    /\ job' = [job EXCEPT !.state = "CANCELLED"]
    /\ adm' = [adm EXCEPT ![a] = [op |-> "idle", hit |-> FALSE]]
    /\ UNCHANGED <<lifecycle, policy, active, req, world>>

\* invalidate_queued_jobs commits the first cancellation and, with it, every
\* change the handler has pending.
InvalidateQueuedJobs(a) ==
    IF adm[a].hit THEN job' = [job EXCEPT !.state = "CANCELLED"] ELSE UNCHANGED job

\* The Radarr instance is disabled, taken out of Active Management or Managed.
SwitchRadarrOff(a) ==
    /\ adm[a].op = "radarrOff"
    /\ radarr' = FALSE
    /\ InvalidateQueuedJobs(a)
    /\ adm' = [adm EXCEPT ![a] = [op |-> "idle", hit |-> FALSE]]
    /\ UNCHANGED <<lifecycle, rollout, qbit, active, req, world>>

SwitchQbitOff(a) ==
    /\ adm[a].op = "qbitOff"
    /\ qbit' = FALSE
    /\ InvalidateQueuedJobs(a)
    /\ adm' = [adm EXCEPT ![a] = [op |-> "idle", hit |-> FALSE]]
    /\ UNCHANGED <<lifecycle, rollout, radarr, active, req, world>>

\* settings_rollout_mode_update.  Lowering the mode also clears Active
\* Management everywhere, in the handler's own commit: after the first
\* cancellation has already committed the mode, when there was one.
LowerRollout(a) ==
    /\ adm[a].op = "lower"
    /\ rollout' = FALSE
    /\ InvalidateQueuedJobs(a)
    /\ adm' = [adm EXCEPT ![a] = [op |-> IF adm[a].hit THEN "clear" ELSE "idle",
                                 hit |-> FALSE]]
    /\ IF adm[a].hit THEN UNCHANGED <<radarr, qbit>>
       ELSE radarr' = FALSE /\ qbit' = FALSE
    /\ UNCHANGED <<lifecycle, active, req, world>>

ClearActiveManagement(a) ==
    /\ adm[a].op = "clear"
    /\ radarr' = FALSE /\ qbit' = FALSE
    /\ adm' = [adm EXCEPT ![a] = [op |-> "idle", hit |-> FALSE]]
    /\ UNCHANGED <<row, rollout, active, req, world>>

RaiseRollout(a) ==
    /\ adm[a].op = "raise"
    /\ rollout' = TRUE
    /\ IF rollout THEN UNCHANGED job ELSE InvalidateQueuedJobs(a)
    /\ adm' = [adm EXCEPT ![a] = [op |-> "idle", hit |-> FALSE]]
    /\ UNCHANGED <<lifecycle, radarr, qbit, active, req, world>>

CrashAdmin(a) ==
    /\ adm[a].op # "idle"
    /\ adm' = [adm EXCEPT ![a] = [op |-> "idle", hit |-> FALSE]]
    /\ UNCHANGED <<row, policy, active, req, world>>

-----------------------------------------------------------------------------
(***************************************************************************)
(* Changes of one commit each that invalidate no job.                      *)
(***************************************************************************)
\* An edited connection disables the instance.
RadarrEdited ==
    /\ radarr
    /\ radarr' = FALSE
    /\ UNCHANGED <<row, rollout, qbit, active, req, adm, world>>

QbitEdited ==
    /\ qbit
    /\ qbit' = FALSE
    /\ UNCHANGED <<row, rollout, radarr, active, req, adm, world>>

\* On again: Active Management asks for the rollout mode, the Managed mode for
\* a confirmation only.
RadarrSwitchedOn ==
    /\ ~radarr
    /\ radarr' = TRUE
    /\ UNCHANGED <<row, rollout, qbit, active, req, adm, world>>

QbitSwitchedOn ==
    /\ ~qbit /\ rollout
    /\ qbit' = TRUE
    /\ UNCHANGED <<row, rollout, radarr, active, req, adm, world>>

\* A Radarr synchronization holds the coordinator from start to end.
SyncRadarr ==
    /\ active = NoOne
    /\ lifecycle' = IF movie = "same" THEN "ACTIVE" ELSE "MISSING"
    /\ lifecycle' # lifecycle
    /\ UNCHANGED <<job, policy, active, req, adm, world>>

-----------------------------------------------------------------------------
(***************************************************************************)
(* What the outside does by itself.                                        *)
(***************************************************************************)
MovieChanges ==
    /\ movie # "absent"
    /\ movie' \in {"other", "absent"} \ {movie}
    /\ UNCHANGED <<row, policy, active, req, adm, exclusion, present, plexItem, removed>>

TorrentVanishes(t) ==
    /\ t \in present
    /\ present' = present \ {t}
    /\ UNCHANGED <<row, policy, active, req, adm, movie, exclusion, plexItem, removed>>

PlexScan ==
    /\ movie = "absent" /\ plexItem
    /\ plexItem' = FALSE
    /\ UNCHANGED <<row, policy, active, req, adm, movie, exclusion, present, removed>>

-----------------------------------------------------------------------------
\* The steps the server itself takes for a request it has admitted.
Workflow(e) ==
    \/ EnterWorkflow(e, radarr) \/ RefuseRequest(e)
    \/ CheckRevalidationGates(e) \/ LiveRevalidate(e) \/ EvidenceBlocks(e)
    \/ RequestRadarrDelete(e) \/ LookUpMovie(e) \/ RadarrDeleteSkipped(e)
    \/ RadarrDelete(e) \/ RadarrDeleteRefused(e) \/ ConfirmRadarrDelete(e)
    \/ RecordRadarrDeleted(e)
    \/ BlockAtTorrents(e) \/ StartTorrentDeletes(e)
    \/ \E t \in Torrents : TorrentDelete(e, t) \/ ConfirmTorrentDelete(e, t)
    \/ BlockTorrentDelete(e) \/ FinishTorrentDeletes(e)
    \/ BlockAtReconcile(e) \/ RequestPlexRefresh(e) \/ RefreshPlex(e) \/ SettleJob(e)

\* A request that asks for the coordinator.
Admission(e) ==
    \/ \E kind \in {"execute", "reconcile"} : LoadJob(e, kind)
    \/ AcquireCoordinator(e) \/ SyncAlreadyRunning(e)

\* What may go wrong in a request.
Mishap(e) ==
    \/ EnterUnhealthy(e) \/ RadarrDeleteIneffective(e)
    \/ \E t \in Torrents : TorrentDeleteIneffective(e, t)
    \/ ReconcileBlocks(e) \/ ExternalStepFails(e) \/ CrashRequest(e)

Administration(a) ==
    \/ LoadToApprove(a) \/ LoadToCancel(a)
    \/ \E op \in {"radarrOff", "qbitOff", "lower", "raise"} : LoadToSwitch(a, op)
    \/ ApproveMovieJob(a) \/ CancelMovieJob(a)
    \/ SwitchRadarrOff(a) \/ SwitchQbitOff(a)
    \/ LowerRollout(a) \/ ClearActiveManagement(a) \/ RaiseRollout(a)
    \/ CrashAdmin(a)

Drift ==
    \/ RadarrEdited \/ RadarrSwitchedOn \/ QbitEdited \/ QbitSwitchedOn
    \/ SyncRadarr
    \/ MovieChanges \/ \E t \in Torrents : TorrentVanishes(t)

Next ==
    \/ CreateMovieJob
    \/ \E e \in Executors : Admission(e) \/ Workflow(e) \/ Mishap(e)
    \/ \E a \in Admins : Administration(a)
    \/ Drift
    \/ PlexScan

Spec == Init /\ [][Next]_vars

-----------------------------------------------------------------------------
(***************************************************************************)
(* Properties                                                              *)
(***************************************************************************)
JobRow == [state : RowStates, snap : SUBSET Torrents, deleted : SUBSET Torrents]

Request == [pc : Steps \cup {"idle", "loaded"}, kind : {"execute", "reconcile"},
            state : RowStates, ready : BOOLEAN, snap : SUBSET Torrents,
            deleted : SUBSET Torrents, cur : Torrents \cup {NoTorrent},
            aliased : BOOLEAN]

AdminOps == {"idle", "approve", "cancel", "radarrOff", "qbitOff", "lower",
             "clear", "raise"}

\* Every variable has its type.
TypeOK ==
    /\ job \in JobRow
    /\ lifecycle \in {"ACTIVE", "MISSING", "DELETED"}
    /\ rollout \in BOOLEAN /\ radarr \in BOOLEAN /\ qbit \in BOOLEAN
    /\ active \in Executors \cup {NoOne}
    /\ req \in [Executors -> Request]
    /\ adm \in [Admins -> [op : AdminOps, hit : BOOLEAN]]
    /\ movie \in {"same", "other", "absent"}
    /\ exclusion \in BOOLEAN
    /\ present \in SUBSET Torrents
    /\ plexItem \in BOOLEAN
    /\ removed \in SUBSET Torrents

\* Exactly the request the coordinator admitted runs the workflow, and the
\* coordinator is free when none does: however a request ends, the next one
\* can be admitted (sync_coordinator.py, "with ... acquire").
OneExecutor ==
    \A e \in Executors : (req[e].pc \in Steps) <=> (active = e)

\* Radarr no longer has the movie and will not import it again.
RadarrSettled == movie = "absent" /\ exclusion

\* A state from RADARR_DELETED on means that the movie is gone, its exclusion
\* exists and the lifecycle is no longer active.
Backed(s) == s \in AfterRadarr => RadarrSettled /\ lifecycle # "ACTIVE"

\* What the row says of Radarr is so, whatever crashed, was retried or raced.
ProgressIsReal == Backed(job.state)

\* What a request holds in its session is so too, however old it is: the state
\* it loaded, the step it goes on with, the deletions it will not repeat.
AfterRadarrSteps == {"torrents", "torrentLoop", "torrentConfirm", "reconcile",
                     "plexCall", "stillListed", "absent"}
SessionHolds(r) ==
    /\ Backed(r.state)
    /\ r.pc = "radarrDone" => RadarrSettled
    /\ r.pc \in AfterRadarrSteps => r.state \in AfterRadarr
    /\ r.kind = "reconcile" /\ r.pc \in Steps \ {"entry"} => r.pc \in AfterRadarrSteps
    /\ r.deleted \cap present = {}
SessionsHold == \A e \in Executors : SessionHolds(req[e])

\* No torrent is removed before Radarr's deletion and exclusion are confirmed:
\* a failed Arr deletion leaves the torrents untouched.
TorrentsAfterRadarr == removed # {} => RadarrSettled

\* A torrent the row records as deleted, which a resumed run skips, is gone.
RecordedDeletionsHold == job.deleted \cap present = {}

\* The safety of the workflow, as an inductive invariant.
Safe ==
    /\ OneExecutor
    /\ ProgressIsReal
    /\ SessionsHold
    /\ TorrentsAfterRadarr
    /\ RecordedDeletionsHold

\* A completed job is one whose movie Plex no longer lists: a Plex mismatch is
\* not a false success (build sheet 25.5).
CompletedIsUnlisted == job.state = "COMPLETED" => ~plexItem

\* A completed job leaves none of the torrents of its snapshot behind.
CompletedLeavesNoTorrent ==
    job.state = "COMPLETED" => job.snap \cap present = {}

\* deletion_jobs.py:37 calls COMPLETED and CANCELLED terminal.
TerminalStatesAreFinal ==
    [][job.state \in TerminalJobStates => job.state' = job.state]_job

\* Once the row says that Radarr deleted the movie, it never again offers the
\* job for approval, cancellation or revalidation.
DeletionIsRemembered ==
    [][job.state \in AfterRadarr => job.state' \in AfterRadarr]_job

\* While Radarr is out of management no request passes a gate to a further
\* step of the workflow (build sheet 19.4).
GatedSteps == {"radarrCall", "radarrDone", "torrentLoop", "plexCall"}
NoStepWhileOff ==
    [][\A e \in Executors :
         (req'[e].pc \in GatedSteps /\ req[e].pc \in {"radarr", "radarrConfirm",
                                                    "torrents", "reconcile"})
            => radarr]_vars

\* The movie that has been verified is the only one a request deletes ("the
\* delete was stopped" of any other, deletion_jobs.py:549): so it is unless the
\* movie is replaced between the look and the deletion.
DeletesAMovie(e) == req[e].pc = "radarrDelete" /\ req'[e].pc = "radarrConfirm"
                        /\ movie' # movie
OnlyVerifiedIsDeleted ==
    [][\A e \in Executors : DeletesAMovie(e) => movie = "same"]_vars

\* Radarr goes before the torrents, every deletion follows a look that found
\* the verified movie, and completion is claimed only of a movie that is gone
\* and excluded: the workflow implements RemovalProtocol.
Looked == \E e \in Executors : req[e].pc = "radarrDelete"
Promise == INSTANCE RemovalProtocol WITH
               checked <- Looked, claim <- job.state = "COMPLETED"
KeepsPromise == Promise!Spec
=============================================================================
