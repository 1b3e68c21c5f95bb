---------------------------- MODULE ManualBatch ----------------------------
(***************************************************************************)
(* Manual management, app/services/manual_management.py: one batch of      *)
(* movies or seasons chosen by the administrator, deleted item by item     *)
(* through Radarr or Sonarr, then from qBittorrent, with a retry that      *)
(* resumes each item from the state its row is in.                         *)
(*                                                                         *)
(* A run holds the SyncCoordinator, so no two runs and no synchronization  *)
(* overlap, and the run's items are loaded under it.  What a request loads *)
(* before it asks for the coordinator, or holds for its whole length, may  *)
(* be stale: the batch row of a retry, and the integration that the        *)
(* request which created the batch selected from.                          *)
(***************************************************************************)
EXTENDS Naturals, FiniteSets

CONSTANTS
    Items,       \* the items of the batch
    Torrents,    \* names of the torrents that may be mapped to an item
    Retries,     \* slots for retry requests that wait for the coordinator
    NoItem, NoTorrent

ASSUME ItemsFinite == IsFiniteSet(Items)
ASSUME NoItemIsNoItem == NoItem \notin Items
ASSUME NoTorrentIsNoTorrent == NoTorrent \notin Torrents

VARIABLES
    kind,       \* the instance of the batch is a Radarr or a Sonarr
    exclude,    \* the administrator asked for import exclusions
    batch,      \* the manual_deletion_batch row
    item,       \* the manual_deletion_item rows
    run,        \* the request that holds the coordinator, if any
    waiting,    \* retries that have loaded the batch
    armed,      \* the instance is enabled, healthy, under Active Management
    qbit,       \* qBittorrent is enabled under Active Management
    life,       \* media_lifecycle.state of each item
    media,      \* what the instance holds for each item
    guarded,    \* the movie is excluded; the season has been unmonitored
    present,    \* the torrents qBittorrent holds for each item
    cleared,    \* history: items a run has seen absent from the instance
    removed     \* history: torrents runs have removed

order   == <<kind, exclude>>
rows    == <<batch, item, life>>
outside == <<media, guarded, present>>
history == <<cleared, removed>>
vars    == <<order, rows, run, waiting, armed, qbit, outside, history>>

-----------------------------------------------------------------------------
\* A run that is not there.
NoRun == [pc |-> "idle", held |-> FALSE, todo |-> {}, cur |-> NoItem,
          torrent |-> NoTorrent, deleted |-> {}, aliased |-> FALSE,
          state |-> "PENDING", completed |-> 0, failed |-> 0]
NotWaiting == [loaded |-> FALSE, state |-> "PENDING", completed |-> 0, failed |-> 0]

\* Mutant of NextStep: an interrupted deletion is taken for a confirmed one.
MutArrAssumed(s) ==
    CASE s \in {"PENDING", "BLOCKED"}                               -> "revalidate"
      [] s = "REVALIDATED"                                          -> "arr"
      [] s \in {"ARR_DELETE_REQUESTED", "ARR_DELETED",
                "TORRENT_DELETE_REQUESTED"}                         -> "torrents"
      [] s \in {"TORRENT_DELETED", "PLEX_REFRESH_REQUESTED"}        -> "plex"

\* The step an item in state s resumes with.
NextStep(s) ==
    CASE s \in {"PENDING", "BLOCKED"}                               -> "revalidate"
      [] s \in {"REVALIDATED", "ARR_DELETE_REQUESTED"}              -> "arr"
      [] s \in {"ARR_DELETED", "TORRENT_DELETE_REQUESTED"}          -> "torrents"
      [] s \in {"TORRENT_DELETED", "PLEX_REFRESH_REQUESTED"}        -> "plex"

Init ==
    /\ kind \in {"RADARR", "SONARR"}
    /\ exclude \in IF kind = "RADARR" THEN BOOLEAN ELSE {FALSE}
    /\ batch = [state |-> "NONE", completed |-> 0, failed |-> 0]
    /\ item = [i \in Items |-> [state |-> "PENDING", seen |-> "absent",
                                snap |-> {}, deleted |-> {}]]
    /\ run = NoRun
    /\ waiting = [w \in Retries |-> NotWaiting]
    /\ armed = TRUE /\ qbit = TRUE
    /\ life = [i \in Items |-> "ACTIVE"]
    /\ media = [i \in Items |-> "same"]
    /\ guarded = [i \in Items |-> FALSE]
    /\ present = [i \in Items |-> Torrents]
    /\ cleared = {}
    /\ removed = [i \in Items |-> {}]

CompletedItems == {i \in Items : item[i].state = "COMPLETED"}

\* The run works on item i and is about to take step p.
At(i, p) == run.cur = i /\ run.pc = p

\* Go on with step p; leave the item and go on with the next one.
GoTo(p)  == run' = [run EXCEPT !.pc = p]
LeaveItem == run' = [run EXCEPT !.pc = "next", !.cur = NoItem, !.torrent = NoTorrent]

\* Commit a new state of the item.
SetState(i, s) == item' = [item EXCEPT ![i].state = s]

-----------------------------------------------------------------------------
(***************************************************************************)
(* Requests: create and execute, and retry.                                *)
(***************************************************************************)
\* resolve_manual_selection and create_manual_batch, under the coordinator.
CreateBatch ==
    /\ batch.state = "NONE" /\ run.pc = "idle"
    /\ armed
    /\ \A i \in Items : life[i] = "ACTIVE"
    /\ batch' = [batch EXCEPT !.state = "PENDING"]
    /\ run' = [NoRun EXCEPT !.pc = "start", !.held = TRUE]
    /\ UNCHANGED <<order, item, life, waiting, armed, qbit, outside, history>>

LoadRetry(w) ==
    /\ batch.state # "NONE"
    /\ ~waiting[w].loaded
    /\ waiting' = [waiting EXCEPT ![w] =
                      [loaded |-> TRUE, state |-> batch.state,
                       completed |-> batch.completed, failed |-> batch.failed]]
    /\ UNCHANGED <<order, rows, run, armed, qbit, outside, history>>

AdmitRetry(w) ==
    /\ waiting[w].loaded
    /\ run.pc = "idle"
    /\ run' = [NoRun EXCEPT !.pc = "start", !.state = waiting[w].state,
                            !.completed = waiting[w].completed,
                            !.failed = waiting[w].failed]
    /\ waiting' = [waiting EXCEPT ![w] = NotWaiting]
    /\ UNCHANGED <<order, rows, armed, qbit, outside, history>>

\* Refused because another operation runs, or given up.
DropRetry(w) ==
    /\ waiting[w].loaded
    /\ waiting' = [waiting EXCEPT ![w] = NotWaiting]
    /\ UNCHANGED <<order, rows, run, armed, qbit, outside, history>>

\* A column is written only when it differs from the loaded value.
Write(new, loaded, stored) == IF new = loaded THEN stored ELSE new

StartBatch ==
    /\ run.pc = "start"
    /\ batch' = [batch EXCEPT !.state = Write("RUNNING", run.state, batch.state)]
    /\ run' = [run EXCEPT !.pc = "next", !.state = "RUNNING",
                          !.todo = Items \ CompletedItems]
    /\ UNCHANGED <<order, item, life, waiting, armed, qbit, outside, history>>

NextItem(i) ==
    /\ run.pc = "next"
    /\ i \in run.todo
    /\ run' = [run EXCEPT !.pc = NextStep(item[i].state), !.todo = @ \ {i},
                          !.cur = i, !.deleted = item[i].deleted, !.aliased = FALSE]
    /\ UNCHANGED <<order, rows, waiting, armed, qbit, outside, history>>

\* Mutant: the batch is complete when this run has left no item blocked.
MutFinishUnblocked ==
    /\ run.pc = "next" /\ run.todo = {}
    /\ LET n == Cardinality(CompletedItems)
           s == IF \E i \in Items : item[i].state = "BLOCKED"
                THEN "ATTENTION_REQUIRED" ELSE "COMPLETED"
       IN  batch' = [state     |-> Write(s, run.state, batch.state),
                     completed |-> Write(n, run.completed, batch.completed),
                     failed    |-> Write(Cardinality(Items) - n, run.failed,
                                         batch.failed)]
    /\ run' = NoRun
    /\ UNCHANGED <<order, item, life, waiting, armed, qbit, outside, history>>

\* The outcome is counted from the rows and committed.
FinishBatch ==
    /\ run.pc = "next" /\ run.todo = {}
    /\ LET n == Cardinality(CompletedItems)
           s == IF n = Cardinality(Items) THEN "COMPLETED" ELSE "ATTENTION_REQUIRED"
       IN  batch' = [state     |-> Write(s, run.state, batch.state),
                     completed |-> Write(n, run.completed, batch.completed),
                     failed    |-> Write(Cardinality(Items) - n, run.failed,
                                         batch.failed)]
    /\ run' = NoRun
    /\ UNCHANGED <<order, item, life, waiting, armed, qbit, outside, history>>

-----------------------------------------------------------------------------
(***************************************************************************)
(* _revalidate_item                                                        *)
(***************************************************************************)
\* The instance that is held from the selection was armed then.
ArmedSeen == run.held \/ armed

\* The movie must be the one that is stored; of a season, any files will do,
\* and their ids are recorded.  Mapped torrents that are gone are left out.
RevalidateItem(i) ==
    /\ At(i, "revalidate")
    /\ ArmedSeen /\ life[i] = "ACTIVE"
    /\ media[i] \in IF kind = "RADARR" THEN {"same"} ELSE {"same", "other"}
    /\ \E snap \in IF qbit THEN SUBSET present[i] ELSE {{}} :
         item' = [item EXCEPT ![i] = [state |-> "REVALIDATED", seen |-> media[i],
                                      snap |-> snap, deleted |-> {}]]
    /\ run' = [run EXCEPT !.pc = "arr", !.deleted = {}]
    /\ UNCHANGED <<order, batch, life, waiting, armed, qbit, outside, history>>

\* A check fails: the switches, the request, the library, freshness, playback,
\* the media, the torrents or their trackers.
BlockItem(i) ==
    /\ At(i, "revalidate")
    /\ SetState(i, "BLOCKED")
    /\ LeaveItem
    /\ UNCHANGED <<order, batch, life, waiting, armed, qbit, outside, history>>

-----------------------------------------------------------------------------
(***************************************************************************)
(* _execute_arr_delete.  No switch is looked at from here on.              *)
(***************************************************************************)
\* Mutant: the instance is called before the request for it is on record.
MutCallBeforeRecord(i) ==
    /\ At(i, "arr")
    /\ GoTo("arrCall")
    /\ UNCHANGED <<order, rows, waiting, armed, qbit, outside, history>>

RequestArrDelete(i) ==
    /\ At(i, "arr")
    /\ SetState(i, "ARR_DELETE_REQUESTED")
    /\ GoTo("arrCall")
    /\ UNCHANGED <<order, batch, life, waiting, armed, qbit, outside, history>>

\* Mutant: whatever movie has the id now is deleted.
MutAnyMovie(i) == media[i] # "absent"

\* The movie is still the one that was verified.
SameMovie(i) == media[i] = "same"

\* The look and the deletion are two calls (manual_management.py:787 and 791).
LookAtMovie(i) ==
    /\ At(i, "arrCall") /\ kind = "RADARR"
    /\ SameMovie(i)
    /\ GoTo("arrDelete")
    /\ UNCHANGED <<order, rows, waiting, armed, qbit, outside, history>>

MovieChanged(i) ==
    /\ At(i, "arrCall") /\ kind = "RADARR"
    /\ media[i] = "other"
    /\ LeaveItem
    /\ UNCHANGED <<order, rows, waiting, armed, qbit, outside, history>>

MovieIsGone(i) ==
    /\ At(i, "arrCall") /\ kind = "RADARR"
    /\ media[i] = "absent"
    /\ GoTo("arrConfirm")
    /\ UNCHANGED <<order, rows, waiting, armed, qbit, outside, history>>

\* Radarr deletes, and excludes, what it has under the id by now.
DeleteMovie(i) ==
    /\ At(i, "arrDelete")
    /\ media[i] # "absent"
    /\ media' = [media EXCEPT ![i] = "absent"]
    /\ guarded' = [guarded EXCEPT ![i] = @ \/ (exclude /\ media[i] = "same")]
    /\ GoTo("arrConfirm")
    /\ UNCHANGED <<order, rows, waiting, armed, qbit, present, history>>

\* Every file the season has now: the list and the deletion are two calls, and
\* a file that comes between them stays, as after a deletion without effect.
DeleteSeasonFiles(i) ==
    /\ At(i, "arrCall") /\ kind = "SONARR"
    /\ media' = [media EXCEPT ![i] = "absent"]
    /\ GoTo("arrGuard")
    /\ UNCHANGED <<order, rows, waiting, armed, qbit, guarded, present, history>>

\* Nothing to delete, or the service answers without deleting.
DeleteIneffective(i) ==
    /\ \/ At(i, "arrCall") /\ kind = "SONARR" /\ GoTo("arrGuard")
       \/ At(i, "arrDelete") /\ GoTo("arrConfirm")
    /\ UNCHANGED <<order, rows, waiting, armed, qbit, outside, history>>

UnmonitorSeason(i) ==
    /\ At(i, "arrGuard")
    /\ guarded' = [guarded EXCEPT ![i] = TRUE]
    /\ GoTo("arrConfirm")
    /\ UNCHANGED <<order, rows, waiting, armed, qbit, media, present, history>>

\* The instance is read back, and a movie's exclusion ensured.
ConfirmArrDelete(i) ==
    /\ At(i, "arrConfirm")
    /\ media[i] = "absent"
    /\ guarded' = [guarded EXCEPT ![i] = @ \/ exclude]
    /\ cleared' = cleared \cup {i}
    /\ GoTo("arrDone")
    /\ UNCHANGED <<order, rows, waiting, armed, qbit, media, present, removed>>

\* Mutant: an unconfirmed deletion blocks the item, whose retry revalidates it.
MutBlocksReported(i) ==
    /\ At(i, "arrConfirm")
    /\ media[i] # "absent"
    /\ SetState(i, "BLOCKED")
    /\ LeaveItem
    /\ UNCHANGED <<order, batch, life, waiting, armed, qbit, outside, history>>

StillReported(i) ==
    /\ At(i, "arrConfirm")
    /\ media[i] # "absent"
    /\ LeaveItem
    /\ UNCHANGED <<order, rows, waiting, armed, qbit, outside, history>>

RecordArrDeleted(i) ==
    /\ At(i, "arrDone")
    /\ life' = [life EXCEPT ![i] = "DELETED"]
    /\ SetState(i, "ARR_DELETED")
    /\ GoTo("torrents")
    /\ UNCHANGED <<order, batch, waiting, armed, qbit, outside, history>>

-----------------------------------------------------------------------------
(***************************************************************************)
(* _execute_torrent_deletes and _refresh_plex                              *)
(***************************************************************************)
StartTorrentDeletes(i) ==
    /\ At(i, "torrents")
    /\ SetState(i, IF item[i].snap = {} THEN "TORRENT_DELETED"
                   ELSE "TORRENT_DELETE_REQUESTED")
    /\ GoTo(IF item[i].snap = {} THEN "plex" ELSE "torrentLoop")
    /\ UNCHANGED <<order, batch, life, waiting, armed, qbit, outside, history>>

Remaining(i) == item[i].snap \ run.deleted

DeleteTorrent(i, t) ==
    /\ At(i, "torrentLoop")
    /\ qbit
    /\ t \in Remaining(i)
    /\ present' = [present EXCEPT ![i] = @ \ {t}]
    /\ removed' = [removed EXCEPT ![i] = @ \cup ({t} \cap present[i])]
    /\ run' = [run EXCEPT !.pc = "torrentConfirm", !.torrent = t]
    /\ UNCHANGED <<order, rows, waiting, armed, qbit, media, guarded, cleared>>

\* qBittorrent answers without removing the torrent.
DeleteTorrentIneffective(i, t) ==
    /\ At(i, "torrentLoop")
    /\ qbit
    /\ t \in Remaining(i) \cap present[i]
    /\ run' = [run EXCEPT !.pc = "torrentConfirm", !.torrent = t]
    /\ UNCHANGED <<order, rows, waiting, armed, qbit, outside, history>>

QbitUnavailable(i) ==
    /\ At(i, "torrentLoop")
    /\ ~qbit /\ Remaining(i) # {}
    /\ LeaveItem
    /\ UNCHANGED <<order, rows, waiting, armed, qbit, outside, history>>

\* Mutant: qBittorrent's answer is trusted.
MutTrustsAnswer(i) ==
    /\ At(i, "torrentConfirm")
    /\ LET d == run.deleted \cup {run.torrent}
       IN  /\ item' = IF run.aliased THEN item ELSE [item EXCEPT ![i].deleted = d]
           /\ run' = [run EXCEPT !.pc = "torrentLoop", !.torrent = NoTorrent,
                                 !.deleted = d, !.aliased = TRUE]
    /\ UNCHANGED <<order, batch, life, waiting, armed, qbit, outside, history>>

\* The torrent is gone.  The first record of a run replaces the JSON value of
\* the row; later ones mutate the value in place and are not written.
ConfirmTorrentDelete(i) ==
    /\ At(i, "torrentConfirm")
    /\ run.torrent \notin present[i]
    /\ LET d == run.deleted \cup {run.torrent}
       IN  /\ item' = IF run.aliased THEN item ELSE [item EXCEPT ![i].deleted = d]
           /\ run' = [run EXCEPT !.pc = "torrentLoop", !.torrent = NoTorrent,
                                 !.deleted = d, !.aliased = TRUE]
    /\ UNCHANGED <<order, batch, life, waiting, armed, qbit, outside, history>>

TorrentStillReported(i) ==
    /\ At(i, "torrentConfirm")
    /\ run.torrent \in present[i]
    /\ LeaveItem
    /\ UNCHANGED <<order, rows, waiting, armed, qbit, outside, history>>

FinishTorrentDeletes(i) ==
    /\ At(i, "torrentLoop")
    /\ Remaining(i) = {}
    /\ SetState(i, "TORRENT_DELETED")
    /\ GoTo("plex")
    /\ UNCHANGED <<order, batch, life, waiting, armed, qbit, outside, history>>

RequestPlexRefresh(i) ==
    /\ At(i, "plex")
    /\ SetState(i, "PLEX_REFRESH_REQUESTED")
    /\ GoTo("plexCall")
    /\ UNCHANGED <<order, batch, life, waiting, armed, qbit, outside, history>>

CompleteItem(i) ==
    /\ At(i, "plexCall")
    /\ SetState(i, "COMPLETED")
    /\ LeaveItem
    /\ UNCHANGED <<order, batch, life, waiting, armed, qbit, outside, history>>

-----------------------------------------------------------------------------
(***************************************************************************)
(* Failures: a call raises, and the item stays in its state for a retry;   *)
(* or the request dies.                                                    *)
(***************************************************************************)
CallFails(i) ==
    /\ \/ run.pc \in {"revalidate", "arrCall", "arrDelete", "arrGuard", "arrConfirm",
                      "torrentConfirm", "plex", "plexCall"}
       \/ run.pc = "torrentLoop" /\ Remaining(i) # {} /\ qbit
    /\ run.cur = i
    /\ guarded' \in
         IF run.pc = "arrGuard" \/ (run.pc = "arrConfirm" /\ media[i] = "absent" /\ exclude)
         THEN {guarded, [guarded EXCEPT ![i] = TRUE]} ELSE {guarded}
    /\ LeaveItem
    /\ UNCHANGED <<order, rows, waiting, armed, qbit, media, present, history>>

CrashRun ==
    /\ run.pc # "idle"
    /\ run' = NoRun
    /\ UNCHANGED <<order, rows, waiting, armed, qbit, outside, history>>

-----------------------------------------------------------------------------
(***************************************************************************)
(* The switches, which leave batches alone, the synchronization of the     *)
(* instance, which needs the coordinator, and the outside.                 *)
(***************************************************************************)
ToggleInstance ==
    /\ armed' = ~armed
    /\ UNCHANGED <<order, rows, run, waiting, qbit, outside, history>>

ToggleQbit ==
    /\ qbit' = ~qbit
    /\ UNCHANGED <<order, rows, run, waiting, armed, outside, history>>

Downloaded(i) == media[i] = "same" \/ (media[i] = "other" /\ kind = "SONARR")

SyncInstance ==
    /\ run.pc = "idle"
    /\ life' = [i \in Items |-> IF Downloaded(i) THEN "ACTIVE" ELSE "MISSING"]
    /\ life' # life
    /\ UNCHANGED <<order, batch, item, run, waiting, armed, qbit, outside, history>>

\* A movie leaves Radarr for good.  A season's files leave, and others are
\* imported, also after a deletion, when it is requested again.
MediaChanges(i) ==
    /\ kind = "RADARR" => media[i] # "absent"
    /\ media' = [media EXCEPT ![i] = IF @ = "absent" THEN "other" ELSE "absent"]
    /\ UNCHANGED <<order, rows, run, waiting, armed, qbit, guarded, present, history>>

\* Another movie takes the id; other files replace the season's.
MediaReplaced(i) ==
    /\ media[i] = "same"
    /\ media' = [media EXCEPT ![i] = "other"]
    /\ UNCHANGED <<order, rows, run, waiting, armed, qbit, guarded, present, history>>

TorrentVanishes(i, t) ==
    /\ t \in present[i]
    /\ present' = [present EXCEPT ![i] = @ \ {t}]
    /\ UNCHANGED <<order, rows, run, waiting, armed, qbit, media, guarded, history>>

-----------------------------------------------------------------------------
Requests ==
    \/ CreateBatch \/ StartBatch \/ FinishBatch \/ CrashRun
    \/ \E w \in Retries : LoadRetry(w) \/ AdmitRetry(w) \/ DropRetry(w)

ArrStep(i) ==
    \/ RequestArrDelete(i)
    \/ LookAtMovie(i) \/ MovieChanged(i) \/ MovieIsGone(i) \/ DeleteMovie(i)
    \/ DeleteSeasonFiles(i) \/ DeleteIneffective(i) \/ UnmonitorSeason(i)
    \/ ConfirmArrDelete(i) \/ StillReported(i) \/ RecordArrDeleted(i)

TorrentStep(i) ==
    \/ StartTorrentDeletes(i) \/ QbitUnavailable(i)
    \/ \E t \in Torrents : DeleteTorrent(i, t) \/ DeleteTorrentIneffective(i, t)
    \/ ConfirmTorrentDelete(i) \/ TorrentStillReported(i) \/ FinishTorrentDeletes(i)

ItemStep(i) ==
    \/ NextItem(i) \/ RevalidateItem(i) \/ BlockItem(i)
    \/ ArrStep(i) \/ TorrentStep(i)
    \/ RequestPlexRefresh(i) \/ CompleteItem(i) \/ CallFails(i)

Outside(i) ==
    \/ MediaChanges(i) \/ MediaReplaced(i)
    \/ \E t \in Torrents : TorrentVanishes(i, t)

Next ==
    \/ Requests
    \/ \E i \in Items : ItemStep(i) \/ Outside(i)
    \/ ToggleInstance \/ ToggleQbit \/ SyncInstance

Spec == Init /\ [][Next]_vars

-----------------------------------------------------------------------------
(***************************************************************************)
(* Properties                                                              *)
(***************************************************************************)
BeforeArr    == {"PENDING", "BLOCKED", "REVALIDATED", "ARR_DELETE_REQUESTED"}
AfterTorrent == {"TORRENT_DELETED", "PLEX_REFRESH_REQUESTED", "COMPLETED"}
AfterArr     == {"ARR_DELETED", "TORRENT_DELETE_REQUESTED"} \cup AfterTorrent
BatchStates  == {"NONE", "PENDING", "RUNNING", "COMPLETED", "ATTENTION_REQUIRED"}
ArrSteps     == {"arr", "arrCall", "arrDelete", "arrGuard", "arrConfirm", "arrDone"}
TorrentSteps == {"torrents", "torrentLoop", "torrentConfirm"}
PlexSteps    == {"plex", "plexCall"}
Steps == {"idle", "start", "next", "revalidate"}
            \cup ArrSteps \cup TorrentSteps \cup PlexSteps

ItemRow == [state : BeforeArr \cup AfterArr, seen : {"same", "other", "absent"},
            snap : SUBSET Torrents, deleted : SUBSET Torrents]

RunRecord == [pc : Steps, held : BOOLEAN, todo : SUBSET Items,
              cur : Items \cup {NoItem}, torrent : Torrents \cup {NoTorrent},
              deleted : SUBSET Torrents, aliased : BOOLEAN,
              state : BatchStates, completed : Nat, failed : Nat]

\* Every variable has its type.
TypeOK ==
    /\ kind \in {"RADARR", "SONARR"} /\ exclude \in BOOLEAN
    /\ batch \in [state : BatchStates, completed : Nat, failed : Nat]
    /\ item \in [Items -> ItemRow]
    /\ run \in RunRecord
    /\ waiting \in [Retries -> [loaded : BOOLEAN, state : BatchStates,
                               completed : Nat, failed : Nat]]
    /\ armed \in BOOLEAN /\ qbit \in BOOLEAN
    /\ life \in [Items -> {"ACTIVE", "MISSING", "DELETED"}]
    /\ media \in [Items -> {"same", "other", "absent"}]
    /\ guarded \in [Items -> BOOLEAN]
    /\ present \in [Items -> SUBSET Torrents]
    /\ cleared \in SUBSET Items
    /\ removed \in [Items -> SUBSET Torrents]

\* The run works on item i, on a step of the set P.
Doing(i, P) == run.cur = i /\ run.pc \in P

\* The instance has been seen without item i and, when the workflow asks for
\* it, will not fetch it again by itself.
ArrSettled(i) ==
    /\ i \in cleared
    /\ kind = "SONARR" \/ exclude => guarded[i]

\* An item whose row, or whose run, is past the instance has been settled
\* there: interrupted, retried or refused, no item skips its deletion.  A
\* season, and nothing else, is unmonitored before it is read back, and only a
\* movie is deleted after a look.
ArrDeletionHolds ==
    \A i \in Items :
        /\ item[i].state \in AfterArr
              \/ Doing(i, {"arrDone"} \cup TorrentSteps \cup PlexSteps) => ArrSettled(i)
        /\ Doing(i, {"arrGuard"}) => kind = "SONARR"
        /\ Doing(i, {"arrDelete"}) => kind = "RADARR"
        /\ Doing(i, {"arrConfirm"}) /\ kind = "SONARR" => guarded[i]

\* The states an item may be in when the run is about to take step p with it.
StatesAt(p) ==
    CASE p = "revalidate"   -> {"PENDING", "BLOCKED"}
      [] p = "arr"          -> {"REVALIDATED", "ARR_DELETE_REQUESTED"}
      [] p \in ArrSteps \ {"arr"} -> {"ARR_DELETE_REQUESTED"}
      [] p = "torrents"     -> {"ARR_DELETED", "TORRENT_DELETE_REQUESTED"}
      [] p \in TorrentSteps \ {"torrents"} -> {"TORRENT_DELETE_REQUESTED"}
      [] p = "plex"         -> {"TORRENT_DELETED", "PLEX_REFRESH_REQUESTED"}
      [] p = "plexCall"     -> {"PLEX_REFRESH_REQUESTED"}
      [] OTHER              -> {}

\* The row of the item at hand says what is being asked of the outside, so
\* that a crash at any step finds it on record; and the items still to come
\* are not complete and not at hand.
RunFollowsRow ==
    /\ run.cur = NoItem <=> run.pc \in {"idle", "start", "next"}
    /\ run.torrent = NoTorrent <=> run.pc # "torrentConfirm"
    /\ \A i \in Items : run.cur = i => item[i].state \in StatesAt(run.pc)
    /\ \A i \in run.todo : item[i].state # "COMPLETED" /\ run.cur # i

\* A movie that a run has seen gone is gone, and so is a torrent that the row
\* or the run has down as deleted.
RecordsHold ==
    \A i \in Items :
        /\ kind = "RADARR" /\ i \in cleared => media[i] = "absent"
        /\ item[i].deleted \cap present[i] = {}
        /\ run.cur = i => run.deleted \cap present[i] = {}

\* No torrent of an item goes before its media is seen to be gone.
TorrentsAfterArr == \A i \in Items : removed[i] # {} => ArrSettled(i)

\* An item past its torrents has none of them left, though the row may record
\* only the first of them.
NoTorrentIsLeft ==
    \A i \in Items :
        item[i].state \in AfterTorrent => item[i].snap \cap present[i] = {}

\* The batch row says how a run ended.
Reports == batch' # batch /\ batch'.state \in {"COMPLETED", "ATTENTION_REQUIRED"}

\* A finished run reports its outcome and the items completed as the rows have
\* them, whatever the batch row said when the request loaded it; and how many
\* need attention, when any do.
ReportIsRight ==
    [][Reports =>
          /\ batch'.completed = Cardinality(CompletedItems)
          /\ batch'.state = "COMPLETED" <=> CompletedItems = Items
          /\ batch'.state = "ATTENTION_REQUIRED"
                => batch'.failed = Cardinality(Items \ CompletedItems)]_vars

\* The items the report says need attention are those that are not completed
\* (manual_management.py:960; manual_management.html:20 shows the number).  A
\* retry that loaded 0 before an earlier run failed items, and completes them,
\* has no 0 to write.
FailuresAreReported ==
    [][Reports => batch'.failed = Cardinality(Items \ CompletedItems)]_vars

\* A retry takes an item further or leaves it; it never starts it over once
\* its deletion was asked for.
ItemsOnlyAdvance ==
    [][\A i \in Items :
          /\ item[i].state = "ARR_DELETE_REQUESTED"
                => item'[i].state \in {"ARR_DELETE_REQUESTED", "ARR_DELETED"}
          /\ item[i].state \in AfterArr => item'[i].state \in AfterArr
          /\ item[i].state \in AfterTorrent => item'[i].state \in AfterTorrent
          /\ item[i].state = "COMPLETED" => item'[i].state = "COMPLETED"]_vars

\* The movie a run deletes is the one it has verified ("Radarr identity changed
\* before deletion" ends the item otherwise, manual_management.py:790): so it is
\* unless the movie is replaced between the look and the deletion.
OnlySameMovieIsDeleted ==
    [][\A i \in Items : kind = "RADARR" /\ run' # run /\ media'[i] # media[i]
                           => media[i] = "same"]_vars

\* What a run deletes is what the revalidation saw ("revalidation occurs
\* immediately before deletion", build sheet, milestone 5).
OnlySeenIsDeleted ==
    [][\A i \in Items :
          run' # run /\ media'[i] # media[i] => media[i] = item[i].seen]_vars

\* A retry goes on to a deletion that was revalidated and not yet asked for
\* only while the instance may be managed ("Active Management disabled
\* prevents Arr deletion", build sheet, 25.1).
ResumesAreGated ==
    [][\A i \in Items :
          run.pc = "next" /\ At(i, "arr")' /\ item[i].state = "REVALIDATED"
             => armed]_vars

\* Each item keeps the promise of RemovalProtocol: for a movie literally, with
\* an exclusion when one was asked for; for a season, whose files may come
\* back, of the files that a run has seen gone, by the look that saw it.
Movie(i) == IF kind = "RADARR" THEN media[i]
            ELSE IF i \in cleared THEN "absent" ELSE "same"
Excluded(i) == IF kind = "RADARR" THEN guarded[i] \/ (~exclude /\ i \in cleared)
               ELSE i \in cleared /\ guarded[i]
Looked(i) == IF kind = "RADARR" THEN At(i, "arrDelete")
             ELSE At(i, "arrConfirm") /\ i \notin cleared
Promise(i) == INSTANCE RemovalProtocol WITH
                 movie <- Movie(i), checked <- Looked(i), exclusion <- Excluded(i),
                 removed <- removed[i], claim <- item[i].state = "COMPLETED"
KeepsPromise ==
    /\ \A i \in Items : Promise(i)!Init
    /\ [][\A i \in Items : [Promise(i)!Next]_(Promise(i)!pvars)]_vars
=============================================================================
