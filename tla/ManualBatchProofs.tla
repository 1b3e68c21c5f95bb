------------------------- MODULE ManualBatchProofs -------------------------
(***************************************************************************)
(* Theorems about ManualBatch, for any finite set of items and any sets of *)
(* torrents and retries.                                                   *)
(***************************************************************************)
EXTENDS ManualBatch, FiniteSetTheorems, TLAPS

-----------------------------------------------------------------------------
(***************************************************************************)
(* Types                                                                   *)
(***************************************************************************)
\* The number of completed items is a natural number.
LEMMA CompletedCounted == Cardinality(CompletedItems) \in Nat
  <1>1. CompletedItems \subseteq Items
    BY DEF CompletedItems
  <1>2. IsFiniteSet(CompletedItems)
    BY <1>1, ItemsFinite, FS_Subset
  <1> QED BY <1>2, FS_CardinalityType

\* The number of items that are not completed.
Pending == Cardinality(Items \ CompletedItems)

LEMMA PendingCounted ==
    /\ Pending = Cardinality(Items) - Cardinality(CompletedItems)
    /\ Pending \in Nat
  <1>1. CompletedItems \subseteq Items /\ IsFiniteSet(Items \ CompletedItems)
    BY ItemsFinite, FS_Subset DEF CompletedItems
  <1>2. Items \cap CompletedItems = CompletedItems
    BY <1>1
  <1>3. Pending = Cardinality(Items) - Cardinality(CompletedItems)
    BY <1>2, ItemsFinite, FS_Difference DEF Pending
  <1> QED BY <1>1, <1>3, FS_CardinalityType DEF Pending

\* An item that is not complete has a step to resume with, and the step fits
\* its state.
LEMMA NextStepFits ==
    ASSUME NEW s \in BeforeArr \cup AfterArr, s # "COMPLETED"
    PROVE  /\ NextStep(s) \in {"revalidate", "arr", "torrents", "plex"}
           /\ s \in StatesAt(NextStep(s))
  BY DEF BeforeArr, AfterArr, AfterTorrent, NextStep, StatesAt, ArrSteps, TorrentSteps

\* Leaving an item keeps the run a run.
LEMMA LeaveTyped ==
    ASSUME run \in RunRecord, LeaveItem
    PROVE  run' \in RunRecord
  BY DEF LeaveItem, RunRecord, Steps

\* Going on with another step keeps the run a run.
LEMMA GoToTyped ==
    ASSUME run \in RunRecord, NEW p \in Steps, GoTo(p)
    PROVE  run' \in RunRecord
  BY DEF GoTo, RunRecord

\* Writing a state keeps the rows rows.
LEMMA SetStateTyped ==
    ASSUME item \in [Items -> ItemRow], NEW i \in Items,
           NEW s \in BeforeArr \cup AfterArr, SetState(i, s)
    PROVE  item' \in [Items -> ItemRow]
  BY DEF SetState, ItemRow

\* Requests keep the types.
LEMMA RequestsTyped ==
    ASSUME TypeOK, Requests
    PROVE  TypeOK'
  <1> USE DEF TypeOK, order, rows, outside, history
  <1>1. NoRun \in RunRecord
    BY DEF NoRun, RunRecord, Steps, BatchStates
  <1>2. CASE CreateBatch
    <2>1. [NoRun EXCEPT !.pc = "start", !.held = TRUE] \in RunRecord
      BY <1>1 DEF RunRecord, Steps
    <2> QED BY <1>2, <2>1 DEF CreateBatch, BatchStates
  <1>3. CASE StartBatch
    <2>1. run' \in RunRecord
      BY <1>3 DEF StartBatch, RunRecord, Steps, BatchStates
    <2> QED BY <1>3, <2>1 DEF StartBatch, Write, BatchStates
  <1>4. CASE FinishBatch
    <2>1. /\ Cardinality(CompletedItems) \in Nat
          /\ Cardinality(Items) - Cardinality(CompletedItems) \in Nat
      BY CompletedCounted, PendingCounted
    <2>2. batch' \in [state : BatchStates, completed : Nat, failed : Nat]
      BY <1>4, <2>1 DEF FinishBatch, Write, BatchStates
    <2> QED BY <1>1, <1>4, <2>2 DEF FinishBatch
  <1>5. CASE CrashRun
    BY <1>1, <1>5 DEF CrashRun
  <1>6. NotWaiting \in [loaded : BOOLEAN, state : BatchStates, completed : Nat,
                      failed : Nat]
    BY DEF NotWaiting, BatchStates
  <1>7. ASSUME NEW w \in Retries, LoadRetry(w) PROVE TypeOK'
    BY <1>7 DEF LoadRetry
  <1>8. ASSUME NEW w \in Retries, AdmitRetry(w) PROVE TypeOK'
    <2>1. [NoRun EXCEPT !.pc = "start", !.state = waiting[w].state,
                        !.completed = waiting[w].completed,
                        !.failed = waiting[w].failed] \in RunRecord
      BY <1>1 DEF RunRecord, Steps
    <2> QED BY <1>6, <1>8, <2>1 DEF AdmitRetry
  <1>9. ASSUME NEW w \in Retries, DropRetry(w) PROVE TypeOK'
    BY <1>6, <1>9 DEF DropRetry
  <1> QED BY <1>2, <1>3, <1>4, <1>5, <1>7, <1>8, <1>9 DEF Requests

\* The steps of an item keep the types.
LEMMA ItemStepTyped ==
    ASSUME TypeOK, RunFollowsRow, NEW i \in Items, ItemStep(i)
    PROVE  TypeOK'
  <1> USE DEF TypeOK, order, rows, outside, history
  <1>1. "BLOCKED" \in BeforeArr /\ "ARR_DELETE_REQUESTED" \in BeforeArr
        /\ "REVALIDATED" \in BeforeArr
        /\ "ARR_DELETED" \in AfterArr /\ "TORRENT_DELETE_REQUESTED" \in AfterArr
        /\ {"TORRENT_DELETED", "PLEX_REFRESH_REQUESTED", "COMPLETED"} \subseteq AfterArr
    BY DEF BeforeArr, AfterArr, AfterTorrent
  <1>2. {"arr", "arrCall", "arrDelete", "arrGuard", "arrConfirm", "arrDone", "torrents",
         "torrentLoop", "torrentConfirm", "plex", "plexCall"} \subseteq Steps
    BY DEF Steps, ArrSteps, TorrentSteps, PlexSteps
  <1>3. CASE NextItem(i)
    <2>1. NextStep(item[i].state) \in Steps
      <3>1. item[i].state \in BeforeArr \cup AfterArr /\ item[i].state # "COMPLETED"
        BY <1>3 DEF NextItem, RunFollowsRow, ItemRow
      <3> QED BY <3>1, NextStepFits DEF Steps, ArrSteps, TorrentSteps, PlexSteps
    <2>2. item[i].deleted \in SUBSET Torrents
      BY DEF ItemRow
    <2>3. run' \in RunRecord
      BY <1>3, <2>1, <2>2 DEF NextItem, RunRecord
    <2> QED BY <1>3, <2>3 DEF NextItem
  <1>4. CASE RevalidateItem(i)
    <2>1. PICK snap \in IF qbit THEN SUBSET present[i] ELSE {{}} :
            item' = [item EXCEPT ![i] = [state |-> "REVALIDATED", seen |-> media[i],
                                         snap |-> snap, deleted |-> {}]]
      BY <1>4 DEF RevalidateItem
    <2>2. snap \in SUBSET Torrents
      OBVIOUS
    <2>3. item' \in [Items -> ItemRow]
      BY <1>1, <2>1, <2>2 DEF ItemRow
    <2>4. run' \in RunRecord
      BY <1>2, <1>4 DEF RevalidateItem, RunRecord
    <2> QED BY <1>4, <2>3, <2>4 DEF RevalidateItem
  <1>5. CASE BlockItem(i)
    BY <1>1, <1>5, LeaveTyped, SetStateTyped DEF BlockItem
  <1>6. CASE ArrStep(i)
    <2>1. CASE RequestArrDelete(i)
      BY <1>1, <1>2, <2>1, GoToTyped, SetStateTyped DEF RequestArrDelete
    <2>2. CASE DeleteMovie(i)
      BY <1>2, <2>2, GoToTyped DEF DeleteMovie
    <2>3. CASE MovieChanged(i)
      BY <2>3, LeaveTyped DEF MovieChanged
    <2>10. CASE LookAtMovie(i)
      BY <1>2, <2>10, GoToTyped DEF LookAtMovie
    <2>11. CASE MovieIsGone(i)
      BY <1>2, <2>11, GoToTyped DEF MovieIsGone
    <2>4. CASE DeleteSeasonFiles(i)
      BY <1>2, <2>4, GoToTyped DEF DeleteSeasonFiles
    <2>5. CASE DeleteIneffective(i)
      BY <1>2, <2>5, GoToTyped DEF DeleteIneffective
    <2>6. CASE UnmonitorSeason(i)
      BY <1>2, <2>6, GoToTyped DEF UnmonitorSeason
    <2>7. CASE ConfirmArrDelete(i)
      BY <1>2, <2>7, GoToTyped DEF ConfirmArrDelete
    <2>8. CASE StillReported(i)
      BY <2>8, LeaveTyped DEF StillReported
    <2>9. CASE RecordArrDeleted(i)
      BY <1>1, <1>2, <2>9, GoToTyped, SetStateTyped DEF RecordArrDeleted
    <2> QED BY <1>6, <2>1, <2>2, <2>3, <2>4, <2>5, <2>6, <2>7, <2>8, <2>9, <2>10, <2>11
        DEF ArrStep
  <1>7. CASE TorrentStep(i)
    <2>1. CASE StartTorrentDeletes(i)
      BY <1>1, <1>2, <2>1, GoToTyped, SetStateTyped DEF StartTorrentDeletes
    <2>2. CASE QbitUnavailable(i)
      BY <2>2, LeaveTyped DEF QbitUnavailable
    <2>3. ASSUME NEW t \in Torrents, DeleteTorrent(i, t) PROVE TypeOK'
      <3>1. run' \in RunRecord
        BY <1>2, <2>3 DEF DeleteTorrent, RunRecord
      <3> QED BY <2>3, <3>1 DEF DeleteTorrent
    <2>4. ASSUME NEW t \in Torrents, DeleteTorrentIneffective(i, t) PROVE TypeOK'
      <3>1. run' \in RunRecord
        BY <1>2, <2>4 DEF DeleteTorrentIneffective, RunRecord
      <3> QED BY <2>4, <3>1 DEF DeleteTorrentIneffective
    <2>5. CASE ConfirmTorrentDelete(i)
      <3> DEFINE d == run.deleted \cup {run.torrent}
      <3>1. d \in SUBSET Torrents
        BY <2>5 DEF ConfirmTorrentDelete, At, RunFollowsRow, RunRecord
      <3>2. item' \in [Items -> ItemRow]
        <4>1. item' = item \/ item' = [item EXCEPT ![i] = [item[i] EXCEPT !.deleted = d]]
          BY <2>5 DEF ConfirmTorrentDelete
        <4>2. item[i] \in ItemRow
          OBVIOUS
        <4> HIDE DEF d, TypeOK
        <4>3. [item[i] EXCEPT !.deleted = d] \in ItemRow
          BY <3>1, <4>2 DEF ItemRow
        <4>4. item \in [Items -> ItemRow]
          BY DEF TypeOK
        <4> QED BY <4>1, <4>3, <4>4
      <3>3. run' \in RunRecord
        BY <1>2, <2>5, <3>1 DEF ConfirmTorrentDelete, RunRecord
      <3> QED BY <2>5, <3>2, <3>3 DEF ConfirmTorrentDelete
    <2>6. CASE TorrentStillReported(i)
      BY <2>6, LeaveTyped DEF TorrentStillReported
    <2>7. CASE FinishTorrentDeletes(i)
      BY <1>1, <1>2, <2>7, GoToTyped, SetStateTyped DEF FinishTorrentDeletes
    <2> QED BY <1>7, <2>1, <2>2, <2>3, <2>4, <2>5, <2>6, <2>7 DEF TorrentStep
  <1>8. CASE RequestPlexRefresh(i)
    BY <1>1, <1>2, <1>8, GoToTyped, SetStateTyped DEF RequestPlexRefresh
  <1>9. CASE CompleteItem(i)
    BY <1>1, <1>9, LeaveTyped, SetStateTyped DEF CompleteItem
  <1>10. CASE CallFails(i)
    BY <1>10, LeaveTyped DEF CallFails
  <1> QED BY <1>3, <1>4, <1>5, <1>6, <1>7, <1>8, <1>9, <1>10 DEF ItemStep

\* The switches, the synchronization and the outside keep the types.
LEMMA WorldTyped ==
    ASSUME TypeOK,
           \/ ToggleInstance \/ ToggleQbit \/ SyncInstance
           \/ \E i \in Items : Outside(i)
    PROVE  TypeOK'
  <1> USE DEF TypeOK, order, rows, outside, history
  <1>1. CASE ToggleInstance
    BY <1>1 DEF ToggleInstance
  <1>2. CASE ToggleQbit
    BY <1>2 DEF ToggleQbit
  <1>3. CASE SyncInstance
    BY <1>3 DEF SyncInstance
  <1>4. ASSUME NEW i \in Items, MediaChanges(i) PROVE TypeOK'
    BY <1>4 DEF MediaChanges
  <1>5. ASSUME NEW i \in Items, MediaReplaced(i) PROVE TypeOK'
    BY <1>5 DEF MediaReplaced
  <1>6. ASSUME NEW i \in Items, NEW t \in Torrents, TorrentVanishes(i, t) PROVE TypeOK'
    BY <1>6 DEF TorrentVanishes
  <1> QED BY <1>1, <1>2, <1>3, <1>4, <1>5, <1>6 DEF Outside

-----------------------------------------------------------------------------
(***************************************************************************)
(* The run and the row                                                     *)
(***************************************************************************)
\* What keeps the run and the rows, or ends the run, keeps RunFollowsRow.
LEMMA RunKept ==
    ASSUME RunFollowsRow, UNCHANGED item, run' = run \/ run' = NoRun
    PROVE  RunFollowsRow'
  BY NoItemIsNoItem DEF RunFollowsRow, NoRun, StatesAt

\* Leaving an item, whose row may change, keeps RunFollowsRow.
LEMMA LeaveFollows ==
    ASSUME TypeOK, RunFollowsRow, LeaveItem, NEW i \in Items, run.cur = i,
           \A j \in Items : j # i => item'[j] = item[j]
    PROVE  RunFollowsRow'
  <1>1. /\ run'.pc = "next" /\ run'.cur = NoItem /\ run'.torrent = NoTorrent
        /\ run'.todo = run.todo /\ run.todo \subseteq Items
    BY DEF TypeOK, RunRecord, LeaveItem
  <1> QED BY <1>1, NoItemIsNoItem DEF RunFollowsRow

\* Going on with the same item, in a state that fits the next step, keeps
\* RunFollowsRow.
LEMMA StepFollows ==
    ASSUME TypeOK, RunFollowsRow, NEW i \in Items, run.cur = i,
           NEW p \in Steps \ {"idle", "start", "next"},
           run'.pc = p, run'.cur = i, run'.todo = run.todo,
           run'.torrent = NoTorrent <=> p # "torrentConfirm",
           item'[i].state \in StatesAt(p),
           \A j \in Items : j # i => item'[j] = item[j]
    PROVE  RunFollowsRow'
  <1>1. run.todo \subseteq Items
    BY DEF TypeOK, RunRecord
  <1>2. \A j \in run'.todo : item'[j].state # "COMPLETED" /\ run'.cur # j
    BY <1>1 DEF RunFollowsRow
  <1> QED BY <1>2, NoItemIsNoItem DEF RunFollowsRow

\* Requests keep RunFollowsRow.
LEMMA RequestsFollow ==
    ASSUME TypeOK, RunFollowsRow, Requests
    PROVE  RunFollowsRow'
  <1> USE NoItemIsNoItem DEF rows
  <1>1. CASE CreateBatch
    BY <1>1 DEF CreateBatch, RunFollowsRow, NoRun
  <1>2. CASE StartBatch
    BY <1>2 DEF StartBatch, RunFollowsRow, CompletedItems, TypeOK, RunRecord
  <1>3. CASE FinishBatch
    BY <1>3, RunKept DEF FinishBatch
  <1>4. CASE CrashRun
    BY <1>4, RunKept DEF CrashRun
  <1>5. ASSUME NEW w \in Retries, LoadRetry(w) PROVE RunFollowsRow'
    BY <1>5, RunKept DEF LoadRetry
  <1>6. ASSUME NEW w \in Retries, AdmitRetry(w) PROVE RunFollowsRow'
    BY <1>6 DEF AdmitRetry, RunFollowsRow, NoRun
  <1>7. ASSUME NEW w \in Retries, DropRetry(w) PROVE RunFollowsRow'
    BY <1>7, RunKept DEF DropRetry
  <1> QED BY <1>1, <1>2, <1>3, <1>4, <1>5, <1>6, <1>7 DEF Requests

\* The steps of an item keep RunFollowsRow.
LEMMA ItemStepFollows ==
    ASSUME TypeOK, RunFollowsRow, NEW i \in Items, ItemStep(i)
    PROVE  RunFollowsRow'
  <1> USE DEF rows, At
  <1>1. run \in RunRecord /\ item \in [Items -> ItemRow]
    BY DEF TypeOK
  <1>2. /\ item[i].state \in BeforeArr \cup AfterArr
        /\ run.cur = i => item[i].state \in StatesAt(run.pc)
        /\ run.cur = i /\ run.pc # "torrentConfirm" => run.torrent = NoTorrent
    BY <1>1 DEF ItemRow, RunFollowsRow
  <1>3. CASE NextItem(i)
    <2>1. item[i].state # "COMPLETED" /\ run.torrent = NoTorrent
      BY <1>3 DEF NextItem, RunFollowsRow
    <2> DEFINE p == NextStep(item[i].state)
    <2>2. p \in {"revalidate", "arr", "torrents", "plex"}
          /\ item[i].state \in StatesAt(p)
      BY <1>2, <2>1, NextStepFits
    <2>3. /\ run'.pc = p /\ run'.cur = i /\ run'.todo = run.todo \ {i}
          /\ run'.torrent = NoTorrent /\ UNCHANGED item
      BY <1>1, <1>3, <2>1 DEF NextItem, RunRecord
    <2> HIDE DEF p
    <2> QED BY <2>2, <2>3, NoItemIsNoItem DEF RunFollowsRow
  <1>4. CASE RevalidateItem(i)
    <2>1. /\ item'[i].state = "REVALIDATED"
          /\ \A j \in Items : j # i => item'[j] = item[j]
      BY <1>1, <1>4 DEF RevalidateItem
    <2>2. /\ run'.pc = "arr" /\ run'.cur = i /\ run'.todo = run.todo
          /\ run'.torrent = NoTorrent
      BY <1>1, <1>2, <1>4 DEF RevalidateItem, RunRecord
    <2>3. run.cur = i
      BY <1>4 DEF RevalidateItem
    <2> QED BY <2>1, <2>2, <2>3, StepFollows DEF StatesAt, Steps, ArrSteps, TorrentSteps
  <1>5. CASE BlockItem(i)
    BY <1>1, <1>5, LeaveFollows DEF BlockItem, SetState
  <1>6. CASE ArrStep(i)
    <2> USE DEF StatesAt, Steps, ArrSteps, TorrentSteps
    <2>1. CASE RequestArrDelete(i)
      <3>1. /\ item'[i].state = "ARR_DELETE_REQUESTED"
            /\ \A j \in Items : j # i => item'[j] = item[j]
        BY <1>1, <2>1 DEF RequestArrDelete, SetState, ItemRow
      <3>2. /\ run'.pc = "arrCall" /\ run'.cur = i /\ run'.todo = run.todo
            /\ run'.torrent = NoTorrent
        BY <1>1, <1>2, <2>1 DEF RequestArrDelete, GoTo, RunRecord
      <3> QED BY <2>1, <3>1, <3>2, StepFollows DEF RequestArrDelete
    <2>2. ASSUME NEW p \in {"arrDelete", "arrConfirm", "arrGuard", "arrDone"}, GoTo(p),
                 UNCHANGED item, run.cur = i,
                 run.pc \in {"arrCall", "arrDelete", "arrGuard", "arrConfirm"}
          PROVE  RunFollowsRow'
      <3>1. /\ run'.pc = p /\ run'.cur = i /\ run'.todo = run.todo
            /\ run'.torrent = NoTorrent
        BY <1>1, <1>2, <2>2 DEF GoTo, RunRecord
      <3>2. item[i].state = "ARR_DELETE_REQUESTED"
        BY <1>2, <2>2
      <3> QED BY <2>2, <3>1, <3>2, StepFollows
    <2>3. CASE DeleteMovie(i)
      BY <2>2, <2>3 DEF DeleteMovie
    <2>4. CASE MovieChanged(i)
      BY <2>4, LeaveFollows DEF MovieChanged
    <2>11. CASE LookAtMovie(i)
      BY <2>2, <2>11 DEF LookAtMovie
    <2>12. CASE MovieIsGone(i)
      BY <2>2, <2>12 DEF MovieIsGone
    <2>5. CASE DeleteSeasonFiles(i)
      BY <2>2, <2>5 DEF DeleteSeasonFiles
    <2>6. CASE DeleteIneffective(i)
      BY <2>2, <2>6 DEF DeleteIneffective
    <2>7. CASE UnmonitorSeason(i)
      BY <2>2, <2>7 DEF UnmonitorSeason
    <2>8. CASE ConfirmArrDelete(i)
      BY <2>2, <2>8 DEF ConfirmArrDelete
    <2>9. CASE StillReported(i)
      BY <2>9, LeaveFollows DEF StillReported
    <2>10. CASE RecordArrDeleted(i)
      <3>1. /\ item'[i].state = "ARR_DELETED"
            /\ \A j \in Items : j # i => item'[j] = item[j]
        BY <1>1, <2>10 DEF RecordArrDeleted, SetState, ItemRow
      <3>2. /\ run'.pc = "torrents" /\ run'.cur = i /\ run'.todo = run.todo
            /\ run'.torrent = NoTorrent
        BY <1>1, <1>2, <2>10 DEF RecordArrDeleted, GoTo, RunRecord
      <3> QED BY <2>10, <3>1, <3>2, StepFollows DEF RecordArrDeleted
    <2> QED BY <1>6, <2>1, <2>3, <2>4, <2>5, <2>6, <2>7, <2>8, <2>9, <2>10, <2>11, <2>12
        DEF ArrStep
  <1>7. CASE TorrentStep(i)
    <2> USE DEF StatesAt, Steps, ArrSteps, TorrentSteps, PlexSteps
    <2>1. CASE StartTorrentDeletes(i)
      <3> DEFINE p == IF item[i].snap = {} THEN "plex" ELSE "torrentLoop"
      <3>1. /\ item'[i].state \in StatesAt(p)
            /\ \A j \in Items : j # i => item'[j] = item[j]
        BY <1>1, <2>1 DEF StartTorrentDeletes, SetState, ItemRow
      <3>2. /\ run'.pc = p /\ run'.cur = i /\ run'.todo = run.todo
            /\ run'.torrent = NoTorrent
        BY <1>1, <1>2, <2>1 DEF StartTorrentDeletes, GoTo, RunRecord
      <3> QED BY <2>1, <3>1, <3>2, StepFollows DEF StartTorrentDeletes
    <2>2. CASE QbitUnavailable(i)
      BY <2>2, LeaveFollows DEF QbitUnavailable
    <2>3. ASSUME NEW t \in Torrents,
                 DeleteTorrent(i, t) \/ DeleteTorrentIneffective(i, t)
          PROVE  RunFollowsRow'
      <3>1. /\ run'.pc = "torrentConfirm" /\ run'.cur = i /\ run'.todo = run.todo
            /\ run'.torrent # NoTorrent
        BY <1>1, <2>3, NoTorrentIsNoTorrent
        DEF DeleteTorrent, DeleteTorrentIneffective, RunRecord
      <3>2. item[i].state = "TORRENT_DELETE_REQUESTED" /\ UNCHANGED item /\ run.cur = i
        BY <1>2, <2>3 DEF DeleteTorrent, DeleteTorrentIneffective
      <3> QED BY <3>1, <3>2, StepFollows
    <2>4. CASE ConfirmTorrentDelete(i)
      <3>1. /\ item'[i].state = item[i].state
            /\ \A j \in Items : j # i => item'[j] = item[j]
        BY <1>1, <2>4 DEF ConfirmTorrentDelete, ItemRow
      <3>2. /\ run'.pc = "torrentLoop" /\ run'.cur = i /\ run'.todo = run.todo
            /\ run'.torrent = NoTorrent
        BY <1>1, <2>4 DEF ConfirmTorrentDelete, RunRecord
      <3>3. item[i].state = "TORRENT_DELETE_REQUESTED" /\ run.cur = i
        BY <1>2, <2>4 DEF ConfirmTorrentDelete
      <3> QED BY <3>1, <3>2, <3>3, StepFollows
    <2>5. CASE TorrentStillReported(i)
      BY <2>5, LeaveFollows DEF TorrentStillReported
    <2>6. CASE FinishTorrentDeletes(i)
      <3>1. /\ item'[i].state = "TORRENT_DELETED"
            /\ \A j \in Items : j # i => item'[j] = item[j]
        BY <1>1, <2>6 DEF FinishTorrentDeletes, SetState, ItemRow
      <3>2. /\ run'.pc = "plex" /\ run'.cur = i /\ run'.todo = run.todo
            /\ run'.torrent = NoTorrent
        BY <1>1, <1>2, <2>6 DEF FinishTorrentDeletes, GoTo, RunRecord
      <3> QED BY <2>6, <3>1, <3>2, StepFollows DEF FinishTorrentDeletes
    <2> QED BY <1>7, <2>1, <2>2, <2>3, <2>4, <2>5, <2>6 DEF TorrentStep
  <1>8. CASE RequestPlexRefresh(i)
    <2>1. /\ item'[i].state = "PLEX_REFRESH_REQUESTED"
          /\ \A j \in Items : j # i => item'[j] = item[j]
      BY <1>1, <1>8 DEF RequestPlexRefresh, SetState, ItemRow
    <2>2. /\ run'.pc = "plexCall" /\ run'.cur = i /\ run'.todo = run.todo
          /\ run'.torrent = NoTorrent
      BY <1>1, <1>2, <1>8 DEF RequestPlexRefresh, GoTo, RunRecord
    <2> QED BY <1>8, <2>1, <2>2, StepFollows
        DEF RequestPlexRefresh, StatesAt, Steps, ArrSteps, TorrentSteps, PlexSteps
  <1>9. CASE CompleteItem(i)
    BY <1>1, <1>9, LeaveFollows DEF CompleteItem, SetState
  <1>10. CASE CallFails(i)
    BY <1>10, LeaveFollows DEF CallFails
  <1> QED BY <1>3, <1>4, <1>5, <1>6, <1>7, <1>8, <1>9, <1>10 DEF ItemStep

\* What is neither a request nor a step of an item leaves run and rows alone.
LEMMA WorldFollows ==
    ASSUME RunFollowsRow,
           \/ ToggleInstance \/ ToggleQbit \/ SyncInstance
           \/ \E i \in Items : Outside(i)
    PROVE  RunFollowsRow'
  <1>1. UNCHANGED <<item, run>>
    BY DEF ToggleInstance, ToggleQbit, SyncInstance, Outside, MediaChanges,
           MediaReplaced, TorrentVanishes, rows
  <1> QED BY <1>1, RunKept

\* Every variable has its type, and the row of the item at hand always says
\* what is being asked of the outside.
Shape == TypeOK /\ RunFollowsRow

\* Shape is inductive.
LEMMA ShapeStep ==
    ASSUME Shape, [Next]_vars
    PROVE  Shape'
  <1> USE DEF Shape
  <1>1. CASE Requests
    BY <1>1, RequestsTyped, RequestsFollow
  <1>2. ASSUME NEW i \in Items, ItemStep(i) PROVE Shape'
    BY <1>2, ItemStepTyped, ItemStepFollows
  <1>3. CASE ToggleInstance \/ ToggleQbit \/ SyncInstance \/ \E i \in Items : Outside(i)
    BY <1>3, WorldTyped, WorldFollows
  <1>4. CASE UNCHANGED vars
    BY <1>4, RunKept DEF vars, order, rows, outside, history, TypeOK
  <1> QED BY <1>1, <1>2, <1>3, <1>4 DEF Next

\* Shape holds initially.
LEMMA ShapeInit == Init => Shape
  <1> SUFFICES ASSUME Init PROVE Shape
    OBVIOUS
  <1>1. NoRun \in RunRecord
    BY DEF NoRun, RunRecord, Steps, BatchStates
  <1>2. NotWaiting \in [loaded : BOOLEAN, state : BatchStates, completed : Nat,
                      failed : Nat]
    BY DEF NotWaiting, BatchStates
  <1>3. item \in [Items -> ItemRow]
    BY DEF Init, ItemRow, BeforeArr
  <1>4. TypeOK
    BY <1>1, <1>2, <1>3 DEF Init, TypeOK, BatchStates
  <1>5. RunFollowsRow
    BY NoItemIsNoItem DEF Init, RunFollowsRow, NoRun
  <1> QED BY <1>4, <1>5 DEF Shape

\* The batch, its rows, its runs and the outside keep their types, whatever
\* fails or crashes.
THEOREM TypeCorrect == Spec => []TypeOK
  <1>1. Shape => TypeOK
    BY DEF Shape
  <1> QED BY <1>1, ShapeInit, ShapeStep, PTL DEF Spec

\* A run never asks anything of the outside that the row does not have on
\* record, so that a crash at any step can be taken up from the row.
THEOREM CallsAreOnRecord == Spec => []RunFollowsRow
  <1>1. Shape => RunFollowsRow
    BY DEF Shape
  <1> QED BY <1>1, ShapeInit, ShapeStep, PTL DEF Spec

-----------------------------------------------------------------------------
(***************************************************************************)
(* How a row, a run and the outside move                                   *)
(***************************************************************************)
\* A step leaves the row of item j, or takes it along the workflow.
RowMoves(j) ==
    \/ item'[j] = item[j]
    \/ item[j].state \in {"PENDING", "BLOCKED"}
       /\ item'[j].state \in {"BLOCKED", "REVALIDATED"}
       /\ item'[j].deleted \in {{}, item[j].deleted}
    \/ /\ item'[j].snap = item[j].snap
       /\ item'[j].deleted = item[j].deleted
       /\ \/ item[j].state \in {"REVALIDATED", "ARR_DELETE_REQUESTED"}
             /\ item'[j].state = "ARR_DELETE_REQUESTED"
          \/ item[j].state = "ARR_DELETE_REQUESTED" /\ Doing(j, {"arrDone"})
             /\ item'[j].state = "ARR_DELETED"
          \/ item[j].state \in {"ARR_DELETED", "TORRENT_DELETE_REQUESTED"}
             /\ item'[j].state = "TORRENT_DELETE_REQUESTED"
          \/ /\ item[j].state \in {"ARR_DELETED", "TORRENT_DELETE_REQUESTED"}
             /\ item'[j].state = "TORRENT_DELETED"
             /\ \/ item[j].snap = {}
                \/ run.cur = j /\ Remaining(j) = {}
          \/ item[j].state \in {"TORRENT_DELETED", "PLEX_REFRESH_REQUESTED"}
             /\ item'[j].state = "PLEX_REFRESH_REQUESTED"
          \/ item[j].state = "PLEX_REFRESH_REQUESTED" /\ item'[j].state = "COMPLETED"
    \/ /\ item[j].state = "TORRENT_DELETE_REQUESTED"
       /\ item'[j].state = "TORRENT_DELETE_REQUESTED"
       /\ item'[j].snap = item[j].snap
       /\ run.cur = j /\ run.torrent \notin present[j]
       /\ item'[j].deleted = run.deleted \cup {run.torrent}

\* Every step moves every row along the workflow.
LEMMA RowsMove ==
    ASSUME Shape, [Next]_vars, NEW j \in Items
    PROVE  RowMoves(j)
  <1> USE DEF rows, At
  <1>1. item \in [Items -> ItemRow]
    BY DEF Shape, TypeOK
  <1>2. \A i \in Items : run.cur = i => item[i].state \in StatesAt(run.pc)
    BY DEF Shape, RunFollowsRow
  <1>3. CASE UNCHANGED item
    BY <1>3 DEF RowMoves
  <1>4. CASE Requests \/ ToggleInstance \/ ToggleQbit \/ SyncInstance \/ UNCHANGED vars
             \/ \E i \in Items : Outside(i)
    BY <1>3, <1>4 DEF Requests, CreateBatch, StartBatch, FinishBatch, CrashRun,
        LoadRetry, AdmitRetry, DropRetry, ToggleInstance, ToggleQbit, SyncInstance,
        vars, Outside, MediaChanges, MediaReplaced, TorrentVanishes
  <1>5. ASSUME NEW i \in Items, ItemStep(i) PROVE RowMoves(j)
    <2> USE DEF StatesAt, ArrSteps, TorrentSteps
    <2>1. CASE RevalidateItem(i)
      <3>1. item[i].state \in {"PENDING", "BLOCKED"}
        BY <1>2, <2>1 DEF RevalidateItem
      <3>2. item'[i].state = "REVALIDATED" /\ item'[i].deleted = {}
        BY <1>1, <2>1 DEF RevalidateItem
      <3>3. j # i => item'[j] = item[j]
        BY <1>1, <2>1 DEF RevalidateItem
      <3> QED BY <3>1, <3>2, <3>3 DEF RowMoves
    <2>2. ASSUME NEW s \in BeforeArr \cup AfterArr, SetState(i, s)
          PROVE  /\ item'[i].state = s /\ item'[i].snap = item[i].snap
                 /\ item'[i].deleted = item[i].deleted
                 /\ j # i => item'[j] = item[j]
      BY <1>1, <2>2 DEF SetState, ItemRow
    <2> USE DEF BeforeArr, AfterArr, AfterTorrent
    <2>3. CASE BlockItem(i)
      BY <1>2, <2>2, <2>3 DEF BlockItem, RowMoves
    <2>4. CASE RequestArrDelete(i)
      BY <1>2, <2>2, <2>4 DEF RequestArrDelete, RowMoves
    <2>5. CASE RecordArrDeleted(i)
      BY <1>2, <2>2, <2>5 DEF RecordArrDeleted, RowMoves, Doing
    <2>6. CASE StartTorrentDeletes(i)
      BY <1>2, <2>2, <2>6 DEF StartTorrentDeletes, RowMoves
    <2>7. CASE FinishTorrentDeletes(i)
      BY <1>2, <2>2, <2>7 DEF FinishTorrentDeletes, RowMoves
    <2>8. CASE RequestPlexRefresh(i)
      BY <1>2, <2>2, <2>8 DEF RequestPlexRefresh, RowMoves
    <2>9. CASE CompleteItem(i)
      BY <1>2, <2>2, <2>9 DEF CompleteItem, RowMoves
    <2>10. CASE ConfirmTorrentDelete(i)
      <3>1. item[i].state = "TORRENT_DELETE_REQUESTED"
        BY <1>2, <2>10 DEF ConfirmTorrentDelete
      <3>2. \/ item' = item
            \/ item' = [item EXCEPT ![i].deleted = run.deleted \cup {run.torrent}]
        BY <2>10 DEF ConfirmTorrentDelete
      <3>3. ASSUME item' = [item EXCEPT ![i].deleted = run.deleted \cup {run.torrent}]
            PROVE  /\ item'[i].state = item[i].state /\ item'[i].snap = item[i].snap
                   /\ item'[i].deleted = run.deleted \cup {run.torrent}
                   /\ j # i => item'[j] = item[j]
        BY <1>1, <3>3 DEF ItemRow
      <3> QED BY <1>3, <2>10, <3>1, <3>2, <3>3 DEF ConfirmTorrentDelete, RowMoves
    <2>11. CASE UNCHANGED item
      BY <2>11 DEF RowMoves
    <2> QED BY <1>5, <2>1, <2>3, <2>4, <2>5, <2>6, <2>7, <2>8, <2>9, <2>10, <2>11
        DEF ItemStep, NextItem, ArrStep, DeleteMovie, LookAtMovie, MovieChanged,
            MovieIsGone, DeleteSeasonFiles, DeleteIneffective, UnmonitorSeason,
            ConfirmArrDelete, StillReported, TorrentStep, QbitUnavailable,
            DeleteTorrent, DeleteTorrentIneffective, TorrentStillReported, CallFails
  <1> QED BY <1>4, <1>5 DEF Next

\* A retry takes an item further or leaves it.
THEOREM Advances == Spec => ItemsOnlyAdvance
  <1> DEFINE A == \A i \in Items :
          /\ item[i].state = "ARR_DELETE_REQUESTED"
                => item'[i].state \in {"ARR_DELETE_REQUESTED", "ARR_DELETED"}
          /\ item[i].state \in AfterArr => item'[i].state \in AfterArr
          /\ item[i].state \in AfterTorrent => item'[i].state \in AfterTorrent
          /\ item[i].state = "COMPLETED" => item'[i].state = "COMPLETED"
  <1>1. Shape /\ [Next]_vars => [A]_vars
    BY RowsMove DEF RowMoves, AfterArr, AfterTorrent
  <1> QED BY <1>1, ShapeInit, ShapeStep, PTL DEF Spec, ItemsOnlyAdvance

\* What has been settled at the instance of item j stays so, a movie or a
\* torrent that is gone does not return, and only a run past the instance
\* removes torrents.
WorldMoves(j) ==
    /\ UNCHANGED <<kind, exclude>>
    /\ j \in cleared => j \in cleared'
    /\ guarded[j] => guarded'[j]
    /\ j \in cleared' => j \in cleared \/ media'[j] = "absent"
    /\ kind = "RADARR" /\ media[j] = "absent" => media'[j] = "absent"
    /\ present'[j] \subseteq present[j]
    /\ removed'[j] # removed[j] => Doing(j, TorrentSteps)

\* Every step moves the outside of every item so.
LEMMA WorldMovesOn ==
    ASSUME Shape, [Next]_vars, NEW j \in Items
    PROVE  WorldMoves(j)
  <1> USE DEF WorldMoves, order, outside, history, At
  <1>1. /\ guarded \in [Items -> BOOLEAN]
        /\ media \in [Items -> {"same", "other", "absent"}]
        /\ present \in [Items -> SUBSET Torrents]
        /\ removed \in [Items -> SUBSET Torrents]
    BY DEF Shape, TypeOK
  <1>2. CASE UNCHANGED <<kind, exclude, cleared, guarded, media, present, removed>>
    BY <1>2
  <1>3. CASE Requests \/ ToggleInstance \/ ToggleQbit \/ SyncInstance \/ UNCHANGED vars
    BY <1>2, <1>3 DEF Requests, CreateBatch, StartBatch, FinishBatch, CrashRun,
        LoadRetry, AdmitRetry, DropRetry, ToggleInstance, ToggleQbit, SyncInstance,
        vars
  <1>4. ASSUME NEW i \in Items, Outside(i) PROVE WorldMoves(j)
    BY <1>1, <1>4 DEF Outside, MediaChanges, MediaReplaced, TorrentVanishes
  <1>5. ASSUME NEW i \in Items, ItemStep(i) PROVE WorldMoves(j)
    <2>1. CASE DeleteMovie(i) \/ DeleteSeasonFiles(i)
      BY <1>1, <2>1 DEF DeleteMovie, DeleteSeasonFiles
    <2>2. CASE UnmonitorSeason(i)
      BY <1>1, <2>2 DEF UnmonitorSeason
    <2>3. CASE ConfirmArrDelete(i)
      BY <1>1, <2>3 DEF ConfirmArrDelete
    <2>4. CASE CallFails(i)
      BY <1>1, <2>4 DEF CallFails
    <2>5. ASSUME NEW t \in Torrents, DeleteTorrent(i, t) PROVE WorldMoves(j)
      BY <1>1, <2>5 DEF DeleteTorrent, Doing, TorrentSteps
    <2>6. CASE UNCHANGED <<kind, exclude, cleared, guarded, media, present, removed>>
      BY <2>6
    <2> QED BY <1>5, <2>1, <2>2, <2>3, <2>4, <2>5, <2>6
        DEF ItemStep, NextItem, RevalidateItem, BlockItem, ArrStep, RequestArrDelete,
            LookAtMovie, MovieChanged, MovieIsGone, DeleteIneffective, StillReported,
            RecordArrDeleted, TorrentStep, StartTorrentDeletes, QbitUnavailable,
            DeleteTorrentIneffective, ConfirmTorrentDelete, TorrentStillReported,
            FinishTorrentDeletes, RequestPlexRefresh, CompleteItem
  <1> QED BY <1>3, <1>4, <1>5 DEF Next

\* A run deletes a movie after a look at it, reaches the read-back of a season
\* only past its unmonitoring, and leaves the instance only by confirming; what
\* it has down as deleted is what the row has, or what it has just seen gone.
RunMoves(j) ==
    /\ Doing(j, {"arrGuard"})' => Doing(j, {"arrGuard"}) \/ kind = "SONARR"
    /\ Doing(j, {"arrDelete"})'
          => \/ Doing(j, {"arrDelete"})
             \/ kind = "RADARR" /\ media[j] = "same" /\ media'[j] = media[j]
    /\ Doing(j, {"arrConfirm"})'
          => Doing(j, {"arrConfirm", "arrDelete"}) \/ kind # "SONARR" \/ guarded'[j]
    /\ Doing(j, {"arrDone"})' => Doing(j, {"arrDone"}) \/ ConfirmArrDelete(j)
    /\ run'.cur = j =>
          \/ run.cur = j /\ run'.deleted = run.deleted
          \/ run'.deleted \in {{}, item[j].deleted}
          \/ run.cur = j /\ run.torrent \notin present[j]
                /\ run'.deleted = run.deleted \cup {run.torrent}

\* Every step moves the run so.
LEMMA RunMovesOn ==
    ASSUME Shape, [Next]_vars, NEW j \in Items
    PROVE  RunMoves(j)
  <1> USE NoItemIsNoItem DEF RunMoves, At, Doing
  <1>1. run \in RunRecord /\ guarded \in [Items -> BOOLEAN]
        /\ item \in [Items -> ItemRow] /\ kind \in {"RADARR", "SONARR"}
    BY DEF Shape, TypeOK
  <1>2. CASE UNCHANGED run
    BY <1>2
  <1>3. CASE run'.cur = NoItem
    BY <1>3
  <1>4. CASE Requests \/ ToggleInstance \/ ToggleQbit \/ SyncInstance \/ UNCHANGED vars
             \/ \E i \in Items : Outside(i)
    <2>1. CASE StartBatch
      BY <1>1, <2>1 DEF StartBatch, RunRecord, Shape, RunFollowsRow
    <2>2. ASSUME CreateBatch \/ FinishBatch \/ CrashRun \/ \E w \in Retries : AdmitRetry(w)
          PROVE  run'.cur = NoItem
      <3>1. NoRun \in RunRecord /\ NoRun.cur = NoItem
        BY DEF NoRun, RunRecord, Steps, BatchStates
      <3>2. CASE CreateBatch
        BY <3>1, <3>2 DEF CreateBatch, RunRecord
      <3>3. CASE FinishBatch \/ CrashRun
        BY <3>1, <3>3 DEF FinishBatch, CrashRun
      <3>4. ASSUME NEW w \in Retries, AdmitRetry(w) PROVE run'.cur = NoItem
        BY <3>1, <3>4 DEF AdmitRetry, RunRecord
      <3> QED BY <2>2, <3>2, <3>3, <3>4
    <2> QED BY <1>2, <1>3, <1>4, <2>1, <2>2
        DEF Requests, LoadRetry, DropRetry, ToggleInstance, ToggleQbit, SyncInstance,
            vars, Outside, MediaChanges, MediaReplaced, TorrentVanishes
  <1>5. ASSUME NEW i \in Items, ItemStep(i) PROVE RunMoves(j)
    <2>1. CASE NextItem(i)
      <3>1. item[i].state \in BeforeArr \cup AfterArr /\ item[i].state # "COMPLETED"
        BY <1>1, <2>1 DEF NextItem, Shape, RunFollowsRow, ItemRow
      <3>2. NextStep(item[i].state) \in {"revalidate", "arr", "torrents", "plex"}
        BY <3>1, NextStepFits
      <3>3. run'.pc = NextStep(item[i].state) /\ run'.cur = i
            /\ run'.deleted = item[i].deleted
        BY <1>1, <2>1 DEF NextItem, RunRecord
      <3>4. run'.pc \notin {"arrGuard", "arrDelete", "arrConfirm", "arrDone"}
        BY <3>2, <3>3
      <3> QED BY <3>3, <3>4
    <2>2. CASE RevalidateItem(i)
      <3>1. run'.pc = "arr" /\ run'.deleted = {}
        BY <1>1, <2>2 DEF RevalidateItem, RunRecord
      <3> QED BY <3>1
    <2>3. ASSUME LeaveItem PROVE RunMoves(j)
      BY <1>1, <1>3, <2>3 DEF LeaveItem, RunRecord
    <2>4. ASSUME NEW p \in Steps, GoTo(p)
          PROVE  run'.pc = p /\ run'.cur = run.cur /\ run'.deleted = run.deleted
      BY <1>1, <2>4 DEF GoTo, RunRecord
    <2>5. {"arrCall", "arrDelete", "arrGuard", "arrConfirm", "arrDone", "torrents",
           "torrentLoop", "plex", "plexCall"} \subseteq Steps
      BY DEF Steps, ArrSteps, TorrentSteps, PlexSteps
    <2>6. CASE RequestArrDelete(i)
      BY <2>4, <2>5, <2>6 DEF RequestArrDelete
    <2>7. CASE DeleteMovie(i)
      BY <2>4, <2>5, <2>7 DEF DeleteMovie
    <2>8. CASE DeleteSeasonFiles(i)
      BY <2>4, <2>5, <2>8 DEF DeleteSeasonFiles
    <2>9. CASE DeleteIneffective(i)
      <3>1. CASE At(i, "arrCall") /\ GoTo("arrGuard") /\ kind = "SONARR"
        BY <2>4, <2>5, <3>1
      <3>2. CASE At(i, "arrDelete") /\ GoTo("arrConfirm")
        BY <2>4, <2>5, <3>2
      <3> QED BY <2>9, <3>1, <3>2 DEF DeleteIneffective
    <2>18. CASE LookAtMovie(i)
      BY <2>4, <2>5, <2>18 DEF LookAtMovie, SameMovie, outside
    <2>19. CASE MovieIsGone(i)
      BY <2>4, <2>5, <2>19 DEF MovieIsGone
    <2>10. CASE UnmonitorSeason(i)
      <3>1. guarded'[i]
        BY <1>1, <2>10 DEF UnmonitorSeason
      <3>2. run'.pc = "arrConfirm" /\ run'.cur = run.cur /\ run'.deleted = run.deleted
            /\ run.cur = i
        BY <2>4, <2>5, <2>10 DEF UnmonitorSeason
      <3> QED BY <3>1, <3>2
    <2>11. CASE ConfirmArrDelete(i)
      <3>1. run'.pc = "arrDone" /\ run'.cur = run.cur /\ run'.deleted = run.deleted
            /\ run.cur = i
        BY <2>4, <2>5, <2>11 DEF ConfirmArrDelete
      <3> QED BY <2>11, <3>1
    <2>12. CASE RecordArrDeleted(i)
      BY <2>4, <2>5, <2>12 DEF RecordArrDeleted
    <2>13. CASE StartTorrentDeletes(i)
      BY <2>4, <2>5, <2>13 DEF StartTorrentDeletes
    <2>14. CASE FinishTorrentDeletes(i)
      BY <2>4, <2>5, <2>14 DEF FinishTorrentDeletes
    <2>15. CASE RequestPlexRefresh(i)
      BY <2>4, <2>5, <2>15 DEF RequestPlexRefresh
    <2>16. ASSUME NEW t \in Torrents,
                  DeleteTorrent(i, t) \/ DeleteTorrentIneffective(i, t)
           PROVE  RunMoves(j)
      <3>1. run'.pc = "torrentConfirm" /\ run'.cur = run.cur /\ run'.deleted = run.deleted
        BY <1>1, <2>16 DEF DeleteTorrent, DeleteTorrentIneffective, RunRecord
      <3> QED BY <3>1
    <2>17. CASE ConfirmTorrentDelete(i)
      <3>1. run'.pc = "torrentLoop" /\ run'.cur = run.cur
            /\ run'.deleted = run.deleted \cup {run.torrent}
        BY <1>1, <2>17 DEF ConfirmTorrentDelete, RunRecord
      <3> QED BY <2>17, <3>1 DEF ConfirmTorrentDelete
    <2> QED BY <1>5, <2>1, <2>2, <2>3, <2>6, <2>7, <2>8, <2>9, <2>10, <2>11, <2>12,
               <2>13, <2>14, <2>15, <2>16, <2>17, <2>18, <2>19
        DEF ItemStep, BlockItem, ArrStep, MovieChanged, StillReported, TorrentStep,
            QbitUnavailable, TorrentStillReported, CompleteItem, CallFails
  <1> QED BY <1>4, <1>5 DEF Next

-----------------------------------------------------------------------------
(***************************************************************************)
(* Safety                                                                  *)
(***************************************************************************)
\* The inductive invariant.
Safe ==
    /\ Shape
    /\ ArrDeletionHolds
    /\ TorrentsAfterArr
    /\ RecordsHold
    /\ NoTorrentIsLeft

\* An item that is settled stays settled; confirming settles it.
LEMMA SettledStays ==
    ASSUME Safe, [Next]_vars, NEW j \in Items
    PROVE  /\ ArrSettled(j) => ArrSettled(j)'
           /\ ConfirmArrDelete(j) => ArrSettled(j)'
  <1>1. WorldMoves(j) /\ guarded \in [Items -> BOOLEAN]
        /\ kind \in {"RADARR", "SONARR"}
    BY WorldMovesOn DEF Safe, Shape, TypeOK
  <1>2. ArrSettled(j) => ArrSettled(j)'
    BY <1>1 DEF WorldMoves, ArrSettled
  <1>3. ASSUME ConfirmArrDelete(j) PROVE ArrSettled(j)'
    <2>1. j \in cleared' /\ (guarded[j] \/ exclude => guarded'[j])
      BY <1>1, <1>3 DEF ConfirmArrDelete
    <2>2. kind = "SONARR" => guarded[j]
      BY <1>3 DEF ConfirmArrDelete, At, Doing, Safe, ArrDeletionHolds
    <2> QED BY <1>1, <2>1, <2>2 DEF ArrSettled, WorldMoves
  <1> QED BY <1>2, <1>3

\* No item skips its deletion at the instance.
LEMMA ArrHoldsStep ==
    ASSUME Safe, [Next]_vars
    PROVE  ArrDeletionHolds'
  <1> SUFFICES ASSUME NEW j \in Items
               PROVE  /\ (item[j].state \in AfterArr)'
                            \/ Doing(j, {"arrDone"} \cup TorrentSteps \cup PlexSteps)'
                            => ArrSettled(j)'
                      /\ Doing(j, {"arrGuard"})' => kind' = "SONARR"
                      /\ Doing(j, {"arrDelete"})' => kind' = "RADARR"
                      /\ Doing(j, {"arrConfirm"})' /\ kind' = "SONARR" => guarded'[j]
    BY DEF ArrDeletionHolds
  <1>1. Shape' /\ RowMoves(j) /\ RunMoves(j) /\ WorldMoves(j)
    BY ShapeStep, RowsMove, RunMovesOn, WorldMovesOn DEF Safe
  <1>2. /\ item[j].state \in AfterArr \/ Doing(j, {"arrDone"}) => ArrSettled(j)
        /\ Doing(j, {"arrGuard"}) => kind = "SONARR"
        /\ Doing(j, {"arrDelete"}) => kind = "RADARR"
        /\ Doing(j, {"arrConfirm"}) /\ kind = "SONARR" => guarded[j]
    BY DEF Safe, ArrDeletionHolds, Doing
  <1>3. item'[j].state \in AfterArr => ArrSettled(j)'
    BY <1>1, <1>2, SettledStays DEF RowMoves, AfterArr, AfterTorrent
  <1>4. Doing(j, TorrentSteps \cup PlexSteps)' => item'[j].state \in AfterArr
    BY <1>1 DEF Shape, RunFollowsRow, Doing, StatesAt, ArrSteps, TorrentSteps,
        PlexSteps, AfterArr, AfterTorrent
  <1>5. Doing(j, {"arrDone"})' => ArrSettled(j)'
    BY <1>1, <1>2, SettledStays DEF RunMoves
  <1>6. /\ Doing(j, {"arrGuard"})' => kind' = "SONARR"
        /\ Doing(j, {"arrDelete"})' => kind' = "RADARR"
        /\ Doing(j, {"arrConfirm"})' /\ kind' = "SONARR" => guarded'[j]
    BY <1>1, <1>2 DEF RunMoves, WorldMoves, Doing
  <1> QED BY <1>3, <1>4, <1>5, <1>6 DEF Doing

\* No torrent goes first, and none that is on record as deleted is left.
LEMMA TorrentsStep ==
    ASSUME Safe, [Next]_vars
    PROVE  TorrentsAfterArr' /\ RecordsHold' /\ NoTorrentIsLeft'
  <1> SUFFICES ASSUME NEW j \in Items
               PROVE  /\ kind' = "RADARR" /\ j \in cleared' => media'[j] = "absent"
                      /\ removed'[j] # {} => ArrSettled(j)'
                      /\ item'[j].deleted \cap present'[j] = {}
                      /\ run'.cur = j => run'.deleted \cap present'[j] = {}
                      /\ item'[j].state \in AfterTorrent
                            => item'[j].snap \cap present'[j] = {}
    BY DEF TorrentsAfterArr, RecordsHold, NoTorrentIsLeft
  <1>1. RowMoves(j) /\ RunMoves(j) /\ WorldMoves(j)
    BY RowsMove, RunMovesOn, WorldMovesOn DEF Safe
  <1>2. /\ kind = "RADARR" /\ j \in cleared => media[j] = "absent"
        /\ removed[j] # {} => ArrSettled(j)
        /\ item[j].deleted \cap present[j] = {}
        /\ run.cur = j => run.deleted \cap present[j] = {}
        /\ item[j].state \in AfterTorrent => item[j].snap \cap present[j] = {}
    BY DEF Safe, TorrentsAfterArr, RecordsHold, NoTorrentIsLeft
  <1>3. Doing(j, TorrentSteps) => ArrSettled(j)
    BY DEF Safe, ArrDeletionHolds, Doing
  <1>4. removed'[j] # {} => ArrSettled(j)'
    BY <1>1, <1>2, <1>3, SettledStays DEF WorldMoves
  <1>5. item'[j].deleted \cap present'[j] = {}
    BY <1>1, <1>2 DEF RowMoves, WorldMoves
  <1>6. run'.cur = j => run'.deleted \cap present'[j] = {}
    BY <1>1, <1>2 DEF RunMoves, WorldMoves
  <1>7. item'[j].state \in AfterTorrent => item'[j].snap \cap present'[j] = {}
    BY <1>1, <1>2 DEF RowMoves, WorldMoves, Remaining, AfterTorrent
  <1>8. kind' = "RADARR" /\ j \in cleared' => media'[j] = "absent"
    BY <1>1, <1>2 DEF WorldMoves
  <1> QED BY <1>4, <1>5, <1>6, <1>7, <1>8

\* The invariant holds initially.
LEMMA SafeInit == Init => Safe
  <1> SUFFICES ASSUME Init PROVE Safe
    OBVIOUS
  <1>1. Shape
    BY ShapeInit
  <1>2. ASSUME NEW i \in Items
        PROVE  /\ item[i].state = "PENDING" /\ item[i].deleted = {} /\ removed[i] = {}
               /\ run.cur # i /\ i \notin cleared
    BY <1>2, NoItemIsNoItem DEF Init, NoRun
  <1> QED BY <1>1, <1>2
      DEF Safe, ArrDeletionHolds, TorrentsAfterArr, RecordsHold, NoTorrentIsLeft,
          Doing, AfterArr, AfterTorrent

\* The inductive invariant of a batch holds through runs, retries and crashes.
THEOREM Safety == Spec => []Safe
  <1>1. Safe /\ [Next]_vars => Safe'
    BY ShapeStep, ArrHoldsStep, TorrentsStep DEF Safe
  <1> QED BY <1>1, SafeInit, PTL DEF Spec

\* Interrupted, retried or refused, no item skips its deletion at the instance.
THEOREM ArrFirst == Spec => []ArrDeletionHolds
  <1>1. Safe => ArrDeletionHolds
    BY DEF Safe
  <1> QED BY <1>1, Safety, PTL

\* No torrent of an item is removed before its media is seen to be gone.
THEOREM TorrentsLast == Spec => []TorrentsAfterArr
  <1>1. Safe => TorrentsAfterArr
    BY DEF Safe
  <1> QED BY <1>1, Safety, PTL

\* A torrent on record as deleted is gone.
THEOREM RecordsCorrect == Spec => []RecordsHold
  <1>1. Safe => RecordsHold
    BY DEF Safe
  <1> QED BY <1>1, Safety, PTL

\* An item past its torrents has none of them left, though the row may have
\* recorded only the first of them.
THEOREM TorrentsGone == Spec => []NoTorrentIsLeft
  <1>1. Safe => NoTorrentIsLeft
    BY DEF Safe
  <1> QED BY <1>1, Safety, PTL

-----------------------------------------------------------------------------
(***************************************************************************)
(* Each item keeps the promise of RemovalProtocol                          *)
(***************************************************************************)
\* The item is reported complete.
Claimed(j) == item[j].state = "COMPLETED"

\* The steps of the protocol, in terms of the batch.
LEMMA ProtocolSteps ==
    ASSUME NEW j \in Items,
           \/ /\ Movie(j)' = Movie(j) /\ Excluded(j)' = Excluded(j)
              /\ removed'[j] = removed[j] /\ Claimed(j)' = Claimed(j)
              /\ Looked(j)' \in {Looked(j), FALSE}
           \/ /\ Movie(j) = "same" /\ Looked(j)' = TRUE
              /\ Movie(j)' = Movie(j) /\ Excluded(j)' = Excluded(j)
              /\ removed'[j] = removed[j] /\ Claimed(j)' = Claimed(j)
           \/ /\ Looked(j) /\ Looked(j)' = FALSE
              /\ Movie(j) # "absent" /\ Movie(j)' = "absent"
              /\ Excluded(j)' \in {Excluded(j), TRUE}
              /\ removed'[j] = removed[j] /\ Claimed(j)' = Claimed(j)
           \/ /\ Movie(j) = "absent" /\ Movie(j)' = Movie(j) /\ Excluded(j)' = TRUE
              /\ removed'[j] = removed[j] /\ Claimed(j)' = Claimed(j)
              /\ Looked(j)' = Looked(j)
           \/ /\ Movie(j) # "absent" /\ Movie(j)' \in {"other", "absent"}
              /\ Excluded(j)' = Excluded(j)
              /\ removed'[j] = removed[j] /\ Claimed(j)' = Claimed(j)
              /\ Looked(j)' = Looked(j)
           \/ /\ Movie(j) = "absent" /\ Excluded(j)
              /\ Movie(j)' = Movie(j) /\ Excluded(j)' = Excluded(j)
              /\ removed'[j] = removed[j] /\ Claimed(j)' = TRUE
              /\ Looked(j)' = Looked(j)
           \/ /\ Movie(j) = "absent" /\ Excluded(j)
              /\ Movie(j)' = Movie(j) /\ Excluded(j)' = Excluded(j)
              /\ \E t \in Torrents : removed'[j] = removed[j] \cup {t}
              /\ Claimed(j)' = Claimed(j) /\ Looked(j)' = Looked(j)
    PROVE  [Promise(j)!Next]_(Promise(j)!pvars)
  BY DEF Promise!Next, Promise!pvars, Promise!Check, Promise!RemoveMovie,
      Promise!Forget, Promise!Exclude, Promise!Outside, Promise!Claim,
      Promise!RemoveTorrent, Claimed

\* A look stands while the deletion it is for is at hand, which is before the
\* item can be complete.
LEMMA LookIsAtHand ==
    ASSUME NEW j \in Items
    PROVE  /\ Looked(j) \in BOOLEAN
           /\ Looked(j) <=> \/ kind = "RADARR" /\ run.cur = j /\ run.pc = "arrDelete"
                            \/ /\ kind # "RADARR" /\ run.cur = j /\ run.pc = "arrConfirm"
                               /\ j \notin cleared
           /\ RunFollowsRow /\ Looked(j) => item[j].state = "ARR_DELETE_REQUESTED"
  BY DEF Looked, At, RunFollowsRow, StatesAt, ArrSteps, TorrentSteps

\* Of a run that is elsewhere, nothing stands.
LEMMA LookedElsewhere ==
    ASSUME NEW j \in Items, run.pc \notin {"arrDelete", "arrConfirm"} \/ run.cur # j
    PROVE  Looked(j) = FALSE
  BY LookIsAtHand

\* A look that a step takes finds the verified media.
LEMMA LookFinds ==
    ASSUME Safe, [Next]_vars, NEW j \in Items, Looked(j)', ~Looked(j)
    PROVE  /\ Movie(j) = "same"
           /\ kind = "RADARR" => media'[j] = media[j]
  <1>1. RunMoves(j) /\ WorldMoves(j) /\ Shape'
    BY RunMovesOn, WorldMovesOn, ShapeStep DEF Safe
  <1>2. /\ Looked(j)' => \/ kind' = "RADARR" /\ run'.cur = j /\ run'.pc = "arrDelete"
                         \/ /\ kind' # "RADARR" /\ run'.cur = j /\ run'.pc = "arrConfirm"
                            /\ j \notin cleared'
        /\ Looked(j) <=> \/ kind = "RADARR" /\ run.cur = j /\ run.pc = "arrDelete"
                         \/ /\ kind # "RADARR" /\ run.cur = j /\ run.pc = "arrConfirm"
                            /\ j \notin cleared
    BY LookIsAtHand DEF Looked, At
  <1>3. kind' = kind /\ (j \in cleared => j \in cleared')
    BY <1>1 DEF WorldMoves
  <1> QED BY <1>1, <1>2, <1>3 DEF RunMoves, Doing, Movie

\* In the terms of the protocol, an item that is settled is gone and excluded.
LEMMA SettledMeans ==
    ASSUME Safe, NEW j \in Items, ArrSettled(j)
    PROVE  Movie(j) = "absent" /\ Excluded(j) = TRUE
  <1>1. kind \in {"RADARR", "SONARR"} /\ guarded[j] \in BOOLEAN /\ exclude \in BOOLEAN
    BY DEF Safe, Shape, TypeOK
  <1>2. kind = "RADARR" => media[j] = "absent"
    BY DEF Safe, RecordsHold, ArrSettled
  <1> QED BY <1>1, <1>2 DEF ArrSettled, Movie, Excluded

\* A step that leaves the order, the outside and the history alone looks,
\* forgets a look, or moves the claim, and claims a settled item.
LEMMA RowsPromise ==
    ASSUME Safe, [Next]_vars, NEW j \in Items, UNCHANGED <<order, outside, history>>
    PROVE  [Promise(j)!Next]_(Promise(j)!pvars)
  <1>1. /\ Movie(j)' = Movie(j) /\ Excluded(j)' = Excluded(j)
        /\ removed'[j] = removed[j]
    BY DEF order, outside, history, Movie, Excluded
  <1>2. RowMoves(j) /\ RunFollowsRow /\ RunFollowsRow'
    BY RowsMove, ShapeStep DEF Safe, Shape
  <1>3. /\ Looked(j) => item[j].state = "ARR_DELETE_REQUESTED"
        /\ Looked(j)' => item'[j].state = "ARR_DELETE_REQUESTED"
        /\ Looked(j) \in BOOLEAN /\ Looked(j)' \in BOOLEAN
    <2>1. Looked(j)' => item'[j].state = "ARR_DELETE_REQUESTED"
      BY <1>2 DEF Looked, At, RunFollowsRow, StatesAt, ArrSteps, TorrentSteps
    <2>2. Looked(j)' \in BOOLEAN
      BY DEF Looked, At
    <2> QED BY <1>2, <2>1, <2>2, LookIsAtHand
  <1>4. CASE Claimed(j)' = Claimed(j)
    <2>1. CASE Looked(j)' /\ ~Looked(j)
      BY <1>1, <1>3, <1>4, <2>1, LookFinds, ProtocolSteps
    <2>2. CASE ~(Looked(j)' /\ ~Looked(j))
      <3>1. Looked(j)' \in {Looked(j), FALSE}
        BY <1>3, <2>2
      <3> QED BY <1>1, <1>4, <3>1, ProtocolSteps
    <2> QED BY <2>1, <2>2
  <1>5. CASE Claimed(j)' # Claimed(j)
    <2>1. /\ item[j].state \in AfterArr /\ Claimed(j)' = TRUE
          /\ item[j].state # "ARR_DELETE_REQUESTED"
          /\ item'[j].state # "ARR_DELETE_REQUESTED"
      BY <1>2, <1>5 DEF RowMoves, Claimed, AfterArr, AfterTorrent
    <2>2. ArrSettled(j)
      BY <2>1 DEF Safe, ArrDeletionHolds
    <2>3. Looked(j)' = Looked(j)
      BY <1>3, <2>1
    <2> QED BY <1>1, <2>1, <2>2, <2>3, SettledMeans, ProtocolSteps
  <1> QED BY <1>4, <1>5

\* The steps of an item that change more than its row keep the promise.
LEMMA ArrPromise ==
    ASSUME Safe, NEW i \in Items, NEW j \in Items,
           \/ DeleteMovie(i) \/ DeleteSeasonFiles(i) \/ UnmonitorSeason(i)
           \/ ConfirmArrDelete(i) \/ CallFails(i)
           \/ \E t \in Torrents : DeleteTorrent(i, t)
    PROVE  [Promise(j)!Next]_(Promise(j)!pvars)
  <1> USE DEF At, Claimed, Movie, Excluded
  <1>1. /\ media \in [Items -> {"same", "other", "absent"}]
        /\ guarded \in [Items -> BOOLEAN] /\ exclude \in BOOLEAN
        /\ kind \in {"RADARR", "SONARR"}
        /\ removed \in [Items -> SUBSET Torrents]
        /\ run \in RunRecord
    BY DEF Safe, Shape, TypeOK
  <1>2. /\ run.cur = i /\ run.pc = "arrGuard" => kind = "SONARR"
        /\ run.cur = i /\ run.pc = "arrDelete" => kind = "RADARR"
        /\ run.cur = i /\ run.pc = "arrConfirm" /\ kind = "SONARR" => guarded[i]
    BY DEF Doing, Safe, ArrDeletionHolds
  <1>3. ASSUME NEW p \in Steps, GoTo(p)
        PROVE  run'.pc = p /\ run'.cur = run.cur
    BY <1>1, <1>3 DEF GoTo, RunRecord
  <1>4. {"arrGuard", "arrConfirm", "arrDone"} \subseteq Steps
    BY DEF Steps, ArrSteps
  <1>5. /\ Looked(j) \in BOOLEAN
        /\ Looked(j) <=> \/ kind = "RADARR" /\ run.cur = j /\ run.pc = "arrDelete"
                         \/ /\ kind # "RADARR" /\ run.cur = j /\ run.pc = "arrConfirm"
                            /\ j \notin cleared
    BY LookIsAtHand
  <1>6. /\ Looked(j)' \in BOOLEAN
        /\ Looked(j)' <=> \/ kind' = "RADARR" /\ run'.cur = j /\ run'.pc = "arrDelete"
                          \/ /\ kind' # "RADARR" /\ run'.cur = j /\ run'.pc = "arrConfirm"
                             /\ j \notin cleared'
    BY DEF Looked
  <1>7. CASE DeleteMovie(i)
    <2>1. /\ UNCHANGED <<kind, exclude, cleared, removed, item>>
          /\ run.cur = i /\ run.pc = "arrDelete" /\ kind = "RADARR"
          /\ media' = [media EXCEPT ![i] = "absent"] /\ media[i] # "absent"
          /\ guarded' = [guarded EXCEPT ![i] = @ \/ (exclude /\ media[i] = "same")]
          /\ run'.cur = i /\ run'.pc = "arrConfirm"
      BY <1>2, <1>3, <1>4, <1>7 DEF DeleteMovie, order, rows, history
    <2>2. Looked(j)' = FALSE /\ Looked(j) = (i = j)
      BY <1>5, <1>6, <2>1
    <2>3. CASE i = j
      <3>1. Excluded(j)' \in {Excluded(j), TRUE}
        BY <1>1, <2>1, <2>3
      <3>2. Movie(j) # "absent" /\ Movie(j)' = "absent"
        BY <1>1, <2>1, <2>3
      <3> QED BY <2>1, <2>2, <2>3, <3>1, <3>2, ProtocolSteps
    <2>4. CASE i # j
      <3>1. Looked(j) = FALSE /\ Movie(j)' = Movie(j) /\ Excluded(j)' = Excluded(j)
        BY <1>1, <2>1, <2>2, <2>4
      <3> QED BY <2>1, <2>2, <3>1, ProtocolSteps
    <2> QED BY <2>3, <2>4
  <1>8. CASE DeleteSeasonFiles(i)
    <2>1. /\ UNCHANGED <<kind, exclude, guarded, cleared, removed, item>>
          /\ kind = "SONARR" /\ run'.pc = "arrGuard"
      BY <1>3, <1>4, <1>8 DEF DeleteSeasonFiles, order, rows, history
    <2>2. Looked(j)' = FALSE /\ Movie(j)' = Movie(j) /\ Excluded(j)' = Excluded(j)
      BY <1>6, <2>1
    <2> QED BY <2>1, <2>2, ProtocolSteps
  <1>9. CASE UnmonitorSeason(i)
    <2>1. /\ UNCHANGED <<kind, exclude, media, cleared, removed, item>>
          /\ kind = "SONARR" /\ run.cur = i /\ run.pc = "arrGuard"
          /\ guarded' = [guarded EXCEPT ![i] = TRUE]
          /\ run'.cur = i /\ run'.pc = "arrConfirm"
      BY <1>2, <1>3, <1>4, <1>9 DEF UnmonitorSeason, order, rows, history
    <2>2. /\ Looked(j) = FALSE /\ Looked(j)' = (i = j /\ j \notin cleared)
          /\ Movie(j)' = Movie(j)
      BY <1>5, <1>6, <2>1
    <2>3. CASE j \in cleared
      <3>1. /\ Movie(j) = "absent" /\ Looked(j)' = FALSE
            /\ Excluded(j)' = TRUE \/ Excluded(j)' = Excluded(j)
        BY <1>1, <2>1, <2>2, <2>3
      <3> QED BY <2>1, <2>2, <3>1, ProtocolSteps
    <2>4. CASE j \notin cleared
      <3>1. Movie(j) = "same" /\ Excluded(j)' = Excluded(j)
        BY <2>1, <2>4
      <3>2. CASE i = j
        <4>1. Looked(j)' = TRUE
          BY <2>2, <2>4, <3>2
        <4> QED BY <2>1, <2>2, <3>1, <4>1, ProtocolSteps
      <3>3. CASE i # j
        <4>1. Looked(j)' = FALSE
          BY <2>2, <3>3
        <4> QED BY <2>1, <2>2, <3>1, <4>1, ProtocolSteps
      <3> QED BY <3>2, <3>3
    <2> QED BY <2>3, <2>4
  <1>10. CASE ConfirmArrDelete(i)
    <2>1. /\ UNCHANGED <<kind, exclude, media, removed, item>>
          /\ run.cur = i /\ run.pc = "arrConfirm" /\ media[i] = "absent"
          /\ guarded' = [guarded EXCEPT ![i] = @ \/ exclude]
          /\ cleared' = cleared \cup {i}
          /\ run'.pc = "arrDone"
      BY <1>3, <1>4, <1>10 DEF ConfirmArrDelete, order, rows
    <2>2. /\ Looked(j)' = FALSE
          /\ Looked(j) = (i = j /\ kind = "SONARR" /\ j \notin cleared)
      BY <1>1, <1>5, <1>6, <2>1
    <2>3. CASE i # j
      <3>1. Movie(j)' = Movie(j) /\ Excluded(j)' = Excluded(j) /\ Looked(j) = FALSE
        BY <1>1, <2>1, <2>2, <2>3
      <3> QED BY <2>1, <2>2, <3>1, ProtocolSteps
    <2>4. CASE i = j /\ kind = "RADARR"
      <3>1. /\ Movie(j) = "absent" /\ Movie(j)' = Movie(j) /\ Excluded(j)' = TRUE
            /\ Looked(j) = FALSE
        BY <1>1, <2>1, <2>2, <2>4
      <3> QED BY <2>1, <2>2, <3>1, ProtocolSteps
    <2>5. CASE i = j /\ kind = "SONARR" /\ j \in cleared
      <3>1. /\ Movie(j) = "absent" /\ Movie(j)' = Movie(j) /\ Excluded(j)' = TRUE
            /\ Looked(j) = FALSE
        BY <1>1, <1>2, <2>1, <2>2, <2>5
      <3> QED BY <2>1, <2>2, <3>1, ProtocolSteps
    <2>6. CASE i = j /\ kind = "SONARR" /\ j \notin cleared
      <3>1. /\ Movie(j) # "absent" /\ Movie(j)' = "absent" /\ Excluded(j)' = TRUE
            /\ Looked(j) = TRUE
        BY <1>1, <1>2, <2>1, <2>2, <2>6
      <3> QED BY <2>1, <2>2, <3>1, ProtocolSteps
    <2> QED BY <1>1, <2>3, <2>4, <2>5, <2>6
  <1>11. CASE CallFails(i)
    <2>1. /\ UNCHANGED <<kind, exclude, media, removed, item, cleared>>
          /\ run.cur = i
          /\ \/ guarded' = guarded
             \/ /\ guarded' = [guarded EXCEPT ![i] = TRUE]
                /\ \/ run.pc = "arrGuard"
                   \/ run.pc = "arrConfirm" /\ media[i] = "absent" /\ exclude
          /\ run'.pc = "next"
      BY <1>1, <1>11 DEF CallFails, LeaveItem, RunRecord, order, rows, history
    <2>2. Looked(j)' = FALSE /\ Movie(j)' = Movie(j)
      BY <1>6, <2>1
    <2>3. CASE Excluded(j)' = Excluded(j)
      BY <2>1, <2>2, <2>3, ProtocolSteps
    <2>4. CASE Excluded(j)' # Excluded(j)
      <3>1. /\ i = j /\ Excluded(j)' = TRUE
            /\ guarded' = [guarded EXCEPT ![i] = TRUE]
        BY <1>1, <2>1, <2>4
      <3>2. Movie(j) = "absent" /\ Looked(j) = FALSE
        BY <1>1, <1>2, <1>5, <2>1, <2>4, <3>1
      <3> QED BY <2>1, <2>2, <3>1, <3>2, ProtocolSteps
    <2> QED BY <2>3, <2>4
  <1>12. ASSUME NEW t \in Torrents, DeleteTorrent(i, t)
         PROVE  [Promise(j)!Next]_(Promise(j)!pvars)
    <2>1. /\ UNCHANGED <<kind, exclude, media, guarded, item, cleared>>
          /\ removed' = [removed EXCEPT ![i] = @ \cup ({t} \cap present[i])]
          /\ Doing(i, TorrentSteps) /\ run.pc = "torrentLoop"
          /\ run'.pc = "torrentConfirm"
      BY <1>1, <1>12 DEF DeleteTorrent, order, rows, Doing, TorrentSteps, RunRecord
    <2>2. Movie(i) = "absent" /\ Excluded(i) = TRUE
      BY <2>1, SettledMeans DEF Safe, ArrDeletionHolds, Doing
    <2>3. \/ removed'[j] = removed[j]
          \/ j = i /\ removed'[j] = removed[j] \cup {t}
      BY <1>1, <2>1
    <2>4. /\ Looked(j) = FALSE /\ Looked(j)' = FALSE
          /\ Movie(j)' = Movie(j) /\ Excluded(j)' = Excluded(j)
          /\ Claimed(j)' = Claimed(j)
      BY <1>5, <1>6, <2>1
    <2> QED BY <2>2, <2>3, <2>4, ProtocolSteps
  <1> QED BY <1>7, <1>8, <1>9, <1>10, <1>11, <1>12

\* Every step is, for every item, a step of the protocol or a stutter.
LEMMA PromiseStep ==
    ASSUME Safe, [Next]_vars, NEW j \in Items
    PROVE  [Promise(j)!Next]_(Promise(j)!pvars)
  <1> USE DEF At, Claimed, Movie, Excluded
  <1>1. media \in [Items -> {"same", "other", "absent"}]
    BY DEF Safe, Shape, TypeOK
  <1>2. CASE UNCHANGED <<order, outside, history>>
    BY <1>2, RowsPromise
  <1>3. CASE Requests \/ ToggleInstance \/ ToggleQbit \/ SyncInstance \/ UNCHANGED vars
    BY <1>2, <1>3 DEF Requests, CreateBatch, StartBatch, FinishBatch, CrashRun,
        LoadRetry, AdmitRetry, DropRetry, ToggleInstance, ToggleQbit, SyncInstance,
        vars
  <1>4. ASSUME NEW i \in Items, Outside(i) PROVE [Promise(j)!Next]_(Promise(j)!pvars)
    <2>1. /\ UNCHANGED <<kind, exclude, guarded, cleared, removed, item, run>>
          /\ Looked(j)' = Looked(j)
      BY <1>4 DEF Outside, MediaChanges, MediaReplaced, TorrentVanishes, order, rows,
                  history, Looked
    <2>2. CASE MediaChanges(i)
      BY <1>1, <2>1, <2>2, ProtocolSteps DEF MediaChanges
    <2>3. CASE MediaReplaced(i)
      BY <1>1, <2>1, <2>3, ProtocolSteps DEF MediaReplaced
    <2>4. CASE UNCHANGED media
      BY <2>1, <2>4, ProtocolSteps
    <2> QED BY <1>4, <2>2, <2>3, <2>4 DEF Outside, TorrentVanishes
  <1>5. ASSUME NEW i \in Items, ItemStep(i) PROVE [Promise(j)!Next]_(Promise(j)!pvars)
    BY <1>2, <1>5, ArrPromise
    DEF ItemStep, NextItem, RevalidateItem, BlockItem, ArrStep, RequestArrDelete,
        LookAtMovie, MovieChanged, MovieIsGone, DeleteIneffective, StillReported,
        RecordArrDeleted, TorrentStep, StartTorrentDeletes, QbitUnavailable,
        DeleteTorrentIneffective, ConfirmTorrentDelete, TorrentStillReported,
        FinishTorrentDeletes, RequestPlexRefresh, CompleteItem, outside, history
  <1> QED BY <1>3, <1>4, <1>5 DEF Next

\* Every item of a batch keeps the promise of RemovalProtocol: each deletion
\* follows a look of its own at what was verified, torrents follow the media,
\* completion is claimed of what is gone.
THEOREM Implements == Spec => KeepsPromise
  <1>1. Init => \A i \in Items : Promise(i)!Init
    <2> SUFFICES ASSUME Init, NEW i \in Items PROVE Promise(i)!Init
      OBVIOUS
    <2>1. run.cur # i
      BY NoItemIsNoItem DEF Init, NoRun
    <2>2. Looked(i) = FALSE
      BY <2>1, LookedElsewhere
    <2> QED BY <2>2 DEF Init, Promise!Init, Movie, Excluded
  <1>2. Safe /\ [Next]_vars => [\A i \in Items : [Promise(i)!Next]_(Promise(i)!pvars)]_vars
    BY PromiseStep
  <1> QED BY <1>1, <1>2, Safety, PTL DEF Spec, KeepsPromise

-----------------------------------------------------------------------------
(***************************************************************************)
(* The report of a batch.  Completed items stay complete, so the count of  *)
(* the batch row only grows, and no copy of it, in a run or in a retry     *)
(* that waits, is ahead of it.  A run that counts what its copy says       *)
(* therefore finds the row saying the same, and leaves it.  The count of   *)
(* the failed items only shrinks while any are left, and no copy of it is  *)
(* behind; but a copy may say 0 of a row that no longer does, which        *)
(* matters when the last item completes and not before.                    *)
(***************************************************************************)
\* What a copy of the batch row says has failed, the row has not forgotten
\* while items are pending, and has at most.
FailedCovers(f) == f # 0 => (Pending = 0 \/ batch.failed # 0) /\ batch.failed <= f

Counted ==
    /\ batch.state = "NONE" => run.pc = "idle" /\ \A w \in Retries : ~waiting[w].loaded
    /\ \A w \in Retries : waiting[w].loaded => waiting[w].completed <= batch.completed
    /\ run.pc # "idle" => run.completed <= batch.completed
    /\ batch.completed <= Cardinality(CompletedItems)
    /\ run.pc \notin {"idle", "start"} => run.state = "RUNNING"
    /\ batch.failed # 0 => Pending <= batch.failed
    /\ \A w \in Retries : waiting[w].loaded => FailedCovers(waiting[w].failed)
    /\ run.pc # "idle" => FailedCovers(run.failed)

\* No item is completed twice, or taken back.
LEMMA CountGrows ==
    ASSUME Shape, [Next]_vars
    PROVE  Cardinality(CompletedItems) <= Cardinality(CompletedItems')
  <1>1. CompletedItems \subseteq CompletedItems' /\ CompletedItems' \subseteq Items
    BY RowsMove DEF RowMoves, CompletedItems
  <1>2. IsFiniteSet(CompletedItems')
    BY <1>1, ItemsFinite, FS_Subset
  <1> QED BY <1>1, <1>2, FS_Subset

\* Fewer and fewer items are pending.
LEMMA PendingShrinks ==
    ASSUME Shape, [Next]_vars
    PROVE  /\ Pending \in Nat /\ Pending' \in Nat /\ Pending' <= Pending
           /\ UNCHANGED item => Pending' = Pending
  <1>1. CompletedItems \subseteq CompletedItems' /\ CompletedItems' \subseteq Items
    BY RowsMove DEF RowMoves, CompletedItems
  <1>2. /\ Items \ CompletedItems' \subseteq Items \ CompletedItems
        /\ IsFiniteSet(Items \ CompletedItems)
    BY <1>1, ItemsFinite, FS_Subset
  <1>3. Cardinality(Items \ CompletedItems') <= Cardinality(Items \ CompletedItems)
    BY <1>2, FS_Subset
  <1>4. IsFiniteSet(Items \ CompletedItems')
    BY <1>2, FS_Subset
  <1>5. UNCHANGED item => CompletedItems' = CompletedItems
    BY DEF CompletedItems
  <1> QED BY <1>2, <1>3, <1>4, <1>5, FS_CardinalityType DEF Pending

\* The count is that of all items when all are complete, and only then.
LEMMA CountIsFull ==
    /\ Cardinality(CompletedItems) = Cardinality(Items) <=> CompletedItems = Items
    /\ Cardinality(CompletedItems) <= Cardinality(Items)
  <1>1. CompletedItems \in SUBSET Items
    BY DEF CompletedItems
  <1> QED BY <1>1, ItemsFinite, FS_Subset

\* A step of an item keeps what its run loaded, and goes on.
LEMMA ItemStepKeeps ==
    ASSUME Shape, NEW i \in Items, ItemStep(i)
    PROVE  /\ UNCHANGED <<batch, waiting>>
           /\ run'.completed = run.completed /\ run'.state = run.state
           /\ run'.failed = run.failed
           /\ run.pc \notin {"idle", "start"} /\ run'.pc \notin {"idle", "start"}
  <1> USE NoItemIsNoItem DEF At, rows
  <1>1. run \in RunRecord
    BY DEF Shape, TypeOK
  <1>2. run.cur = i => run.pc \notin {"idle", "start", "next"}
    BY DEF Shape, RunFollowsRow
  <1>3. ASSUME NEW p, GoTo(p)
        PROVE  /\ run'.completed = run.completed /\ run'.failed = run.failed
               /\ run'.state = run.state /\ run'.pc = p
    BY <1>1, <1>3 DEF GoTo, RunRecord
  <1>4. ASSUME LeaveItem
        PROVE  /\ run'.completed = run.completed /\ run'.failed = run.failed
               /\ run'.state = run.state /\ run'.pc = "next"
    BY <1>1, <1>4 DEF LeaveItem, RunRecord
  <1>5. CASE NextItem(i)
    <2>1. item[i].state \in (BeforeArr \cup AfterArr) \ {"COMPLETED"}
      BY <1>5 DEF NextItem, Shape, RunFollowsRow, TypeOK, ItemRow
    <2>2. NextStep(item[i].state) \in {"revalidate", "arr", "torrents", "plex"}
      BY <2>1, NextStepFits
    <2> QED BY <1>1, <1>5, <2>2 DEF NextItem, RunRecord
  <1>6. CASE RevalidateItem(i)
    BY <1>1, <1>2, <1>6 DEF RevalidateItem, RunRecord
  <1>7. CASE BlockItem(i) \/ CallFails(i) \/ CompleteItem(i)
    BY <1>2, <1>4, <1>7 DEF BlockItem, CallFails, CompleteItem
  <1>8. CASE ArrStep(i)
    BY <1>2, <1>3, <1>4, <1>8 DEF ArrStep, RequestArrDelete, DeleteMovie, LookAtMovie,
        MovieChanged, MovieIsGone, DeleteSeasonFiles, DeleteIneffective,
        UnmonitorSeason, ConfirmArrDelete, StillReported, RecordArrDeleted
  <1>9. ASSUME NEW t \in Torrents, DeleteTorrent(i, t) \/ DeleteTorrentIneffective(i, t)
        PROVE  /\ UNCHANGED <<batch, waiting>>
               /\ run'.completed = run.completed /\ run'.state = run.state
               /\ run'.failed = run.failed
               /\ run'.pc \notin {"idle", "start"} /\ run.cur = i
    BY <1>1, <1>9 DEF DeleteTorrent, DeleteTorrentIneffective, RunRecord
  <1>10. CASE ConfirmTorrentDelete(i)
    BY <1>1, <1>2, <1>10 DEF ConfirmTorrentDelete, RunRecord
  <1>11. CASE \/ StartTorrentDeletes(i) \/ QbitUnavailable(i) \/ TorrentStillReported(i)
              \/ FinishTorrentDeletes(i) \/ RequestPlexRefresh(i)
    BY <1>2, <1>3, <1>4, <1>11 DEF StartTorrentDeletes, QbitUnavailable,
       TorrentStillReported, FinishTorrentDeletes, RequestPlexRefresh
  <1> QED BY <1>2, <1>5, <1>6, <1>7, <1>8, <1>9, <1>10, <1>11 DEF ItemStep, TorrentStep

\* The row after a run that ends: its own count and outcome, and how many
\* items have failed unless all are complete.
LEMMA FinishReports ==
    ASSUME Shape, Counted, FinishBatch
    PROVE  /\ batch'.completed = Cardinality(CompletedItems)
           /\ batch'.state \in {"COMPLETED", "ATTENTION_REQUIRED"}
           /\ batch'.state = "COMPLETED" <=> CompletedItems = Items
           /\ Pending # 0 => batch'.failed = Pending
           /\ Pending = 0 => batch'.failed \in {0, batch.failed}
           /\ Pending = 0 /\ batch'.failed # 0 => run.failed = 0
           /\ batch'.state = "ATTENTION_REQUIRED" => Pending # 0
           /\ item' = item /\ run' = NoRun /\ waiting' = waiting
  <1>1. PICK n : n = Cardinality(CompletedItems)
    OBVIOUS
  <1>2. PICK s : s = IF n = Cardinality(Items) THEN "COMPLETED" ELSE "ATTENTION_REQUIRED"
    OBVIOUS
  <1>3. PICK p : p = Pending
    OBVIOUS
  <1>4. p = Cardinality(Items) - n /\ p \in Nat
    BY <1>1, <1>3, PendingCounted
  <1>5. /\ batch' = [state     |-> Write(s, run.state, batch.state),
                     completed |-> Write(n, run.completed, batch.completed),
                     failed    |-> Write(p, run.failed, batch.failed)]
        /\ run.pc = "next" /\ item' = item /\ run' = NoRun /\ waiting' = waiting
    BY <1>1, <1>2, <1>4 DEF FinishBatch
  <1>6. /\ run.completed \in Nat /\ batch.completed \in Nat /\ n \in Nat
        /\ run.completed <= batch.completed /\ batch.completed <= n
    BY <1>1, <1>5, CompletedCounted DEF Counted, Shape, TypeOK, RunRecord
  <1>7. Write(n, run.completed, batch.completed) = n
    BY <1>6 DEF Write
  <1>8. run.state = "RUNNING"
    BY <1>5 DEF Counted
  <1>9. Write(s, run.state, batch.state) = s
    BY <1>2, <1>8 DEF Write
  <1>10. batch'.state = s /\ batch'.completed = n
         /\ batch'.failed = IF p = run.failed THEN batch.failed ELSE p
    BY <1>5, <1>7, <1>9 DEF Write
  <1>11. /\ run.failed \in Nat /\ batch.failed \in Nat
         /\ batch.failed # 0 => p <= batch.failed
         /\ run.failed # 0 => (p = 0 \/ batch.failed # 0) /\ batch.failed <= run.failed
    BY <1>3, <1>5 DEF Counted, FailedCovers, Shape, TypeOK, RunRecord
  <1>12. /\ p # 0 => batch'.failed = p
         /\ p = 0 => batch'.failed \in {0, batch.failed}
         /\ p = 0 /\ batch'.failed # 0 => run.failed = 0
    BY <1>4, <1>10, <1>11
  <1>13. s = "ATTENTION_REQUIRED" => p # 0
    <2>1. n = Cardinality(Items) <=> CompletedItems = Items
      BY <1>1, CountIsFull
    <2>2. CompletedItems # Items => Items \ CompletedItems # {}
      BY DEF CompletedItems
    <2>3. IsFiniteSet(Items \ CompletedItems)
      BY ItemsFinite, FS_Subset
    <2> QED BY <1>2, <1>3, <2>1, <2>2, <2>3, FS_EmptySet DEF Pending
  <1> QED BY <1>1, <1>2, <1>3, <1>5, <1>10, <1>12, <1>13, CountIsFull

\* The counts stay consistent.
LEMMA CountedNext ==
    ASSUME Shape, Counted, [Next]_vars
    PROVE  Counted'
  <1> USE DEF rows
  <1>0. /\ batch.completed \in Nat /\ run.completed \in Nat
        /\ batch.failed \in Nat /\ run.failed \in Nat
        /\ \A w \in Retries : waiting[w].completed \in Nat /\ waiting[w].failed \in Nat
        /\ Cardinality(CompletedItems) \in Nat /\ Cardinality(CompletedItems') \in Nat
        /\ Cardinality(CompletedItems) <= Cardinality(CompletedItems')
        /\ Pending \in Nat /\ Pending' \in Nat /\ Pending' <= Pending
    <2>1. CompletedItems' \subseteq Items
      BY RowsMove DEF CompletedItems, Shape, RunFollowsRow, TypeOK
    <2>2. Cardinality(CompletedItems') \in Nat
      BY <2>1, ItemsFinite, FS_Subset, FS_CardinalityType
    <2> QED BY <2>2, CompletedCounted, CountGrows, PendingShrinks
            DEF Shape, TypeOK, RunRecord
  <1>1. ASSUME UNCHANGED <<batch, waiting>>, run' = run \/ run' = NoRun
        PROVE  Counted'
    BY <1>0, <1>1 DEF Counted, FailedCovers, NoRun
  <1>2. CASE CreateBatch
    <2>1. /\ batch'.state = "PENDING" /\ batch'.completed = batch.completed
          /\ batch'.failed = batch.failed
          /\ run'.pc = "start" /\ run'.completed = 0 /\ run'.failed = 0
          /\ waiting' = waiting
          /\ \A w \in Retries : ~waiting[w].loaded
      BY <1>2 DEF CreateBatch, NoRun, Counted, Shape, TypeOK
    <2> QED BY <1>0, <2>1 DEF Counted, FailedCovers
  <1>3. CASE StartBatch
    <2>1. /\ batch'.completed = batch.completed /\ waiting' = waiting
          /\ batch'.failed = batch.failed
          /\ batch'.state \in {batch.state, "RUNNING"}
          /\ run'.completed = run.completed /\ run'.state = "RUNNING"
          /\ run'.failed = run.failed /\ run.pc = "start"
      BY <1>3 DEF StartBatch, Write, Shape, TypeOK, RunRecord
    <2> QED BY <1>0, <2>1 DEF Counted, FailedCovers
  <1>4. CASE FinishBatch
    <2>1. /\ batch'.completed = Cardinality(CompletedItems) /\ batch'.state # "NONE"
          /\ run'.pc = "idle" /\ waiting' = waiting /\ item' = item
          /\ Pending # 0 => batch'.failed = Pending
          /\ Pending = 0 => batch'.failed \in {0, batch.failed}
      BY <1>4, FinishReports DEF NoRun
    <2>2. Pending' = Pending /\ CompletedItems' = CompletedItems
      BY <2>1, PendingShrinks DEF CompletedItems
    <2>3. \A w \in Retries : waiting[w].loaded
            => waiting[w].completed <= Cardinality(CompletedItems)
      BY <1>0 DEF Counted
    <2>4. ASSUME NEW w \in Retries, waiting[w].loaded
          PROVE  FailedCovers(waiting[w].failed)'
      BY <1>0, <2>1, <2>2, <2>4 DEF Counted, FailedCovers
    <2> QED BY <1>0, <2>1, <2>2, <2>3, <2>4 DEF Counted
  <1>5. ASSUME NEW w \in Retries, LoadRetry(w) \/ DropRetry(w) \/ AdmitRetry(w)
        PROVE  Counted'
    <2>1. /\ batch' = batch
          /\ \A v \in Retries \ {w} : waiting'[v] = waiting[v]
      BY <1>5 DEF LoadRetry, DropRetry, AdmitRetry, Shape, TypeOK
    <2>2. CASE LoadRetry(w)
      <3>1. /\ run' = run /\ batch.state # "NONE"
            /\ waiting'[w].completed = batch.completed
            /\ waiting'[w].failed = batch.failed
        BY <2>2 DEF LoadRetry, Shape, TypeOK
      <3> QED BY <1>0, <2>1, <3>1 DEF Counted, FailedCovers
    <2>3. CASE DropRetry(w) \/ AdmitRetry(w)
      <3>1. ~waiting'[w].loaded /\ batch.state # "NONE"
        BY <2>3 DEF DropRetry, AdmitRetry, NotWaiting, Counted, Shape, TypeOK
      <3>2. \/ run' = run
            \/ /\ run'.pc = "start" /\ run'.completed = waiting[w].completed
               /\ run'.failed = waiting[w].failed /\ waiting[w].loaded
        BY <2>3 DEF DropRetry, AdmitRetry, NoRun
      <3> QED BY <1>0, <2>1, <3>1, <3>2 DEF Counted, FailedCovers
    <2> QED BY <1>5, <2>2, <2>3
  <1>6. ASSUME NEW i \in Items, ItemStep(i) PROVE Counted'
    <2>1. batch.state # "NONE"
      BY <1>6, ItemStepKeeps DEF Counted
    <2> QED BY <1>0, <1>6, <2>1, ItemStepKeeps DEF Counted, FailedCovers
  <1>7. CASE CrashRun
    BY <1>1, <1>7 DEF CrashRun
  <1>8. CASE \/ ToggleInstance \/ ToggleQbit \/ SyncInstance \/ UNCHANGED vars
             \/ \E i \in Items : Outside(i)
    BY <1>1, <1>8 DEF ToggleInstance, ToggleQbit, SyncInstance, vars, Outside,
       MediaChanges, MediaReplaced, TorrentVanishes
  <1> QED BY <1>2, <1>3, <1>4, <1>5, <1>6, <1>7, <1>8 DEF Next, Requests

\* What a batch row reports in the end is what the item rows say, however many
\* retries loaded it before, and whichever of them crashed: the outcome, the
\* items completed and, while any are left, the items that need attention.
THEOREM ReportsCorrect == Spec => ReportIsRight
  <1>1. Init => Counted
    <2> SUFFICES ASSUME Init PROVE Counted
      OBVIOUS
    <2>1. Cardinality(CompletedItems) \in Nat
      BY CompletedCounted
    <2> QED BY <2>1 DEF Init, Counted, NoRun, NotWaiting
  <1>2. Shape /\ Counted /\ [Next]_vars => Counted'
    BY CountedNext
  <1>3. Shape /\ Counted /\ [Next]_vars
          => [Reports
                => /\ batch'.completed = Cardinality(CompletedItems)
                   /\ batch'.state = "COMPLETED" <=> CompletedItems = Items
                   /\ batch'.state = "ATTENTION_REQUIRED"
                         => batch'.failed = Cardinality(Items \ CompletedItems)]_vars
    <2> SUFFICES ASSUME Shape, Counted, [Next]_vars, batch' # batch,
                        batch'.state \in {"COMPLETED", "ATTENTION_REQUIRED"}
                 PROVE  /\ batch'.completed = Cardinality(CompletedItems)
                        /\ batch'.state = "COMPLETED" <=> CompletedItems = Items
                        /\ batch'.state = "ATTENTION_REQUIRED" => batch'.failed = Pending
      BY DEF Reports, Pending
    <2>1. CASE FinishBatch
      BY <2>1, FinishReports
    <2>2. CASE CreateBatch \/ StartBatch
      BY <2>2 DEF CreateBatch, StartBatch, Write, Shape, TypeOK
    <2>3. CASE ~(FinishBatch \/ CreateBatch \/ StartBatch)
      BY <2>3, ItemStepKeeps DEF Next, Requests, CrashRun, LoadRetry, AdmitRetry,
          DropRetry, ToggleInstance, ToggleQbit, SyncInstance, vars, rows, Outside,
          MediaChanges, MediaReplaced, TorrentVanishes
    <2> QED BY <2>1, <2>2, <2>3
  <1> QED BY <1>1, <1>2, <1>3, ShapeInit, ShapeStep, PTL DEF Spec, ReportIsRight

-----------------------------------------------------------------------------
(***************************************************************************)
(* Of movies, only what the revalidation saw is deleted.  (Of seasons, a   *)
(* retry deletes whatever files are there by then.)                        *)
(***************************************************************************)
\* An item is unverified until a revalidation succeeds, and again when one
\* fails.
Unverified == {"PENDING", "BLOCKED"}

\* What is not unverified was seen to be the stored movie.
Verified == kind = "RADARR"
              => \A i \in Items : item[i].state \notin Unverified => item[i].seen = "same"

\* The order of a batch is never changed.
LEMMA OrderStands == [Next]_vars => kind' = kind
  BY DEF Next, Requests, CreateBatch, StartBatch, FinishBatch, CrashRun, LoadRetry,
     AdmitRetry, DropRetry, ToggleInstance, ToggleQbit, SyncInstance, vars, order,
     Outside, MediaChanges, MediaReplaced, TorrentVanishes, ItemStep, NextItem,
     RevalidateItem, BlockItem, ArrStep, RequestArrDelete, DeleteMovie, LookAtMovie,
     MovieChanged, MovieIsGone, DeleteSeasonFiles, DeleteIneffective, UnmonitorSeason,
     ConfirmArrDelete, StillReported, RecordArrDeleted, TorrentStep,
     StartTorrentDeletes, QbitUnavailable, DeleteTorrent, DeleteTorrentIneffective,
     ConfirmTorrentDelete, TorrentStillReported, FinishTorrentDeletes,
     RequestPlexRefresh, CompleteItem, CallFails

\* A step leaves what was seen of item j, and does not verify it; or it
\* revalidates it.
LEMMA SeenMoves ==
    ASSUME Shape, [Next]_vars, NEW j \in Items
    PROVE  \/ /\ item'[j].seen = item[j].seen
              /\ item[j].state \in Unverified => item'[j].state \in Unverified
           \/ kind = "RADARR" => item'[j].seen = "same"
  <1> USE DEF rows, At, Unverified
  <1>1. item \in [Items -> ItemRow]
    BY DEF Shape, TypeOK
  <1>2. \A i \in Items : run.cur = i => item[i].state \in StatesAt(run.pc)
    BY DEF Shape, RunFollowsRow
  <1>3. ASSUME NEW i \in Items, NEW s, SetState(i, s), i # j \/ item[i].state \notin Unverified
                                                     \/ s \in Unverified
        PROVE  /\ item'[j].seen = item[j].seen
               /\ item[j].state \in Unverified => item'[j].state \in Unverified
    BY <1>1, <1>3 DEF SetState, ItemRow
  <1>4. CASE UNCHANGED item
    BY <1>4
  <1>5. CASE Requests \/ ToggleInstance \/ ToggleQbit \/ SyncInstance \/ UNCHANGED vars
             \/ \E i \in Items : Outside(i)
    BY <1>4, <1>5 DEF Requests, CreateBatch, StartBatch, FinishBatch, CrashRun,
        LoadRetry, AdmitRetry, DropRetry, ToggleInstance, ToggleQbit, SyncInstance,
        vars, Outside, MediaChanges, MediaReplaced, TorrentVanishes
  <1>6. CASE \E i \in Items : RevalidateItem(i)
    <2>1. PICK i \in Items : RevalidateItem(i)
      BY <1>6
    <2>2. j # i => item'[j] = item[j]
      BY <1>1, <2>1 DEF RevalidateItem
    <2>3. kind = "RADARR" => item'[i].seen = "same"
      BY <1>1, <2>1 DEF RevalidateItem
    <2> QED BY <2>2, <2>3
  <1>7. CASE \E i \in Items : ConfirmTorrentDelete(i)
    <2>1. PICK i \in Items : ConfirmTorrentDelete(i)
      BY <1>7
    <2>2. \/ item' = item
          \/ item' = [item EXCEPT ![i].deleted = run.deleted \cup {run.torrent}]
      BY <2>1 DEF ConfirmTorrentDelete
    <2> QED BY <1>1, <2>2 DEF ItemRow
  <1>8. ASSUME NEW i \in Items, ItemStep(i), ~RevalidateItem(i), ~ConfirmTorrentDelete(i)
        PROVE  \/ UNCHANGED item
               \/ \E s : SetState(i, s) /\ (item[i].state \notin Unverified \/ s \in Unverified)
    <2> USE <1>2 DEF StatesAt, ArrSteps, TorrentSteps
    <2>1. CASE BlockItem(i)
      BY <2>1 DEF BlockItem
    <2>2. CASE RequestArrDelete(i)
      BY <2>2 DEF RequestArrDelete
    <2>3. CASE RecordArrDeleted(i)
      BY <2>3 DEF RecordArrDeleted
    <2>4. CASE StartTorrentDeletes(i)
      BY <2>4 DEF StartTorrentDeletes
    <2>5. CASE FinishTorrentDeletes(i)
      BY <2>5 DEF FinishTorrentDeletes
    <2>6. CASE RequestPlexRefresh(i)
      BY <2>6 DEF RequestPlexRefresh, PlexSteps, AfterTorrent
    <2>7. CASE CompleteItem(i)
      BY <2>7 DEF CompleteItem, PlexSteps, AfterTorrent
    <2> QED BY <1>8, <2>1, <2>2, <2>3, <2>4, <2>5, <2>6, <2>7
        DEF ItemStep, NextItem, ArrStep, DeleteMovie, LookAtMovie, MovieChanged,
            MovieIsGone, DeleteSeasonFiles, DeleteIneffective, UnmonitorSeason,
            ConfirmArrDelete, StillReported, TorrentStep, QbitUnavailable,
            DeleteTorrent, DeleteTorrentIneffective, TorrentStillReported, CallFails
  <1> QED BY <1>3, <1>4, <1>5, <1>6, <1>7, <1>8 DEF Next

\* Only the run's own deletion changes what the instance holds while the run
\* moves: of the movie it has looked at, whose request is recorded.
LEMMA RunDeletes ==
    ASSUME Shape, [Next]_vars, NEW j \in Items, kind = "RADARR",
           run' # run, media'[j] # media[j]
    PROVE  /\ Doing(j, {"arrDelete"}) /\ media[j] # "absent"
           /\ item[j].state \notin Unverified
  <1> USE DEF At, outside
  <1>1. media \in [Items -> {"same", "other", "absent"}]
    BY DEF Shape, TypeOK
  <1>2. \A i \in Items : run.cur = i => item[i].state \in StatesAt(run.pc)
    BY DEF Shape, RunFollowsRow
  <1>3. PICK i \in Items : DeleteMovie(i)
    BY DEF Next, Requests, CreateBatch, StartBatch, FinishBatch, CrashRun, LoadRetry,
       AdmitRetry, DropRetry, ToggleInstance, ToggleQbit, SyncInstance, vars, Outside,
       MediaChanges, MediaReplaced, TorrentVanishes, ItemStep, NextItem, RevalidateItem,
       BlockItem, ArrStep, RequestArrDelete, LookAtMovie, MovieChanged, MovieIsGone,
       DeleteSeasonFiles, DeleteIneffective, UnmonitorSeason, ConfirmArrDelete,
       StillReported, RecordArrDeleted, TorrentStep, StartTorrentDeletes,
       QbitUnavailable, DeleteTorrent, DeleteTorrentIneffective, ConfirmTorrentDelete,
       TorrentStillReported, FinishTorrentDeletes, RequestPlexRefresh, CompleteItem,
       CallFails
  <1>4. i = j
    BY <1>1, <1>3 DEF DeleteMovie
  <1>5. item[j].state \in StatesAt("arrDelete")
    BY <1>2, <1>3, <1>4 DEF DeleteMovie
  <1> QED BY <1>3, <1>4, <1>5 DEF DeleteMovie, Doing, StatesAt, ArrSteps, Unverified

\* No movie is replaced between a run's look at it and the deletion.
NotReplaced ==
    [][\A i \in Items : At(i, "arrDelete") /\ media[i] = "same" => media'[i] # "other"]_vars

\* The movie a run is about to delete is the one it has looked at.
LookedAt == \A i \in Items : Doing(i, {"arrDelete"}) => media[i] # "other"

\* A batch of movies deletes nothing but what was verified, however long before
\* the deletion that was and whatever took the movie's id since, unless another
\* movie takes the id between the run's own look and the deletion, which are
\* two calls.
THEOREM MoviesAreVerified == Spec /\ kind = "RADARR" /\ NotReplaced => OnlySeenIsDeleted
  <1>1. Init => Verified /\ LookedAt
    BY NoItemIsNoItem DEF Init, Verified, Unverified, LookedAt, Doing, NoRun
  <1>2. Shape /\ Verified /\ [Next]_vars => Verified'
    <2> SUFFICES ASSUME Shape, Verified, [Next]_vars, kind' = "RADARR", NEW j \in Items,
                        item'[j].state \notin Unverified
                 PROVE  item'[j].seen = "same"
      BY DEF Verified
    <2>1. kind = "RADARR"
      BY OrderStands
    <2> QED BY <2>1, SeenMoves DEF Verified
  <1>3. Shape /\ kind = "RADARR" /\ [Next]_vars => (kind = "RADARR")'
    BY OrderStands
  <1>4. Shape /\ LookedAt /\ kind = "RADARR" /\ [Next]_vars
          /\ [\A i \in Items :
                 At(i, "arrDelete") /\ media[i] = "same" => media'[i] # "other"]_vars
          => LookedAt'
    <2> SUFFICES ASSUME Shape, LookedAt, kind = "RADARR", [Next]_vars,
                        [\A i \in Items :
                            At(i, "arrDelete") /\ media[i] = "same"
                               => media'[i] # "other"]_vars,
                        NEW j \in Items, Doing(j, {"arrDelete"})'
                 PROVE  media'[j] # "other"
      BY DEF LookedAt
    <2>1. RunMoves(j) /\ WorldMoves(j) /\ media[j] \in {"same", "other", "absent"}
      BY RunMovesOn, WorldMovesOn DEF Shape, TypeOK
    <2>2. CASE Doing(j, {"arrDelete"})
      <3>1. media[j] \in {"same", "absent"}
        BY <2>1, <2>2 DEF LookedAt
      <3>2. media[j] = "absent" => media'[j] = "absent"
        BY <2>1 DEF WorldMoves
      <3>3. UNCHANGED vars => media'[j] = media[j]
        BY DEF vars, outside
      <3> QED BY <2>2, <3>1, <3>2, <3>3 DEF Doing, At
    <2>3. CASE ~Doing(j, {"arrDelete"})
      BY <2>1, <2>3 DEF RunMoves
    <2> QED BY <2>2, <2>3
  <1>5. Shape /\ Verified /\ LookedAt /\ kind = "RADARR" /\ [Next]_vars
          => [\A i \in Items :
                 run' # run /\ media'[i] # media[i] => media[i] = item[i].seen]_vars
    <2> SUFFICES ASSUME Shape, Verified, LookedAt, kind = "RADARR", [Next]_vars,
                        NEW j \in Items, run' # run, media'[j] # media[j]
                 PROVE  media[j] = item[j].seen
      OBVIOUS
    <2>1. /\ Doing(j, {"arrDelete"}) /\ media[j] # "absent"
          /\ item[j].state \notin Unverified
          /\ media[j] \in {"same", "other", "absent"}
      BY RunDeletes DEF Shape, TypeOK
    <2> QED BY <2>1 DEF LookedAt, Verified
  <1> QED BY <1>1, <1>2, <1>3, <1>4, <1>5, ShapeInit, ShapeStep, PTL
          DEF Spec, OnlySeenIsDeleted, NotReplaced
=============================================================================
