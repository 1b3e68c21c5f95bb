# A verification project for revolvingPlexLibrary

The application watches a Plex library that is filled by Radarr and Sonarr and
removes what nobody watches: first through Radarr or Sonarr, then from
qBittorrent, then it makes Plex look again. It is one FastAPI process with a
thread per request, one SQLite database, and six outside services that it does
not control and that change under its feet. These modules model that, TLC checks
them on small instances, and TLAPS proves the main results for all instances.

## 1. Inventory

| Component | Source | State | Operations | Modelled in |
|---|---|---|---|---|
| Movie deletion workflow | `services/deletion_jobs.py`, handlers in `main.py` 2068-2285 | `deletion_job` row (state, execution snapshot, external state), `media_lifecycle.state` | create, approve, cancel, invalidate, execute (revalidate, Radarr, torrents, Plex), reconcile | `DeletionJob`, `DeletionProgress`, `RemovalProtocol` |
| Sync coordinator | `services/sync_coordinator.py` | the one active operation, in memory | acquire, release | wherever it is held: `active`, `run`, `sync`, `running`, `occupant` |
| Rollout and switches | `services/rollout.py`, `services/integrations.py`, handlers in `main.py` | rollout mode, per instance: enabled, Active Management, management mode, health, proofs | create, edit, delete, toggle, change mode, test; each may invalidate queued jobs | `RolloutGates` |
| Manual management | `services/manual_management.py`, handlers in `main.py` 758-927 | `manual_deletion_batch` and `manual_deletion_item` rows, `media_lifecycle.state` | select, create and execute a batch, retry | `ManualBatch` |
| Inventory synchronization | `services/inventory.py` | lifecycles, files, torrents, mappings, plays, requests, freshness | protection forms and toggles, `sync_arr`, `sync_plex`, `sync_tautulli`, `sync_overseerr`, `sync_qbittorrent` | `Inventory`; torrents and mappings in `TorrentEvidence` |
| Library pairing | `services/inventory.py` 744-962, `services/integrations.py` 136-378 | `integration_library_mapping`, `managed_library`, a lifecycle's library and Plex key | pair by hand, pair by evidence, take in and out of scope, remove | `LibraryPairing` |
| Dry run, tracker policies | `services/dry_run.py`, `main.py` 1896-2066 | `dry_run_proposal`, `tracker_policy`, whether the preview is outdated | save and select policies, evaluate | `DryRun` |
| Retention | `services/inventory.py` 58-81, 616-658, 1330-1370 | deadlines, decisions | recompute | `Retention`, within `Inventory` |
| Scheduler | `services/scheduler.py` | its pass; when each source was last attempted | synchronize what is due | `Scheduler` |
| Adapters | `integrations/*.py` | none | HTTP calls with time limits of 10 to 60 s | the calls of the workflows |
| Backups, login limiter, events, workbench, presentation, settings, CLI, templates, migrations | | | | not modelled (section 7) |

How they interact. Handlers share the database and nothing else, except the
coordinator: synchronizations, manual batches and deletion requests refuse to
start while another holds it. Approving, cancelling and every switch do not ask
for it, and run in the middle of whatever holds it. A switch handler writes its
own row and cancels the queued jobs in the same session. The deletion workflow
reads the switches at its gates, calls the services, and commits the job's state
before and after each call.

What is hard. (1) A handler works on copies: SQLAlchemy's identity map returns
an object that is still referenced with the values it was loaded with, and
an `UPDATE` writes only the columns that changed in the copy, with no version
check. (2) Between an outside effect and the commit that records it the
process may die, the answer may be lost, or the effect may not have happened.
(3) Short administrative requests run between any two steps of a long one. (4)
The outside changes by itself: another movie under the same id, a torrent
gone, Plex scanning late. (5) Resumption starts from what the row says.

What makes each part right. *Workflow*: Radarr first, torrents after; only the
verified movie; what is recorded has happened; a deletion that has begun can be
completed; completion means absence. *Coordinator*: one operation, always
released. *Switches*: off stops the next destructive step; queued approvals do
not survive. *Manual batches*: the same order, per item, with independent items.
*Synchronization*: failure changes no evidence; each reason of protection stands
as long as its own cause; import dates and watches are the real ones, though the service has
moved on since it was read; a deleted lifecycle is not revived. *Retention*: a watch
resets this season and the later ones; only what is unprotected, expired and known from fresh
evidence may be reviewed. *Dry run*: a pure function that fails closed.
*Scheduler*: every enabled source is synchronized in the end.

## 2. How the project is built

1. `DeletionJob`, composed with its promise `RemovalProtocol` (a refinement) and with
   fairness in `DeletionProgress`.
2. `ManualBatch`, one batch with its items, runs and retries, each item of which
   refines `RemovalProtocol` as well.
3. `Retention` and, on top of it, `Inventory`: what synchronizations make of the rows of a series
   while the services change and administrators protect.
4. `RolloutGates`: the switches one by one, with the handlers that commit in several pieces.
5. `DryRun`: the evaluation against a reference definition, and how long it stands.
6. `TorrentEvidence`: the torrents the workflow examines and removes, and where their mapping
   comes from.
7. `Scheduler` and `LibraryPairing`.

The components share rows, and each module takes what another one decides as
nondeterministic input: `DeletionJob` blocks or passes a revalidation at will, `DryRun` takes any
rows a synchronization may bring, and `TorrentEvidence` and `Scheduler` reduce a
workflow or a synchronization to what it leaves behind. Modules with proofs hold them in a module of
their own (`...Proofs`).

## 3. The modules

`RemovalProtocol` is the promise: a movie is removed only after a look that found
the verified one, and each look serves for one removal; torrents go only when the movie is gone
and excluded, and completion is claimed only then. It does not promise that nothing
changes between the look and the removal: the services offer no call that would do both.

`DeletionJob` is the program. `req[e]` is a request for execution or
reconciliation with its session: `state`, `snap` and `deleted` are its copy of
the row, `ready` its copy of the integration's switches, `aliased` that the JSON
value of the row is now the dict it mutates, `cur` the torrent it is confirming,
`pc` the next step. `WrittenState` and `WrittenDeletions` say what a commit
leaves in the row, given the copy. The steps follow `execute_movie_job`:

| Step | Code |
|---|---|
| `LoadJob`, `AcquireCoordinator`, `SyncAlreadyRunning` | `main.py` 2161-2206, `sync_coordinator.py` |
| `EnterWorkflow`, `RefuseRequest` | `deletion_jobs.py` 743-763, 809-817 |
| `CheckRevalidationGates`, `LiveRevalidate`, `EvidenceBlocks` | 397-514 |
| `RequestRadarrDelete`, `LookUpMovie` (544-551), `RadarrDelete` (552), `ConfirmRadarrDelete`, `RecordRadarrDeleted` | 533-617 |
| `StartTorrentDeletes` .. `FinishTorrentDeletes` | 620-661 |
| `RequestPlexRefresh`, `RefreshPlex`, `SettleJob` | 664-740 |
| `Block`, `Fail`, `ExternalStepFails`, `CrashRequest` | 778-806 and the handler |

`adm[a]` is an administrative request between the statement that reads the job
and the commit that acts on it. Changes by one commit (`RadarrEdited`,
`RadarrSwitchedOn`, ...) need no such record. `movie`, `exclusion`, `present` and
`plexItem` are the outside; `removed` is history for the properties.

Reads after the last commit, and the absence of torn reads, come from SQLite: a
statement outside a write transaction sees the latest commit. A commit is atomic.

`ManualBatch` is one batch of movies or of seasons. `item[i]` is a row: its state,
what the revalidation saw (`seen`), the torrents it found (`snap`), and those
recorded as deleted. `run` is the one request that holds the coordinator:
`cur` and `pc` are the item at hand and the next step, `todo` the items still to come,
`state`, `completed` and `failed` the copy of the batch row, `deleted` and `aliased` the working
copy of the item's JSON value, `held` that this is the request that created the batch
and so still holds the integration it selected from. `waiting[w]` is a
retry that has loaded the batch and waits. The request that created a batch
and a retry differ only in these copies; both run `execute_manual_batch`:

| Step | Code (`manual_management.py`) |
|---|---|
| `CreateBatch`; `LoadRetry`, `AdmitRetry`, `DropRetry` | 408-510, `main.py` 758-927 |
| `StartBatch`, `NextItem`, `FinishBatch` | 896-974 |
| `RevalidateItem`, `BlockItem` | 571-771 |
| `RequestArrDelete`, `LookAtMovie` (787-790), `DeleteMovie` (791-794), .. `RecordArrDeleted` | 774-832 |
| `StartTorrentDeletes` .. `FinishTorrentDeletes` | 835-874 |
| `RequestPlexRefresh`, `CompleteItem` | 877-893 |
| `CallFails`, `CrashRun` | 925-949 and the handlers |

`guarded[i]` is the import exclusion of a movie, or that the season was
unmonitored; `cleared` and `removed` are history. Movies and seasons differ where the
code does: only a movie's identity is compared before the deletion, only a season's
files come back. A season's files are listed and deleted in one step: the deletion is by the ids
listed, so a file that comes in between stays, which is what `DeleteIneffective` leaves.

`Retention` is the pure part of `inventory.py`: dates count weeks, a row is a record.
`Inventory` is a series with its seasons. `row[s]` is the `media_lifecycle` row of season
`s` (`state`, `imported`, `watch`, `deadline`, `matched` for a Plex key, `sources`
for the reasons of protection, `decision`); `played`, `cursor`, `request`, `guarded` and
`fresh` are the other tables. `files`, `origin`, `tagged`, `listed`, `history` and
`asked` are Sonarr, Plex, Tautulli and Overseerr. `sync` is what the synchronization
under way has read, `form` the rows a protection form has loaded. `tagSeen`, `pinned` and
`deletedAt` are history.

| Step | Code |
|---|---|
| `Fetch`, `Apply` | `main.py` 1459-1486, `inventory.py` 1164-1204 and 1212-1275, with `sync_arr` 321-485, `sync_plex` 896-962, `sync_tautulli` 509-578, `sync_overseerr` 661-727 |
| `SyncFails` | 1205-1224, 1246-1258 |
| `Recomputed` with `Cleared`, `Deadline`, `Decide` | `recompute_decisions` 1330-1370, 616-658, 210-241 |
| `AfterArr`, `AfterPlayback`, `AfterRequests` | 321-485, 581-613, 965-1020 |
| `LoadForm`, `CommitForm` | `main.py` 1664-1754, `inventory.py` 1035-1056 |
| `ToggleRequester` | 1023-1033 |
| `DeleteSeason` | `manual_management.py` 797-832, as one step |
| `Tick` | `source_is_fresh` 1321-1328: a week passes, and no evidence is fresh any more |

`Synchronized` is what a synchronization makes of the rows, without the recomputation
every one of them ends with. Deadlines and decisions that `sync_arr` and the playback
write on their way are not in it, as the recomputation overwrites them within the same
transaction.

`DeletionProgress` adds fairness and a bound on what goes wrong. The `MC` modules add symmetry
sets and the values of constants that a configuration cannot write.

`RolloutGates` has the switches as columns: `row[i]` is an instance's row, `rollout` the mode,
`job[j]` a deletion job reduced to its state and instance. `req[s]` is a switch handler between its
load and its last commit: its copy as loaded (`was`) and as changed (`will`), and the jobs it
has selected and not cancelled yet (`todo`). `call[l]` is a test or a synchronization that holds a copy
across a call. `Written` is what an `UPDATE` does: only columns that differ from the copy.

| Step | Code |
|---|---|
| `Create`, `Edit`, `Delete` | `integrations.py` 41-192, `main.py` 1043-1175 |
| `ToggleEnabled`, `ChangeMode`, `ToggleActive` | `main.py` 1177-1209, 1379-1457, `integrations.py` 285-321 |
| `ChangeRollout`, `CommitRollout`, `Clear` | `rollout.py` 20-38, `main.py` 1781-1822 |
| `CommitSwitch`, `Void`, `Advance` | `deletion_jobs.py` 270-282: the first commit carries the switch, each further one cancels a job |
| `Prepare`, `Approve`, `Cancel`, `Execute` with `Gates` | `deletion_jobs.py` 150-255, 300-323, 729-800 |
| `StartTest`, `FinishTest`, `StartSync`, `FinishSync`, `CallFails` | `main.py` 989-1017, 1459-1502, `integrations.py` 211-225, `inventory.py` 1164-1224 |

`voided`, `lapsed`, `tested` and `fresh` are history.

`DryRun` has the rows `evaluate_dry_run` reads (`state`, `standing`, `torrent`, `mapping`, `policy`) and
what it writes (`proposal`). `TrackerResult` is `_tracker_result`, in its order of checks;
`Verdicts` the evaluation of one lifecycle, `Assessed` the second implementation of the gate in
`manual_management.py` 126-201. `Removable`, the reference, says what is owed without any
order of checks. `outdated` is what the page works out from the names of the last events;
`silent` is history: a workflow changed evidence without such an event. `calc` holds the
proposals a recalculation has worked out and not committed.

`TorrentEvidence` has qBittorrent and Radarr's history (`seeding`, `has`, `uses`), the rows made of
them and a deletion job per movie with its snapshot. `SyncQbittorrent` models the session
(`database.py` 32: no flush before a query): the new torrents, and those whose rows were flushed before one
was inserted (`early`), are mapped, the others are not until Radarr is synchronized again.

`LibraryPairing` has instances, libraries and their pairing, and in `library` and `key`
what a lifecycle remembers. A synchronization is `Fetch` and a later `Place`; forms come in
between. A form, too, is two steps. `LoadToggle`, `LoadPair` and `LoadDetect` load rows into `form`;
`ToggleLibrary`, `PairByHand` and `DetectAutomatically` write them: only columns that differ from what was
loaded (`Emptied`), so a lifecycle placed in between, by a `Place` whose write lock the form had to wait for,
may keep what it has. `Waiting` names the instances whose forms may wait so, `MayCome` keeps
`Place` away from the others' forms. `Proposes`, `Accepts` and `Lapses` are the two rounds of
`_auto_map_arr_libraries` and the expiry of what was found before; `score`, the number of common file
names, is remembered for the properties until the next step.

| Step | Code |
|---|---|
| `LoadToggle`, `ToggleLibrary` | `main.py` 1284-1331 |
| `LoadPair`, `PairByHand`; `LoadDetect`, `DetectAutomatically` | `integrations.py` 324-378 |
| `FormFails` | `database.py` 18-23: the lock is not to be had in five seconds, or a row that is updated is gone |
| `RemoveArr`, `RemovePlex`, `ToggleArr` | `integrations.py` 136-192, `main.py` 1177-1209 |
| `Fetch`, `Place`, `Fail` | `inventory.py` 744-962, 1201-1262 |

`Scheduler` is the loop: `todo` is what is left of the list a pass selected at its start,
`occupant` the coordinator's holder. `Raise` is an exception that neither `sync_integration` nor the pass catches.

### Assumptions about the outside

- Radarr does not reuse an id of a movie that is gone, and a torrent that is gone
  does not return, so both are final in the model.
- Nobody but the application touches the import exclusion or the monitoring of a
  season.
- Evidence (freshness, health of other sources, pairing, playback, mapping
  confidence, dry run) is nondeterministic in `DeletionJob`: `LiveRevalidate` or `EvidenceBlocks`.
- `identity.tmdb_id` does not change between the snapshot and the deletion.

And for `Inventory`:

- One series in one Sonarr instance whose management mode is `MANAGED`; one instance of
  every other service, all enabled. The series stays in Sonarr, which lists all its
  seasons, with or without files. Plex keeps the key of a season.
- Sonarr's history goes back to the first import. The services have been running when
  the application is installed.
- Tautulli's history only grows and is ordered by the date a play began; all plays in
  it are meaningful.
- The requester of the series has other requests, so there is a profile to protect before
  this series is requested.
- A week is longer than any freshness window, and steps between two ticks are within all.
- `protection_state` is not a column of the model: it is `PROTECTED` exactly when there
  are reasons, in every function that writes either.
- The protection form reads its selection and, in `recompute_decisions`, all rows and
  freshness, at different moments without a transaction; the model takes them at once. One
  form is under way at a time.

## 4. What the runs check

| Run | Instance | Shows |
|---|---|---|
| `job_requests` | 2 requests and 1 administrator, any 2 of them at a time, 1 torrent; 1.8 M states | `SessionsHold`, `CompletedIsUnlisted` and the refinement `KeepsPromise`, with two sessions that race and crash and with switches and cancellations between any two steps |
| `job_progress` | 1 request, 2 torrents, 2 faults; 52 k states | with nobody else there: `CompletedLeavesNoTorrent`, `ProgressIsReal`, `RecordedDeletionsHold`, `TerminalStatesAreFinal`, `DeletionIsRemembered`, and the liveness properties `DeletionResumes`, `CoordinatorIsReleased` |
| `manual_batch` | 1 item, 2 torrents, 1 waiting retry; 639 k states | `RunFollowsRow`, `ArrDeletionHolds`, `NoTorrentIsLeft`, `ItemsOnlyAdvance`, `KeepsPromise`, for movies with and without exclusion and for seasons |
| `manual_items` | 2 items, no torrents, 1 waiting retry; 1.32 M states | `ReportIsRight`: the items are independent, and over any number of runs the outcome and the number of completed items are those of the rows, and so is the number of failed ones when there are any |
| `inventory` | 2 seasons, 3 weeks, 2 changes; 1.55 M states | `ProtectionStands`, `OriginalImport`, `WatchResetsLaterSeasons`, `WatchesAreReal`, `EligibleIsExpired`, `OnlyFreshEvidenceCondemns`, with changes of the services and administrators between a read and its write |
| `rollout_gates` | 1 Radarr instance, 2 jobs, 1 change of address, 1 restart; 1.44 M states | `ActiveIsPermitted` wherever the process dies; `ActiveEndsWithMode`, `QueueEndsWithSwitch` until it does |
| `dry_run` | 2 movies, 1 torrent, 1 tracker; 1.66 M states | `EligibleIsMet`, `GatesAgree`, `PreviewMatches` |
| `torrent_evidence` | 3 movies, 1 torrent, 1 job that may be interrupted; 129 k states | `SharedIsSeen`, `RemovedIsUnshared`, and the liveness property `MappingRecovers` |
| `scheduler` | 3 sources, the last one broken, 2 visits; 5,792 states | `PassShrinks` (no step of anybody's makes a pass longer) and the liveness properties `PassEnds`, `EverySourceIsSynced` |
| `pairing` | 2 instances, of one of which forms may wait for a synchronization, 2 libraries, of which one may leave the scope at any time, up to 2 common files; 464 k states | `OneOwner`, `LifecyclesFollow`, `PairedIsSelected`, `ManualStands`, `AutoYieldsToEvidence`, `ClearWinnerIsPaired` |

Two runs show the code doing what its documents deny:

| Run | Shows |
|---|---|
| `approval_revived` | a blocked job keeps its approval while Active Management is switched off and on, and is executed on it |
| `mapping_lost` | a synchronization of qBittorrent that finds no new torrent drops every mapping: the next job examines none of its movie's torrents |

### Further configurations

These are kept beside the runs, each with the one property it is about, and are checked
with `tlc -config X.cfg M`. All but the first find a counterexample: the code does not
ensure the property. Where a row names a property, it takes the place of the one that is in the
configuration.

| Configuration | Module | Shows |
|---|---|---|
| `rollout_drain` | `MCRolloutGates` | (holds) every switch-off empties the queue it found, unless the process dies |
| `job_cancel_race` | `MCDeletionJob` | a cancellation and the executor overwrite each other; a "terminal" state is left |
| `job_double_submit` | `MCDeletionJob` | the job is loaded before the coordinator is acquired, so a second submission re-opens a deleted job |
| `job_switch_off` | `MCDeletionJob` | an instance switched off in mid-workflow is still acted upon: the gate reads the row loaded on entry |
| `job_stale_snapshot` | `MCDeletionJob` | a request with an old, empty snapshot completes a job whose torrent is still there |
| `job_swapped` | `MCDeletionJob` | a movie that comes under the id between the look and the deletion is deleted |
| `manual_swapped` | `MCManualBatch` | the same, in a batch |
| `manual_failed` | `MCManualBatch` | a retry that loaded the batch before an item failed, and completes it, leaves a completed batch whose page says "1 need attention" (`manual_management.html` 20) |
| `manual_reimport` | `MCManualBatch` | a retried season deletion removes files that were imported after the revalidation |
| `manual_ungated` | `MCManualBatch` | a retry goes on to a deletion while the instance is not under Active Management |
| `policy_nan` | `MCDryRun` | a minimum ratio of `nan` passes every check of the form and is stored as none ("Minimum ratio must be greater than 0", `dry_run.py` 83) |
| `reset_withdrawn` | `Inventory` | season 1 is watched, which puts season 2 off, and is deleted: the next synchronization of plays moves season 2 back (build sheet 14.3: a watch resets "every currently imported season greater than N") |
| `season_returns` | `Inventory` | a deleted season that is imported again gets its old row and its old term back, and is eligible at once |
| `protection_race` | `Inventory` | a form that takes the administrator's protection away writes back reasons it loaded before Sonarr was synchronized, and the tag's protection goes, too |
| `request_ignored` | `Inventory` | a season whose row appears after its request was stored is eligible in spite of a protected requester |
| `active_stale` | `MCRolloutGates` | an instance that was disabled and enabled is made active on the synchronization it had before |
| `active_stale`, `ActivationFollowsTest` | `MCRolloutGates` | a test that began before the address was changed leaves its success to the new address |
| `mode_crash` | `MCRolloutGates` | a restart in the middle of a rollout change leaves an instance active below `APPROVAL_REQUIRED` |
| `preview_stale` | `MCDryRun` | after a deletion, the page still says that the preview matches |
| `stale_revalidation` | `TorrentEvidence` | a job resumed after its torrent became shared removes the torrent |
| `scheduler_starved` | `MCScheduler` | a source that raises keeps those after it from ever being synchronized |
| `scheduler_starved`, `DisabledIsNotScheduled` | `MCScheduler` | a source disabled during a pass is synchronized all the same |
| `pairing_race` | `LibraryPairing` | a library taken out of scope while Plex is asked about it is paired |
| `pairing_race`, `WinnerIsUnambiguous` | `LibraryPairing` | a library is given to one of two instances that have equally many of its files, as the other has so many in two libraries and dropped out before (`DESIGN.md` 241: "accepts only an unambiguous winner for both the candidate library and competing Arr instances") |
| `pairing_late` | `LibraryPairing` | a form that waits for a synchronization leaves the lifecycle that it placed with the library and the key of a pairing that is gone (`DESIGN.md` 243: "Returning to automatic detection clears stale lifecycle-to-Plex associations") |
| `pairing_late`, `ChoiceIsStored` | `LibraryPairing` | a choice by hand that waited for a synchronization is stored with the library that the synchronization found (`DESIGN.md` 241: it "claims that library") |

`job_cancel_race` and `job_double_submit` are exactly why `job_progress` needs one request and no
administrator: there the same properties hold. In the same way the constants `Resumes`
(`TorrentEvidence`: the jobs that may be interrupted), `Overlap` and `Waiting` (`LibraryPairing`: the libraries whose
scope may change while Plex is asked, and the instances whose forms may wait) say of which jobs, libraries and instances a property is promised, in
the presence of others of which it is not. With `Overlap = TRUE`, `rollout_gates` finds a job that was prepared
between the selection of the queue and the commit of a switch-off, and `dry_run` a recalculation that
read before a change and is committed after it.

### Bounds, assumptions, fairness

Bounds. There is one job: the row is unique per lifecycle, and no step of the
workflow reads another job, so two jobs meet only at the coordinator, which a
second request slot or `SyncRadarr` occupies as well. Two request slots give
every race of two sessions (`job_requests`), and the administrator meets one of them at a time
(`TwoAtATime`, which also keeps torrents from vanishing by another hand); two torrents give a deletion that
fails half-way and the aliased JSON value, and may vanish (`job_progress`). That all of these meet is covered
by the proofs only. A request slot is reused for ever, so crashes and
retries are not bounded outside `job_progress`. The runs of the two workflows disable the deadlock check:
a cancelled job with everything switched off has really come to rest.

A manual batch needs one item to show what an item goes through, and a second to
show that items do not disturb each other; `manual_items` has no torrents, so
qBittorrent's switch cannot matter and is left on (`QbitStaysOn`). One waiting retry
is enough for a copy of the batch that is older than the run before it; the
slot is reused without a bound, so runs, crashes and retries are not bounded. The
items are taken in any order, which covers the order of the rows.

`inventory` bounds the clock by `MaxTime` and what happens besides synchronization and
the passage of time by `MaxChanges`; synchronizations are not bounded. A season that
nobody watches stays two weeks and a watched one another, so three weeks see an import, a watch, a deadline that passes
and one that was put off; every hazard on the list needs at most two changes (a deletion
and the import after it, a tag and a form). Two seasons give an earlier
and a later one. The deadlock check is off because time and changes end.

`Overlap` is an assumption and not a bound. When it is `FALSE`, no row is written between
the load and the commit of a protection form. The code does not ensure that: the form
takes no lock, and `protection_race` has `Overlap = TRUE` and shows what is lost. What the
form cannot hurt is proved without the assumption (section 5). A failed
synchronization recomputes rows that were read before its write, too; it is one step
here, and the model does not show what it might undo.

In `rollout_gates` one handler slot is enough as long as short handlers do not overlap, and two jobs
make a cancellation that takes more than one commit; `MaxEdits` and `MaxCrashes` bound the changes of an
address and the restarts, which are the counters. `WithoutHistory` takes states for one that differ only
in the histories this run's properties do not mention; no step depends on them. The deadlock check is
off because an instance may be removed for good. `Overlap = FALSE` assumes that short handlers, which
take milliseconds, come one at a time; tests and synchronizations, which take seconds, always overlap,
and so does the removal of an instance, which holds the write lock while it deletes the inventory and
lets a switch that has loaded the row fail at its commit (`CommitFails`).

`dry_run` has a rule with both minimums and one with either, a form that is refused, rows at both minimums,
at one and of a torrent that is gone, and two movies to share the torrent. That more torrents, trackers and rules do not
matter is proved. The page can come to rest: the deadlock check is off.

`torrent_evidence` has three movies, so that a torrent is shared by movies whose jobs are and
are not interrupted. `mapping_lost` has two torrents, of which one is new.
`scheduler` bounds what others do with the coordinator, and restarts, by `MaxVisits`; ticks and switches are not
bounded. `pairing` needs scores 0 to 2 for a winner, a loser and a tie. Of its two instances one's forms may wait,
and of its two libraries one may leave the scope meanwhile, so that the properties are about an instance and a
library in the presence of another that does worse.

In `LibraryPairing` forms come one at a time: two of them, which take milliseconds, do not overlap
each other (the checks at `integrations.py` 345 and `main.py` 1299 would then be of an older state). With a
synchronization, which holds the write lock for as long as it writes, they do; that is what `Waiting`
is for. It is an assumption and not a bound, as `Overlap` is: `LifecyclesFollow` is promised to the instances that
are not in it, and `pairing_late` shows that it is needed.

What is merged into one step, or left out, though the code has it: `StartTorrentDeletes` and
`RequestPlexRefresh` each stand for two commits, the first of which only names the step; `TorrentEvidence`
links a torrent to a movie by what Radarr's history and files say and not by the path of its content
(`CONTENT_PATH`), which would be one more way to be linked.

Fairness. `RolloutGates`: a handler that has begun runs to its end (weak fairness of `Serve`).
`TorrentEvidence`: a running job goes on, and Radarr is synchronized again and again between jobs (strong
fairness, as jobs come in between): that is the scheduler, and `PassEnds` and `EverySourceIsSynced` say that it does
so. `Scheduler`: its thread goes on, and whoever holds the coordinator releases it
(`CoordinatorIsReleased`). `DeletionProgress`: the server goes on with a request it admitted:
every outside call has a time limit in its adapter, so each step ends (weak
fairness of `Workflow`, `AcquireCoordinator`). Nothing in the server resumes a
job by itself, so the operator who presses Execute is part of the assumption
(strong fairness of `Resume`, the button is there only while the job can run), and
so are switching a disabled instance on again and Plex finishing its scan. Faults are
bounded by `MaxFaults`: without that no deletion could be promised to end.

## 5. What is proved

`DeletionJobProofs`: `TypeCorrect`, type correctness; `Safety`, from the inductive invariant

    Safe == OneExecutor /\ ProgressIsReal /\ SessionsHold
            /\ TorrentsAfterRadarr /\ RecordedDeletionsHold

`ProgressIsReal` alone is not inductive: a request writes the row from its copy,
so the copy has to be right too, and a copy may be much older than the
row. `SessionsHold` says that of every request, loaded or running. It is stable
because what it claims (the movie gone, the exclusion made, a torrent
gone) cannot become false again; and it is preserved by admission because the
row it copies satisfies `ProgressIsReal` and `RecordedDeletionsHold`. `OneExecutor` gives the
uniqueness of the request that runs. From `Safety` follow `RunsAlone`,
`ProgressCorrect`, `RadarrFirst`, `RecordCorrect`, and `Implements`: every step
of the program is a step of `RemovalProtocol` or a stutter. That a deletion follows a look is not that it deletes what
was looked at: `OnlyVerified` proves that under the assumption `NotSwapped` (no other movie comes under the id between
the two calls), without which `job_swapped` refutes it. `CompletionCorrect` is for a movie
with a rating key. `SessionsCorrect` is a conjunct of `Safe`; `NoTorrentLeft` assumes at most one request
(`OneSlot`) and has the invariant `Cleaned`: at every step that comes after a torrent's, the torrent is
gone. `job_stale_snapshot` shows that the assumption is needed.

What lasts has two theorems. `OnlyStaleWritersReopen` is for any number of requests and administrators: a
terminal state is left only by a writer whose copy is from before the end, that is, by the races of
`job_double_submit` and `job_cancel_race` and by nothing else. `RadarrIsRemembered` (`DeletionIsRemembered`) is
proved under `OneSlot` and without an administrator at the row (`Admins = {}`).
Neither follows from `Safe`, which says that what a copy claims of the outside
is so, and not that the copy is the row: a copy from before the end may honestly
bring a completed job back. The invariant

    Fresh == the state a request holds is the state of the row; past its entry it is not
             terminal, and before its deletion at Radarr it is none that follows it

closes that gap, through crashes, blocks and repeated executions of one request. A second request
(`job_double_submit`) or an administrator (`job_cancel_race`) breaks it, so both hypotheses are needed.
`FairImplements`: a behaviour of `DeletionProgress`, fair and with bounded disturbances, is one of
`DeletionJob`; so this holds where the liveness properties are checked (`FairSafety`).

`ManualBatchProofs`: the invariant comes in two layers. `Shape`, that is `TypeOK`
with `RunFollowsRow`, says that the step a run is about to take fits the state its
item's row is in; it is inductive by itself and gives `TypeCorrect` and
`CallsAreOnRecord`. On top of it,

    Safe == Shape /\ ArrDeletionHolds /\ TorrentsAfterArr
            /\ RecordsHold /\ NoTorrentIsLeft

`NoTorrentIsLeft` needs `RecordsHold`, as a run skips what it has down as deleted, and
`TorrentsAfterArr` needs `ArrDeletionHolds` of the step as well as of the row.
Each part is preserved by three facts about any step, stated of one item: how its row
moves (`RowMoves`), how its run moves (`RunMoves`), and how the outside moves
(`WorldMoves`). From `RowMoves` alone follows `Advances`; from `Safe`,
`Implements`: each item implements `RemovalProtocol`.
`ReportsCorrect` has an invariant of its own, `Counted`: no copy of the batch row, in a run or in a waiting
retry, is ahead of the row, nor the row of the items. So a run that does not write its
count, because its copy has the same, finds it in the row. The number of failed items is the other way round, as it falls
from run to run while a copy may have it lower: it is right when any item failed, and
`manual_failed` shows the rest. `MoviesAreVerified`: for an order of movies (`kind = "RADARR"`)
`OnlySeenIsDeleted` holds, by the invariant `Verified` (what is past its revalidation was seen to be the
stored movie), as long as no other movie comes between the look and the deletion (`NotReplaced`; `manual_swapped`
is what happens otherwise); for a season it does not (`manual_reimport`).

`InventoryProofs`: the greatest of a set of dates is a date only if the set is
bounded, so the types of `TypeOK` do not keep themselves. The inductive invariant

    Sound == the types of TypeOK, every date at most now, /\ FormFits

bounds every date by the clock (`FormFits`: a season in a form has a row), and gives
`TypeCorrect`. Its step lemmas say once what each operator makes of a row (`ArrIsSound`,
`FromPlays`, `RequestsAreSound`, `RecomputingIsSound`, `CommittingIsSound`), and the rest
cites those. From `Sound` alone, whatever overlaps: `FreshEvidence`;
`ImportsCorrect`, with the invariant that the history, and what was read of it, reaches
back at least to the files (`HistoryReachesBack`); `WatchesCorrect`, with the invariant
that the plays stored or about to be were reported (`PlaysAreReported`). A form that
commits late can only clear a watch, which is why these need nothing about it.

    Quiet == Sound /\ FormIsCurrent

holds when `Overlap = FALSE`: a form's rows are the rows. Then rows change
in three ways only: not at all, by the recomputation of sound rows, or by a
deletion (`RowsMove`); `EligibleCorrect` follows from what a
recomputation leaves (`RecomputationDecides`). `TermsCorrect` is about the stored plays and not
about the column a watch is kept in: what a synchronization of plays makes of them in two passes, one over seasons
and one over their predecessors, is the last play that counts (`PlaybackTakesTheLast`, `TermFollowsPlays`), and
anything else leaves the watches of what is there, so the deadline, as it was (`OthersKeepWatches`,
`DeadlinesFollow`).
`ProtectionCorrect` needs that the seasons the administrator protects have rows.

`RolloutGatesProofs`: `GatesTyped`; then, for short handlers that do not overlap (`OneHandler`), two
invariants. `PermitInv` says that the copy of a handler is current in what it turns off and that what it
will make active is permitted; with it a late test or synchronization, which writes only its own columns,
can do no harm, and `ActivePermitted` holds through crashes. `DrainInv` adds that a switch-off has selected
every job that is queued when it commits; it holds until the first restart, and gives
`ModeTakesEffect` and `SwitchesTakeEffect`.

`DryRunProofs`: `DryRunTyped`; `PoliciesCorrect`, by the invariant `Saves` (every saved policy is that of a form
that was accepted), if no form has a ratio that is no number (`policy_nan` shows what one does); `SeedingCorrect`, `GatesCorrect` from it; `EligibleCorrect` and `PreviewCorrect`, which say that
`Verdicts` and the reference `Removable` agree, for recalculations that overlap with nothing
(`Pending`: what is to be committed is what the evidence of now asks for).

`TorrentEvidenceProofs`: `EvidenceTyped`; `SharedCorrect`, as a mapping is always made for all movies of a
torrent at once; `RemovedCorrect`, with the invariant `Held`: a job that is not interrupted holds the
coordinator from its revalidation to its last deletion, and what it has in its snapshot is
mapped to its movie alone.

`LibraryPairingProofs`: the inductive invariant

    IInv == TypeOK /\ OneOwner /\ LifecyclesFollow /\ PairedIsSelected
            /\ FetchedInScope /\ FormFits

adds to what the run checks the types, `FetchedInScope`: what Plex is being asked about is in scope or
among the libraries that may leave it (`Overlap`), without which a synchronization could pair anything it
fetched; and `FormFits`: what a form has loaded is still so, except of the instances whose forms wait (`Waiting`). The lemmas say once what a synchronization makes of a pairing: an instance proposes one library
(`OneProposal`), a library accepts one instance (`OneAccepted`), who is accepted is given it (`Given`), others keep
what they have or lose it (`Mapped`), and nobody keeps what is given away (`GivenAway`). From them follow
`OwnersUnique`, `LifecyclesCorrect`, `ScopeCorrect`, and the properties of a step: `ByHandStands`,
`FoundYieldsToEvidence` (which does not say that the evidence is better than that of the instance that loses),
`ClearWinnersPaired`. `ScopeExact` has no exception: if no library leaves the scope while Plex is
asked (`Overlap = {}`), what is paired is in scope; `pairing_race` is the only way to anything else.

`SchedulerProofs`: `TypeCorrect`, whose invariant is `TypeOK` itself, as it ties the coordinator to the
step the thread is at (the scheduler holds it exactly while it synchronizes); and `PassBounded`, the measure of a pass: `StepsLeft` is at most `3 * Len(Order) + 1`, each of
the scheduler's steps takes from it and nobody else adds to it. With the fairness of the thread that is the safety
part of `PassEnds`, for any number of sources.

The only assumptions are those of the modules, besides those named in a theorem: a batch has finitely many items
(`ItemsFinite`), `NoItem`, `NoOne`, `NoTorrent`, `Nobody` and `NoMovie` are not
members of the sets they stand beside, `NoLibrary` and `Gone` likewise, kinds of instances differ, `PlexMatched` is a Boolean, seasons are natural numbers,
the two retention terms positive, forms, rows and limits of the dry run have their types. The sets of
requests, administrators, retries, torrents, seasons, movies, instances, jobs and trackers are arbitrary, infinite ones included.

What is proved and not checked again by a run, because it holds for all instances: the type invariants,
`RunsAlone`, `RadarrFirst`, `TorrentsLast`, `RecordsCorrect`, `PoliciesCorrect`, `SeedingCorrect`, `ScopeExact`,
`OnlyVerified`, `MoviesAreVerified`, `OnlyStaleWritersReopen`, `FairImplements`.

Only model-checked is liveness: `DeletionResumes`, `CoordinatorIsReleased`, `MappingRecovers`, `PassEnds`,
`EverySourceIsSynced`, `SwitchOffDrainsQueue`. They rest on weak and strong fairness, whose `ENABLED` the
prover does not reach. Every invariant and every action property of a passing run has a theorem; the properties
that the code does not ensure have counterexamples only.

## 6. Findings in short

A session's copy outlives what it is a copy of: most counterexamples of section 4 are that
(`job_double_submit`, `job_switch_off`, `job_stale_snapshot`, `manual_failed`, `protection_race`, `active_stale`,
`scheduler_starved`, `pairing_race`, `pairing_late`), or of what a service has just answered (`job_swapped`, `manual_swapped`). The others are a proof that is never taken back
(`approval_revived`, `active_stale`, `season_returns`), a gate that is passed once and not
again on resumption (`manual_ungated`, `manual_reimport`, `stale_revalidation`), a step of several
commits (`mode_crash`), a query that does not see what is pending (`mapping_lost`), evidence that goes with
the row it is kept in (`reset_withdrawn`), ties dropped before they are weighed (`WinnerIsUnambiguous`), and a comparison
with what is no number (`policy_nan`).

## 7. Not modelled

- Backups: a command in a process of its own; SQLite's online backup, a check, a rename, and the removal of the
  oldest copies. It shares no state with the server.
- The login limiter, credentials and cookies: a bounded list of failures per address, cryptography and text.
- Events, workbench, presentation, settings, CLI, templates: read-only, text or append-only. Of the events,
  `DryRun` has the one use that decides something. Migrations are generated code.
- Several Plex servers, or several instances of the other services in `Inventory`. Tautulli's order of rows, which
  decides whether a play that began early and ended late is ever read, is Tautulli's.
- Parsing of answers, addresses and file names; titles, sizes and other columns nothing depends on.
- Timestamps finer than a week. The age of a revalidation is not bounded by the code and not in
  `DeletionJob`; what it costs is in `TorrentEvidence`.
- Overseerr's answer to a completed deletion is recorded by the code and decides nothing, so `SettleJob` accepts any.
  SQLite's five-second lock wait appears as `CrashRequest`: an `OperationalError` is not caught by the workflow and
  ends the request.
