----------------------------- MODULE Inventory -----------------------------
(***************************************************************************)
(* Read-only synchronization, app/services/inventory.py: what the rows     *)
(* of the database say of a series while Sonarr, Plex, Tautulli and        *)
(* Overseerr change, and what is decided from them.                        *)
(*                                                                         *)
(* sync_integration reads its service first, without a transaction, and    *)
(* then writes what it read in one; anything may happen in between.  The   *)
(* coordinator admits one synchronization at a time.  The protection form  *)
(* asks nobody: it works on copies of the rows and writes the columns it   *)
(* changed.                                                                *)
(***************************************************************************)
EXTENDS Retention, FiniteSets, Sequences

CONSTANTS
    MaxTime,      \* bound on the clock
    MaxChanges,   \* bound on what happens besides synchronization
    Overlap       \* rows may be written while a protection form is under way

ASSUME BoundsAreNumbers == MaxTime \in Nat /\ MaxChanges \in Nat
ASSUME OverlapIsBoolean == Overlap \in BOOLEAN

VARIABLES
    now,
    files,      \* Sonarr: dateAdded of the season's files
    origin,     \* Sonarr's history: the season's oldest import
    tagged,     \* Sonarr: the series carries the protected tag
    listed,     \* Plex: the seasons it lists
    history,    \* Tautulli: the finished plays, by the date they began
    asked,      \* Overseerr: the series is requested
    row,        \* the media_lifecycle rows
    played,     \* the playback rows
    cursor,     \* source_freshness.cursor of Tautulli
    request,    \* request_record.present
    guarded,    \* requester_profile.protected
    fresh,      \* the sources whose evidence is fresh
    sync,       \* the synchronization that has read its service
    form,       \* the protection form that has loaded its rows
    changes,    \* how much has happened besides synchronization
    tagSeen,    \* ghost: the tag, as last synchronized
    pinned,     \* ghost: the seasons the administrator protects
    deletedAt   \* ghost: when the application deleted the season

outside == <<files, origin, tagged, listed, history, asked>>
store   == <<row, played, cursor, request, guarded, fresh>>
ghosts  == <<tagSeen, pinned, deletedAt>>
vars    == <<now, outside, store, sync, form, changes, ghosts>>

Sources == {"SONARR", "PLEX", "TAUTULLI", "OVERSEERR"}

NoSync == [src |-> "none"]
NoForm == [on |-> "none"]

\* A season no synchronization has seen has no row.
NoRow == [state |-> "NONE", imported |-> NoDate, watch |-> NoDate,
          deadline |-> NoDate, matched |-> FALSE, sources |-> {},
          decision |-> "NONE"]
HasRow(s) == row[s].state # "NONE"

\* The services have run for a while when the application is installed.
Init ==
    /\ now = 1
    /\ \E last \in Seasons :
         files = [s \in Seasons |-> IF s <= last THEN now ELSE NoDate]
    /\ origin = files
    /\ listed = {s \in Seasons : files[s] # NoDate}
    /\ tagged \in BOOLEAN /\ history = <<>> /\ asked = TRUE
    /\ row = [s \in Seasons |-> NoRow]
    /\ played = {} /\ cursor = 0
    /\ request = FALSE /\ guarded = FALSE /\ fresh = {}
    /\ sync = NoSync /\ form = NoForm /\ changes = 0
    /\ tagSeen = FALSE /\ pinned = {}
    /\ deletedAt = [s \in Seasons |-> NoDate]

-----------------------------------------------------------------------------
(***************************************************************************)
(* What a synchronization makes of the rows.                               *)
(***************************************************************************)
\* recompute_decisions drops a watch that is older than the import.
Cleared(r) ==
    IF r.watch # NoDate /\ r.imported # NoDate /\ r.watch < r.imported
    THEN [r EXCEPT !.watch = NoDate] ELSE r

\* Mutant of Recomputed: one fresh source is enough.
MutFreshEnough(rows, sources) ==
    LET cleared == [s \in Seasons |-> Cleared(rows[s])]
        dated   == [s \in Seasons |->
                      [cleared[s] EXCEPT !.deadline = Deadline(cleared, s)]]
    IN  [s \in Seasons |->
           IF rows[s].state = "NONE" THEN rows[s]
           ELSE [dated[s] EXCEPT !.decision = Decide(dated[s], sources # {}, now)]]

\* recompute_decisions: every deadline and every decision.
Recomputed(rows, sources) ==
    LET cleared == [s \in Seasons |-> Cleared(rows[s])]
        dated   == [s \in Seasons |->
                      [cleared[s] EXCEPT !.deadline = Deadline(cleared, s)]]
    IN  [s \in Seasons |->
           IF rows[s].state = "NONE" THEN rows[s]
           ELSE [dated[s] EXCEPT !.decision =
                   Decide(dated[s], sources = Sources, now)]]

\* Mutant of AfterArr: the import date is that of the files.
MutUpgradeIsImport(r, p, s) ==
    [r EXCEPT !.state = IF p.files[s] # NoDate THEN "ACTIVE" ELSE "MISSING",
              !.imported = p.files[s],
              !.sources = (@ \ {"ARR_TAG"})
                            \cup IF p.tagged THEN {"ARR_TAG"} ELSE {}]

\* Mutant of AfterArr: what Sonarr says replaces every other reason.
MutTagReplaces(r, p, s) ==
    [r EXCEPT !.state = IF p.files[s] # NoDate THEN "ACTIVE" ELSE "MISSING",
              !.imported = IF @ # NoDate THEN @
                           ELSE Earliest({p.files[s], p.origin[s]} \ {NoDate}),
              !.sources = IF p.tagged THEN {"ARR_TAG"} ELSE {}]

\* sync_arr, for the row of a season.
AfterArr(r, p, s) ==
    [r EXCEPT !.state = IF p.files[s] # NoDate THEN "ACTIVE" ELSE "MISSING",
              !.imported = IF @ # NoDate THEN @
                           ELSE Earliest({p.files[s], p.origin[s]} \ {NoDate}),
              !.sources = (@ \ {"ARR_TAG"})
                            \cup IF p.tagged THEN {"ARR_TAG"} ELSE {}]

\* Mutant of AfterPlayback: a watch of any season counts.
MutSeriesWatch(r, plays, s) ==
    [r EXCEPT !.watch = IF r.matched /\ r.state = "ACTIVE" /\ r.imported # NoDate
                        THEN Latest({p.at : p \in {p \in plays : p.at >= r.imported}})
                        ELSE NoDate]

\* _apply_playback, for the row of a season.
AfterPlayback(r, plays, s) ==
    LET direct == IF r.matched
                  THEN Latest({p.at : p \in {p \in plays : p.season = s}})
                  ELSE NoDate
    IN  [r EXCEPT !.watch =
           IF /\ r.state = "ACTIVE" /\ direct # NoDate
              /\ r.imported # NoDate /\ direct >= r.imported
           THEN direct ELSE NoDate]

\* _apply_request_protection, for a row.
AfterRequests(r, requested) ==
    [r EXCEPT !.sources = (@ \ {"PROTECTED_REQUESTER"})
                \cup IF requested THEN {"PROTECTED_REQUESTER"} ELSE {}]

\* What the synchronization of p.src leaves in the rows.
Synchronized(p) ==
    CASE p.src = "SONARR" ->
           [s \in Seasons |-> AfterArr(row[s], p, s)]
      [] p.src = "PLEX" ->
           [s \in Seasons |->
              AfterPlayback([row[s] EXCEPT !.matched = HasRow(s) /\ s \in p.listed],
                            played, s)]
      [] p.src = "TAUTULLI" ->
           [s \in Seasons |-> AfterPlayback(row[s], played \cup p.plays, s)]
      [] p.src = "OVERSEERR" ->
           [s \in Seasons |->
              IF HasRow(s) THEN AfterRequests(row[s], p.asked /\ guarded)
              ELSE row[s]]

-----------------------------------------------------------------------------
(***************************************************************************)
(* Synchronizations: read the service, then write.                         *)
(***************************************************************************)
\* Something happens besides synchronization and the passage of time.
Happens == changes < MaxChanges /\ changes' = changes + 1

\* Unless Overlap, no row is written between a form's load and its commit.
MayWrite == Overlap \/ form = NoForm

\* The plays Tautulli returns from row number n on.
PlaysFrom(n) == {history[i] : i \in {i \in DOMAIN history : i > n}}

Read(src) ==
    CASE src = "SONARR"    -> [src |-> src, files |-> files, origin |-> origin,
                               tagged |-> tagged]
      [] src = "PLEX"      -> [src |-> src, listed |-> listed]
      [] src = "TAUTULLI"  -> [src |-> src, plays |-> PlaysFrom(cursor),
                               cursor |-> IF cursor > Len(history) THEN cursor
                                          ELSE Len(history)]
      [] src = "OVERSEERR" -> [src |-> src, asked |-> asked]

Fetch(src) ==
    /\ sync = NoSync
    /\ sync' = Read(src)
    /\ UNCHANGED <<now, outside, store, form, changes, ghosts>>

\* The transaction that ends with status FRESH.
Apply ==
    /\ sync # NoSync /\ MayWrite
    /\ row' = Recomputed(Synchronized(sync), fresh \cup {sync.src})
    /\ fresh' = fresh \cup {sync.src}
    /\ IF sync.src = "TAUTULLI"
       THEN played' = played \cup sync.plays /\ cursor' = sync.cursor
       ELSE UNCHANGED <<played, cursor>>
    /\ request' = IF sync.src = "OVERSEERR" THEN sync.asked ELSE request
    /\ tagSeen' = IF sync.src = "SONARR" THEN sync.tagged ELSE tagSeen
    /\ sync' = NoSync
    /\ UNCHANGED <<now, outside, guarded, form, changes, pinned, deletedAt>>

\* The service does not answer, or what it answered cannot be stored: the
\* savepoint is rolled back and the source is in ERROR.
SyncFails(src) ==
    /\ Happens
    /\ sync = NoSync \/ sync.src = src
    /\ MayWrite
    /\ fresh' = fresh \ {src}
    /\ row' = Recomputed(row, fresh')
    /\ sync' = NoSync
    /\ UNCHANGED <<now, outside, played, cursor, request, guarded, form, ghosts>>

-----------------------------------------------------------------------------
(***************************************************************************)
(* The administrator.                                                      *)
(***************************************************************************)
\* The selection of the protection form is loaded, with everything the
\* recomputation is going to look at.
LoadForm(on, chosen) ==
    /\ Happens
    /\ form = NoForm
    /\ chosen # {} /\ \A s \in chosen : HasRow(s)
    /\ form' = [on |-> on, chosen |-> chosen, row |-> row, fresh |-> fresh]
    /\ UNCHANGED <<now, outside, store, sync, ghosts>>

\* A column is written when it differs from the value that was loaded.
Write(new, loaded, stored) == IF new = loaded THEN stored ELSE new

\* set_manual_protection, for the loaded row of a season.
Toggled(f, s) ==
    IF s \notin f.chosen THEN f.row[s]
    ELSE [f.row[s] EXCEPT !.sources = IF f.on = "protect"
                                      THEN @ \cup {"MANUAL_SELECTION"}
                                      ELSE @ \ {"MANUAL_SELECTION"}]

CommitForm ==
    /\ form # NoForm
    /\ LET new == Recomputed([s \in Seasons |-> Toggled(form, s)], form.fresh)
       IN  row' = [s \in Seasons |->
             [row[s] EXCEPT
                !.watch    = Write(new[s].watch, form.row[s].watch, @),
                !.deadline = Write(new[s].deadline, form.row[s].deadline, @),
                !.sources  = Write(new[s].sources, form.row[s].sources, @),
                !.decision = Write(new[s].decision, form.row[s].decision, @)]]
    /\ pinned' = IF form.on = "protect" THEN pinned \cup form.chosen
                 ELSE pinned \ form.chosen
    /\ form' = NoForm
    /\ UNCHANGED <<now, outside, played, cursor, request, guarded, fresh, sync,
                   changes, tagSeen, deletedAt>>

\* set_requester_protection; the flush of the profile takes the write lock
\* before the rows are read.  The requester has other requests, so there is
\* a profile before this series is requested.
ToggleRequester ==
    /\ Happens
    /\ MayWrite
    /\ guarded' = ~guarded
    /\ row' = Recomputed([s \in Seasons |->
                            IF HasRow(s) THEN AfterRequests(row[s], request /\ guarded')
                            ELSE row[s]], fresh)
    /\ UNCHANGED <<now, outside, played, cursor, request, fresh, sync, form, ghosts>>

\* A manual batch deletes the season; it holds the coordinator.
DeleteSeason(s) ==
    /\ Happens
    /\ sync = NoSync /\ MayWrite
    /\ row[s].state = "ACTIVE"
    /\ files' = [files EXCEPT ![s] = NoDate]
    /\ row' = [row EXCEPT ![s].state = "DELETED", ![s].decision = "DELETED"]
    /\ deletedAt' = [deletedAt EXCEPT ![s] = now]
    /\ UNCHANGED <<now, origin, tagged, listed, history, asked, played, cursor,
                   request, guarded, fresh, sync, form, tagSeen, pinned>>

\* The process dies: what was read or loaded is lost.
Crash ==
    /\ Happens
    /\ sync # NoSync \/ form # NoForm
    /\ sync' = NoSync /\ form' = NoForm
    /\ UNCHANGED <<now, outside, store, ghosts>>

-----------------------------------------------------------------------------
(***************************************************************************)
(* Time and the outside.                                                   *)
(***************************************************************************)
\* A week is longer than any freshness window.
Tick ==
    /\ now < MaxTime
    /\ now' = now + 1 /\ fresh' = {}
    /\ UNCHANGED <<outside, row, played, cursor, request, guarded, sync, form,
                   changes, ghosts>>

Untouched == UNCHANGED <<now, store, sync, form, ghosts>>

Import(s) ==
    /\ Happens
    /\ files[s] = NoDate
    /\ files' = [files EXCEPT ![s] = now]
    /\ origin' = [origin EXCEPT ![s] = IF @ = NoDate THEN now ELSE @]
    /\ Untouched /\ UNCHANGED <<tagged, listed, history, asked>>

QualityUpgrade(s) ==
    /\ Happens
    /\ files[s] # NoDate /\ files[s] < now
    /\ files' = [files EXCEPT ![s] = now]
    /\ Untouched /\ UNCHANGED <<origin, tagged, listed, history, asked>>

FilesVanish(s) ==
    /\ Happens
    /\ files[s] # NoDate
    /\ files' = [files EXCEPT ![s] = NoDate]
    /\ Untouched /\ UNCHANGED <<origin, tagged, listed, history, asked>>

TagChanges ==
    /\ Happens
    /\ tagged' = ~tagged
    /\ Untouched /\ UNCHANGED <<files, origin, listed, history, asked>>

PlexScans ==
    /\ Happens
    /\ listed' = {s \in Seasons : files[s] # NoDate}
    /\ Untouched /\ UNCHANGED <<files, origin, tagged, history, asked>>

\* A play of this week finishes.  Tautulli orders by the date a play began, so
\* the new row may come before rows of plays that finished earlier.
PlayFinishes(s) ==
    /\ Happens
    /\ s \in listed
    /\ \E k \in 0 .. Len(history) :
         /\ \A i \in 1 .. k : history[i].at <= now
         /\ \A i \in (k + 1) .. Len(history) : history[i].at >= now
         /\ history' = SubSeq(history, 1, k) \o <<[season |-> s, at |-> now]>>
                         \o SubSeq(history, k + 1, Len(history))
    /\ Untouched /\ UNCHANGED <<files, origin, tagged, listed, asked>>

RequestChanges ==
    /\ Happens
    /\ asked' = ~asked
    /\ Untouched /\ UNCHANGED <<files, origin, tagged, listed, history>>

Next ==
    \/ \E src \in Sources : Fetch(src) \/ SyncFails(src)
    \/ Apply
    \/ \E on \in {"protect", "unprotect"}, chosen \in SUBSET Seasons : LoadForm(on, chosen)
    \/ CommitForm \/ ToggleRequester \/ Crash \/ Tick
    \/ TagChanges \/ PlexScans \/ RequestChanges
    \/ \E s \in Seasons : DeleteSeason(s) \/ Import(s) \/ QualityUpgrade(s)
                            \/ FilesVanish(s) \/ PlayFinishes(s)

Spec == Init /\ [][Next]_vars

-----------------------------------------------------------------------------
(***************************************************************************)
(* Properties.                                                             *)
(***************************************************************************)
States    == {"NONE", "ACTIVE", "MISSING", "DELETED"}
Reasons   == {"ARR_TAG", "PROTECTED_REQUESTER", "MANUAL_SELECTION"}
Decisions == {"NONE", "NOT_IN_LIBRARY", "KEEP_PROTECTED", "BLOCKED_STALE",
              "BLOCKED_UNKNOWN", "KEEP_RETAINED", "REVIEW_ELIGIBLE", "DELETED"}
Row  == [state : States, imported : Nat, watch : Nat, deadline : Nat,
         matched : BOOLEAN, sources : SUBSET Reasons, decision : Decisions]
Play == [season : Seasons, at : Nat]

Payload ==
    {NoSync}
    \cup [src : {"SONARR"}, files : [Seasons -> Nat], origin : [Seasons -> Nat],
          tagged : BOOLEAN]
    \cup [src : {"PLEX"}, listed : SUBSET Seasons]
    \cup [src : {"TAUTULLI"}, plays : SUBSET Play, cursor : Nat]
    \cup [src : {"OVERSEERR"}, asked : BOOLEAN]

Form ==
    {NoForm}
    \cup [on : {"protect", "unprotect"}, chosen : SUBSET Seasons,
          row : [Seasons -> Row], fresh : SUBSET Sources]

\* Every variable has its type, and a season without a row has no evidence.
TypeOK ==
    /\ now \in Nat
    /\ files \in [Seasons -> Nat] /\ origin \in [Seasons -> Nat]
    /\ tagged \in BOOLEAN /\ listed \subseteq Seasons /\ asked \in BOOLEAN
    /\ history \in Seq(Play)
    /\ row \in [Seasons -> Row]
    /\ \A s \in Seasons : HasRow(s) \/ row[s] = NoRow
    /\ played \subseteq Play /\ cursor \in Nat
    /\ request \in BOOLEAN /\ guarded \in BOOLEAN /\ fresh \subseteq Sources
    /\ sync \in Payload /\ form \in Form /\ changes \in Nat
    /\ tagSeen \in BOOLEAN /\ pinned \subseteq Seasons
    /\ deletedAt \in [Seasons -> Nat]

\* Every reason to protect a season outlives the synchronizations that know
\* nothing of it and goes with its own cause: the tag with the tag, the
\* administrator's with the administrator, the requester's at the latest with the
\* request ("No weaker policy may shorten a stronger protection silently",
\* build sheet 14.5; inventory.py 178-209, 965-1056).
ProtectionStands ==
    \A s \in Seasons : HasRow(s) =>
        /\ "ARR_TAG" \in row[s].sources <=> tagSeen
        /\ "MANUAL_SELECTION" \in row[s].sources <=> s \in pinned
        /\ "PROTECTED_REQUESTER" \in row[s].sources => request /\ guarded

\* A row knows the first import of its season, however often the files are
\* upgraded, and whenever the row is first written ("A quality upgrade cannot
\* reset a title's original import date", build sheet 6; inventory.py 383, 449).
OriginalImport ==
    \A s \in Seasons :
        /\ row[s].imported \in {NoDate, origin[s]}
        /\ row[s].state = "ACTIVE" => row[s].imported # NoDate

\* The stored plays that count for a season: of it or of an earlier one, of a
\* season that is there and that Plex lists, begun after both were imported.
CountsFor(rows, plays, s) ==
    {p \in plays : /\ p.season <= s
                   /\ rows[p.season].state = "ACTIVE" /\ rows[p.season].matched
                   /\ rows[p.season].imported # NoDate
                   /\ p.at >= rows[p.season].imported /\ p.at >= rows[s].imported}

\* A synchronization of Plex or Tautulli dates every season that is there from
\* the last play, by anyone, of the season or of an earlier one that is there,
\* and from the import when there is none; nothing else that happens to a
\* season while it is there (upgrades, losses of other seasons, failures,
\* protections, requests) moves its deadline ("reset every currently imported
\* season greater than N", build sheet 14.3; inventory.py 581-658, 1330-1370).
WatchResetsLaterSeasons ==
    [][\A s \in Seasons : row'[s].state = "ACTIVE" =>
         IF Apply /\ sync.src \in {"PLEX", "TAUTULLI"}
         THEN LET plays == CountsFor(row', played', s)
              IN  row'[s].deadline =
                    IF plays = {} THEN row'[s].imported + NeverWatchedFor
                    ELSE Latest({p.at : p \in plays}) + WatchedFor
         ELSE row[s].state = "ACTIVE" => row'[s].deadline = row[s].deadline]_vars

\* A reset that an earlier season's watch gave stands for as long as the season
\* it was given to is there: the watch is of a season that may go ("Every
\* meaningful playback by any user resets the watched timer ... reset every
\* currently imported season greater than N", build sheet 14.3).
ResetsStand ==
    [][\A s, t \in Seasons :
         (/\ t < s /\ row[s].state = "ACTIVE" /\ row'[s].state = "ACTIVE"
          /\ row'[s].imported = row[s].imported
          /\ row[t].watch # NoDate /\ row[t].watch >= row[s].imported)
         => row'[s].deadline >= row[t].watch + WatchedFor]_vars

\* A watch that counts is a play Tautulli reported of that season, not older
\* than the import, whatever Plex and Sonarr said in between (inventory.py
\* 581-613).
WatchesAreReal ==
    \A s \in Seasons : row[s].watch # NoDate =>
        /\ [season |-> s, at |-> row[s].watch] \in played \cap PlaysFrom(0)
        /\ row[s].imported # NoDate /\ row[s].watch >= row[s].imported

\* What may be reviewed for deletion is there, unprotected and past its
\* deadline: also after the application deleted it, after a failed
\* synchronization and after a form (inventory.py 210-241, 1330-1370).
EligibleIsExpired ==
    \A s \in Seasons : row[s].decision = "REVIEW_ELIGIBLE" =>
        /\ row[s].state = "ACTIVE" /\ row[s].sources = {}
        /\ row[s].imported # NoDate
        /\ NoDate < row[s].deadline /\ row[s].deadline <= now

\* Nothing becomes eligible on stale evidence: every source was fresh when
\* the step, or the form that it commits, looked ("Integration failures, stale
\* data ... fail closed", build sheet 6; inventory.py 1330-1370).
OnlyFreshEvidenceCondemns ==
    [][\A s \in Seasons :
         row[s].decision # "REVIEW_ELIGIBLE" /\ row'[s].decision = "REVIEW_ELIGIBLE"
           => \/ fresh' = Sources
              \/ form # NoForm /\ form' = NoForm /\ form.fresh = Sources]_vars

\* A season that the application deleted and that came back has a term of its
\* own ("When deleted media returns, create a new lifecycle ... Never
\* reactivate the deleted row", build sheet 12.4).
ReturnedSeasonHasATerm ==
    \A s \in Seasons :
        row[s].decision = "REVIEW_ELIGIBLE" /\ deletedAt[s] # NoDate =>
          \/ now >= deletedAt[s] + WatchedFor
          \/ now >= deletedAt[s] + NeverWatchedFor

\* A season whose series carries the protected tag is protected, whatever
\* becomes of its other protections ("No weaker policy may shorten a stronger
\* protection silently", build sheet 14.5).
TagProtects == \A s \in Seasons : HasRow(s) /\ tagSeen => row[s].sources # {}

\* Nothing that a protected requester asked for, as stored, may be reviewed
\* for deletion ("AND no permanent/manual/legacy/requester protection
\* applies", build sheet 18).
RequesterProtects ==
    \A s \in Seasons : row[s].decision = "REVIEW_ELIGIBLE" => ~(request /\ guarded)
=============================================================================
