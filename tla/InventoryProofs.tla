-------------------------- MODULE InventoryProofs --------------------------
(***************************************************************************)
(* What the rows promise, for every set of seasons, every retention policy *)
(* and any number of changes: proofs of the safety of Inventory.           *)
(***************************************************************************)
EXTENDS Inventory, TLAPS, WellFoundedInduction

-----------------------------------------------------------------------------
(***************************************************************************)
(* Dates.                                                                  *)
(***************************************************************************)
\* A set of natural numbers that is not empty has a least element.
LEMMA LeastNatural ==
    ASSUME NEW S \in SUBSET Nat, S # {}
    PROVE  \E d \in S : \A e \in S : d <= e
<1>1. IsWellFoundedOn(OpToRel(<, Nat), Nat)
  BY NatLessThanWellFounded
<1> DEFINE R == {ss \in Nat \X Nat : ss[1] < ss[2]}
<1>0. OpToRel(<, Nat) = R
  BY DEF OpToRel
<1>4. IsWellFoundedOn(R, Nat)
  BY <1>0, <1>1
<1> HIDE DEF R
<1>2. \E x \in S : \A y \in S : ~ (<<y, x>> \in R)
  BY <1>4, WFMin
<1>3. PICK d \in S : \A e \in S : <<e, d>> \notin R
  BY <1>2
<1>5. ASSUME NEW e \in S PROVE d <= e
  <2>1. <<e, d>> \in R <=> e < d
    BY DEF R
  <2> QED
    BY <1>3, <2>1
<1> QED
  BY <1>3, <1>5

\* ... and, when it is bounded, a greatest.
LEMMA GreatestNatural ==
    ASSUME NEW S \in SUBSET Nat, S # {}, NEW b \in Nat, \A d \in S : d <= b
    PROVE  \E d \in S : \A e \in S : e <= d
<1> DEFINE T == {b - d : d \in S}
<1>1. T \in SUBSET Nat /\ T # {}
  <2>1. \A d \in S : b - d \in Nat
    OBVIOUS
  <2>2. T \in SUBSET Nat
    BY <2>1
  <2>3. PICK d \in S : TRUE
    OBVIOUS
  <2>4. b - d \in T
    BY <2>3
  <2> QED
    BY <2>2, <2>4
<1>2. PICK m \in T : \A n \in T : m <= n
  BY <1>1, LeastNatural
<1>3. PICK d \in S : m = b - d
  BY <1>2
<1>4. \A e \in S : e <= d
  <2> TAKE e \in S
  <2>1. b - e \in T
    OBVIOUS
  <2>2. m <= b - e
    BY <1>2, <2>1
  <2> QED
    BY <1>3, <2>2
<1>5. QED
  BY <1>3, <1>4

\* Latest of bounded dates: the greatest of them, or none.
LEMMA LatestIsGreatest ==
    ASSUME NEW n \in Nat, NEW dates \in SUBSET (0 .. n)
    PROVE  /\ dates = {} => Latest(dates) = NoDate
           /\ dates # {} => /\ Latest(dates) \in dates
                            /\ \A e \in dates : e <= Latest(dates)
           /\ Latest(dates) \in 0 .. n
<1>1. CASE dates = {}
  BY <1>1 DEF Latest, NoDate
<1>2. CASE dates # {}
  <2>0. dates \in SUBSET Nat /\ \A d \in dates : d <= n
    OBVIOUS
  <2>1. \E d \in dates : \A e \in dates : e <= d
    BY <1>2, <2>0, GreatestNatural
  <2>2. Latest(dates) = CHOOSE d \in dates : \A e \in dates : e <= d
    BY <1>2 DEF Latest
  <2> QED
    BY <1>2, <2>1, <2>2
<1> QED
  BY <1>1, <1>2

\* What sync_arr takes for the first import, when the history holds it.
LEMMA EarliestOfTwo ==
    ASSUME NEW n \in Nat, NEW f \in 0 .. n, NEW o \in 0 .. n
    PROVE  /\ Earliest({f, o} \ {NoDate}) \in 0 .. n
           /\ f = NoDate /\ o = NoDate => Earliest({f, o} \ {NoDate}) = NoDate
           /\ o # NoDate /\ (f # NoDate => o <= f) => Earliest({f, o} \ {NoDate}) = o
<1> DEFINE D == {f, o} \ {NoDate}
<1>1. CASE D = {}
  BY <1>1 DEF Earliest, NoDate
<1>2. CASE D # {}
  <2>1. D \in SUBSET Nat
    OBVIOUS
  <2>2. \E d \in D : \A e \in D : d <= e
    BY <1>2, <2>1, LeastNatural
  <2>3. Earliest(D) = CHOOSE d \in D : \A e \in D : d <= e
    BY <1>2 DEF Earliest
  <2>4. Earliest(D) \in D /\ \A e \in D : Earliest(D) <= e
    BY <2>2, <2>3
  <2> QED
    BY <2>4 DEF NoDate
<1> QED
  BY <1>1, <1>2

\* A deadline is a date, if the watch and the import are.
LEMMA RetentionDeadlineIsDate ==
    ASSUME NEW i \in Nat, NEW w \in Nat
    PROVE  retention_deadline(i, w) \in Nat
BY PolicyIsPositive DEF retention_deadline, NoDate

-----------------------------------------------------------------------------
(***************************************************************************)
(* Types.  The types of TypeOK are not kept by themselves: the greatest of *)
(* a set of dates is a date only if the set is bounded.  Sound bounds      *)
(* every date by the clock.                                                *)
(***************************************************************************)
RowAt(n) == [state : States, imported : 0 .. n, watch : 0 .. n, deadline : Nat,
             matched : BOOLEAN, sources : SUBSET Reasons, decision : Decisions]
Rows(n) == {rows \in [Seasons -> RowAt(n)] :
              \A s \in Seasons : rows[s].state = "NONE" => rows[s] = NoRow}
PlayAt(n) == [season : Seasons, at : 0 .. n]

PayloadAt(n) ==
    {NoSync}
    \cup [src : {"SONARR"}, files : [Seasons -> 0 .. n], origin : [Seasons -> 0 .. n],
          tagged : BOOLEAN]
    \cup [src : {"PLEX"}, listed : SUBSET Seasons]
    \cup [src : {"TAUTULLI"}, plays : SUBSET PlayAt(n), cursor : Nat]
    \cup [src : {"OVERSEERR"}, asked : BOOLEAN]

FormAt(n) ==
    {NoForm}
    \cup [on : {"protect", "unprotect"}, chosen : SUBSET Seasons,
          row : Rows(n), fresh : SUBSET Sources]

\* A season that is in a form has a row, then and now.
FormFits ==
    form # NoForm => \A s \in Seasons :
        /\ form.row[s].state # "NONE" => HasRow(s)
        /\ s \in form.chosen => form.row[s].state # "NONE"

Sound ==
    /\ now \in Nat
    /\ files \in [Seasons -> 0 .. now] /\ origin \in [Seasons -> 0 .. now]
    /\ tagged \in BOOLEAN /\ listed \subseteq Seasons /\ asked \in BOOLEAN
    /\ history \in Seq(PlayAt(now))
    /\ row \in Rows(now)
    /\ played \subseteq PlayAt(now) /\ cursor \in Nat
    /\ request \in BOOLEAN /\ guarded \in BOOLEAN /\ fresh \subseteq Sources
    /\ sync \in PayloadAt(now) /\ form \in FormAt(now) /\ changes \in Nat
    /\ tagSeen \in BOOLEAN /\ pinned \subseteq Seasons
    /\ deletedAt \in [Seasons -> 0 .. now]
    /\ FormFits

LEMMA SoundIsTyped == Sound => TypeOK
<1> SUFFICES ASSUME Sound PROVE TypeOK
  OBVIOUS
<1>0. now \in Nat /\ 0 .. now \subseteq Nat
  BY DEF Sound
<1>1. RowAt(now) \subseteq Row
  BY <1>0 DEF RowAt, Row
<1>2. Rows(now) \subseteq [Seasons -> Row]
  BY <1>1 DEF Rows
<1>3. PlayAt(now) \subseteq Play
  BY <1>0 DEF PlayAt, Play
<1>4. history \in Seq(Play)
  <2>1. history \in Seq(PlayAt(now))
    BY DEF Sound
  <2> QED
    BY <1>3, <2>1
<1>5. sync \in Payload
  <2>1. sync \in PayloadAt(now)
    BY DEF Sound
  <2>2. [Seasons -> 0 .. now] \subseteq [Seasons -> Nat]
    BY <1>0
  <2> QED
    BY <1>3, <2>1, <2>2 DEF PayloadAt, Payload
<1>6. form \in Form
  BY <1>2 DEF Sound, FormAt, Form
<1>7. \A s \in Seasons : HasRow(s) \/ row[s] = NoRow
  BY DEF Sound, Rows, HasRow
<1> QED
  BY <1>0, <1>2, <1>3, <1>4, <1>5, <1>6, <1>7 DEF Sound, TypeOK

\* What is sound stays sound as time passes.
LEMMA LaterIsSound ==
    ASSUME NEW n \in Nat
    PROVE  /\ 0 .. n \subseteq 0 .. (n + 1)
           /\ Rows(n) \subseteq Rows(n + 1) /\ PlayAt(n) \subseteq PlayAt(n + 1)
           /\ PayloadAt(n) \subseteq PayloadAt(n + 1) /\ FormAt(n) \subseteq FormAt(n + 1)
<1>1. 0 .. n \subseteq 0 .. (n + 1)
  OBVIOUS
<1>2. RowAt(n) \subseteq RowAt(n + 1)
  BY <1>1 DEF RowAt
<1>3. Rows(n) \subseteq Rows(n + 1)
  BY <1>2 DEF Rows
<1>4. PlayAt(n) \subseteq PlayAt(n + 1)
  BY <1>1 DEF PlayAt
<1>5. [Seasons -> 0 .. n] \subseteq [Seasons -> 0 .. (n + 1)]
  BY <1>1
<1>6. PayloadAt(n) \subseteq PayloadAt(n + 1)
  BY <1>4, <1>5 DEF PayloadAt
<1>7. FormAt(n) \subseteq FormAt(n + 1)
  BY <1>3 DEF FormAt
<1> QED
  BY <1>1, <1>3, <1>4, <1>6, <1>7

-----------------------------------------------------------------------------
(***************************************************************************)
(* The operators that make new rows out of rows.                           *)
(***************************************************************************)
ClearedRows(rows) == [s \in Seasons |-> Cleared(rows[s])]

\* Clearing takes watches away, and only those older than the import.
LEMMA ClearingIsSound ==
    ASSUME NEW n \in Nat, NEW rows \in [Seasons -> RowAt(n)]
    PROVE  /\ ClearedRows(rows) \in [Seasons -> RowAt(n)]
           /\ \A s \in Seasons :
                LET r == ClearedRows(rows)[s]
                IN  /\ r = [rows[s] EXCEPT !.watch = r.watch]
                    /\ r.watch \in {rows[s].watch, NoDate}
                    /\ r.watch # NoDate /\ r.imported # NoDate => r.watch >= r.imported
<1> SUFFICES ASSUME NEW s \in Seasons
             PROVE  /\ Cleared(rows[s]) \in RowAt(n)
                    /\ LET r == Cleared(rows[s])
                       IN  /\ r = [rows[s] EXCEPT !.watch = r.watch]
                           /\ r.watch \in {rows[s].watch, NoDate}
                           /\ r.watch # NoDate /\ r.imported # NoDate
                                => r.watch >= r.imported
  BY DEF ClearedRows
<1>1. rows[s] \in RowAt(n)
  OBVIOUS
<1> QED
  BY <1>1 DEF Cleared, RowAt, NoDate

\* The dates LatestPrior looks at.
PriorDates(rows, s) == {rows[t].watch : t \in {t \in Seasons : t <= s}} \ {NoDate}

LEMMA PriorIsDate ==
    ASSUME NEW n \in Nat, NEW rows \in [Seasons -> RowAt(n)], NEW s \in Seasons
    PROVE  /\ PriorDates(rows, s) \in SUBSET (0 .. n)
           /\ LatestPrior(rows, s) = Latest(PriorDates(rows, s))
           /\ LatestPrior(rows, s) \in 0 .. n
<1>1. PriorDates(rows, s) \in SUBSET (0 .. n)
  BY DEF PriorDates, RowAt
<1>2. LatestPrior(rows, s) = Latest(PriorDates(rows, s))
  BY DEF LatestPrior, PriorDates
<1> QED
  BY <1>1, <1>2, LatestIsGreatest

LEMMA DeadlineIsDate ==
    ASSUME NEW n \in Nat, NEW rows \in [Seasons -> RowAt(n)], NEW s \in Seasons
    PROVE  Deadline(rows, s) \in Nat
<1>1. rows[s].imported \in Nat /\ rows[s].watch \in Nat
  BY DEF RowAt
<1>2. EffectiveWatch(rows, s) \in Nat
  BY <1>1, PriorIsDate DEF EffectiveWatch
<1> QED
  BY <1>1, <1>2, RetentionDeadlineIsDate DEF Deadline, NoDate

LEMMA DecisionIsTyped ==
    ASSUME NEW r, NEW f, NEW t
    PROVE  Decide(r, f, t) \in Decisions
BY DEF Decide, Decisions

\* A row with its deadline, before the decision.
DatedRow(rows, s) ==
    [ClearedRows(rows)[s] EXCEPT !.deadline = Deadline(ClearedRows(rows), s)]

\* The rows recompute_decisions leaves.
LEMMA RecomputedRow ==
    ASSUME NEW rows, NEW sources, NEW s \in Seasons
    PROVE  Recomputed(rows, sources)[s] =
             IF rows[s].state = "NONE" THEN rows[s]
             ELSE [DatedRow(rows, s) EXCEPT !.decision =
                     Decide(DatedRow(rows, s), sources = Sources, now)]
BY DEF Recomputed, ClearedRows, DatedRow

LEMMA RecomputedIsFunction ==
    ASSUME NEW rows, NEW sources
    PROVE  Recomputed(rows, sources) =
             [s \in Seasons |-> Recomputed(rows, sources)[s]]
BY DEF Recomputed

\* recompute_decisions touches nothing but watch, deadline and decision.
LEMMA RecomputingIsSound ==
    ASSUME NEW n \in Nat, NEW rows \in Rows(n), NEW sources
    PROVE  /\ Recomputed(rows, sources) \in Rows(n)
           /\ \A s \in Seasons :
                LET r == Recomputed(rows, sources)[s]
                IN  /\ r.state = rows[s].state /\ r.imported = rows[s].imported
                    /\ r.matched = rows[s].matched /\ r.sources = rows[s].sources
                    /\ r.watch \in {rows[s].watch, NoDate}
<1>0. rows \in [Seasons -> RowAt(n)]
  BY DEF Rows
<1>1. ASSUME NEW s \in Seasons
      PROVE  LET r == Recomputed(rows, sources)[s]
             IN  /\ r \in RowAt(n)
                 /\ r.state = rows[s].state /\ r.imported = rows[s].imported
                 /\ r.matched = rows[s].matched /\ r.sources = rows[s].sources
                 /\ r.watch \in {rows[s].watch, NoDate}
                 /\ rows[s].state = "NONE" => r = rows[s]
  <2> DEFINE c == ClearedRows(rows)
             d == Deadline(c, s)
             e == Decide(DatedRow(rows, s), sources = Sources, now)
  <2>1. c \in [Seasons -> RowAt(n)] /\ c[s] \in RowAt(n)
    BY <1>0, ClearingIsSound
  <2>2. c[s] = [rows[s] EXCEPT !.watch = c[s].watch] /\ c[s].watch \in {rows[s].watch, NoDate}
    BY <1>0, ClearingIsSound
  <2>3. d \in Nat
    BY <2>1, DeadlineIsDate
  <2>4. e \in Decisions
    BY DecisionIsTyped
  <2>5. Recomputed(rows, sources)[s] =
          IF rows[s].state = "NONE" THEN rows[s]
          ELSE [DatedRow(rows, s) EXCEPT !.decision = e]
    BY RecomputedRow
  <2>6. rows[s] \in RowAt(n)
    BY <1>0
  <2>9. DatedRow(rows, s) = [c[s] EXCEPT !.deadline = d]
    BY DEF DatedRow
  <2> HIDE DEF c, d, e
  <2>7. CASE rows[s].state = "NONE"
    BY <2>5, <2>6, <2>7
  <2>8. CASE rows[s].state # "NONE"
    <3>1. Recomputed(rows, sources)[s] =
            [[c[s] EXCEPT !.deadline = d] EXCEPT !.decision = e]
      BY <2>5, <2>8, <2>9
    <3> QED
      BY <3>1, <2>1, <2>2, <2>3, <2>4, <2>6, <2>8 DEF RowAt
  <2> QED
    BY <2>7, <2>8
<1>2. Recomputed(rows, sources) \in [Seasons -> RowAt(n)]
  BY <1>1, RecomputedIsFunction
<1>3. \A s \in Seasons : Recomputed(rows, sources)[s].state = "NONE"
                          => Recomputed(rows, sources)[s] = NoRow
  BY <1>1 DEF Rows
<1> QED
  BY <1>1, <1>2, <1>3 DEF Rows

\* What sync_arr makes of the state, the import date and the reasons.
ArrState(p, s) == IF p.files[s] # NoDate THEN "ACTIVE" ELSE "MISSING"
ArrImport(r, p, s) ==
    IF r.imported # NoDate THEN r.imported ELSE Earliest({p.files[s], p.origin[s]} \ {NoDate})
ArrReasons(r, p) == (r.sources \ {"ARR_TAG"}) \cup IF p.tagged THEN {"ARR_TAG"} ELSE {}

\* sync_arr gives every season a row, and keeps an import date it has.
LEMMA ArrIsSound ==
    ASSUME NEW n \in Nat, NEW r \in RowAt(n), NEW s \in Seasons,
           NEW p \in [src : {"SONARR"}, files : [Seasons -> 0 .. n],
                      origin : [Seasons -> 0 .. n], tagged : BOOLEAN]
    PROVE  /\ AfterArr(r, p, s) \in RowAt(n)
           /\ AfterArr(r, p, s).state = ArrState(p, s)
           /\ AfterArr(r, p, s).imported = ArrImport(r, p, s)
           /\ AfterArr(r, p, s).watch = r.watch
           /\ AfterArr(r, p, s).sources = ArrReasons(r, p)
           /\ ArrState(p, s) \in {"ACTIVE", "MISSING"}
<1> DEFINE state == ArrState(p, s)
           first == ArrImport(r, p, s)
           why == ArrReasons(r, p)
<1>1. AfterArr(r, p, s) =
        [[[r EXCEPT !.state = state] EXCEPT !.imported = first] EXCEPT !.sources = why]
  BY DEF AfterArr, RowAt, ArrState, ArrImport, ArrReasons
<1>2. first \in 0 .. n
  <2>1. p.files[s] \in 0 .. n /\ p.origin[s] \in 0 .. n
    OBVIOUS
  <2>2. r.imported \in 0 .. n
    BY DEF RowAt
  <2> QED
    BY <2>1, <2>2, EarliestOfTwo DEF ArrImport
<1>3. why \subseteq Reasons
  BY DEF Reasons, RowAt, ArrReasons
<1>4. state \in States /\ state \in {"ACTIVE", "MISSING"}
  BY DEF States, ArrState
<1> HIDE DEF state, first, why
<1>5. /\ AfterArr(r, p, s) \in RowAt(n)
      /\ AfterArr(r, p, s).state = state /\ AfterArr(r, p, s).imported = first
      /\ AfterArr(r, p, s).watch = r.watch /\ AfterArr(r, p, s).sources = why
  BY <1>1, <1>2, <1>3, <1>4 DEF RowAt
<1> QED
  BY <1>4, <1>5 DEF state, first, why

\* A row that takes its watch from the plays of its season, since the import.
FromPlays(new, r, plays, s, n) ==
    \E w \in 0 .. n :
        /\ new = [r EXCEPT !.watch = w] /\ new \in RowAt(n) /\ new.watch = w
        /\ w # NoDate => /\ r.state = "ACTIVE" /\ r.imported # NoDate
                         /\ w >= r.imported
                         /\ [season |-> s, at |-> w] \in plays

\* _apply_playback does that.
LEMMA PlaybackIsSound ==
    ASSUME NEW n \in Nat, NEW r \in RowAt(n), NEW plays \in SUBSET PlayAt(n),
           NEW s \in Seasons
    PROVE  FromPlays(AfterPlayback(r, plays, s), r, plays, s, n)
<1> DEFINE dates == {p.at : p \in {p \in plays : p.season = s}}
           direct == IF r.matched THEN Latest(dates) ELSE NoDate
           new == IF /\ r.state = "ACTIVE" /\ direct # NoDate
                     /\ r.imported # NoDate /\ direct >= r.imported
                  THEN direct ELSE NoDate
<1>1. AfterPlayback(r, plays, s) = [r EXCEPT !.watch = new]
  BY DEF AfterPlayback
<1>2. dates \in SUBSET (0 .. n)
  BY DEF PlayAt
<1>3. /\ dates = {} => Latest(dates) = NoDate
      /\ dates # {} => Latest(dates) \in dates
      /\ Latest(dates) \in 0 .. n
  BY <1>2, LatestIsGreatest
<1>4. direct # NoDate => direct \in dates
  BY <1>3
<1>5. \A d \in dates : [season |-> s, at |-> d] \in plays
  BY DEF PlayAt
<1>6. direct \in 0 .. n
  BY <1>3 DEF NoDate
<1> HIDE DEF dates, direct
<1>7. /\ new \in 0 .. n
      /\ new # NoDate => /\ r.state = "ACTIVE" /\ r.imported # NoDate
                         /\ new >= r.imported /\ [season |-> s, at |-> new] \in plays
  BY <1>4, <1>5, <1>6 DEF NoDate
<1> HIDE DEF new
<1>8. [r EXCEPT !.watch = new].watch = new /\ [r EXCEPT !.watch = new] \in RowAt(n)
  BY <1>7 DEF RowAt
<1> QED
  BY <1>1, <1>7, <1>8 DEF FromPlays

\* _apply_request_protection touches one reason only.
LEMMA RequestsAreSound ==
    ASSUME NEW n \in Nat, NEW r \in RowAt(n), NEW requested \in BOOLEAN
    PROVE  LET why == (r.sources \ {"PROTECTED_REQUESTER"})
                        \cup IF requested THEN {"PROTECTED_REQUESTER"} ELSE {}
           IN  /\ AfterRequests(r, requested) = [r EXCEPT !.sources = why]
               /\ AfterRequests(r, requested) \in RowAt(n)
<1> DEFINE why == (r.sources \ {"PROTECTED_REQUESTER"})
                    \cup IF requested THEN {"PROTECTED_REQUESTER"} ELSE {}
<1>1. AfterRequests(r, requested) = [r EXCEPT !.sources = why]
  BY DEF AfterRequests, RowAt
<1>2. why \subseteq Reasons
  BY DEF Reasons, RowAt
<1> HIDE DEF why
<1>3. [r EXCEPT !.sources = why] \in RowAt(n)
  BY <1>2 DEF RowAt
<1> QED
  BY <1>1, <1>3 DEF why

ArrRead(n) == [src : {"SONARR"}, files : [Seasons -> 0 .. n], origin : [Seasons -> 0 .. n],
               tagged : BOOLEAN]

\* The row the playback of a Plex synchronization starts from.
Matched(p, s) == [row[s] EXCEPT !.matched = HasRow(s) /\ s \in p.listed]

\* What each synchronization makes of the rows.
LEMMA SynchronizedCases ==
    ASSUME Sound, sync # NoSync
    PROVE  \/ /\ sync.src = "SONARR" /\ sync \in ArrRead(now)
              /\ Synchronized(sync) = [s \in Seasons |-> AfterArr(row[s], sync, s)]
           \/ /\ sync.src = "PLEX" /\ sync.listed \subseteq Seasons
              /\ Synchronized(sync) =
                   [s \in Seasons |-> AfterPlayback(Matched(sync, s), played, s)]
           \/ /\ sync.src = "TAUTULLI" /\ sync.plays \subseteq PlayAt(now)
              /\ sync.cursor \in Nat
              /\ Synchronized(sync) =
                   [s \in Seasons |-> AfterPlayback(row[s], played \cup sync.plays, s)]
           \/ /\ sync.src = "OVERSEERR" /\ sync.asked \in BOOLEAN
              /\ Synchronized(sync) =
                   [s \in Seasons |-> IF HasRow(s)
                                      THEN AfterRequests(row[s], sync.asked /\ guarded)
                                      ELSE row[s]]
<1>1. \/ sync \in ArrRead(now)
      \/ sync \in [src : {"PLEX"}, listed : SUBSET Seasons]
      \/ sync \in [src : {"TAUTULLI"}, plays : SUBSET PlayAt(now), cursor : Nat]
      \/ sync \in [src : {"OVERSEERR"}, asked : BOOLEAN]
  BY DEF Sound, PayloadAt, ArrRead
<1>2. CASE sync \in ArrRead(now)
  <2>1. sync.src = "SONARR"
    BY <1>2 DEF ArrRead
  <2> QED
    BY <1>2, <2>1 DEF Synchronized
<1>3. CASE sync \in [src : {"PLEX"}, listed : SUBSET Seasons]
  BY <1>3 DEF Synchronized, Matched
<1>4. CASE sync \in [src : {"TAUTULLI"}, plays : SUBSET PlayAt(now), cursor : Nat]
  BY <1>4 DEF Synchronized
<1>5. CASE sync \in [src : {"OVERSEERR"}, asked : BOOLEAN]
  BY <1>5 DEF Synchronized
<1> QED
  BY <1>1, <1>2, <1>3, <1>4, <1>5

LEMMA NoRowIsSound ==
    ASSUME NEW n \in Nat
    PROVE  NoRow \in RowAt(n) /\ NoRow.state = "NONE"
BY DEF NoRow, RowAt, NoDate, States, Decisions

\* Playback leaves a season without a row without one.
LEMMA PlaybackNeedsARow ==
    ASSUME NEW n \in Nat, NEW plays \in SUBSET PlayAt(n), NEW s \in Seasons
    PROVE  AfterPlayback(NoRow, plays, s) = NoRow
<1>1. NoRow \in RowAt(n) /\ NoRow.state = "NONE"
  BY NoRowIsSound
<1>5. FromPlays(AfterPlayback(NoRow, plays, s), NoRow, plays, s, n)
  BY <1>1, PlaybackIsSound, Zenon
<1>2. PICK w \in 0 .. n :
          /\ AfterPlayback(NoRow, plays, s) = [NoRow EXCEPT !.watch = w]
          /\ w # NoDate => NoRow.state = "ACTIVE"
  BY <1>5 DEF FromPlays
<1>3. w = NoRow.watch
  BY <1>1, <1>2 DEF NoRow
<1>4. [NoRow EXCEPT !.watch = NoRow.watch] = NoRow
  BY <1>1 DEF RowAt
<1> QED
  BY <1>2, <1>3, <1>4

\* A synchronization keeps the rows there are and makes sound ones of them.
LEMMA SynchronizingIsSound ==
    ASSUME Sound, sync # NoSync
    PROVE  /\ Synchronized(sync) \in Rows(now)
           /\ \A s \in Seasons : HasRow(s) => Synchronized(sync)[s].state # "NONE"
<1>0. now \in Nat /\ row \in [Seasons -> RowAt(now)] /\ played \in SUBSET PlayAt(now)
      /\ guarded \in BOOLEAN
      /\ \A s \in Seasons : row[s].state = "NONE" => row[s] = NoRow
  BY DEF Sound, Rows
<1> DEFINE Kept(s, r) == /\ r \in RowAt(now)
                         /\ r.state = "NONE" => r = NoRow
                         /\ HasRow(s) => r.state # "NONE"
<1>1. SUFFICES \A s \in Seasons : Kept(s, Synchronized(sync)[s])
  <2>1. Synchronized(sync) = [s \in Seasons |-> Synchronized(sync)[s]]
    BY SynchronizedCases
  <2> QED
    BY <1>1, <2>1 DEF Rows
<1>2. CASE sync.src = "SONARR"
  <2>1. /\ sync \in ArrRead(now)
        /\ Synchronized(sync) = [s \in Seasons |-> AfterArr(row[s], sync, s)]
    BY <1>2, SynchronizedCases
  <2>2. ASSUME NEW s \in Seasons
        PROVE  /\ AfterArr(row[s], sync, s) \in RowAt(now)
               /\ AfterArr(row[s], sync, s).state # "NONE"
    <3>1. row[s] \in RowAt(now)
      BY <1>0
    <3>2. /\ AfterArr(row[s], sync, s) \in RowAt(now)
          /\ AfterArr(row[s], sync, s).state = ArrState(sync, s)
      BY <1>0, <2>1, <3>1, ArrIsSound DEF ArrRead
    <3> QED
      BY <3>2 DEF ArrState
  <2> QED
    BY <2>1, <2>2
<1>3. CASE sync.src = "PLEX"
  <2>1. Synchronized(sync) = [s \in Seasons |-> AfterPlayback(Matched(sync, s), played, s)]
    BY <1>3, SynchronizedCases
  <2>2. ASSUME NEW s \in Seasons PROVE Kept(s, AfterPlayback(Matched(sync, s), played, s))
    <3>1. Matched(sync, s) \in RowAt(now) /\ Matched(sync, s).state = row[s].state
      BY <1>0 DEF Matched, RowAt, HasRow
    <3>2. CASE HasRow(s)
      <4>3. FromPlays(AfterPlayback(Matched(sync, s), played, s), Matched(sync, s), played, s, now)
        BY <1>0, <3>1, PlaybackIsSound, Zenon
      <4>1. PICK w \in 0 .. now :
              /\ AfterPlayback(Matched(sync, s), played, s) = [Matched(sync, s) EXCEPT !.watch = w]
              /\ AfterPlayback(Matched(sync, s), played, s) \in RowAt(now)
        BY <4>3 DEF FromPlays
      <4>2. AfterPlayback(Matched(sync, s), played, s).state = row[s].state
        BY <3>1, <4>1 DEF RowAt
      <4> QED
        BY <3>2, <4>1, <4>2 DEF HasRow
    <3>3. CASE ~HasRow(s)
      <4>1. row[s] = NoRow
        BY <1>0, <3>3 DEF HasRow
      <4>2. [NoRow EXCEPT !.matched = NoRow.matched] = NoRow
        BY <1>0, NoRowIsSound DEF RowAt
      <4>3. Matched(sync, s) = [NoRow EXCEPT !.matched = NoRow.matched]
        BY <3>3, <4>1 DEF Matched, NoRow
      <4> QED
        BY <1>0, <3>3, <4>2, <4>3, PlaybackNeedsARow, NoRowIsSound
    <3> QED
      BY <3>2, <3>3
  <2> QED
    BY <2>1, <2>2
<1>4. CASE sync.src = "TAUTULLI"
  <2>1. /\ sync.plays \subseteq PlayAt(now)
        /\ Synchronized(sync) =
             [s \in Seasons |-> AfterPlayback(row[s], played \cup sync.plays, s)]
    BY <1>4, SynchronizedCases
  <2> DEFINE plays == played \cup sync.plays
  <2>2. plays \in SUBSET PlayAt(now)
    BY <1>0, <2>1
  <2> HIDE DEF plays
  <2>3. ASSUME NEW s \in Seasons PROVE Kept(s, AfterPlayback(row[s], plays, s))
    <3>1. row[s] \in RowAt(now)
      BY <1>0
    <3>2. CASE HasRow(s)
      <4>3. FromPlays(AfterPlayback(row[s], plays, s), row[s], plays, s, now)
        BY <1>0, <2>2, <3>1, PlaybackIsSound, Zenon
      <4>1. PICK w \in 0 .. now :
              /\ AfterPlayback(row[s], plays, s) = [row[s] EXCEPT !.watch = w]
              /\ AfterPlayback(row[s], plays, s) \in RowAt(now)
        BY <4>3 DEF FromPlays
      <4>2. AfterPlayback(row[s], plays, s).state = row[s].state
        BY <3>1, <4>1 DEF RowAt
      <4> QED
        BY <3>2, <4>1, <4>2 DEF HasRow
    <3>3. CASE ~HasRow(s)
      <4>1. row[s] = NoRow
        BY <1>0, <3>3 DEF HasRow
      <4> QED
        BY <1>0, <2>2, <3>3, <4>1, PlaybackNeedsARow, NoRowIsSound
    <3> QED
      BY <3>2, <3>3
  <2> QED
    BY <2>1, <2>3 DEF plays
<1>5. CASE sync.src = "OVERSEERR"
  <2>1. /\ sync.asked \in BOOLEAN
        /\ Synchronized(sync) =
             [s \in Seasons |-> IF HasRow(s) THEN AfterRequests(row[s], sync.asked /\ guarded)
                                ELSE row[s]]
    BY <1>5, SynchronizedCases
  <2>2. ASSUME NEW s \in Seasons, HasRow(s), NEW b \in BOOLEAN
        PROVE  Kept(s, AfterRequests(row[s], b))
    <3>1. row[s] \in RowAt(now)
      BY <1>0
    <3>2. /\ AfterRequests(row[s], b) \in RowAt(now)
          /\ AfterRequests(row[s], b).state = row[s].state
      BY <1>0, <3>1, RequestsAreSound DEF RowAt
    <3> QED
      BY <2>2, <3>2 DEF HasRow
  <2>3. (sync.asked /\ guarded) \in BOOLEAN
    BY <1>0, <2>1
  <2>4. ASSUME NEW s \in Seasons, ~HasRow(s) PROVE Kept(s, row[s])
    BY <1>0, <2>4 DEF HasRow
  <2> HIDE DEF Kept
  <2> QED
    BY <2>1, <2>2, <2>3, <2>4
<1> QED
  BY <1>2, <1>3, <1>4, <1>5, SynchronizedCases

\* The rows a form computes, and those that are stored when it commits.
ToggledRows == [s \in Seasons |-> Toggled(form, s)]
FormRows == Recomputed(ToggledRows, form.fresh)
Committed(s) ==
    [row[s] EXCEPT
       !.watch    = Write(FormRows[s].watch, form.row[s].watch, @),
       !.deadline = Write(FormRows[s].deadline, form.row[s].deadline, @),
       !.sources  = Write(FormRows[s].sources, form.row[s].sources, @),
       !.decision = Write(FormRows[s].decision, form.row[s].decision, @)]

LEMMA FormIsRecord ==
    ASSUME Sound, form # NoForm
    PROVE  /\ form.on \in {"protect", "unprotect"} /\ form.chosen \subseteq Seasons
           /\ form.row \in Rows(now) /\ form.fresh \subseteq Sources
BY DEF Sound, FormAt

\* set_manual_protection touches one reason of the seasons that are chosen.
LEMMA TogglingIsSound ==
    ASSUME Sound, form # NoForm
    PROVE  /\ ToggledRows \in Rows(now)
           /\ \A s \in Seasons : \E why \in SUBSET Reasons :
                /\ ToggledRows[s] = [form.row[s] EXCEPT !.sources = why]
                /\ why = IF s \notin form.chosen THEN form.row[s].sources
                         ELSE IF form.on = "protect"
                         THEN form.row[s].sources \cup {"MANUAL_SELECTION"}
                         ELSE form.row[s].sources \ {"MANUAL_SELECTION"}
<1>0. /\ form.row \in [Seasons -> RowAt(now)]
      /\ \A s \in Seasons : form.row[s].state = "NONE" => form.row[s] = NoRow
      /\ \A s \in Seasons : s \in form.chosen => form.row[s].state # "NONE"
  BY FormIsRecord DEF Rows, Sound, FormFits
<1>1. ASSUME NEW s \in Seasons
      PROVE  /\ Toggled(form, s) \in RowAt(now)
             /\ Toggled(form, s).state = "NONE" => Toggled(form, s) = NoRow
             /\ \E why \in SUBSET Reasons :
                  /\ Toggled(form, s) = [form.row[s] EXCEPT !.sources = why]
                  /\ why = IF s \notin form.chosen THEN form.row[s].sources
                           ELSE IF form.on = "protect"
                           THEN form.row[s].sources \cup {"MANUAL_SELECTION"}
                           ELSE form.row[s].sources \ {"MANUAL_SELECTION"}
  <2> DEFINE r == form.row[s]
             why == IF s \notin form.chosen THEN r.sources
                    ELSE IF form.on = "protect" THEN r.sources \cup {"MANUAL_SELECTION"}
                    ELSE r.sources \ {"MANUAL_SELECTION"}
  <2>1. r \in RowAt(now)
    BY <1>0
  <2>2. why \in SUBSET Reasons
    BY <2>1 DEF RowAt, Reasons
  <2>3. [r EXCEPT !.sources = r.sources] = r
    BY <2>1 DEF RowAt
  <2>4. Toggled(form, s) = [r EXCEPT !.sources = why]
    BY <2>1, <2>3 DEF Toggled, RowAt
  <2>5. [r EXCEPT !.sources = why] \in RowAt(now) /\ [r EXCEPT !.sources = why].state = r.state
    BY <2>1, <2>2 DEF RowAt
  <2>6. Toggled(form, s).state = "NONE" => Toggled(form, s) = NoRow
    <3>1. CASE s \in form.chosen
      BY <1>0, <2>4, <2>5, <3>1
    <3>2. CASE s \notin form.chosen
      BY <1>0, <3>2 DEF Toggled
    <3> QED
      BY <3>1, <3>2
  <2>7. Toggled(form, s) \in RowAt(now)
    BY <2>4, <2>5
  <2> QED
    BY <2>2, <2>4, <2>6, <2>7
<1>2. \A s \in Seasons : ToggledRows[s] = Toggled(form, s)
  BY DEF ToggledRows
<1>3. ToggledRows \in [Seasons -> RowAt(now)]
  BY <1>1 DEF ToggledRows
<1>4. ToggledRows \in Rows(now)
  BY <1>1, <1>2, <1>3 DEF Rows
<1> QED
  BY <1>1, <1>2, <1>4

LEMMA FormComputes ==
    ASSUME Sound, form # NoForm
    PROVE  /\ FormRows \in Rows(now)
           /\ \A s \in Seasons :
                /\ FormRows[s].state = form.row[s].state
                /\ FormRows[s].imported = form.row[s].imported
                /\ FormRows[s].matched = form.row[s].matched
                /\ FormRows[s].sources = ToggledRows[s].sources
                /\ FormRows[s].watch \in {form.row[s].watch, NoDate}
<1>1. /\ FormRows \in Rows(now)
      /\ \A s \in Seasons :
           /\ FormRows[s].state = ToggledRows[s].state
           /\ FormRows[s].imported = ToggledRows[s].imported
           /\ FormRows[s].matched = ToggledRows[s].matched
           /\ FormRows[s].sources = ToggledRows[s].sources
           /\ FormRows[s].watch \in {ToggledRows[s].watch, NoDate}
  <2>1. ToggledRows \in Rows(now) /\ now \in Nat
    BY TogglingIsSound DEF Sound
  <2> QED
    BY <2>1, RecomputingIsSound DEF FormRows
<1>2. ASSUME NEW s \in Seasons
      PROVE  /\ ToggledRows[s].state = form.row[s].state
             /\ ToggledRows[s].imported = form.row[s].imported
             /\ ToggledRows[s].matched = form.row[s].matched
             /\ ToggledRows[s].watch = form.row[s].watch
  <2>1. PICK why \in SUBSET Reasons : ToggledRows[s] = [form.row[s] EXCEPT !.sources = why]
    BY TogglingIsSound
  <2>2. form.row[s] \in RowAt(now)
    BY FormIsRecord DEF Rows
  <2> QED
    BY <2>1, <2>2 DEF RowAt
<1> QED
  BY <1>1, <1>2

\* What a form writes is sound, and leaves state and import alone.
LEMMA CommittingIsSound ==
    ASSUME Sound, form # NoForm
    PROVE  /\ [s \in Seasons |-> Committed(s)] \in Rows(now)
           /\ \A s \in Seasons :
                /\ Committed(s).state = row[s].state
                /\ Committed(s).imported = row[s].imported
                /\ Committed(s).matched = row[s].matched
                /\ Committed(s).watch \in {row[s].watch, NoDate}
                /\ Committed(s).decision \in {row[s].decision, FormRows[s].decision}
<1>0. /\ row \in [Seasons -> RowAt(now)] /\ FormRows \in [Seasons -> RowAt(now)]
      /\ \A s \in Seasons : row[s].state = "NONE" => row[s] = NoRow
      /\ \A s \in Seasons : FormRows[s].state = "NONE" => FormRows[s] = NoRow
      /\ form.row \in [Seasons -> RowAt(now)]
      /\ \A s \in Seasons : form.row[s].state = "NONE" => form.row[s] = NoRow
  BY FormComputes, FormIsRecord DEF Rows, Sound
<1>1. ASSUME NEW s \in Seasons
      PROVE  /\ Committed(s) \in RowAt(now)
             /\ Committed(s).state = row[s].state
             /\ Committed(s).imported = row[s].imported
             /\ Committed(s).matched = row[s].matched
             /\ Committed(s).watch \in {row[s].watch, NoDate}
             /\ Committed(s).decision \in {row[s].decision, FormRows[s].decision}
             /\ row[s].state = "NONE" => Committed(s) = row[s]
  <2> DEFINE w == Write(FormRows[s].watch, form.row[s].watch, row[s].watch)
             d == Write(FormRows[s].deadline, form.row[s].deadline, row[s].deadline)
             y == Write(FormRows[s].sources, form.row[s].sources, row[s].sources)
             e == Write(FormRows[s].decision, form.row[s].decision, row[s].decision)
  <2>1. row[s] \in RowAt(now) /\ FormRows[s] \in RowAt(now)
    BY <1>0
  <2>2. Committed(s) = [[[[row[s] EXCEPT !.watch = w] EXCEPT !.deadline = d]
                           EXCEPT !.sources = y] EXCEPT !.decision = e]
    BY <2>1 DEF Committed, RowAt
  <2>3. /\ w \in {row[s].watch, FormRows[s].watch} /\ d \in {row[s].deadline, FormRows[s].deadline}
        /\ y \in {row[s].sources, FormRows[s].sources}
        /\ e \in {row[s].decision, FormRows[s].decision}
    BY DEF Write
  <2>9. w \in {row[s].watch, NoDate}
    BY FormComputes DEF Write
  <2>4. row[s].state = "NONE" => /\ w = row[s].watch /\ d = row[s].deadline
                                 /\ y = row[s].sources /\ e = row[s].decision
    <3>1. SUFFICES ASSUME row[s].state = "NONE" PROVE FormRows[s] = form.row[s]
      BY <3>1 DEF Write
    <3>2. form.row[s].state = "NONE"
      BY <3>1 DEF Sound, FormFits, HasRow
    <3>3. FormRows[s].state = "NONE"
      BY <3>2, FormComputes
    <3> QED
      BY <1>0, <3>2, <3>3
  <2> HIDE DEF w, d, y, e
  <2>5. [[[[row[s] EXCEPT !.watch = row[s].watch] EXCEPT !.deadline = row[s].deadline]
                  EXCEPT !.sources = row[s].sources] EXCEPT !.decision = row[s].decision] = row[s]
    BY <2>1 DEF RowAt
  <2>6. row[s].state = "NONE" => Committed(s) = row[s]
    BY <2>2, <2>4, <2>5
  <2>7. w \in 0 .. now /\ d \in Nat /\ y \in SUBSET Reasons /\ e \in Decisions
    BY <2>1, <2>3 DEF RowAt
  <2>8. /\ Committed(s) \in RowAt(now)
        /\ Committed(s).state = row[s].state /\ Committed(s).imported = row[s].imported
        /\ Committed(s).matched = row[s].matched /\ Committed(s).watch = w
        /\ Committed(s).decision = e
    BY <2>1, <2>2, <2>7 DEF RowAt
  <2> QED
    BY <2>3, <2>6, <2>8, <2>9
<1>2. [s \in Seasons |-> Committed(s)] \in [Seasons -> RowAt(now)]
  BY <1>1
<1> QED
  BY <1>0, <1>1, <1>2 DEF Rows

-----------------------------------------------------------------------------
(***************************************************************************)
(* Sound is inductive.                                                     *)
(***************************************************************************)
\* Rows are replaced by sound rows of the same seasons at least.
RowsKept ==
    row' \in Rows(now) /\ \A s \in Seasons : HasRow(s) => row'[s].state # "NONE"

LEMMA InitIsSound == Init => Sound
<1> SUFFICES ASSUME Init PROVE Sound
  OBVIOUS
<1>0. /\ now = 1 /\ origin = files /\ row = [s \in Seasons |-> NoRow]
      /\ \E last \in Seasons :
           files = [s \in Seasons |-> IF s <= last THEN now ELSE NoDate]
      /\ listed = {s \in Seasons : files[s] # NoDate}
      /\ tagged \in BOOLEAN /\ history = <<>> /\ asked = TRUE
      /\ played = {} /\ cursor = 0 /\ request = FALSE /\ guarded = FALSE /\ fresh = {}
      /\ sync = NoSync /\ form = NoForm /\ changes = 0
      /\ tagSeen = FALSE /\ pinned = {} /\ deletedAt = [s \in Seasons |-> NoDate]
  BY Zenon DEF Init
<1>10. now = 1
  BY <1>0, Zenon
<1>1. now \in Nat /\ NoDate \in 0 .. now /\ now \in 0 .. now
  BY <1>10 DEF NoDate
<1>11. history = <<>>
  BY <1>0, Zenon
<1>2. files \in [Seasons -> 0 .. now] /\ origin \in [Seasons -> 0 .. now]
  BY <1>0, <1>1
<1>3. row \in Rows(now)
  BY <1>0, <1>1, NoRowIsSound DEF Rows
<1>4. history \in Seq(PlayAt(now))
  BY <1>11
<1>5. FormFits
  BY <1>0 DEF FormFits
<1>6. deletedAt \in [Seasons -> 0 .. now]
  BY <1>0, <1>1
<1>7. sync \in PayloadAt(now) /\ form \in FormAt(now)
  BY <1>0 DEF PayloadAt, FormAt
<1>8. /\ tagged \in BOOLEAN /\ asked \in BOOLEAN /\ request \in BOOLEAN
      /\ guarded \in BOOLEAN /\ tagSeen \in BOOLEAN
  BY <1>0
<1>9. /\ listed \subseteq Seasons /\ played \subseteq PlayAt(now) /\ fresh \subseteq Sources
      /\ pinned \subseteq Seasons /\ cursor \in Nat /\ changes \in Nat
  BY <1>0
<1> QED
  BY <1>1, <1>2, <1>3, <1>4, <1>5, <1>6, <1>7, <1>8, <1>9 DEF Sound

LEMMA FetchIsSound ==
    ASSUME Sound, NEW src \in Sources, Fetch(src)
    PROVE  Sound'
<1>1. now \in Nat /\ history \in Seq(PlayAt(now)) /\ cursor \in Nat /\ Len(history) \in Nat
  BY DEF Sound
<1>2. \A i \in Nat : PlaysFrom(i) \subseteq PlayAt(now)
  BY <1>1 DEF PlaysFrom
<1>3. PlaysFrom(cursor) \subseteq PlayAt(now)
  BY <1>1, <1>2
<1>4. Read(src) \in PayloadAt(now)
  <2>1. CASE src = "SONARR"
    BY <2>1 DEF Read, PayloadAt, Sound
  <2>2. CASE src = "PLEX"
    BY <2>2 DEF Read, PayloadAt, Sound
  <2>3. CASE src = "TAUTULLI"
    BY <1>1, <1>3, <2>3 DEF Read, PayloadAt
  <2>4. CASE src = "OVERSEERR"
    BY <2>4 DEF Read, PayloadAt, Sound
  <2> QED
    BY <2>1, <2>2, <2>3, <2>4 DEF Sources
<1>5. sync' \in PayloadAt(now)
  BY <1>4 DEF Fetch
<1>6. FormFits'
  BY DEF Fetch, Sound, FormFits, HasRow, store
<1> QED
  BY <1>5, <1>6 DEF Fetch, Sound, outside, store, ghosts

LEMMA ApplyIsSound ==
    ASSUME Sound, Apply
    PROVE  Sound' /\ RowsKept
<1>0. now \in Nat /\ sync # NoSync
  BY DEF Sound, Apply
<1>1. RowsKept
  <2>1. Synchronized(sync) \in Rows(now)
        /\ \A s \in Seasons : HasRow(s) => Synchronized(sync)[s].state # "NONE"
    BY <1>0, SynchronizingIsSound
  <2>2. row' = Recomputed(Synchronized(sync), fresh \cup {sync.src})
    BY DEF Apply
  <2> QED
    BY <1>0, <2>1, <2>2, RecomputingIsSound DEF RowsKept
<1>2. sync.src \in Sources
  BY <1>0, SynchronizedCases DEF Sources
<1>3. played' \subseteq PlayAt(now) /\ cursor' \in Nat
  <2>1. CASE sync.src = "TAUTULLI"
    BY <1>0, <2>1, SynchronizedCases DEF Apply, Sound
  <2>2. CASE sync.src # "TAUTULLI"
    BY <2>2 DEF Apply, Sound
  <2> QED
    BY <2>1, <2>2
<1>4. request' \in BOOLEAN
  <2>1. CASE sync.src = "OVERSEERR"
    BY <1>0, <2>1, SynchronizedCases DEF Apply
  <2>2. CASE sync.src # "OVERSEERR"
    BY <2>2 DEF Apply, Sound
  <2> QED
    BY <2>1, <2>2
<1>5. tagSeen' \in BOOLEAN
  <2>1. CASE sync.src = "SONARR"
    BY <1>0, <2>1, SynchronizedCases DEF Apply, ArrRead
  <2>2. CASE sync.src # "SONARR"
    BY <2>2 DEF Apply, Sound
  <2> QED
    BY <2>1, <2>2
<1>6. FormFits'
  BY <1>1 DEF Apply, Sound, FormFits, HasRow, RowsKept
<1>7. NoSync \in PayloadAt(now)
  BY DEF PayloadAt
<1>8. row' \in Rows(now) /\ fresh' \subseteq Sources
  BY <1>1, <1>2 DEF RowsKept, Apply, Sound
<1>9. /\ files' = files /\ origin' = origin /\ tagged' = tagged /\ listed' = listed
      /\ asked' = asked /\ history' = history /\ now' = now /\ guarded' = guarded
      /\ form' = form /\ changes' = changes /\ pinned' = pinned
      /\ deletedAt' = deletedAt /\ sync' = NoSync
  BY DEF Apply, outside
<1> QED
  BY <1>1, <1>3, <1>4, <1>5, <1>6, <1>7, <1>8, <1>9 DEF Sound

LEMMA SyncFailsIsSound ==
    ASSUME Sound, NEW src \in Sources, SyncFails(src)
    PROVE  Sound' /\ RowsKept
<1>0. now \in Nat /\ row \in Rows(now) /\ changes' \in Nat
  BY DEF Sound, SyncFails, Happens
<1>1. row' = Recomputed(row, fresh')
  BY DEF SyncFails
<1>2. RowsKept
  BY <1>0, <1>1, RecomputingIsSound DEF RowsKept, HasRow
<1>3. FormFits'
  BY <1>2 DEF SyncFails, Sound, FormFits, HasRow, RowsKept
<1>4. sync' \in PayloadAt(now) /\ fresh' \subseteq Sources
  BY DEF SyncFails, PayloadAt, Sound
<1> QED
  BY <1>0, <1>2, <1>3, <1>4 DEF Sound, SyncFails, RowsKept, outside, ghosts

LEMMA LoadFormIsSound ==
    ASSUME Sound, NEW on \in {"protect", "unprotect"}, NEW chosen \in SUBSET Seasons,
           LoadForm(on, chosen)
    PROVE  Sound'
<1>1. form' = [on |-> on, chosen |-> chosen, row |-> row, fresh |-> fresh]
  BY DEF LoadForm
<1>2. form' \in FormAt(now)
  BY <1>1 DEF FormAt, Sound
<1>3. FormFits'
  BY <1>1 DEF LoadForm, FormFits, HasRow, store
<1>4. changes' \in Nat
  BY DEF LoadForm, Happens, Sound
<1> QED
  BY <1>2, <1>3, <1>4 DEF Sound, LoadForm, outside, store, ghosts

LEMMA CommitFormIsSound ==
    ASSUME Sound, CommitForm
    PROVE  Sound' /\ RowsKept
<1>0. form # NoForm
  BY DEF CommitForm
<1>1. row' = [s \in Seasons |-> Committed(s)]
  BY DEF CommitForm, Committed, FormRows, ToggledRows
<1>2. RowsKept
  BY <1>0, <1>1, CommittingIsSound DEF RowsKept, HasRow
<1>3. pinned' \subseteq Seasons
  <2>1. pinned \subseteq Seasons /\ form.chosen \subseteq Seasons
    BY <1>0, FormIsRecord DEF Sound
  <2> QED
    BY <2>1 DEF CommitForm
<1>4. form' \in FormAt(now) /\ FormFits'
  BY DEF CommitForm, FormAt, FormFits
<1> QED
  BY <1>2, <1>3, <1>4 DEF Sound, CommitForm, RowsKept, outside

LEMMA ToggleRequesterIsSound ==
    ASSUME Sound, ToggleRequester
    PROVE  Sound' /\ RowsKept
<1> DEFINE rows == [s \in Seasons |->
                      IF HasRow(s) THEN AfterRequests(row[s], request /\ guarded')
                      ELSE row[s]]
<1>0. /\ now \in Nat /\ row \in [Seasons -> RowAt(now)] /\ changes' \in Nat
      /\ guarded' \in BOOLEAN /\ (request /\ guarded') \in BOOLEAN
      /\ \A s \in Seasons : row[s].state = "NONE" => row[s] = NoRow
  BY DEF Sound, Rows, ToggleRequester, Happens
<1>1. ASSUME NEW s \in Seasons
      PROVE  /\ rows[s] \in RowAt(now)
             /\ rows[s].state = row[s].state
             /\ rows[s].state = "NONE" => rows[s] = NoRow
  <2>1. row[s] \in RowAt(now)
    BY <1>0
  <2>2. CASE HasRow(s)
    <3> DEFINE b == request /\ guarded'
    <3>2. b \in BOOLEAN
      BY <1>0
    <3> HIDE DEF b
    <3>1. /\ AfterRequests(row[s], b) \in RowAt(now)
          /\ AfterRequests(row[s], b).state = row[s].state
      BY <1>0, <2>1, <3>2, RequestsAreSound DEF RowAt
    <3> QED
      BY <2>2, <3>1 DEF HasRow, b
  <2>3. CASE ~HasRow(s)
    BY <1>0, <2>1, <2>3
  <2> QED
    BY <2>2, <2>3
<1>2. rows \in Rows(now) /\ \A s \in Seasons : HasRow(s) => rows[s].state # "NONE"
  <2>1. rows \in [Seasons -> RowAt(now)]
    BY <1>1
  <2> HIDE DEF rows
  <2> QED
    BY <1>1, <2>1 DEF Rows, HasRow
<1>3. row' = Recomputed(rows, fresh)
  BY DEF ToggleRequester
<1> HIDE DEF rows
<1>4. RowsKept
  BY <1>0, <1>2, <1>3, RecomputingIsSound DEF RowsKept
<1>5. FormFits'
  BY <1>4 DEF ToggleRequester, Sound, FormFits, HasRow, RowsKept
<1> QED
  BY <1>0, <1>4, <1>5 DEF Sound, ToggleRequester, RowsKept, outside, ghosts

LEMMA DeleteSeasonIsSound ==
    ASSUME Sound, NEW s \in Seasons, DeleteSeason(s)
    PROVE  Sound' /\ RowsKept
<1>0. /\ now \in Nat /\ row \in [Seasons -> RowAt(now)] /\ changes' \in Nat
      /\ NoDate \in 0 .. now /\ now \in 0 .. now
      /\ \A t \in Seasons : row[t].state = "NONE" => row[t] = NoRow
  BY DEF Sound, Rows, DeleteSeason, Happens, NoDate
<1> DEFINE gone == [[row[s] EXCEPT !.state = "DELETED"] EXCEPT !.decision = "DELETED"]
<1>1. row' = [row EXCEPT ![s] = gone]
  BY <1>0 DEF DeleteSeason
<1>2. gone \in RowAt(now) /\ gone.state # "NONE"
  <2>1. row[s] \in RowAt(now)
    BY <1>0
  <2> QED
    BY <2>1 DEF RowAt, States, Decisions
<1> HIDE DEF gone
<1>3. row' \in [Seasons -> RowAt(now)]
  BY <1>0, <1>1, <1>2
<1>4. \A t \in Seasons : row'[t] = gone \/ row'[t] = row[t]
  BY <1>0, <1>1
<1>5. RowsKept
  BY <1>0, <1>2, <1>3, <1>4 DEF RowsKept, Rows, HasRow
<1>6. files' \in [Seasons -> 0 .. now] /\ deletedAt' \in [Seasons -> 0 .. now]
  BY <1>0 DEF Sound, DeleteSeason
<1>7. FormFits'
  BY <1>5 DEF DeleteSeason, Sound, FormFits, HasRow, RowsKept
<1>8. /\ origin' = origin /\ tagged' = tagged /\ listed' = listed
      /\ asked' = asked /\ history' = history /\ now' = now /\ guarded' = guarded
      /\ form' = form /\ pinned' = pinned /\ played' = played /\ cursor' = cursor
      /\ request' = request /\ fresh' = fresh /\ sync' = sync /\ tagSeen' = tagSeen
  BY DEF DeleteSeason
<1> QED
  BY <1>0, <1>5, <1>6, <1>7, <1>8 DEF Sound, RowsKept

LEMMA CrashIsSound ==
    ASSUME Sound, Crash
    PROVE  Sound'
<1>1. sync' \in PayloadAt(now) /\ form' \in FormAt(now) /\ FormFits' /\ changes' \in Nat
  BY DEF Crash, PayloadAt, FormAt, FormFits, Happens, Sound
<1> QED
  BY <1>1 DEF Sound, Crash, outside, store, ghosts

LEMMA TickIsSound ==
    ASSUME Sound, Tick
    PROVE  Sound'
<1>0. now \in Nat /\ now' = now + 1
  BY DEF Sound, Tick
<1>1. /\ 0 .. now \subseteq 0 .. now' /\ Rows(now) \subseteq Rows(now')
      /\ PlayAt(now) \subseteq PlayAt(now') /\ PayloadAt(now) \subseteq PayloadAt(now')
      /\ FormAt(now) \subseteq FormAt(now')
  BY <1>0, LaterIsSound
<1>2. \A f \in [Seasons -> 0 .. now] : f \in [Seasons -> 0 .. now']
  BY <1>1
<1>3. history \in Seq(PlayAt(now'))
  BY <1>1 DEF Sound
<1>4. FormFits'
  BY DEF Tick, Sound, FormFits, HasRow
<1>5. fresh' \subseteq Sources
  BY DEF Tick
<1>6. /\ files' = files /\ origin' = origin /\ tagged' = tagged /\ listed' = listed
      /\ asked' = asked /\ history' = history /\ row' = row /\ guarded' = guarded
      /\ form' = form /\ pinned' = pinned /\ played' = played /\ cursor' = cursor
      /\ request' = request /\ sync' = sync /\ tagSeen' = tagSeen
      /\ changes' = changes /\ deletedAt' = deletedAt
  BY DEF Tick, outside, ghosts
<1> QED
  BY <1>0, <1>1, <1>2, <1>3, <1>4, <1>5, <1>6 DEF Sound

\* The outside changes nothing but itself.
LEMMA UntouchedIsSound ==
    ASSUME Sound, Happens, Untouched,
           files' \in [Seasons -> 0 .. now], origin' \in [Seasons -> 0 .. now],
           tagged' \in BOOLEAN, listed' \subseteq Seasons, asked' \in BOOLEAN,
           history' \in Seq(PlayAt(now))
    PROVE  Sound'
<1>1. FormFits' /\ changes' \in Nat
  BY DEF Untouched, Sound, FormFits, HasRow, store, Happens
<1> QED
  BY <1>1 DEF Untouched, Sound, store, ghosts

\* The history after a play has finished: that play more, and none less.
LEMMA PlayIsInserted ==
    ASSUME Sound, NEW s \in Seasons, PlayFinishes(s)
    PROVE  /\ history' \in Seq(PlayAt(now))
           /\ \A i \in 1 .. Len(history) : \E j \in 1 .. Len(history') : history'[j] = history[i]
<1> DEFINE x == [season |-> s, at |-> now]
           N == Len(history)
<1>0. now \in Nat /\ history \in Seq(PlayAt(now)) /\ N \in Nat
  BY DEF Sound
<1>1. x \in PlayAt(now)
  BY <1>0 DEF PlayAt
<1>2. PICK k \in 0 .. N : history' = SubSeq(history, 1, k) \o <<x>> \o SubSeq(history, k + 1, N)
  BY DEF PlayFinishes
<1> DEFINE a == SubSeq(history, 1, k)
           b == a \o <<x>>
           c == SubSeq(history, k + 1, N)
<1>3. a \in Seq(PlayAt(now)) /\ Len(a) = k /\ \A i \in 1 .. k : a[i] = history[i]
  BY <1>0
<1>4. /\ c \in Seq(PlayAt(now)) /\ Len(c) = N - k
      /\ \A i \in 1 .. N - k : c[i] = history[k + i]
  BY <1>0
<1>5. history' = b \o c /\ k \in Nat
  BY <1>0, <1>2
<1> HIDE DEF x, a, c, N
<1>6. b \in Seq(PlayAt(now)) /\ Len(b) = k + 1 /\ \A i \in 1 .. k : b[i] = history[i]
  <2>1. <<x>> \in Seq(PlayAt(now)) /\ Len(<<x>>) = 1
    BY <1>1
  <2>2. b \in Seq(PlayAt(now))
    BY <1>3, <2>1
  <2>3. Len(b) = Len(a) + Len(<<x>>)
    BY <1>3, <2>1
  <2>4. \A i \in 1 .. Len(a) : b[i] = a[i]
    BY <1>3, <2>1
  <2> HIDE DEF b
  <2> QED
    BY <1>3, <1>5, <2>1, <2>2, <2>3, <2>4
<1> HIDE DEF b
<1>7. b \o c \in Seq(PlayAt(now))
  BY <1>4, <1>6
<1>8. Len(b \o c) = N + 1
  <2>0. b \in Seq(PlayAt(now)) /\ c \in Seq(PlayAt(now))
    BY <1>4, <1>6
  <2>1. Len(b \o c) = Len(b) + Len(c)
    BY <2>0
  <2> QED
    BY <1>0, <1>4, <1>5, <1>6, <2>1
<1>9. \A i \in 1 .. k + 1 : (b \o c)[i] = b[i]
  BY <1>4, <1>5, <1>6
<1>10. \A i \in 1 .. N - k : (b \o c)[k + 1 + i] = c[i]
  BY <1>0, <1>4, <1>5, <1>6
<1>11. ASSUME NEW i \in 1 .. N
       PROVE  \E j \in 1 .. N + 1 : (b \o c)[j] = history[i]
  <2>1. CASE i \in 1 .. k
    <3>1. (b \o c)[i] = history[i] /\ i \in 1 .. N + 1
      BY <1>0, <1>5, <1>6, <1>9, <2>1
    <3> QED
      BY <3>1
  <2>2. CASE i \notin 1 .. k
    <3>1. PICK d \in 1 .. N - k : i = k + d
      <4>1. i - k \in 1 .. N - k /\ i = k + (i - k)
        BY <1>0, <1>5, <2>2
      <4> QED
        BY <4>1
    <3>2. (b \o c)[k + 1 + d] = history[i] /\ k + 1 + d \in 1 .. N + 1
      <4>1. (b \o c)[k + 1 + d] = c[d]
        BY <1>10
      <4>2. c[d] = history[k + d]
        BY <1>4
      <4>3. k + 1 + d \in 1 .. N + 1
        BY <1>0, <1>5, <3>1
      <4> QED
        BY <3>1, <4>1, <4>2, <4>3
    <3> QED
      BY <3>2
  <2> QED
    BY <2>1, <2>2
<1> QED
  BY <1>5, <1>7, <1>8, <1>11 DEF N

LEMMA OutsideIsSound ==
    ASSUME Sound,
           \/ TagChanges \/ PlexScans \/ RequestChanges
           \/ \E s \in Seasons : Import(s) \/ QualityUpgrade(s) \/ FilesVanish(s) \/ PlayFinishes(s)
    PROVE  Sound'
<1>0. /\ now \in Nat /\ now \in 0 .. now /\ NoDate \in 0 .. now
      /\ files \in [Seasons -> 0 .. now] /\ origin \in [Seasons -> 0 .. now]
  BY DEF Sound, NoDate
<1>1. CASE TagChanges
  <2>1. Happens /\ Untouched /\ tagged' \in BOOLEAN
    BY <1>1 DEF TagChanges
  <2> QED
    BY <1>1, <2>1, UntouchedIsSound DEF TagChanges, Sound
<1>2. CASE PlexScans
  <2>1. Happens /\ Untouched /\ listed' \subseteq Seasons
    BY <1>2 DEF PlexScans
  <2> QED
    BY <1>2, <2>1, UntouchedIsSound DEF PlexScans, Sound
<1>3. CASE RequestChanges
  <2>1. Happens /\ Untouched /\ asked' \in BOOLEAN
    BY <1>3 DEF RequestChanges
  <2> QED
    BY <1>3, <2>1, UntouchedIsSound DEF RequestChanges, Sound
<1>4. ASSUME NEW s \in Seasons, Import(s) PROVE Sound'
  <2>1. /\ Happens /\ Untouched /\ files' \in [Seasons -> 0 .. now]
        /\ origin' \in [Seasons -> 0 .. now]
    BY <1>0, <1>4 DEF Import
  <2> QED
    BY <1>4, <2>1, UntouchedIsSound DEF Import, Sound
<1>5. ASSUME NEW s \in Seasons, QualityUpgrade(s) PROVE Sound'
  <2>1. Happens /\ Untouched /\ files' \in [Seasons -> 0 .. now]
    BY <1>0, <1>5 DEF QualityUpgrade
  <2> QED
    BY <1>5, <2>1, UntouchedIsSound DEF QualityUpgrade, Sound
<1>6. ASSUME NEW s \in Seasons, FilesVanish(s) PROVE Sound'
  <2>1. Happens /\ Untouched /\ files' \in [Seasons -> 0 .. now]
    BY <1>0, <1>6 DEF FilesVanish
  <2> QED
    BY <1>6, <2>1, UntouchedIsSound DEF FilesVanish, Sound
<1>7. ASSUME NEW s \in Seasons, PlayFinishes(s) PROVE Sound'
  <2>1. history' \in Seq(PlayAt(now))
    BY <1>7, PlayIsInserted
  <2>2. /\ Happens /\ Untouched /\ files' = files /\ origin' = origin /\ tagged' = tagged
        /\ listed' = listed /\ asked' = asked
    BY <1>7 DEF PlayFinishes
  <2> QED
    BY <2>1, <2>2, UntouchedIsSound DEF Sound
<1> QED
  BY <1>1, <1>2, <1>3, <1>4, <1>5, <1>6, <1>7

LEMMA SoundStep == Sound /\ [Next]_vars => Sound'
<1> SUFFICES ASSUME Sound, [Next]_vars PROVE Sound'
  OBVIOUS
<1>1. CASE UNCHANGED vars
  BY <1>1 DEF Sound, FormFits, HasRow, vars, outside, store, ghosts
<1>2. CASE Next
  <2>1. ASSUME NEW src \in Sources, Fetch(src) PROVE Sound'
    BY <2>1, FetchIsSound
  <2>2. ASSUME NEW src \in Sources, SyncFails(src) PROVE Sound'
    BY <2>2, SyncFailsIsSound
  <2>3. CASE Apply
    BY <2>3, ApplyIsSound
  <2>4. ASSUME NEW on \in {"protect", "unprotect"}, NEW chosen \in SUBSET Seasons,
               LoadForm(on, chosen)
        PROVE  Sound'
    BY <2>4, LoadFormIsSound
  <2>5. CASE CommitForm
    BY <2>5, CommitFormIsSound
  <2>6. CASE ToggleRequester
    BY <2>6, ToggleRequesterIsSound
  <2>7. CASE Crash
    BY <2>7, CrashIsSound
  <2>8. CASE Tick
    BY <2>8, TickIsSound
  <2>9. ASSUME NEW s \in Seasons, DeleteSeason(s) PROVE Sound'
    BY <2>9, DeleteSeasonIsSound
  <2> QED
    BY <1>2, <2>1, <2>2, <2>3, <2>4, <2>5, <2>6, <2>7, <2>8, <2>9, OutsideIsSound DEF Next
<1> QED
  BY <1>1, <1>2

\* Every variable has its type, for every set of seasons and every policy.
THEOREM TypeCorrect == Spec => []TypeOK
<1>1. Spec => []Sound
  BY InitIsSound, SoundStep, PTL DEF Spec
<1> QED
  BY <1>1, SoundIsTyped, PTL

-----------------------------------------------------------------------------
(***************************************************************************)
(* Without overlap a form holds the rows as they are, and rows change only *)
(* by recomputation or deletion.                                           *)
(***************************************************************************)
FormIsCurrent == form # NoForm => form.row = row

\* The invariant under which everything below is shown.
Quiet == Sound /\ FormIsCurrent

LEMMA InitIsQuiet == Init => Quiet
<1>1. Init => FormIsCurrent
  BY Zenon DEF Init, FormIsCurrent
<1> QED
  BY <1>1, InitIsSound DEF Quiet

\* The rows of a form that commits are its own computation.
LEMMA CommitRecomputes ==
    ASSUME Quiet, CommitForm
    PROVE  row' = FormRows
<1>0. form # NoForm /\ Sound /\ form.row = row
  BY DEF CommitForm, Quiet, FormIsCurrent
<1>1. row' = [s \in Seasons |-> Committed(s)]
  BY DEF CommitForm, Committed, FormRows, ToggledRows
<1>2. FormRows \in [Seasons -> RowAt(now)] /\ row \in [Seasons -> RowAt(now)]
  BY <1>0, FormComputes DEF Rows, Sound
<1>3. ASSUME NEW s \in Seasons PROVE Committed(s) = FormRows[s]
  <2> DEFINE f == FormRows[s]
             r == row[s]
  <2>1. f \in RowAt(now) /\ r \in RowAt(now)
    BY <1>2
  <2>2. f.state = r.state /\ f.imported = r.imported /\ f.matched = r.matched
    BY <1>0, FormComputes
  <2>3. Committed(s) = [[[[r EXCEPT !.watch = f.watch] EXCEPT !.deadline = f.deadline]
                          EXCEPT !.sources = f.sources] EXCEPT !.decision = f.decision]
    BY <1>0, <2>1 DEF Committed, Write, RowAt
  <2> HIDE DEF f, r
  <2>4. [[[[r EXCEPT !.watch = f.watch] EXCEPT !.deadline = f.deadline]
           EXCEPT !.sources = f.sources] EXCEPT !.decision = f.decision] = f
    BY <2>1, <2>2 DEF RowAt
  <2> QED
    BY <2>3, <2>4 DEF f
<1> QED
  BY <1>1, <1>2, <1>3

\* The rows before a recomputation that a requester's toggle or a
\* synchronization ends with are sound, whatever changed them.
LEMMA ToggleRecomputes ==
    ASSUME Sound, ToggleRequester
    PROVE  /\ row' = Recomputed([s \in Seasons |->
                        IF HasRow(s) THEN AfterRequests(row[s], request /\ guarded')
                        ELSE row[s]], fresh)
           /\ [s \in Seasons |->
                 IF HasRow(s) THEN AfterRequests(row[s], request /\ guarded')
                 ELSE row[s]] \in Rows(now)
<1> DEFINE b == request /\ guarded'
           rows == [s \in Seasons |-> IF HasRow(s) THEN AfterRequests(row[s], b) ELSE row[s]]
<1>0. /\ now \in Nat /\ row \in [Seasons -> RowAt(now)] /\ b \in BOOLEAN
      /\ \A s \in Seasons : row[s].state = "NONE" => row[s] = NoRow
  BY DEF Sound, Rows, ToggleRequester
<1>1. row' = Recomputed(rows, fresh)
  BY DEF ToggleRequester
<1> HIDE DEF b
<1>2. ASSUME NEW s \in Seasons
      PROVE  rows[s] \in RowAt(now) /\ (rows[s].state = "NONE" => rows[s] = NoRow)
  <2>1. row[s] \in RowAt(now)
    BY <1>0
  <2>2. CASE HasRow(s)
    <3>1. /\ AfterRequests(row[s], b) \in RowAt(now)
          /\ AfterRequests(row[s], b).state = row[s].state
      BY <1>0, <2>1, RequestsAreSound DEF RowAt
    <3> QED
      BY <2>2, <3>1 DEF HasRow
  <2> QED
    BY <1>0, <2>1, <2>2
<1>3. rows \in [Seasons -> RowAt(now)]
  BY <1>2
<1> HIDE DEF rows
<1>4. rows \in Rows(now)
  BY <1>2, <1>3 DEF Rows
<1> QED
  BY <1>1, <1>4 DEF rows, b

\* How rows change.
LEMMA RowsMove ==
    ASSUME Quiet, [Next]_vars
    PROVE  \/ row' = row
           \/ \E rows \in Rows(now), sources \in SUBSET Sources :
                row' = Recomputed(rows, sources) /\ now' = now
           \/ \E s \in Seasons : DeleteSeason(s)
<1>0. Sound
  BY DEF Quiet
<1>1. CASE Apply
  <2>1. Synchronized(sync) \in Rows(now) /\ sync.src \in Sources
    BY <1>0, <1>1, SynchronizingIsSound, SynchronizedCases DEF Apply, Sources
  <2>2. fresh \cup {sync.src} \in SUBSET Sources
    BY <1>0, <2>1 DEF Sound
  <2> QED
    BY <1>1, <2>1, <2>2 DEF Apply
<1>2. ASSUME NEW src \in Sources, SyncFails(src)
      PROVE  row' = Recomputed(row, fresh') /\ row \in Rows(now) /\ fresh' \in SUBSET Sources
             /\ now' = now
  BY <1>0, <1>2 DEF Sound, SyncFails
<1>3. CASE CommitForm
  <2>1. form # NoForm
    BY <1>3 DEF CommitForm
  <2>2. ToggledRows \in Rows(now) /\ form.fresh \in SUBSET Sources
    BY <1>0, <2>1, TogglingIsSound, FormIsRecord
  <2>3. row' = Recomputed(ToggledRows, form.fresh) /\ now' = now
    BY <1>3, CommitRecomputes DEF FormRows, CommitForm
  <2> QED
    BY <2>2, <2>3
<1>4. CASE ToggleRequester
  <2>1. fresh \in SUBSET Sources /\ now' = now
    BY <1>0, <1>4 DEF Sound, ToggleRequester
  <2> QED
    BY <1>0, <1>4, <2>1, ToggleRecomputes
<1>5. CASE UNCHANGED vars
  BY <1>5 DEF vars, store
<1>6. ASSUME NEW src \in Sources, Fetch(src) PROVE row' = row
  BY <1>6 DEF Fetch, store
<1>7. ASSUME NEW on \in {"protect", "unprotect"}, NEW chosen \in SUBSET Seasons,
             LoadForm(on, chosen)
      PROVE  row' = row
  BY <1>7 DEF LoadForm, store
<1>8. CASE Crash \/ Tick \/ TagChanges \/ PlexScans \/ RequestChanges
  BY <1>8 DEF Crash, Tick, TagChanges, PlexScans, RequestChanges, Untouched, store
<1>9. ASSUME NEW s \in Seasons, Import(s) \/ QualityUpgrade(s) \/ FilesVanish(s) \/ PlayFinishes(s)
      PROVE  row' = row
  BY <1>9 DEF Import, QualityUpgrade, FilesVanish, PlayFinishes, Untouched, store
<1> QED
  BY <1>1, <1>2, <1>3, <1>4, <1>5, <1>6, <1>7, <1>8, <1>9 DEF Next

LEMMA QuietStep ==
    ASSUME Overlap = FALSE
    PROVE  Quiet /\ [Next]_vars => Quiet'
<1> SUFFICES ASSUME Quiet, [Next]_vars PROVE Quiet'
  OBVIOUS
<1>0. Sound /\ Sound'
  BY SoundStep DEF Quiet
<1>1. FormIsCurrent'
  <2>1. CASE Apply \/ (\E src \in Sources : SyncFails(src)) \/ ToggleRequester
             \/ \E s \in Seasons : DeleteSeason(s)
    <3>1. form = NoForm /\ form' = form
      BY <2>1 DEF Apply, SyncFails, ToggleRequester, DeleteSeason, MayWrite
    <3> QED
      BY <3>1 DEF FormIsCurrent
  <2>2. CASE CommitForm \/ Crash
    BY <2>2 DEF CommitForm, Crash, FormIsCurrent
  <2>3. ASSUME NEW on \in {"protect", "unprotect"}, NEW chosen \in SUBSET Seasons,
               LoadForm(on, chosen)
        PROVE  FormIsCurrent'
    <3>1. form'.row = row /\ row' = row
      BY <2>3 DEF LoadForm, store
    <3> QED
      BY <3>1 DEF FormIsCurrent
  <2>4. CASE form' = form /\ row' = row
    BY <2>4 DEF FormIsCurrent, Quiet
  <2>5. ASSUME NEW src \in Sources, Fetch(src) PROVE form' = form /\ row' = row
    BY <2>5 DEF Fetch, store
  <2>6. ASSUME Tick \/ TagChanges \/ PlexScans \/ RequestChanges
        PROVE  form' = form /\ row' = row
    BY <2>6 DEF Tick, TagChanges, PlexScans, RequestChanges, Untouched, store
  <2>7. ASSUME NEW s \in Seasons, Import(s) \/ QualityUpgrade(s) \/ FilesVanish(s) \/ PlayFinishes(s)
        PROVE  form' = form /\ row' = row
    BY <2>7 DEF Import, QualityUpgrade, FilesVanish, PlayFinishes, Untouched, store
  <2>8. UNCHANGED vars => form' = form /\ row' = row
    BY DEF vars, store
  <2> QED
    BY <2>1, <2>2, <2>3, <2>4, <2>5, <2>6, <2>7, <2>8 DEF Next
<1> QED
  BY <1>0, <1>1 DEF Quiet

-----------------------------------------------------------------------------
(***************************************************************************)
(* What a recomputation makes true of all rows.                            *)
(***************************************************************************)
Resets(rows, s) ==
    {t \in Seasons : t <= s /\ rows[t].watch # NoDate /\ rows[t].watch >= rows[s].imported}

\* A deadline is the latest reset's, or counts from the import.
ResetsLater(rows, s, deadline) ==
    rows[s].state = "ACTIVE" /\ rows[s].imported # NoDate =>
        /\ Resets(rows, s) = {} => deadline = rows[s].imported + NeverWatchedFor
        /\ Resets(rows, s) # {} =>
             /\ \E t \in Resets(rows, s) : deadline = rows[t].watch + WatchedFor
             /\ \A t \in Resets(rows, s) : deadline >= rows[t].watch + WatchedFor

LEMMA DeadlineIsLatestReset ==
    ASSUME NEW n \in Nat, NEW rows \in [Seasons -> RowAt(n)], NEW s \in Seasons
    PROVE  ResetsLater(rows, s, Deadline(rows, s))
<1> DEFINE imp == rows[s].imported
           D == PriorDates(rows, s)
           L == Latest(D)
           w == EffectiveWatch(rows, s)
<1>0. SUFFICES ASSUME rows[s].state = "ACTIVE", imp # NoDate
               PROVE  /\ Resets(rows, s) = {} => Deadline(rows, s) = imp + NeverWatchedFor
                      /\ Resets(rows, s) # {} =>
                           /\ \E t \in Resets(rows, s) : Deadline(rows, s) = rows[t].watch + WatchedFor
                           /\ \A t \in Resets(rows, s) : Deadline(rows, s) >= rows[t].watch + WatchedFor
  BY DEF ResetsLater
<1>1. /\ imp \in Nat /\ \A t \in Seasons : rows[t].watch \in Nat
      /\ s \in Nat /\ NeverWatchedFor \in Nat /\ WatchedFor \in Nat
  BY SeasonsAreNumbers, PolicyIsPositive DEF RowAt
<1>2. D \in SUBSET (0 .. n) /\ LatestPrior(rows, s) = L
  BY PriorIsDate
<1>3. /\ D = {} => L = NoDate
      /\ D # {} => L \in D /\ \A e \in D : e <= L
      /\ L \in 0 .. n
  BY <1>2, LatestIsGreatest
<1>4. \A t \in Seasons : t <= s /\ rows[t].watch # NoDate => rows[t].watch \in D
  BY DEF PriorDates
<1>5. \A d \in D : \E t \in Seasons : t <= s /\ d = rows[t].watch /\ d # NoDate
  BY DEF PriorDates
<1>6. Deadline(rows, s) = IF w # NoDate /\ w >= imp THEN w + WatchedFor ELSE imp + NeverWatchedFor
  BY <1>0 DEF Deadline, retention_deadline
<1>7. w = IF L # NoDate /\ L >= imp THEN L ELSE rows[s].watch
  BY <1>0, <1>2 DEF EffectiveWatch
<1> HIDE DEF D, L, w, imp
<1>8. CASE D # {} /\ L >= imp
  <2>1. L \in D /\ L # NoDate
    BY <1>3, <1>5, <1>8
  <2>2. Deadline(rows, s) = L + WatchedFor
    BY <1>6, <1>7, <1>8, <2>1
  <2>3. PICK t \in Seasons : t <= s /\ L = rows[t].watch /\ L # NoDate
    BY <1>5, <2>1
  <2>4. t \in Resets(rows, s)
    BY <1>8, <2>3 DEF Resets, imp
  <2>5. \A u \in Resets(rows, s) : rows[u].watch <= L
    BY <1>3, <1>4, <2>1 DEF Resets
  <2>6. \A u \in Resets(rows, s) : rows[u].watch \in Nat
    BY <1>1 DEF Resets
  <2> QED
    BY <1>1, <1>3, <2>2, <2>3, <2>4, <2>5, <2>6
<1>9. CASE D = {} \/ ~(L >= imp)
  <2>1. \A d \in D : ~(d >= imp)
    BY <1>1, <1>2, <1>3, <1>9
  <2>2. Resets(rows, s) = {}
    BY <1>4, <2>1 DEF Resets, imp
  <2>3. w = rows[s].watch
    BY <1>3, <1>7, <1>9
  <2>4. ~(w # NoDate /\ w >= imp)
    BY <1>1, <1>4, <2>1, <2>3
  <2> QED
    BY <1>6, <2>2, <2>4
<1> QED
  BY <1>8, <1>9

LEMMA RecomputedFields ==
    ASSUME NEW n \in Nat, NEW rows \in Rows(n), NEW sources, NEW s \in Seasons
    PROVE  LET r == Recomputed(rows, sources)[s]
               c == ClearedRows(rows)
           IN  /\ r.state = c[s].state /\ r.imported = c[s].imported
               /\ r.watch = c[s].watch
               /\ r.state # "NONE" =>
                    /\ r.deadline = Deadline(c, s)
                    /\ r.decision = Decide(r, sources = Sources, now)
<1> DEFINE c == ClearedRows(rows)
           r == Recomputed(rows, sources)[s]
           d == Deadline(c, s)
           e == Decide(DatedRow(rows, s), sources = Sources, now)
<1>0. rows[s] \in RowAt(n) /\ (rows[s].state = "NONE" => rows[s] = NoRow)
  BY DEF Rows
<1>1. c[s] \in RowAt(n) /\ c[s] = [rows[s] EXCEPT !.watch = c[s].watch]
      /\ c[s].watch \in {rows[s].watch, NoDate}
  BY ClearingIsSound DEF Rows
<1>2. r = IF rows[s].state = "NONE" THEN rows[s] ELSE [DatedRow(rows, s) EXCEPT !.decision = e]
  BY RecomputedRow
<1>3. DatedRow(rows, s) = [c[s] EXCEPT !.deadline = d]
  BY DEF DatedRow
<1> HIDE DEF c, d, e, r
<1>4. c[s].state = rows[s].state /\ c[s].imported = rows[s].imported
  BY <1>0, <1>1 DEF RowAt
<1>5. CASE rows[s].state = "NONE"
  <2>1. r = rows[s] /\ rows[s].watch = NoDate
    BY <1>0, <1>2, <1>5 DEF NoRow
  <2> QED
    BY <1>1, <1>4, <1>5, <2>1 DEF c, r
<1>6. CASE rows[s].state # "NONE"
  <2>1. r = [[c[s] EXCEPT !.deadline = d] EXCEPT !.decision = e]
    BY <1>2, <1>3, <1>6
  <2>2. /\ r.state = c[s].state /\ r.imported = c[s].imported /\ r.watch = c[s].watch
        /\ r.sources = c[s].sources /\ r.deadline = d /\ r.decision = e
    BY <1>1, <2>1 DEF RowAt
  <2>3. /\ DatedRow(rows, s).state = r.state /\ DatedRow(rows, s).imported = r.imported
        /\ DatedRow(rows, s).sources = r.sources /\ DatedRow(rows, s).deadline = r.deadline
    BY <1>1, <1>3, <2>2 DEF RowAt
  <2>4. e = Decide(r, sources = Sources, now)
    BY <2>3 DEF e, Decide
  <2> QED
    BY <2>2, <2>4 DEF c, d, r
<1> QED
  BY <1>5, <1>6

\* A deleted season keeps its import date, its watch and its deadline.
LEMMA DeletionKeepsDates ==
    ASSUME Sound, NEW s \in Seasons, DeleteSeason(s)
    PROVE  /\ row'[s].state = "DELETED" /\ row'[s].decision = "DELETED"
           /\ \A t \in Seasons : /\ row'[t].imported = row[t].imported
                                 /\ row'[t].watch = row[t].watch
                                 /\ row'[t].deadline = row[t].deadline
                                 /\ row'[t].sources = row[t].sources
                                 /\ row'[t].matched = row[t].matched
                                 /\ t # s => row'[t] = row[t]
<1> DEFINE gone == [[row[s] EXCEPT !.state = "DELETED"] EXCEPT !.decision = "DELETED"]
<1>1. row \in [Seasons -> RowAt(now)]
  BY DEF Sound, Rows
<1>2. row' = [row EXCEPT ![s] = gone]
  BY <1>1 DEF DeleteSeason
<1>3. /\ gone.state = "DELETED" /\ gone.decision = "DELETED"
      /\ gone.imported = row[s].imported /\ gone.watch = row[s].watch
      /\ gone.deadline = row[s].deadline /\ gone.sources = row[s].sources
      /\ gone.matched = row[s].matched
  BY <1>1 DEF RowAt
<1> HIDE DEF gone
<1> QED
  BY <1>1, <1>2, <1>3

-----------------------------------------------------------------------------
(***************************************************************************)
(* Deadlines and decisions.                                                *)
(***************************************************************************)
\* Every deadline is that of the latest watch the rows hold.
DeadlinesFollow == \A s \in Seasons : ResetsLater(row, s, row[s].deadline)

\* A recomputation leaves the deadlines of the resets.
LEMMA RecomputationResets ==
    ASSUME NEW n \in Nat, NEW rows \in Rows(n), NEW sources, NEW s \in Seasons
    PROVE  ResetsLater(Recomputed(rows, sources), s, Recomputed(rows, sources)[s].deadline)
<1> DEFINE out == Recomputed(rows, sources)
           c == ClearedRows(rows)
<1>1. c \in [Seasons -> RowAt(n)]
  BY ClearingIsSound DEF Rows
<1>2. \A t \in Seasons : /\ out[t].state = c[t].state /\ out[t].imported = c[t].imported
                         /\ out[t].watch = c[t].watch
  BY RecomputedFields
<1>3. out[s].state # "NONE" => out[s].deadline = Deadline(c, s)
  BY RecomputedFields
<1>4. ResetsLater(c, s, Deadline(c, s))
  BY <1>1, DeadlineIsLatestReset
<1> HIDE DEF out, c
<1>5. Resets(out, s) = Resets(c, s)
  BY <1>2 DEF Resets
<1>6. ResetsLater(out, s, out[s].deadline)
  <2>1. SUFFICES ASSUME out[s].state = "ACTIVE", out[s].imported # NoDate
                 PROVE  ResetsLater(out, s, out[s].deadline)
    BY DEF ResetsLater
  <2>2. out[s].deadline = Deadline(c, s) /\ c[s].state = "ACTIVE" /\ c[s].imported # NoDate
    BY <1>2, <1>3, <2>1
  <2>3. \A t \in Resets(c, s) : out[t].watch = c[t].watch
    BY <1>2 DEF Resets
  <2> QED
    BY <1>2, <1>4, <1>5, <2>2, <2>3 DEF ResetsLater
<1> QED
  BY <1>6 DEF out

LEMMA ResetsStep ==
    Quiet /\ DeadlinesFollow /\ [Next]_vars => DeadlinesFollow'
<1> SUFFICES ASSUME Quiet, DeadlinesFollow, [Next]_vars
             PROVE  \A s \in Seasons : ResetsLater(row', s, row'[s].deadline)
  BY DEF DeadlinesFollow, ResetsLater, Resets
<1>0. \A s \in Seasons : ResetsLater(row, s, row[s].deadline)
  BY DEF DeadlinesFollow
<1>1. CASE row' = row
  BY <1>0, <1>1
<1>2. ASSUME NEW rows \in Rows(now), NEW sources \in SUBSET Sources,
             row' = Recomputed(rows, sources)
      PROVE  \A s \in Seasons : ResetsLater(row', s, row'[s].deadline)
  <2>1. now \in Nat
    BY DEF Quiet, Sound
  <2> QED
    BY <1>2, <2>1, RecomputationResets
<1>3. ASSUME NEW t \in Seasons, DeleteSeason(t), NEW s \in Seasons
      PROVE  ResetsLater(row', s, row'[s].deadline)
  <2>1. /\ row'[t].state = "DELETED"
        /\ \A u \in Seasons : /\ row'[u].imported = row[u].imported
                              /\ row'[u].watch = row[u].watch
                              /\ row'[u].deadline = row[u].deadline
                              /\ u # t => row'[u] = row[u]
    BY <1>3, DeletionKeepsDates DEF Quiet
  <2>2. CASE s = t
    BY <2>1, <2>2 DEF ResetsLater
  <2>3. CASE s # t
    <3>1. Resets(row', s) = Resets(row, s)
      BY <2>1 DEF Resets
    <3>2. \A u \in Resets(row, s) : row'[u].watch = row[u].watch
      BY <2>1 DEF Resets
    <3>3. row'[s] = row[s]
      BY <2>1, <2>3
    <3> QED
      BY <1>0, <3>1, <3>2, <3>3 DEF ResetsLater
  <2> QED
    BY <2>2, <2>3
<1> QED
  BY <1>1, <1>2, <1>3, RowsMove

\* What is decided about a row that a recomputation leaves.
LEMMA RecomputationDecides ==
    ASSUME NEW n \in Nat, NEW rows \in Rows(n), NEW sources, NEW s \in Seasons,
           Recomputed(rows, sources)[s].decision = "REVIEW_ELIGIBLE"
    PROVE  LET r == Recomputed(rows, sources)[s]
           IN  /\ r.state = "ACTIVE" /\ r.sources = {} /\ r.imported # NoDate
               /\ r.deadline # NoDate /\ ~(r.deadline > now)
               /\ sources = Sources
<1> DEFINE r == Recomputed(rows, sources)[s]
           c == ClearedRows(rows)
<1>1. /\ r.state = c[s].state /\ r.imported = c[s].imported
      /\ r.state # "NONE" => /\ r.deadline = Deadline(c, s)
                             /\ r.decision = Decide(r, sources = Sources, now)
  BY RecomputedFields
<1>2. r.state # "NONE"
  <2>1. SUFFICES ASSUME r.state = "NONE" PROVE FALSE
    OBVIOUS
  <2>2. r = NoRow
    BY <2>1, RecomputingIsSound DEF Rows
  <2> QED
    BY <2>2 DEF NoRow
<1> HIDE DEF r, c
<1>3. Decide(r, sources = Sources, now) = "REVIEW_ELIGIBLE" /\ r.deadline = Deadline(c, s)
  BY <1>1, <1>2 DEF r
<1>4. /\ r.sources = {} /\ sources = Sources /\ r.imported # NoDate
      /\ r.deadline # NoDate /\ ~(r.deadline > now)
  BY <1>3 DEF Decide
<1>5. r.state = "ACTIVE"
  BY <1>1, <1>3, <1>4 DEF Deadline
<1> QED
  BY <1>4, <1>5 DEF r

LEMMA EligibleStep ==
    Quiet /\ EligibleIsExpired /\ [Next]_vars => EligibleIsExpired'
<1> SUFFICES ASSUME Quiet, EligibleIsExpired, [Next]_vars,
                    NEW s \in Seasons, row'[s].decision = "REVIEW_ELIGIBLE"
             PROVE  /\ row'[s].state = "ACTIVE" /\ row'[s].sources = {}
                    /\ row'[s].imported # NoDate
                    /\ NoDate < row'[s].deadline /\ row'[s].deadline <= now'
  BY DEF EligibleIsExpired
<1>0. /\ now \in Nat /\ row \in [Seasons -> RowAt(now)] /\ Sound
      /\ now' \in {now, now + 1}
  <2>1. Sound
    BY DEF Quiet
  <2>2. now' \in {now, now + 1}
    BY DEF Next, Fetch, SyncFails, Apply, LoadForm, CommitForm, ToggleRequester, Crash, Tick,
           TagChanges, PlexScans, RequestChanges, DeleteSeason, Import, QualityUpgrade,
           FilesVanish, PlayFinishes, Untouched, vars
  <2> QED
    BY <2>1, <2>2 DEF Sound, Rows
<1>1. CASE row' = row
  <2>1. row[s].deadline \in Nat
    BY <1>0 DEF RowAt
  <2> QED
    BY <1>0, <1>1, <2>1 DEF EligibleIsExpired
<1>2. ASSUME NEW rows \in Rows(now), NEW sources \in SUBSET Sources,
             row' = Recomputed(rows, sources), now' = now
      PROVE  /\ row'[s].state = "ACTIVE" /\ row'[s].sources = {}
             /\ row'[s].imported # NoDate
             /\ NoDate < row'[s].deadline /\ row'[s].deadline <= now'
  <2>1. row'[s].deadline \in Nat
    BY <1>0, <1>2, RecomputingIsSound DEF Rows, RowAt
  <2>2. /\ row'[s].state = "ACTIVE" /\ row'[s].sources = {} /\ row'[s].imported # NoDate
        /\ row'[s].deadline # NoDate /\ ~(row'[s].deadline > now)
    BY <1>0, <1>2, RecomputationDecides
  <2> QED
    BY <1>0, <1>2, <2>1, <2>2 DEF NoDate
<1>3. ASSUME NEW t \in Seasons, DeleteSeason(t)
      PROVE  /\ row'[s].state = "ACTIVE" /\ row'[s].sources = {}
             /\ row'[s].imported # NoDate
             /\ NoDate < row'[s].deadline /\ row'[s].deadline <= now'
  <2>1. row'[t].decision = "DELETED" /\ (s # t => row'[s] = row[s])
    BY <1>0, <1>3, DeletionKeepsDates
  <2>2. row'[s] = row[s] /\ now' = now
    BY <1>3, <2>1 DEF DeleteSeason
  <2> QED
    BY <2>2 DEF EligibleIsExpired
<1> QED
  BY <1>1, <1>2, <1>3, RowsMove

\* What may be reviewed for deletion is there, unprotected and expired.
THEOREM EligibleCorrect ==
    ASSUME Overlap = FALSE
    PROVE  Spec => []EligibleIsExpired
<1>1. Init => Quiet /\ EligibleIsExpired
  <2>1. SUFFICES ASSUME Init PROVE Quiet /\ EligibleIsExpired
    OBVIOUS
  <2>2. row = [s \in Seasons |-> NoRow]
    BY <2>1, Zenon DEF Init
  <2>3. \A s \in Seasons : row[s].decision # "REVIEW_ELIGIBLE"
    BY <2>2 DEF NoRow
  <2> QED
    BY <2>1, <2>3, InitIsQuiet DEF EligibleIsExpired
<1>2. Quiet /\ EligibleIsExpired /\ [Next]_vars => Quiet' /\ EligibleIsExpired'
  BY QuietStep, EligibleStep
<1> QED
  BY <1>1, <1>2, PTL DEF Spec

-----------------------------------------------------------------------------
(***************************************************************************)
(* Fresh evidence, whether forms overlap with other writers or not.        *)
(***************************************************************************)
Condemns(s) == row[s].decision # "REVIEW_ELIGIBLE" /\ row'[s].decision = "REVIEW_ELIGIBLE"

LEMMA FreshStep ==
    ASSUME Sound, [Next]_vars, NEW s \in Seasons, Condemns(s)
    PROVE  \/ fresh' = Sources
           \/ form # NoForm /\ form' = NoForm /\ form.fresh = Sources
<1>0. now \in Nat /\ row \in Rows(now) /\ row'[s].decision = "REVIEW_ELIGIBLE" /\ row' # row
  BY DEF Sound, Condemns
<1>1. ASSUME NEW rows \in Rows(now), row' = Recomputed(rows, fresh')
      PROVE  fresh' = Sources
  BY <1>0, <1>1, RecomputationDecides
<1>2. CASE Apply
  <2>1. Synchronized(sync) \in Rows(now)
    BY <1>2, SynchronizingIsSound DEF Apply
  <2>2. row' = Recomputed(Synchronized(sync), fresh')
    BY <1>2 DEF Apply
  <2> QED
    BY <1>1, <2>1, <2>2
<1>3. ASSUME NEW src \in Sources, SyncFails(src)
      PROVE  fresh' = Sources
  BY <1>0, <1>1, <1>3 DEF SyncFails
<1>4. CASE ToggleRequester
  <2>1. fresh' = fresh
    BY <1>4 DEF ToggleRequester
  <2> QED
    BY <1>1, <1>4, <2>1, ToggleRecomputes
<1>5. CASE CommitForm
  <2>1. form # NoForm /\ form' = NoForm /\ row' = [t \in Seasons |-> Committed(t)]
    BY <1>5 DEF CommitForm, Committed, FormRows, ToggledRows
  <2>2. row'[s].decision \in {row[s].decision, FormRows[s].decision}
    BY <2>1, CommittingIsSound
  <2>3. FormRows[s].decision = "REVIEW_ELIGIBLE"
    BY <2>2 DEF Condemns
  <2>4. ToggledRows \in Rows(now)
    BY <2>1, TogglingIsSound
  <2>5. form.fresh = Sources
    BY <1>0, <2>3, <2>4, RecomputationDecides DEF FormRows
  <2> QED
    BY <2>1, <2>5
<1>6. ASSUME NEW t \in Seasons, DeleteSeason(t)
      PROVE  FALSE
  <2>1. row'[t].decision = "DELETED" /\ (s # t => row'[s] = row[s])
    BY <1>6, DeletionKeepsDates
  <2> QED
    BY <2>1 DEF Condemns
<1>7. ASSUME NEW src \in Sources, Fetch(src) PROVE row' = row
  BY <1>7 DEF Fetch, store
<1>8. ASSUME NEW on \in {"protect", "unprotect"}, NEW chosen \in SUBSET Seasons,
             LoadForm(on, chosen)
      PROVE  row' = row
  BY <1>8 DEF LoadForm, store
<1>9. Crash \/ Tick \/ TagChanges \/ PlexScans \/ RequestChanges => row' = row
  BY DEF Crash, Tick, TagChanges, PlexScans, RequestChanges, Untouched, store
<1>10. ASSUME NEW t \in Seasons, Import(t) \/ QualityUpgrade(t) \/ FilesVanish(t) \/ PlayFinishes(t)
       PROVE  row' = row
  BY <1>10 DEF Import, QualityUpgrade, FilesVanish, PlayFinishes, Untouched, store
<1>11. UNCHANGED vars => row' = row
  BY DEF vars, store
<1> QED
  BY <1>0, <1>2, <1>3, <1>4, <1>5, <1>6, <1>7, <1>8, <1>9, <1>10, <1>11 DEF Next

\* Nothing becomes eligible on stale evidence.
THEOREM FreshEvidence == Spec => OnlyFreshEvidenceCondemns
<1>1. Spec => []Sound
  BY InitIsSound, SoundStep, PTL DEF Spec
<1>2. Sound /\ [Next]_vars =>
        [\A s \in Seasons :
           row[s].decision # "REVIEW_ELIGIBLE" /\ row'[s].decision = "REVIEW_ELIGIBLE"
             => \/ fresh' = Sources
                \/ form # NoForm /\ form' = NoForm /\ form.fresh = Sources]_vars
  BY FreshStep DEF Condemns
<1> QED
  BY <1>1, <1>2, PTL DEF Spec, OnlyFreshEvidenceCondemns

-----------------------------------------------------------------------------
(***************************************************************************)
(* Imports and protection: what a step makes of state, import date and     *)
(* reasons of a row.                                                       *)
(***************************************************************************)
\* Playback, which Plex and Tautulli end with, changes the watch only.
LEMMA PlaybackKeeps ==
    ASSUME NEW n \in Nat, NEW r \in RowAt(n), NEW plays \in SUBSET PlayAt(n), NEW s \in Seasons
    PROVE  /\ AfterPlayback(r, plays, s).state = r.state
           /\ AfterPlayback(r, plays, s).imported = r.imported
           /\ AfterPlayback(r, plays, s).sources = r.sources
<1>1. FromPlays(AfterPlayback(r, plays, s), r, plays, s, n)
  BY PlaybackIsSound, Zenon
<1>2. PICK w \in 0 .. n : AfterPlayback(r, plays, s) = [r EXCEPT !.watch = w]
  BY <1>1 DEF FromPlays
<1> QED
  BY <1>2 DEF RowAt

\* What Plex and Tautulli leave alone.
LEMMA WatchersKeep ==
    ASSUME Sound, sync # NoSync, sync.src \in {"PLEX", "TAUTULLI"}, NEW s \in Seasons
    PROVE  /\ Synchronized(sync)[s].state = row[s].state
           /\ Synchronized(sync)[s].imported = row[s].imported
           /\ Synchronized(sync)[s].sources = row[s].sources
<1>0. now \in Nat /\ row[s] \in RowAt(now) /\ played \in SUBSET PlayAt(now)
  BY DEF Sound, Rows
<1>1. CASE sync.src = "PLEX"
  <2>1. Synchronized(sync)[s] = AfterPlayback(Matched(sync, s), played, s)
    BY <1>1, SynchronizedCases
  <2>2. /\ Matched(sync, s) \in RowAt(now) /\ Matched(sync, s).state = row[s].state
        /\ Matched(sync, s).imported = row[s].imported
        /\ Matched(sync, s).sources = row[s].sources
    BY <1>0 DEF Matched, RowAt, HasRow
  <2> QED
    BY <1>0, <2>1, <2>2, PlaybackKeeps
<1>2. CASE sync.src = "TAUTULLI"
  <2>1. /\ played \cup sync.plays \in SUBSET PlayAt(now)
        /\ Synchronized(sync)[s] = AfterPlayback(row[s], played \cup sync.plays, s)
    BY <1>0, <1>2, SynchronizedCases
  <2> QED
    BY <1>0, <2>1, PlaybackKeeps
<1> QED
  BY <1>1, <1>2

\* Requests change one reason only.
LEMMA RequestsKeep ==
    ASSUME Sound, NEW s \in Seasons, NEW requested \in BOOLEAN
    PROVE  /\ AfterRequests(row[s], requested).state = row[s].state
           /\ AfterRequests(row[s], requested).imported = row[s].imported
           /\ AfterRequests(row[s], requested).sources =
                (row[s].sources \ {"PROTECTED_REQUESTER"})
                  \cup IF requested THEN {"PROTECTED_REQUESTER"} ELSE {}
<1>1. now \in Nat /\ row[s] \in RowAt(now)
  BY DEF Sound, Rows
<1> DEFINE why == (row[s].sources \ {"PROTECTED_REQUESTER"})
                    \cup IF requested THEN {"PROTECTED_REQUESTER"} ELSE {}
<1>2. AfterRequests(row[s], requested) = [row[s] EXCEPT !.sources = why]
  BY <1>1, RequestsAreSound
<1> HIDE DEF why
<1>3. /\ AfterRequests(row[s], requested).state = row[s].state
      /\ AfterRequests(row[s], requested).imported = row[s].imported
      /\ AfterRequests(row[s], requested).sources = why
  BY <1>1, <1>2 DEF RowAt
<1> QED
  BY <1>3 DEF why

\* Steps other than a synchronization's keep imports; only a deletion
\* changes a state.
LEMMA ImportsKept ==
    ASSUME Sound, [Next]_vars, ~Apply, NEW s \in Seasons
    PROVE  row'[s].imported = row[s].imported /\ row'[s].state \in {row[s].state, "DELETED"}
<1>0. now \in Nat /\ row \in Rows(now) /\ row[s] \in RowAt(now)
  BY DEF Sound, Rows
<1>1. ASSUME NEW src \in Sources, SyncFails(src)
      PROVE  row'[s].imported = row[s].imported /\ row'[s].state = row[s].state
  BY <1>0, <1>1, RecomputingIsSound DEF SyncFails
<1>2. CASE CommitForm
  <2>1. form # NoForm /\ row' = [t \in Seasons |-> Committed(t)]
    BY <1>2 DEF CommitForm, Committed, FormRows, ToggledRows
  <2> QED
    BY <2>1, CommittingIsSound
<1>3. CASE ToggleRequester
  <2> DEFINE b == request /\ guarded'
             rows == [t \in Seasons |-> IF HasRow(t) THEN AfterRequests(row[t], b) ELSE row[t]]
  <2>1. row' = Recomputed(rows, fresh) /\ rows \in Rows(now) /\ b \in BOOLEAN
    BY <1>3, ToggleRecomputes DEF Sound, ToggleRequester
  <2>2. rows[s].imported = row[s].imported /\ rows[s].state = row[s].state
    BY <2>1, RequestsKeep
  <2> HIDE DEF rows
  <2> QED
    BY <1>0, <2>1, <2>2, RecomputingIsSound
<1>4. ASSUME NEW t \in Seasons, DeleteSeason(t)
      PROVE  row'[s].imported = row[s].imported /\ row'[s].state \in {row[s].state, "DELETED"}
  BY <1>4, DeletionKeepsDates
<1>5. ASSUME NEW src \in Sources, Fetch(src) PROVE row' = row
  BY <1>5 DEF Fetch, store
<1>6. ASSUME NEW on \in {"protect", "unprotect"}, NEW chosen \in SUBSET Seasons,
             LoadForm(on, chosen)
      PROVE  row' = row
  BY <1>6 DEF LoadForm, store
<1>7. Crash \/ Tick \/ TagChanges \/ PlexScans \/ RequestChanges => row' = row
  BY DEF Crash, Tick, TagChanges, PlexScans, RequestChanges, Untouched, store
<1>8. ASSUME NEW t \in Seasons, Import(t) \/ QualityUpgrade(t) \/ FilesVanish(t) \/ PlayFinishes(t)
      PROVE  row' = row
  BY <1>8 DEF Import, QualityUpgrade, FilesVanish, PlayFinishes, Untouched, store
<1>9. UNCHANGED vars => row' = row
  BY DEF vars, store
<1> QED
  BY <1>1, <1>2, <1>3, <1>4, <1>5, <1>6, <1>7, <1>8, <1>9 DEF Next

\* Sonarr's history holds the import of every file there is, and so does what
\* a synchronization has read, whatever happens before it is written.
HistoryReachesBack ==
    /\ \A s \in Seasons : files[s] # NoDate => origin[s] # NoDate /\ origin[s] <= files[s]
    /\ sync.src = "SONARR" =>
         \A s \in Seasons :
            /\ sync.origin[s] \in {NoDate, origin[s]}
            /\ sync.files[s] # NoDate => /\ sync.origin[s] # NoDate
                                         /\ sync.origin[s] <= sync.files[s]

LEMMA HistoryStep ==
    ASSUME Sound, HistoryReachesBack, [Next]_vars
    PROVE  /\ HistoryReachesBack'
           /\ \A s \in Seasons : origin[s] # NoDate => origin'[s] = origin[s]
<1> DEFINE Goal == /\ HistoryReachesBack'
                   /\ \A s \in Seasons : origin[s] # NoDate => origin'[s] = origin[s]
<1>0. /\ now \in Nat /\ files \in [Seasons -> 0 .. now] /\ origin \in [Seasons -> 0 .. now]
  BY DEF Sound
<1>1. CASE files' = files /\ origin' = origin /\ sync' \in {sync, NoSync}
  <2>1. NoSync.src # "SONARR"
    BY DEF NoSync
  <2> QED
    BY <1>1, <2>1 DEF HistoryReachesBack
<1>2. ASSUME NEW src \in Sources, Fetch(src) PROVE Goal
  <2>1. files' = files /\ origin' = origin /\ sync' = Read(src)
    BY <1>2 DEF Fetch, outside
  <2>2. CASE src = "SONARR"
    <3>1. sync'.files = files /\ sync'.origin = origin
      BY <2>1, <2>2 DEF Read
    <3> QED
      BY <2>1, <3>1 DEF HistoryReachesBack
  <2>3. CASE src # "SONARR"
    <3>1. sync'.src # "SONARR"
      BY <2>1, <2>3 DEF Read, Sources
    <3> QED
      BY <2>1, <3>1 DEF HistoryReachesBack
  <2> QED
    BY <2>2, <2>3
<1>3. ASSUME NEW t \in Seasons, Import(t) PROVE Goal
  <2>1. /\ files[t] = NoDate /\ files' = [files EXCEPT ![t] = now] /\ sync' = sync
        /\ origin' = [origin EXCEPT ![t] = IF origin[t] = NoDate THEN now ELSE origin[t]]
    BY <1>3 DEF Import, Untouched
  <2>2. \A s \in Seasons : origin[s] # NoDate => origin'[s] = origin[s]
    BY <1>0, <2>1
  <2>3. files'[t] = now /\ origin'[t] <= now /\ origin'[t] \in {origin[t], now}
        /\ (origin'[t] = NoDate => now = NoDate)
    BY <1>0, <2>1
  <2>4. \A s \in Seasons : s # t => files'[s] = files[s] /\ origin'[s] = origin[s]
    BY <1>0, <2>1
  <2>5. \A s \in Seasons : files'[s] # NoDate => origin'[s] # NoDate /\ origin'[s] <= files'[s]
    BY <2>3, <2>4 DEF HistoryReachesBack
  <2> QED
    BY <2>1, <2>2, <2>5 DEF HistoryReachesBack
<1>4. ASSUME NEW t \in Seasons, QualityUpgrade(t) PROVE Goal
  <2>1. /\ files[t] # NoDate /\ files[t] < now /\ files' = [files EXCEPT ![t] = now]
        /\ sync' = sync /\ origin' = origin
    BY <1>4 DEF QualityUpgrade, Untouched
  <2>2. \A s \in Seasons : files'[s] # NoDate => origin[s] # NoDate /\ origin[s] <= files'[s]
    BY <1>0, <2>1 DEF HistoryReachesBack
  <2> QED
    BY <2>1, <2>2 DEF HistoryReachesBack
<1>5. ASSUME NEW t \in Seasons, FilesVanish(t) \/ DeleteSeason(t) PROVE Goal
  <2>1. files' = [files EXCEPT ![t] = NoDate] /\ sync' = sync /\ origin' = origin
    BY <1>5 DEF FilesVanish, DeleteSeason, Untouched
  <2>2. \A s \in Seasons : files'[s] # NoDate => origin[s] # NoDate /\ origin[s] <= files'[s]
    BY <1>0, <2>1 DEF HistoryReachesBack
  <2> QED
    BY <2>1, <2>2 DEF HistoryReachesBack
<1>6. ASSUME NEW src \in Sources, SyncFails(src) PROVE Goal
  BY <1>1, <1>6 DEF SyncFails, outside
<1>7. Apply \/ Crash \/ ToggleRequester \/ CommitForm \/ Tick => Goal
  BY <1>1 DEF Apply, Crash, ToggleRequester, CommitForm, Tick, outside
<1>8. TagChanges \/ PlexScans \/ RequestChanges => Goal
  BY <1>1 DEF TagChanges, PlexScans, RequestChanges, Untouched
<1>9. ASSUME NEW t \in Seasons, PlayFinishes(t) PROVE Goal
  BY <1>1, <1>9 DEF PlayFinishes, Untouched
<1>10. ASSUME NEW on \in {"protect", "unprotect"}, NEW chosen \in SUBSET Seasons,
              LoadForm(on, chosen)
       PROVE  Goal
  BY <1>1, <1>10 DEF LoadForm, outside
<1>11. UNCHANGED vars => Goal
  BY <1>1 DEF vars, outside
<1> HIDE DEF Goal
<1>12. Goal
  BY <1>2, <1>3, <1>4, <1>5, <1>6, <1>7, <1>8, <1>9, <1>10, <1>11 DEF Next
<1> QED
  BY <1>12 DEF Goal

LEMMA ImportStep ==
    ASSUME Sound, HistoryReachesBack, OriginalImport, [Next]_vars
    PROVE  OriginalImport'
<1> SUFFICES ASSUME NEW s \in Seasons
             PROVE  /\ row'[s].imported \in {NoDate, origin'[s]}
                    /\ row'[s].state = "ACTIVE" => row'[s].imported # NoDate
  BY DEF OriginalImport
<1>0. /\ row[s].imported \in {NoDate, origin[s]}
      /\ row[s].state = "ACTIVE" => row[s].imported # NoDate
  BY DEF OriginalImport
<1>1. CASE ~Apply
  <2>1. row'[s].imported = row[s].imported /\ row'[s].state \in {row[s].state, "DELETED"}
    BY <1>1, ImportsKept
  <2>2. origin[s] # NoDate => origin'[s] = origin[s]
    BY HistoryStep
  <2> QED
    BY <1>0, <2>1, <2>2
<1>2. CASE Apply
  <2> DEFINE r == Synchronized(sync)[s]
  <2>0. sync # NoSync /\ now \in Nat /\ origin' = origin /\ row[s] \in RowAt(now)
    BY <1>2 DEF Apply, outside, Sound, Rows
  <2>1. row'[s].imported = r.imported /\ row'[s].state = r.state
    <3>1. Synchronized(sync) \in Rows(now)
      BY <2>0, SynchronizingIsSound
    <3>2. row' = Recomputed(Synchronized(sync), fresh \cup {sync.src})
      BY <1>2 DEF Apply
    <3> QED
      BY <2>0, <3>1, <3>2, RecomputingIsSound
  <2>2. CASE sync.src = "SONARR"
    <3>1. sync \in ArrRead(now) /\ r = AfterArr(row[s], sync, s)
      BY <2>0, <2>2, SynchronizedCases
    <3>2. r.state = ArrState(sync, s) /\ r.imported = ArrImport(row[s], sync, s)
      BY <2>0, <3>1, ArrIsSound DEF ArrRead
    <3> DEFINE f == sync.files[s]
               o == sync.origin[s]
               e == Earliest({f, o} \ {NoDate})
    <3>3. f \in 0 .. now /\ o \in 0 .. now
      BY <3>1 DEF ArrRead
    <3>4. /\ f = NoDate /\ o = NoDate => e = NoDate
          /\ o # NoDate /\ (f # NoDate => o <= f) => e = o
      BY <2>0, <3>3, EarliestOfTwo
    <3>5. o \in {NoDate, origin[s]} /\ (f # NoDate => o # NoDate /\ o <= f)
      BY <2>2 DEF HistoryReachesBack
    <3> HIDE DEF f, o, e
    <3>6. e \in {NoDate, origin[s]} /\ (f # NoDate => e # NoDate)
      BY <3>4, <3>5
    <3>7. /\ r.state = "ACTIVE" => f # NoDate
          /\ r.imported = IF row[s].imported # NoDate THEN row[s].imported ELSE e
      BY <3>2 DEF f, e, o, ArrState, ArrImport
    <3> QED
      BY <1>0, <2>0, <2>1, <3>6, <3>7
  <2>3. CASE sync.src \in {"PLEX", "TAUTULLI"}
    BY <1>0, <2>0, <2>1, <2>3, WatchersKeep
  <2>4. CASE sync.src = "OVERSEERR"
    <3> DEFINE b == sync.asked /\ guarded
    <3>1. b \in BOOLEAN /\ r = IF HasRow(s) THEN AfterRequests(row[s], b) ELSE row[s]
      BY <2>0, <2>4, SynchronizedCases DEF Sound
    <3> HIDE DEF b
    <3>2. r.state = row[s].state /\ r.imported = row[s].imported
      BY <3>1, RequestsKeep
    <3> QED
      BY <1>0, <2>0, <2>1, <3>2
  <2> QED
    BY <2>0, <2>2, <2>3, <2>4, SynchronizedCases
<1> QED
  BY <1>1, <1>2

\* A row knows the first import of its season, and what is in the library has
\* one.
THEOREM ImportsCorrect == Spec => []OriginalImport
<1> DEFINE IInv == Sound /\ HistoryReachesBack /\ OriginalImport
<1>1. Init => IInv
  <2>1. SUFFICES ASSUME Init PROVE HistoryReachesBack /\ OriginalImport
    BY InitIsSound
  <2>2. origin = files /\ row = [s \in Seasons |-> NoRow] /\ sync = NoSync
    BY <2>1, Zenon DEF Init
  <2>3. Sound
    BY <2>1, InitIsSound
  <2>4. /\ files \in [Seasons -> 0 .. now] /\ now \in Nat
        /\ sync.src # "SONARR"
    BY <2>2, <2>3 DEF Sound, NoSync
  <2>5. HistoryReachesBack
    BY <2>2, <2>4 DEF HistoryReachesBack
  <2>6. OriginalImport
    BY <2>2 DEF OriginalImport, NoRow
  <2> QED
    BY <2>5, <2>6
<1>2. IInv /\ [Next]_vars => IInv'
  BY SoundStep, HistoryStep, ImportStep
<1> QED
  BY <1>1, <1>2, PTL DEF Spec

\* What the administrator has chosen is in the rows.
PinnedHasRow == \A s \in pinned : HasRow(s)

Protected == PinnedHasRow /\ ProtectionStands

\* ProtectionStands after a step, of one season.
StandsNext(s) ==
    /\ "ARR_TAG" \in row'[s].sources <=> tagSeen'
    /\ "MANUAL_SELECTION" \in row'[s].sources <=> s \in pinned'
    /\ "PROTECTED_REQUESTER" \in row'[s].sources => request' /\ guarded'

LEMMA StandsAsStated ==
    ASSUME \A s \in Seasons : row'[s].state # "NONE" => StandsNext(s)
    PROVE  ProtectionStands'
BY DEF ProtectionStands, StandsNext, HasRow

\* A season without a row has no reason to carry over.
LEMMA NoRowIsBare ==
    ASSUME Sound, NEW s \in Seasons, ~HasRow(s)
    PROVE  row[s].sources = {} /\ row[s].state = "NONE"
<1>1. row[s] = NoRow
  BY DEF Sound, Rows, HasRow
<1> QED
  BY <1>1 DEF NoRow

\* A recomputation keeps the reasons of the rows it is given.
LEMMA RecomputationKeepsReasons ==
    ASSUME Sound, NEW rows \in Rows(now), NEW sources, row' = Recomputed(rows, sources),
           NEW s \in Seasons
    PROVE  row'[s].sources = rows[s].sources /\ row'[s].state = rows[s].state
<1>1. now \in Nat
  BY DEF Sound
<1> QED
  BY <1>1, RecomputingIsSound

LEMMA ApplyProtects ==
    ASSUME Sound, Protected, Apply
    PROVE  Protected'
<1>0. /\ sync # NoSync /\ pinned' = pinned /\ guarded' = guarded
      /\ tagSeen' = IF sync.src = "SONARR" THEN sync.tagged ELSE tagSeen
      /\ request' = IF sync.src = "OVERSEERR" THEN sync.asked ELSE request
  BY DEF Apply
<1>1. \A s \in Seasons : /\ row'[s].sources = Synchronized(sync)[s].sources
                         /\ row'[s].state = Synchronized(sync)[s].state
  <2>1. Synchronized(sync) \in Rows(now)
    BY <1>0, SynchronizingIsSound
  <2>2. row' = Recomputed(Synchronized(sync), fresh \cup {sync.src})
    BY DEF Apply
  <2> QED
    BY <2>1, <2>2, RecomputationKeepsReasons
<1>2. PinnedHasRow'
  <2>1. \A s \in Seasons : HasRow(s) => row'[s].state # "NONE"
    BY ApplyIsSound DEF RowsKept
  <2>2. pinned \subseteq Seasons
    BY DEF Sound
  <2> QED
    BY <1>0, <2>1, <2>2 DEF PinnedHasRow, HasRow, Protected
<1>3. ASSUME NEW s \in Seasons, row'[s].state # "NONE"
      PROVE  StandsNext(s)
  <2>1. /\ HasRow(s) => /\ "ARR_TAG" \in row[s].sources <=> tagSeen
                        /\ "MANUAL_SELECTION" \in row[s].sources <=> s \in pinned
                        /\ "PROTECTED_REQUESTER" \in row[s].sources => request /\ guarded
        /\ ~HasRow(s) => row[s].sources = {} /\ s \notin pinned /\ row[s].state = "NONE"
    BY NoRowIsBare DEF Protected, PinnedHasRow, ProtectionStands
  <2>2. CASE sync.src = "SONARR"
    <3>1. sync \in ArrRead(now) /\ Synchronized(sync)[s] = AfterArr(row[s], sync, s)
      BY <1>0, <2>2, SynchronizedCases
    <3>2. now \in Nat /\ row[s] \in RowAt(now)
      BY DEF Sound, Rows
    <3>3. AfterArr(row[s], sync, s).sources = ArrReasons(row[s], sync)
      BY <3>1, <3>2, ArrIsSound DEF ArrRead
    <3>4. row'[s].sources = (row[s].sources \ {"ARR_TAG"})
                              \cup IF sync.tagged THEN {"ARR_TAG"} ELSE {}
      BY <1>1, <3>1, <3>3 DEF ArrReasons
    <3>5. tagSeen' = sync.tagged /\ sync.tagged \in BOOLEAN /\ request' = request
      BY <1>0, <2>2, <3>1 DEF ArrRead
    <3> QED
      BY <1>0, <2>1, <3>4, <3>5 DEF StandsNext
  <2>3. CASE sync.src \in {"PLEX", "TAUTULLI"}
    <3>1. row'[s].sources = row[s].sources /\ row'[s].state = row[s].state
      BY <1>0, <1>1, <2>3, WatchersKeep
    <3>2. tagSeen' = tagSeen /\ request' = request
      BY <1>0, <2>3
    <3> QED
      BY <1>0, <1>3, <2>1, <3>1, <3>2 DEF StandsNext
  <2>4. CASE sync.src = "OVERSEERR"
    <3> DEFINE b == sync.asked /\ guarded
    <3>1. /\ b \in BOOLEAN
          /\ Synchronized(sync)[s] = IF HasRow(s) THEN AfterRequests(row[s], b) ELSE row[s]
      BY <1>0, <2>4, SynchronizedCases DEF Sound
    <3> HIDE DEF b
    <3>2. HasRow(s)
      BY <1>1, <1>3, <2>1, <3>1
    <3>3. row'[s].sources = (row[s].sources \ {"PROTECTED_REQUESTER"})
                              \cup IF b THEN {"PROTECTED_REQUESTER"} ELSE {}
      BY <1>1, <3>1, <3>2, RequestsKeep
    <3>4. tagSeen' = tagSeen /\ request' = sync.asked
      BY <1>0, <2>4
    <3>5. b => request' /\ guarded'
      BY <1>0, <3>4 DEF b
    <3> QED
      BY <1>0, <2>1, <3>2, <3>3, <3>4, <3>5 DEF StandsNext
  <2> QED
    BY <1>0, <2>2, <2>3, <2>4, SynchronizedCases
<1> QED
  BY <1>2, <1>3, StandsAsStated DEF Protected

LEMMA ToggleProtects ==
    ASSUME Sound, Protected, ToggleRequester
    PROVE  Protected'
<1> DEFINE b == request /\ guarded'
           rows == [s \in Seasons |-> IF HasRow(s) THEN AfterRequests(row[s], b) ELSE row[s]]
<1>0. /\ pinned' = pinned /\ tagSeen' = tagSeen /\ request' = request /\ b \in BOOLEAN
  BY DEF ToggleRequester, ghosts, Sound
<1>1. row' = Recomputed(rows, fresh) /\ rows \in Rows(now)
  BY ToggleRecomputes
<1>2. \A s \in Seasons : rows[s] = IF HasRow(s) THEN AfterRequests(row[s], b) ELSE row[s]
  OBVIOUS
<1> HIDE DEF b, rows
<1>3. \A s \in Seasons : row'[s].sources = rows[s].sources /\ row'[s].state = rows[s].state
  BY <1>1, RecomputationKeepsReasons
<1>4. PinnedHasRow'
  <2>1. \A s \in Seasons : HasRow(s) => row'[s].state # "NONE"
    BY ToggleRequesterIsSound DEF RowsKept
  <2>2. pinned \subseteq Seasons
    BY DEF Sound
  <2> QED
    BY <1>0, <2>1, <2>2 DEF PinnedHasRow, HasRow, Protected
<1>5. ASSUME NEW s \in Seasons, row'[s].state # "NONE"
      PROVE  StandsNext(s)
  <2>1. HasRow(s)
    BY <1>2, <1>3, <1>5, NoRowIsBare
  <2>2. /\ "ARR_TAG" \in row[s].sources <=> tagSeen
        /\ "MANUAL_SELECTION" \in row[s].sources <=> s \in pinned
    BY <2>1 DEF Protected, ProtectionStands
  <2>3. row'[s].sources = (row[s].sources \ {"PROTECTED_REQUESTER"})
                            \cup IF b THEN {"PROTECTED_REQUESTER"} ELSE {}
    BY <1>0, <1>2, <1>3, <2>1, RequestsKeep
  <2>4. b => request' /\ guarded'
    BY <1>0 DEF b
  <2> QED
    BY <1>0, <2>2, <2>3, <2>4 DEF StandsNext
<1> QED
  BY <1>4, <1>5, StandsAsStated DEF Protected

LEMMA CommitProtects ==
    ASSUME Quiet, Protected, CommitForm
    PROVE  Protected'
<1>0. /\ form # NoForm /\ Sound /\ form.row = row /\ form.chosen \subseteq Seasons
      /\ tagSeen' = tagSeen /\ request' = request /\ guarded' = guarded
      /\ pinned' = IF form.on = "protect" THEN pinned \cup form.chosen
                   ELSE pinned \ form.chosen
  <2>1. form # NoForm
    BY DEF CommitForm
  <2> QED
    BY <2>1, FormIsRecord DEF CommitForm, Quiet, FormIsCurrent
<1>1. row' = FormRows
  BY CommitRecomputes
<1>2. \A s \in Seasons : row'[s].state = row[s].state /\ row'[s].sources = ToggledRows[s].sources
  BY <1>0, <1>1, FormComputes
<1>3. \A s \in form.chosen : HasRow(s)
  BY <1>0 DEF Sound, FormFits
<1>4. PinnedHasRow'
  <2>1. \A s \in pinned' : HasRow(s) /\ s \in Seasons
    BY <1>0, <1>3 DEF Protected, PinnedHasRow, Sound
  <2> QED
    BY <1>2, <2>1 DEF PinnedHasRow, HasRow
<1>5. ASSUME NEW s \in Seasons, row'[s].state # "NONE"
      PROVE  StandsNext(s)
  <2>1. /\ "ARR_TAG" \in row[s].sources <=> tagSeen
        /\ "MANUAL_SELECTION" \in row[s].sources <=> s \in pinned
        /\ "PROTECTED_REQUESTER" \in row[s].sources => request /\ guarded
    BY <1>2, <1>5 DEF Protected, ProtectionStands, HasRow
  <2>2. PICK why \in SUBSET Reasons :
          /\ ToggledRows[s] = [row[s] EXCEPT !.sources = why]
          /\ why = IF s \notin form.chosen THEN row[s].sources
                   ELSE IF form.on = "protect" THEN row[s].sources \cup {"MANUAL_SELECTION"}
                   ELSE row[s].sources \ {"MANUAL_SELECTION"}
    BY <1>0, TogglingIsSound
  <2>3. ToggledRows[s].sources = why
    <3>1. row[s] \in RowAt(now)
      BY <1>0 DEF Sound, Rows
    <3> QED
      BY <2>2, <3>1 DEF RowAt
  <2>4. row'[s].sources = why
    BY <1>2, <2>3
  <2>5. s \in pinned' <=> IF s \notin form.chosen THEN s \in pinned ELSE form.on = "protect"
    BY <1>0
  <2> QED
    BY <1>0, <2>1, <2>2, <2>4, <2>5 DEF StandsNext
<1> QED
  BY <1>4, <1>5, StandsAsStated DEF Protected

\* A step that keeps the reasons and what they rest on.
LEMMA SameReasonsProtect ==
    ASSUME Sound, Protected, pinned' = pinned, tagSeen' = tagSeen, request' = request,
           guarded' = guarded,
           \A s \in Seasons : /\ row'[s].sources = row[s].sources
                              /\ row'[s].state = "NONE" <=> row[s].state = "NONE"
    PROVE  Protected'
<1>1. pinned \subseteq Seasons
  BY DEF Sound
<1>2. PinnedHasRow'
  BY <1>1 DEF Protected, PinnedHasRow, HasRow
<1>3. \A s \in Seasons : row'[s].state # "NONE" => StandsNext(s)
  BY DEF Protected, ProtectionStands, StandsNext, HasRow
<1> QED
  BY <1>2, <1>3, StandsAsStated DEF Protected

LEMMA ProtectedStep ==
    ASSUME Quiet, Protected, [Next]_vars
    PROVE  Protected'
<1>0. Sound /\ now \in Nat /\ row \in Rows(now)
  BY DEF Quiet, Sound
<1>1. ASSUME NEW src \in Sources, SyncFails(src) PROVE Protected'
  <2>1. row' = Recomputed(row, fresh')
    BY <1>1 DEF SyncFails
  <2>2. \A s \in Seasons : row'[s].sources = row[s].sources /\ row'[s].state = row[s].state
    BY <1>0, <2>1, RecomputationKeepsReasons
  <2>3. pinned' = pinned /\ tagSeen' = tagSeen /\ request' = request /\ guarded' = guarded
    BY <1>1 DEF SyncFails, ghosts
  <2> QED
    BY <1>0, <2>2, <2>3, SameReasonsProtect
<1>2. ASSUME NEW t \in Seasons, DeleteSeason(t) PROVE Protected'
  <2>1. /\ row'[t].state = "DELETED" /\ row[t].state # "NONE"
        /\ \A s \in Seasons : row'[s].sources = row[s].sources /\ (s # t => row'[s] = row[s])
    BY <1>0, <1>2, DeletionKeepsDates DEF DeleteSeason
  <2>2. pinned' = pinned /\ tagSeen' = tagSeen /\ request' = request /\ guarded' = guarded
    BY <1>2 DEF DeleteSeason
  <2> QED
    BY <1>0, <2>1, <2>2, SameReasonsProtect
<1>3. CASE row' = row /\ pinned' = pinned /\ tagSeen' = tagSeen /\ request' = request
           /\ guarded' = guarded
  BY <1>0, <1>3, SameReasonsProtect
<1>4. ASSUME NEW src \in Sources, Fetch(src) PROVE Protected'
  BY <1>3, <1>4 DEF Fetch, store, ghosts
<1>5. ASSUME NEW on \in {"protect", "unprotect"}, NEW chosen \in SUBSET Seasons,
             LoadForm(on, chosen)
      PROVE  Protected'
  BY <1>3, <1>5 DEF LoadForm, store, ghosts
<1>6. Crash \/ Tick \/ TagChanges \/ PlexScans \/ RequestChanges => Protected'
  BY <1>3 DEF Crash, Tick, TagChanges, PlexScans, RequestChanges, Untouched, store, ghosts
<1>7. ASSUME NEW t \in Seasons, Import(t) \/ QualityUpgrade(t) \/ FilesVanish(t) \/ PlayFinishes(t)
      PROVE  Protected'
  BY <1>3, <1>7 DEF Import, QualityUpgrade, FilesVanish, PlayFinishes, Untouched, store, ghosts
<1>8. UNCHANGED vars => Protected'
  BY <1>3 DEF vars, store, ghosts
<1> QED
  BY <1>0, <1>1, <1>2, <1>4, <1>5, <1>6, <1>7, <1>8, ApplyProtects, ToggleProtects, CommitProtects
     DEF Next

\* Every reason to protect a season stands as long as its own cause.
THEOREM ProtectionCorrect ==
    ASSUME Overlap = FALSE
    PROVE  Spec => []ProtectionStands
<1>1. Init => Quiet /\ Protected
  <2>1. SUFFICES ASSUME Init PROVE Protected
    BY InitIsQuiet
  <2>2. row = [s \in Seasons |-> NoRow] /\ pinned = {}
    BY <2>1, Zenon DEF Init
  <2>3. \A s \in Seasons : ~HasRow(s)
    BY <2>2 DEF HasRow, NoRow
  <2> QED
    BY <2>2, <2>3 DEF Protected, PinnedHasRow, ProtectionStands
<1>2. Quiet /\ Protected /\ [Next]_vars => Quiet' /\ Protected'
  BY QuietStep, ProtectedStep
<1>3. Protected => ProtectionStands
  BY DEF Protected
<1> QED
  BY <1>1, <1>2, <1>3, PTL DEF Spec

-----------------------------------------------------------------------------
(***************************************************************************)
(* Watches.                                                                *)
(***************************************************************************)
\* The watch of a row is a play of its season, not older than the import.
Genuine(r, plays, s) ==
    r.watch # NoDate => /\ [season |-> s, at |-> r.watch] \in plays
                        /\ r.imported # NoDate /\ r.watch >= r.imported

\* Tautulli reported what is stored and what is about to be.
PlaysAreReported ==
    /\ played \subseteq PlaysFrom(0)
    /\ sync.src = "TAUTULLI" => sync.plays \subseteq PlaysFrom(0)

Watched == PlaysAreReported /\ \A s \in Seasons : Genuine(row[s], played, s)

LEMMA WatchedIsReal == Watched => WatchesAreReal
BY DEF Watched, PlaysAreReported, Genuine, WatchesAreReal

\* The history loses nothing.
LEMMA HistoryGrows ==
    ASSUME Sound, [Next]_vars
    PROVE  PlaysFrom(0) \subseteq PlaysFrom(0)'
<1>1. CASE history' = history
  BY <1>1 DEF PlaysFrom
<1>2. ASSUME NEW s \in Seasons, PlayFinishes(s)
      PROVE  PlaysFrom(0) \subseteq PlaysFrom(0)'
  <2>1. /\ history \in Seq(PlayAt(now)) /\ history' \in Seq(PlayAt(now))
        /\ \A i \in 1 .. Len(history) : \E j \in 1 .. Len(history') : history'[j] = history[i]
    BY <1>2, PlayIsInserted DEF Sound
  <2>2. /\ PlaysFrom(0) = {history[i] : i \in {i \in 1 .. Len(history) : i > 0}}
        /\ PlaysFrom(0)' = {history'[i] : i \in {i \in 1 .. Len(history') : i > 0}}
    BY <2>1 DEF PlaysFrom
  <2> QED
    BY <2>1, <2>2
<1>3. ASSUME NEW s \in Seasons, DeleteSeason(s) \/ Import(s) \/ QualityUpgrade(s) \/ FilesVanish(s)
      PROVE  history' = history
  BY <1>3 DEF DeleteSeason, Import, QualityUpgrade, FilesVanish
<1>4. ASSUME NEW src \in Sources, Fetch(src) \/ SyncFails(src) PROVE history' = history
  BY <1>4 DEF Fetch, SyncFails, outside
<1>5. ASSUME NEW on \in {"protect", "unprotect"}, NEW chosen \in SUBSET Seasons,
             LoadForm(on, chosen)
      PROVE  history' = history
  BY <1>5 DEF LoadForm, outside
<1>6. Apply \/ CommitForm \/ ToggleRequester \/ Crash \/ Tick => history' = history
  BY DEF Apply, CommitForm, ToggleRequester, Crash, Tick, outside
<1>7. TagChanges \/ PlexScans \/ RequestChanges => history' = history
  BY DEF TagChanges, PlexScans, RequestChanges
<1>8. UNCHANGED vars => history' = history
  BY DEF vars, outside
<1> QED
  BY <1>1, <1>2, <1>3, <1>4, <1>5, <1>6, <1>7, <1>8 DEF Next

\* Steps other than a synchronization's only ever clear a watch.
LEMMA WatchesKept ==
    ASSUME Sound, [Next]_vars, ~Apply, NEW s \in Seasons
    PROVE  row'[s].watch \in {row[s].watch, NoDate} /\ played' = played
<1>0. now \in Nat /\ row \in Rows(now) /\ row[s] \in RowAt(now)
  BY DEF Sound, Rows
<1>1. ASSUME NEW src \in Sources, SyncFails(src)
      PROVE  row'[s].watch \in {row[s].watch, NoDate} /\ played' = played
  BY <1>0, <1>1, RecomputingIsSound DEF SyncFails
<1>2. CASE CommitForm
  <2>1. form # NoForm /\ row' = [t \in Seasons |-> Committed(t)] /\ played' = played
    BY <1>2 DEF CommitForm, Committed, FormRows, ToggledRows
  <2> QED
    BY <2>1, CommittingIsSound
<1>3. CASE ToggleRequester
  <2> DEFINE b == request /\ guarded'
             rows == [t \in Seasons |-> IF HasRow(t) THEN AfterRequests(row[t], b) ELSE row[t]]
  <2>1. row' = Recomputed(rows, fresh) /\ rows \in Rows(now) /\ b \in BOOLEAN
    BY <1>3, ToggleRecomputes DEF Sound, ToggleRequester
  <2>2. rows[s] = IF HasRow(s) THEN AfterRequests(row[s], b) ELSE row[s]
    OBVIOUS
  <2> HIDE DEF rows, b
  <2>3. AfterRequests(row[s], b).watch = row[s].watch
    BY <1>0, <2>1, RequestsAreSound DEF RowAt
  <2> QED
    BY <1>0, <1>3, <2>1, <2>2, <2>3, RecomputingIsSound DEF ToggleRequester
<1>4. ASSUME NEW t \in Seasons, DeleteSeason(t)
      PROVE  row'[s].watch = row[s].watch /\ played' = played
  BY <1>4, DeletionKeepsDates DEF DeleteSeason
<1>5. ASSUME NEW src \in Sources, Fetch(src) PROVE row' = row /\ played' = played
  BY <1>5 DEF Fetch, store
<1>6. ASSUME NEW on \in {"protect", "unprotect"}, NEW chosen \in SUBSET Seasons,
             LoadForm(on, chosen)
      PROVE  row' = row /\ played' = played
  BY <1>6 DEF LoadForm, store
<1>7. Crash \/ Tick \/ TagChanges \/ PlexScans \/ RequestChanges => row' = row /\ played' = played
  BY DEF Crash, Tick, TagChanges, PlexScans, RequestChanges, Untouched, store
<1>8. ASSUME NEW t \in Seasons, Import(t) \/ QualityUpgrade(t) \/ FilesVanish(t) \/ PlayFinishes(t)
      PROVE  row' = row /\ played' = played
  BY <1>8 DEF Import, QualityUpgrade, FilesVanish, PlayFinishes, Untouched, store
<1>9. UNCHANGED vars => row' = row /\ played' = played
  BY DEF vars, store
<1> QED
  BY <1>1, <1>2, <1>3, <1>4, <1>5, <1>6, <1>7, <1>8, <1>9 DEF Next

\* What a synchronization makes of a genuine watch is a genuine watch.
LEMMA SynchronizedIsGenuine ==
    ASSUME Sound, Watched, Apply, NEW s \in Seasons
    PROVE  Genuine(Synchronized(sync)[s], played', s)
<1>0. /\ now \in Nat /\ row[s] \in RowAt(now) /\ played \in SUBSET PlayAt(now)
      /\ sync # NoSync /\ Genuine(row[s], played, s)
      /\ played' = IF sync.src = "TAUTULLI" THEN played \cup sync.plays ELSE played
  BY DEF Sound, Rows, Apply, Watched
<1>1. CASE sync.src = "SONARR"
  <2>1. sync \in ArrRead(now) /\ Synchronized(sync)[s] = AfterArr(row[s], sync, s)
    BY <1>0, <1>1, SynchronizedCases
  <2>2. /\ AfterArr(row[s], sync, s).watch = row[s].watch
        /\ AfterArr(row[s], sync, s).imported = ArrImport(row[s], sync, s)
    BY <1>0, <2>1, ArrIsSound DEF ArrRead
  <2>3. row[s].imported # NoDate => ArrImport(row[s], sync, s) = row[s].imported
    BY DEF ArrImport
  <2> QED
    BY <1>0, <1>1, <2>1, <2>2, <2>3 DEF Genuine
<1>2. ASSUME NEW r \in RowAt(now), NEW plays \in SUBSET PlayAt(now)
      PROVE  Genuine(AfterPlayback(r, plays, s), plays, s)
  <2>1. FromPlays(AfterPlayback(r, plays, s), r, plays, s, now)
    BY <1>0, PlaybackIsSound, Zenon
  <2>2. AfterPlayback(r, plays, s).imported = r.imported
    BY <1>0, PlaybackKeeps
  <2>3. PICK w \in 0 .. now :
          /\ AfterPlayback(r, plays, s).watch = w
          /\ w # NoDate => /\ r.imported # NoDate /\ w >= r.imported
                           /\ [season |-> s, at |-> w] \in plays
    BY <2>1 DEF FromPlays
  <2> QED
    BY <2>2, <2>3 DEF Genuine
<1>3. CASE sync.src = "PLEX"
  <2>1. Synchronized(sync)[s] = AfterPlayback(Matched(sync, s), played, s)
    BY <1>0, <1>3, SynchronizedCases
  <2>2. Matched(sync, s) \in RowAt(now)
    BY <1>0 DEF Matched, RowAt, HasRow
  <2>3. played' = played
    BY <1>0, <1>3
  <2> QED
    BY <1>0, <1>2, <2>1, <2>2, <2>3
<1>4. CASE sync.src = "TAUTULLI"
  <2>1. /\ played \cup sync.plays \in SUBSET PlayAt(now)
        /\ Synchronized(sync)[s] = AfterPlayback(row[s], played \cup sync.plays, s)
    BY <1>0, <1>4, SynchronizedCases
  <2>2. played' = played \cup sync.plays
    BY <1>0, <1>4
  <2> QED
    BY <1>0, <1>2, <2>1, <2>2
<1>5. CASE sync.src = "OVERSEERR"
  <2> DEFINE b == sync.asked /\ guarded
  <2>1. /\ b \in BOOLEAN
        /\ Synchronized(sync)[s] = IF HasRow(s) THEN AfterRequests(row[s], b) ELSE row[s]
    BY <1>0, <1>5, SynchronizedCases DEF Sound
  <2> HIDE DEF b
  <2>2. /\ AfterRequests(row[s], b).watch = row[s].watch
        /\ AfterRequests(row[s], b).imported = row[s].imported
    BY <1>0, <2>1, RequestsAreSound DEF RowAt
  <2>3. played' = played
    BY <1>0, <1>5
  <2> QED
    BY <1>0, <2>1, <2>2, <2>3 DEF Genuine
<1> QED
  BY <1>0, <1>1, <1>3, <1>4, <1>5, SynchronizedCases

\* What Tautulli reported is there, stored or about to be.
LEMMA ReportedStep ==
    ASSUME Sound, PlaysAreReported, [Next]_vars
    PROVE  PlaysAreReported'
<1>0. PlaysFrom(0) \subseteq PlaysFrom(0)'
  BY HistoryGrows
<1>1. played' \subseteq PlaysFrom(0)
  <2>1. CASE Apply
    <3>1. played' = IF sync.src = "TAUTULLI" THEN played \cup sync.plays ELSE played
      BY <2>1 DEF Apply
    <3> QED
      BY <3>1 DEF PlaysAreReported
  <2>2. CASE ~Apply
    <3>1. played' = played
      BY <2>2 DEF Next, Fetch, SyncFails, LoadForm, CommitForm, ToggleRequester, Crash, Tick,
           TagChanges, PlexScans, RequestChanges, DeleteSeason, Import, QualityUpgrade,
           FilesVanish, PlayFinishes, Untouched, store, vars
    <3> QED
      BY <3>1 DEF PlaysAreReported
  <2> QED
    BY <2>1, <2>2
<1>2. sync'.src = "TAUTULLI" => sync'.plays \subseteq PlaysFrom(0)
  <2>1. CASE sync' = sync
    BY <2>1 DEF PlaysAreReported
  <2>2. CASE sync' = NoSync
    BY <2>2 DEF NoSync
  <2>3. ASSUME NEW src \in Sources, Fetch(src), sync'.src = "TAUTULLI"
        PROVE  sync'.plays \subseteq PlaysFrom(0)
    <3>1. sync' = Read(src) /\ src = "TAUTULLI"
      BY <2>3 DEF Fetch, Read, Sources
    <3>2. sync'.plays = PlaysFrom(cursor)
      BY <3>1 DEF Read
    <3>3. PlaysFrom(cursor) \subseteq PlaysFrom(0)
      <4>1. cursor \in Nat /\ history \in Seq(PlayAt(now))
        BY DEF Sound
      <4>2. DOMAIN history = 1 .. Len(history) /\ Len(history) \in Nat
        BY <4>1
      <4> QED
        BY <4>1, <4>2 DEF PlaysFrom
    <3> QED
      BY <3>2, <3>3
  <2>4. (\E src \in Sources : Fetch(src)) \/ sync' \in {sync, NoSync}
    BY DEF Next, Apply, SyncFails, LoadForm, CommitForm, ToggleRequester, Crash, Tick,
           TagChanges, PlexScans, RequestChanges, DeleteSeason, Import, QualityUpgrade,
           FilesVanish, PlayFinishes, Untouched, vars
  <2> QED
    BY <2>1, <2>2, <2>3, <2>4
<1> QED
  BY <1>0, <1>1, <1>2 DEF PlaysAreReported

LEMMA WatchedStep ==
    ASSUME Sound, Watched, [Next]_vars
    PROVE  Watched'
<1>1. PlaysAreReported'
  BY ReportedStep DEF Watched
<1>2. ASSUME NEW s \in Seasons PROVE Genuine(row'[s], played', s)
  <2>0. now \in Nat
    BY DEF Sound
  <2>1. CASE Apply
    <3>1. Synchronized(sync) \in Rows(now)
      BY <2>1, SynchronizingIsSound DEF Apply
    <3>2. row' = Recomputed(Synchronized(sync), fresh \cup {sync.src})
      BY <2>1 DEF Apply
    <3>3. /\ row'[s].watch \in {Synchronized(sync)[s].watch, NoDate}
          /\ row'[s].imported = Synchronized(sync)[s].imported
      BY <2>0, <3>1, <3>2, RecomputingIsSound
    <3>4. Genuine(Synchronized(sync)[s], played', s)
      BY <2>1, SynchronizedIsGenuine
    <3> QED
      BY <3>3, <3>4 DEF Genuine
  <2>2. CASE ~Apply
    <3>1. row'[s].imported = row[s].imported
      BY <2>2, ImportsKept
    <3>2. row'[s].watch \in {row[s].watch, NoDate} /\ played' = played
      BY <2>2, WatchesKept
    <3>3. Genuine(row[s], played, s)
      BY DEF Watched
    <3> QED
      BY <3>1, <3>2, <3>3 DEF Genuine
  <2> QED
    BY <2>1, <2>2
<1> QED
  BY <1>1, <1>2 DEF Watched

\* A watch that counts is a play that Tautulli reported of that season.
THEOREM WatchesCorrect == Spec => []WatchesAreReal
<1>1. Init => Sound /\ Watched
  <2>1. SUFFICES ASSUME Init PROVE Watched
    BY InitIsSound
  <2>2. row = [s \in Seasons |-> NoRow] /\ played = {} /\ sync = NoSync
    BY <2>1, Zenon DEF Init
  <2>3. \A s \in Seasons : row[s].watch = NoDate
    BY <2>2 DEF NoRow
  <2>4. sync.src # "TAUTULLI"
    BY <2>2 DEF NoSync
  <2> QED
    BY <2>2, <2>3, <2>4 DEF Watched, PlaysAreReported, Genuine
<1>2. Sound /\ Watched /\ [Next]_vars => Sound' /\ Watched'
  BY SoundStep, WatchedStep
<1> QED
  BY <1>1, <1>2, WatchedIsReal, PTL DEF Spec

-----------------------------------------------------------------------------
(***************************************************************************)
(* Terms: the plays that are stored, and the deadlines.                    *)
(***************************************************************************)
\* A play that counts for the row of its season.
Counts(r, p, s) ==
    /\ p.season = s /\ r.state = "ACTIVE" /\ r.matched
    /\ r.imported # NoDate /\ p.at >= r.imported

\* The watch of a row is the last play that counts for it.
LastCounted(r, plays, s) ==
    /\ r.watch # NoDate => /\ [season |-> s, at |-> r.watch] \in plays
                           /\ Counts(r, [season |-> s, at |-> r.watch], s)
    /\ \A p \in plays : Counts(r, p, s) => r.watch # NoDate /\ p.at <= r.watch

\* _apply_playback sees to that.
LEMMA PlaybackTakesTheLast ==
    ASSUME NEW n \in Nat, NEW r \in RowAt(n), NEW plays \in SUBSET PlayAt(n),
           NEW s \in Seasons
    PROVE  /\ LastCounted(AfterPlayback(r, plays, s), plays, s)
           /\ AfterPlayback(r, plays, s).matched = r.matched
<1> DEFINE dates == {p.at : p \in {p \in plays : p.season = s}}
           direct == IF r.matched THEN Latest(dates) ELSE NoDate
           new == IF /\ r.state = "ACTIVE" /\ direct # NoDate
                     /\ r.imported # NoDate /\ direct >= r.imported
                  THEN direct ELSE NoDate
           out == AfterPlayback(r, plays, s)
<1>1. out = [r EXCEPT !.watch = new]
  BY DEF AfterPlayback
<1>2. dates \in SUBSET (0 .. n)
  BY DEF PlayAt
<1>3. /\ dates = {} => Latest(dates) = NoDate
      /\ dates # {} => Latest(dates) \in dates /\ \A e \in dates : e <= Latest(dates)
      /\ Latest(dates) \in 0 .. n
  BY <1>2, LatestIsGreatest
<1>4. direct # NoDate => direct \in dates /\ r.matched
  BY <1>3
<1>5. \A d \in dates : [season |-> s, at |-> d] \in plays
  BY DEF PlayAt
<1>6. \A p \in plays : p.season = s => p.at \in dates
  OBVIOUS
<1>7. direct \in 0 .. n /\ (r.matched => direct = Latest(dates))
  BY <1>3 DEF NoDate
<1> HIDE DEF dates, direct
<1>8. new \in 0 .. n
  BY <1>7 DEF NoDate
<1>9. /\ new # NoDate => /\ new = direct /\ r.state = "ACTIVE" /\ r.imported # NoDate
                         /\ new >= r.imported
      /\ r.state = "ACTIVE" /\ direct # NoDate /\ r.imported # NoDate /\ direct >= r.imported
           => new = direct
  OBVIOUS
<1> HIDE DEF new, out
<1>10. /\ out.watch = new /\ out.state = r.state /\ out.imported = r.imported
       /\ out.matched = r.matched /\ r.imported \in Nat
  BY <1>1, <1>8 DEF RowAt
<1>11. ASSUME new # NoDate
       PROVE  /\ [season |-> s, at |-> new] \in plays
              /\ Counts(out, [season |-> s, at |-> new], s)
  BY <1>4, <1>5, <1>9, <1>10, <1>11 DEF Counts
<1>12. ASSUME NEW p \in plays, Counts(out, p, s)
       PROVE  new # NoDate /\ p.at <= new
  <2>1. p.at \in dates /\ p.at >= r.imported /\ r.matched /\ r.imported # NoDate
        /\ r.state = "ACTIVE"
    BY <1>6, <1>10, <1>12 DEF Counts
  <2>2. direct = Latest(dates) /\ p.at <= direct /\ p.at \in 0 .. n
    BY <1>2, <1>3, <1>7, <2>1
  <2>3. direct >= r.imported /\ direct # NoDate
    BY <1>7, <1>10, <2>1, <2>2 DEF NoDate
  <2> QED
    BY <1>9, <2>1, <2>2, <2>3
<1>13. LastCounted(out, plays, s)
  BY <1>10, <1>11, <1>12 DEF LastCounted
<1> QED
  BY <1>10, <1>13 DEF out

\* A recomputation keeps a watch that is not older than the import.
LEMMA RecomputationKeepsWatches ==
    ASSUME NEW n \in Nat, NEW rows \in Rows(n), NEW sources, NEW t \in Seasons,
           rows[t].watch # NoDate => rows[t].watch >= rows[t].imported
    PROVE  Recomputed(rows, sources)[t].watch = rows[t].watch
<1>1. rows[t] \in RowAt(n)
  BY DEF Rows
<1>2. Recomputed(rows, sources)[t].watch = Cleared(rows[t]).watch
  <2>1. ClearedRows(rows)[t] = Cleared(rows[t])
    BY DEF ClearedRows
  <2>2. Recomputed(rows, sources)[t].watch = ClearedRows(rows)[t].watch
    BY RecomputedFields
  <2> QED
    BY <2>1, <2>2
<1>3. rows[t].watch \in Nat /\ rows[t].imported \in Nat
  BY <1>1 DEF RowAt
<1>4. Cleared(rows[t]) = rows[t]
  BY <1>3 DEF Cleared
<1> QED
  BY <1>2, <1>4

Playback == Apply /\ sync.src \in {"PLEX", "TAUTULLI"}

\* Every watch a synchronization of Plex or Tautulli leaves is the last play
\* that counts.
LEMMA PlaybackDates ==
    ASSUME Sound, Watched, Playback, NEW t \in Seasons
    PROVE  LastCounted(row'[t], played', t)
<1>0. /\ now \in Nat /\ row[t] \in RowAt(now) /\ played \in SUBSET PlayAt(now)
      /\ sync # NoSync /\ sync.src \in {"PLEX", "TAUTULLI"}
      /\ played' = IF sync.src = "TAUTULLI" THEN played \cup sync.plays ELSE played
      /\ row' = Recomputed(Synchronized(sync), fresh \cup {sync.src})
  BY DEF Sound, Rows, Apply, Playback
<1> DEFINE new == Synchronized(sync)
<1>1. new \in Rows(now)
  BY <1>0, SynchronizingIsSound
<1>2. LastCounted(new[t], played', t)
  <2>1. CASE sync.src = "PLEX"
    <3>1. new[t] = AfterPlayback(Matched(sync, t), played, t)
      BY <1>0, <2>1, SynchronizedCases
    <3>2. Matched(sync, t) \in RowAt(now) /\ played' = played
      BY <1>0, <2>1 DEF Matched, RowAt, HasRow
    <3> HIDE DEF new
    <3> QED
      BY <1>0, <3>1, <3>2, PlaybackTakesTheLast
  <2>2. CASE sync.src = "TAUTULLI"
    <3>1. /\ played' \in SUBSET PlayAt(now) /\ new[t] = AfterPlayback(row[t], played', t)
      BY <1>0, <2>2, SynchronizedCases
    <3> HIDE DEF new
    <3> QED
      BY <1>0, <3>1, PlaybackTakesTheLast
  <2> QED
    BY <1>0, <2>1, <2>2
<1>3. Genuine(new[t], played', t)
  BY SynchronizedIsGenuine DEF Playback
<1> HIDE DEF new
<1>4. row'[t].watch = new[t].watch
  BY <1>0, <1>1, <1>3, RecomputationKeepsWatches DEF Genuine, new
<1>5. /\ row'[t].state = new[t].state /\ row'[t].imported = new[t].imported
      /\ row'[t].matched = new[t].matched
  BY <1>0, <1>1, RecomputingIsSound DEF new
<1> QED
  BY <1>2, <1>4, <1>5 DEF LastCounted, Counts

\* The term of a season, from the plays that are stored.
Term(rows, plays, s) ==
    IF CountsFor(rows, plays, s) = {} THEN rows[s].imported + NeverWatchedFor
    ELSE Latest({p.at : p \in CountsFor(rows, plays, s)}) + WatchedFor

\* When every watch is the last play that counts, the deadline that follows
\* the watches is the term.
LEMMA TermFollowsPlays ==
    ASSUME NEW n \in Nat, NEW rows \in [Seasons -> RowAt(n)],
           NEW plays \in SUBSET PlayAt(n), NEW s \in Seasons, NEW deadline,
           \A t \in Seasons : LastCounted(rows[t], plays, t),
           ResetsLater(rows, s, deadline),
           rows[s].state = "ACTIVE", rows[s].imported # NoDate
    PROVE  deadline = Term(rows, plays, s)
<1> DEFINE C == CountsFor(rows, plays, s)
           dates == {p.at : p \in C}
           R == Resets(rows, s)
<1>1. \A p \in plays : p.season \in Seasons /\ p.at \in 0 .. n
  BY DEF PlayAt
<1>2. \A t \in Seasons : rows[t].watch \in Nat /\ rows[t].imported \in Nat /\ t \in Nat
  <2> TAKE t \in Seasons
  <2>1. rows[t] \in RowAt(n)
    OBVIOUS
  <2> QED
    BY <2>1, SeasonsAreNumbers DEF RowAt
<1>3. ASSUME NEW t \in R
      PROVE  /\ [season |-> t, at |-> rows[t].watch] \in C
             /\ rows[t].watch \in dates
  <2>1. t \in Seasons /\ t <= s /\ rows[t].watch # NoDate /\ rows[t].watch >= rows[s].imported
    BY <1>3 DEF Resets
  <2>2. LastCounted(rows[t], plays, t)
    BY <2>1
  <2>3. [season |-> t, at |-> rows[t].watch] \in C
    BY <2>1, <2>2 DEF LastCounted, Counts, CountsFor
  <2>4. [season |-> t, at |-> rows[t].watch].at = rows[t].watch
    OBVIOUS
  <2> HIDE DEF C
  <2> QED
    BY <2>3, <2>4
<1>4. ASSUME NEW p \in C
      PROVE  p.season \in R /\ p.at <= rows[p.season].watch
  <2>1. /\ p \in plays /\ p.season \in Seasons /\ p.season <= s
        /\ Counts(rows[p.season], p, p.season) /\ p.at >= rows[s].imported
    BY <1>1, <1>4 DEF CountsFor, Counts
  <2>2. rows[p.season].watch # NoDate /\ p.at <= rows[p.season].watch
    BY <2>1 DEF LastCounted
  <2>3. rows[p.season].watch >= rows[s].imported
    BY <1>1, <1>2, <2>1, <2>2
  <2> QED
    BY <2>1, <2>2, <2>3 DEF Resets
<1>5. CASE C = {}
  <2>1. R = {}
    BY <1>3, <1>5
  <2> QED
    BY <1>5, <2>1 DEF ResetsLater, Term
<1>6. CASE C # {}
  <2>1. R # {}
    BY <1>4, <1>6
  <2>2. PICK t \in R : /\ deadline = rows[t].watch + WatchedFor
                       /\ \A u \in R : deadline >= rows[u].watch + WatchedFor
    BY <2>1 DEF ResetsLater
  <2>3. R \subseteq Seasons
    BY DEF Resets
  <2>4. C \subseteq plays
    BY DEF CountsFor
  <2> HIDE DEF R, C
  <2>5. dates \in SUBSET (0 .. n)
    BY <1>1, <2>4
  <2>6. rows[t].watch \in dates
    BY <1>3
  <2> HIDE DEF dates
  <2>7. Latest(dates) \in dates /\ \A e \in dates : e <= Latest(dates)
    BY <2>5, <2>6, LatestIsGreatest
  <2>8. PICK p \in C : Latest(dates) = p.at
    BY <2>7 DEF dates
  <2>9. p.at <= rows[p.season].watch /\ p.season \in R
    BY <1>4
  <2>10. rows[p.season].watch <= rows[t].watch
    BY <1>2, <2>2, <2>3, <2>9, PolicyIsPositive
  <2>11. rows[t].watch <= Latest(dates)
    BY <2>6, <2>7
  <2>12. Latest(dates) = rows[t].watch
    BY <1>1, <1>2, <2>3, <2>4, <2>8, <2>9, <2>10, <2>11
  <2>13. Term(rows, plays, s) = Latest(dates) + WatchedFor
    BY <1>6 DEF Term, dates, C
  <2> QED
    BY <2>2, <2>12, <2>13
<1> QED
  BY <1>5, <1>6

\* The watches decide the deadline.
LEMMA SameWatchesSameDeadline ==
    ASSUME NEW n \in Nat, NEW old \in [Seasons -> RowAt(n)], NEW new \in [Seasons -> RowAt(n)],
           NEW s \in Seasons,
           old[s].state = "ACTIVE", new[s].state = "ACTIVE",
           old[s].imported # NoDate, new[s].imported = old[s].imported,
           \A t \in Seasons : new[t].watch = old[t].watch,
           ResetsLater(old, s, old[s].deadline), ResetsLater(new, s, new[s].deadline)
    PROVE  new[s].deadline = old[s].deadline
<1> DEFINE R == Resets(old, s)
<1>1. Resets(new, s) = R /\ R \subseteq Seasons
  BY DEF Resets
<1>2. \A t \in R : new[t].watch = old[t].watch /\ old[t].watch \in Nat
  <2> TAKE t \in R
  <2>1. old[t] \in RowAt(n) /\ t \in Seasons
    BY <1>1
  <2> QED
    BY <2>1 DEF RowAt
<1>5. WatchedFor \in Nat
  BY PolicyIsPositive
<1>3. CASE R = {}
  BY <1>1, <1>3 DEF ResetsLater
<1>4. CASE R # {}
  <2>1. PICK t \in R : /\ old[s].deadline = old[t].watch + WatchedFor
                       /\ \A u \in R : old[s].deadline >= old[u].watch + WatchedFor
    BY <1>4 DEF ResetsLater
  <2>2. PICK u \in R : /\ new[s].deadline = new[u].watch + WatchedFor
                       /\ \A v \in R : new[s].deadline >= new[v].watch + WatchedFor
    BY <1>1, <1>4 DEF ResetsLater
  <2> HIDE DEF R
  <2>3. /\ new[u].watch = old[u].watch /\ new[t].watch = old[t].watch
        /\ old[u].watch \in Nat /\ old[t].watch \in Nat
    BY <1>2
  <2>4. old[s].deadline >= old[u].watch + WatchedFor /\ new[s].deadline >= new[t].watch + WatchedFor
    BY <2>1, <2>2
  <2> QED
    BY <1>5, <2>1, <2>2, <2>3, <2>4
<1> QED
  BY <1>3, <1>4

\* No other step changes a watch.
LEMMA OthersKeepWatches ==
    ASSUME Quiet, Watched, [Next]_vars, ~Playback, NEW t \in Seasons
    PROVE  row'[t].watch = row[t].watch
<1>0. /\ Sound /\ now \in Nat /\ row \in Rows(now) /\ row[t] \in RowAt(now)
      /\ row[t].watch # NoDate => row[t].watch >= row[t].imported
  BY DEF Quiet, Sound, Rows, Watched, Genuine
<1>1. CASE Apply
  <2>0. sync # NoSync /\ row' = Recomputed(Synchronized(sync), fresh \cup {sync.src})
    BY <1>1 DEF Apply
  <2>1. Synchronized(sync) \in Rows(now)
    BY <1>0, <2>0, SynchronizingIsSound
  <2>2. Genuine(Synchronized(sync)[t], played', t)
    BY <1>0, <1>1, SynchronizedIsGenuine
  <2>3. row'[t].watch = Synchronized(sync)[t].watch
    BY <1>0, <2>0, <2>1, <2>2, RecomputationKeepsWatches DEF Genuine
  <2>4. CASE sync.src = "SONARR"
    <3>1. sync \in ArrRead(now) /\ Synchronized(sync)[t] = AfterArr(row[t], sync, t)
      BY <1>0, <2>0, <2>4, SynchronizedCases
    <3>2. AfterArr(row[t], sync, t).watch = row[t].watch
      BY <1>0, <3>1, ArrIsSound DEF ArrRead
    <3> QED
      BY <2>3, <3>1, <3>2
  <2>5. CASE sync.src = "OVERSEERR"
    <3> DEFINE b == sync.asked /\ guarded
    <3>1. /\ b \in BOOLEAN
          /\ Synchronized(sync)[t] = IF HasRow(t) THEN AfterRequests(row[t], b) ELSE row[t]
      BY <1>0, <2>0, <2>5, SynchronizedCases DEF Sound
    <3> HIDE DEF b
    <3>2. AfterRequests(row[t], b).watch = row[t].watch
      BY <1>0, <3>1, RequestsAreSound DEF RowAt
    <3> QED
      BY <2>3, <3>1, <3>2
  <2> QED
    BY <1>0, <1>1, <2>0, <2>4, <2>5, SynchronizedCases DEF Playback
<1>2. ASSUME NEW src \in Sources, SyncFails(src)
      PROVE  row'[t].watch = row[t].watch
  <2>1. row' = Recomputed(row, fresh')
    BY <1>2 DEF SyncFails
  <2> QED
    BY <1>0, <2>1, RecomputationKeepsWatches
<1>3. CASE CommitForm
  <2>1. form # NoForm /\ form.row = row /\ row' = Recomputed(ToggledRows, form.fresh)
    BY <1>3, CommitRecomputes DEF CommitForm, Quiet, FormIsCurrent, FormRows
  <2>2. PICK why \in SUBSET Reasons : ToggledRows[t] = [row[t] EXCEPT !.sources = why]
    BY <1>0, <2>1, TogglingIsSound
  <2>3. ToggledRows[t].watch = row[t].watch /\ ToggledRows[t].imported = row[t].imported
    BY <1>0, <2>2 DEF RowAt
  <2>4. ToggledRows \in Rows(now)
    BY <1>0, <2>1, TogglingIsSound
  <2> QED
    BY <1>0, <2>1, <2>3, <2>4, RecomputationKeepsWatches
<1>4. CASE ToggleRequester
  <2> DEFINE b == request /\ guarded'
             rows == [u \in Seasons |-> IF HasRow(u) THEN AfterRequests(row[u], b) ELSE row[u]]
  <2>1. row' = Recomputed(rows, fresh) /\ rows \in Rows(now) /\ b \in BOOLEAN
    BY <1>0, <1>4, ToggleRecomputes DEF Sound, ToggleRequester
  <2>2. rows[t] = IF HasRow(t) THEN AfterRequests(row[t], b) ELSE row[t]
    OBVIOUS
  <2> HIDE DEF rows, b
  <2>3. /\ AfterRequests(row[t], b).watch = row[t].watch
        /\ AfterRequests(row[t], b).imported = row[t].imported
    BY <1>0, <2>1, RequestsAreSound DEF RowAt
  <2>4. rows[t].watch = row[t].watch /\ rows[t].imported = row[t].imported
    BY <2>2, <2>3
  <2> QED
    BY <1>0, <2>1, <2>4, RecomputationKeepsWatches
<1>5. ASSUME NEW u \in Seasons, DeleteSeason(u)
      PROVE  row'[t].watch = row[t].watch
  BY <1>0, <1>5, DeletionKeepsDates
<1>6. CASE ~Apply /\ row' = row
  BY <1>6
<1>7. ASSUME NEW src \in Sources, Fetch(src) PROVE row' = row
  BY <1>7 DEF Fetch, store
<1>8. ASSUME NEW on \in {"protect", "unprotect"}, NEW chosen \in SUBSET Seasons,
             LoadForm(on, chosen)
      PROVE  row' = row
  BY <1>8 DEF LoadForm, store
<1>9. Crash \/ Tick \/ TagChanges \/ PlexScans \/ RequestChanges => row' = row
  BY DEF Crash, Tick, TagChanges, PlexScans, RequestChanges, Untouched, store
<1>10. ASSUME NEW u \in Seasons, Import(u) \/ QualityUpgrade(u) \/ FilesVanish(u) \/ PlayFinishes(u)
       PROVE  row' = row
  BY <1>10 DEF Import, QualityUpgrade, FilesVanish, PlayFinishes, Untouched, store
<1>11. UNCHANGED vars => row' = row
  BY DEF vars, store
<1> QED
  BY <1>1, <1>2, <1>3, <1>4, <1>5, <1>6, <1>7, <1>8, <1>9, <1>10, <1>11 DEF Next

\* ... nor an import date a row has.
LEMMA ImportDateStays ==
    ASSUME Sound, [Next]_vars, NEW s \in Seasons, row[s].imported # NoDate
    PROVE  row'[s].imported = row[s].imported
<1>0. now \in Nat /\ row[s] \in RowAt(now)
  BY DEF Sound, Rows
<1>1. CASE ~Apply
  BY <1>1, ImportsKept
<1>2. CASE Apply
  <2>0. sync # NoSync /\ row' = Recomputed(Synchronized(sync), fresh \cup {sync.src})
    BY <1>2 DEF Apply
  <2>1. Synchronized(sync) \in Rows(now)
    BY <2>0, SynchronizingIsSound
  <2>2. row'[s].imported = Synchronized(sync)[s].imported
    BY <1>0, <2>0, <2>1, RecomputingIsSound
  <2>3. CASE sync.src = "SONARR"
    <3>1. sync \in ArrRead(now) /\ Synchronized(sync)[s] = AfterArr(row[s], sync, s)
      BY <2>0, <2>3, SynchronizedCases
    <3>2. AfterArr(row[s], sync, s).imported = ArrImport(row[s], sync, s)
      BY <1>0, <3>1, ArrIsSound DEF ArrRead
    <3> QED
      BY <2>2, <3>1, <3>2 DEF ArrImport
  <2>4. CASE sync.src \in {"PLEX", "TAUTULLI"}
    BY <2>0, <2>2, <2>4, WatchersKeep
  <2>5. CASE sync.src = "OVERSEERR"
    <3> DEFINE b == sync.asked /\ guarded
    <3>1. /\ b \in BOOLEAN
          /\ Synchronized(sync)[s] = IF HasRow(s) THEN AfterRequests(row[s], b) ELSE row[s]
      BY <2>0, <2>5, SynchronizedCases DEF Sound
    <3> HIDE DEF b
    <3> QED
      BY <2>2, <3>1, RequestsKeep
  <2> QED
    BY <2>0, <2>3, <2>4, <2>5, SynchronizedCases
<1> QED
  BY <1>1, <1>2

\* What the theorem is proved from, of rows and plays together.
TermInv == Quiet /\ Watched /\ DeadlinesFollow /\ HistoryReachesBack /\ OriginalImport

LEMMA TermStep ==
    ASSUME TermInv, TermInv', [Next]_vars, NEW s \in Seasons, row'[s].state = "ACTIVE"
    PROVE  IF Playback
           THEN row'[s].deadline = Term(row', played', s)
           ELSE row[s].state = "ACTIVE" => row'[s].deadline = row[s].deadline
<1>0. /\ Sound /\ Watched /\ Quiet /\ now \in Nat /\ row \in [Seasons -> RowAt(now)]
      /\ row[s].state = "ACTIVE" => row[s].imported # NoDate
      /\ ResetsLater(row, s, row[s].deadline)
  BY DEF TermInv, Quiet, Sound, Rows, OriginalImport, DeadlinesFollow
<1>1. /\ now' \in Nat /\ row' \in [Seasons -> RowAt(now')] /\ played' \in SUBSET PlayAt(now')
      /\ row'[s].imported # NoDate
      /\ ResetsLater(row', s, row'[s].deadline)
  BY DEF TermInv, Quiet, Sound, Rows, OriginalImport, DeadlinesFollow, RowAt, PlayAt,
         ResetsLater, Resets
<1>2. CASE Playback
  <2>1. \A t \in Seasons : LastCounted(row'[t], played', t)
    BY <1>0, <1>2, PlaybackDates
  <2> QED
    BY <1>1, <1>2, <2>1, TermFollowsPlays
<1>3. CASE ~Playback /\ row[s].state = "ACTIVE"
  <2>1. \A t \in Seasons : row'[t].watch = row[t].watch
    BY <1>0, <1>3, OthersKeepWatches
  <2>2. row'[s].imported = row[s].imported
    BY <1>0, <1>3, ImportDateStays
  <2>3. row \in [Seasons -> RowAt(now')]
    <3>1. now' \in {now, now + 1}
      BY DEF Next, Fetch, SyncFails, Apply, LoadForm, CommitForm, ToggleRequester, Crash, Tick,
             TagChanges, PlexScans, RequestChanges, DeleteSeason, Import, QualityUpgrade,
             FilesVanish, PlayFinishes, Untouched, vars
    <3>2. RowAt(now) \subseteq RowAt(now')
      BY <1>0, <3>1 DEF RowAt
    <3> QED
      BY <1>0, <3>2
  <2> QED
    BY <1>0, <1>1, <1>3, <2>1, <2>2, <2>3, SameWatchesSameDeadline
<1> QED
  BY <1>2, <1>3

\* However long the series: a play resets the season and those after it, and
\* nothing else moves a deadline.
THEOREM TermsCorrect ==
    ASSUME Overlap = FALSE
    PROVE  Spec => WatchResetsLaterSeasons
<1>1. Init => TermInv
  <2>1. SUFFICES ASSUME Init PROVE TermInv
    OBVIOUS
  <2>2. /\ row = [s \in Seasons |-> NoRow] /\ played = {} /\ sync = NoSync
        /\ origin = files
    BY <2>1, Zenon DEF Init
  <2>3. Quiet /\ Sound
    BY <2>1, InitIsQuiet, InitIsSound
  <2>4. Watched
    <3>1. \A s \in Seasons : row[s].watch = NoDate
      BY <2>2 DEF NoRow
    <3> QED
      BY <2>2, <3>1 DEF Watched, PlaysAreReported, Genuine, NoSync
  <2>5. DeadlinesFollow /\ OriginalImport
    BY <2>2 DEF DeadlinesFollow, ResetsLater, OriginalImport, NoRow
  <2>6. HistoryReachesBack
    BY <2>2, <2>3 DEF HistoryReachesBack, Sound, NoSync
  <2> QED
    BY <2>3, <2>4, <2>5, <2>6 DEF TermInv
<1>2. TermInv /\ [Next]_vars => TermInv'
  BY QuietStep, WatchedStep, ResetsStep, HistoryStep, ImportStep DEF TermInv, Quiet
<1>3. TermInv /\ TermInv' /\ [Next]_vars =>
        [\A s \in Seasons : row'[s].state = "ACTIVE" =>
           IF Apply /\ sync.src \in {"PLEX", "TAUTULLI"}
           THEN LET plays == CountsFor(row', played', s)
                IN  row'[s].deadline =
                      IF plays = {} THEN row'[s].imported + NeverWatchedFor
                      ELSE Latest({p.at : p \in plays}) + WatchedFor
           ELSE row[s].state = "ACTIVE" => row'[s].deadline = row[s].deadline]_vars
  BY TermStep DEF Playback, Term
<1> QED
  BY <1>1, <1>2, <1>3, PTL DEF Spec, WatchResetsLaterSeasons
=============================================================================
