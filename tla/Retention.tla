----------------------------- MODULE Retention -----------------------------
(***************************************************************************)
(* How long a season may stay, and what is decided about it: the pure      *)
(* part of app/services/inventory.py.  A movie is a series of one season.  *)
(*                                                                         *)
(* A row stands for a media_lifecycle row.  Dates count the weeks of the   *)
(* retention policy from 1; NoDate is a column that holds NULL.            *)
(***************************************************************************)
EXTENDS Integers

CONSTANTS
    Seasons,          \* season numbers of the series
    NeverWatchedFor,  \* policy.never_watched_weeks
    WatchedFor        \* policy.watched_weeks

ASSUME SeasonsAreNumbers == Seasons \subseteq Nat
ASSUME PolicyIsPositive == NeverWatchedFor \in Nat \ {0} /\ WatchedFor \in Nat \ {0}

NoDate == 0

\* The latest date of a set, or none.
Latest(dates) ==
    IF dates = {} THEN NoDate ELSE CHOOSE d \in dates : \A e \in dates : e <= d

Earliest(dates) ==
    IF dates = {} THEN NoDate ELSE CHOOSE d \in dates : \A e \in dates : d <= e

retention_deadline(imported, watch) ==
    IF imported = NoDate THEN NoDate
    ELSE IF watch # NoDate /\ watch >= imported THEN watch + WatchedFor
    ELSE imported + NeverWatchedFor

\* Mutant of LatestPrior: a watch counts for its own season only.
MutOwnSeason(rows, s) == rows[s].watch

\* latest_prior of the loop: the last watch of this season or of one before it.
LatestPrior(rows, s) ==
    Latest({rows[t].watch : t \in {t \in Seasons : t <= s}} \ {NoDate})

EffectiveWatch(rows, s) ==
    LET prior == LatestPrior(rows, s)
    IN  IF /\ prior # NoDate /\ rows[s].imported # NoDate
           /\ prior >= rows[s].imported
        THEN prior ELSE rows[s].watch

\* Mutant of Deadline: what is not in the library has a deadline, too.
MutAnyState(rows, s) ==
    retention_deadline(rows[s].imported, EffectiveWatch(rows, s))

\* _recalculate_retention, for a row.
Deadline(rows, s) ==
    IF rows[s].state = "ACTIVE"
    THEN retention_deadline(rows[s].imported, EffectiveWatch(rows, s))
    ELSE NoDate

\* _set_decision, for a row; all_required_sources_fresh is fresh.
Decide(r, fresh, now) ==
    IF r.state = "MISSING" THEN "NOT_IN_LIBRARY"
    ELSE IF r.sources # {} THEN "KEEP_PROTECTED"
    ELSE IF ~fresh THEN "BLOCKED_STALE"
    ELSE IF r.imported = NoDate \/ r.deadline = NoDate THEN "BLOCKED_UNKNOWN"
    ELSE IF r.deadline > now THEN "KEEP_RETAINED" ELSE "REVIEW_ELIGIBLE"
=============================================================================
