---------------------------- MODULE DryRunProofs ----------------------------
(***************************************************************************)
(* What the dry run proposes, for any evidence, any policies and any       *)
(* number of movies, torrents and trackers.                                *)
(***************************************************************************)
EXTENDS DryRun, TLAPS

\* A tracker without a policy is not selected.
AbsentIsUnselected == \A d \in Domains : ~HasPolicy(d) => ~policy[d].selected

\* A saved policy has the seed time its rule asks for, and no minimum it does
\* not ask for; the ratio it asks for may be missing.
PoliciesAreStored ==
    \A d \in Domains : HasPolicy(d) =>
        /\ policy[d].ratio # None => policy[d].rule \in RatioRules
        /\ policy[d].time # None <=> policy[d].rule \in TimeRules

\* The inductive invariant of the policies.
Saves == TypeOK /\ PoliciesAreStored /\ AbsentIsUnselected

-----------------------------------------------------------------------------
(***************************************************************************)
(* The evaluation against the reference.                                   *)
(***************************************************************************)
\* The minimums of policy p are those its rule asks for.
Complete(p) ==
    /\ p.rule = "NONE" => ~p.selected
    /\ p.rule # "NONE" => /\ p.ratio # None <=> p.rule \in RatioRules
                          /\ p.time # None <=> p.rule \in TimeRules

\* Policy p has what PoliciesAreStored says.
Stored(p) ==
    /\ p.rule = "NONE" => ~p.selected
    /\ p.rule # "NONE" => /\ p.ratio # None => p.rule \in RatioRules
                          /\ p.time # None <=> p.rule \in TimeRules

LEMMA SavedIsStored ==
    ASSUME Saves, NEW d \in Domains
    PROVE  policy[d] \in Policy /\ Stored(policy[d])
  BY DEF Saves, TypeOK, PoliciesAreStored, AbsentIsUnselected, HasPolicy, Stored

LEMMA AtLeastIsOrder ==
    ASSUME NEW x \in Nat \cup {None}, NEW y \in Nat
    PROVE  AtLeast(x, y) <=> x >= y
  BY DEF AtLeast, None

\* The rule of a complete policy, in terms of what is owed.
LEMMA RuleIsOwed ==
    ASSUME NEW r \in Row, NEW p \in Policy, Complete(p), p.rule \in Rules \ {"NEVER_REMOVE"}
    PROVE  RuleMet(r, p) <=>
             IF p.rule = "RATIO_OR_TIME" THEN \E o \in Owed(r, p) : o[1] >= o[2]
                                         ELSE \A o \in Owed(r, p) : o[1] >= o[2]
  <1>0. /\ r.ratio \in Nat \cup {None} /\ r.time \in Nat \cup {None}
        /\ p.ratio \in Nat \cup {None} /\ p.time \in Nat \cup {None}
        /\ p.rule # "NONE"
    BY DEF Row, Policy, Rules
  <1>1. CASE p.rule = "RATIO_ONLY"
    <2>1. p.ratio \in Nat /\ p.time = None
      BY <1>0, <1>1 DEF Complete, RatioRules, TimeRules
    <2>2. Owed(r, p) = {<<r.ratio, p.ratio>>}
      BY <2>1 DEF Owed, None
    <2>3. RuleMet(r, p) <=> AtLeast(r.ratio, p.ratio)
      BY <1>1 DEF RuleMet
    <2>4. (\A o \in Owed(r, p) : o[1] >= o[2]) <=> r.ratio >= p.ratio
      BY <2>2
    <2> QED BY <1>0, <1>1, <2>1, <2>3, <2>4, AtLeastIsOrder
  <1>2. CASE p.rule = "TIME_ONLY"
    <2>1. p.time \in Nat /\ p.ratio = None
      BY <1>0, <1>2 DEF Complete, RatioRules, TimeRules
    <2>2. Owed(r, p) = {<<r.time, p.time>>}
      BY <2>1 DEF Owed, None
    <2>3. RuleMet(r, p) <=> AtLeast(r.time, p.time)
      BY <1>2 DEF RuleMet
    <2>4. (\A o \in Owed(r, p) : o[1] >= o[2]) <=> r.time >= p.time
      BY <2>2
    <2> QED BY <1>0, <1>2, <2>1, <2>3, <2>4, AtLeastIsOrder
  <1>3. CASE p.rule \in {"RATIO_OR_TIME", "RATIO_AND_TIME"}
    <2>1. p.time \in Nat /\ p.ratio \in Nat
      BY <1>0, <1>3 DEF Complete, RatioRules, TimeRules
    <2>2. Owed(r, p) = {<<r.ratio, p.ratio>>, <<r.time, p.time>>}
      BY <2>1 DEF Owed, None
    <2>3. /\ AtLeast(r.ratio, p.ratio) <=> r.ratio >= p.ratio
          /\ AtLeast(r.time, p.time) <=> r.time >= p.time
      BY <1>0, <2>1, AtLeastIsOrder
    <2>4. /\ (\A o \in Owed(r, p) : o[1] >= o[2])
                <=> r.ratio >= p.ratio /\ r.time >= p.time
          /\ (\E o \in Owed(r, p) : o[1] >= o[2])
                <=> r.ratio >= p.ratio \/ r.time >= p.time
      BY <2>2
    <2>5. CASE p.rule = "RATIO_OR_TIME"
      <3>1. RuleMet(r, p) <=> AtLeast(r.ratio, p.ratio) \/ AtLeast(r.time, p.time)
        BY <2>5 DEF RuleMet
      <3> QED BY <2>3, <2>4, <2>5, <3>1
    <2>6. CASE p.rule = "RATIO_AND_TIME"
      <3>1. RuleMet(r, p) <=> AtLeast(r.ratio, p.ratio) /\ AtLeast(r.time, p.time)
        BY <2>6 DEF RuleMet
      <3> QED BY <2>3, <2>4, <2>6, <3>1
    <2> QED BY <1>3, <2>5, <2>6
  <1> QED BY <1>1, <1>2, <1>3 DEF Rules

\* _tracker_result passes exactly what is paid up.
LEMMA ResultIsReference ==
    ASSUME NEW r \in Row, NEW p \in Policy, Stored(p)
    PROVE  TrackerResult(r, p, TRUE) = "MET" <=> PaidUp(r, p)
  <1>1. CASE p.rule = "NONE"
    BY <1>1 DEF Stored, TrackerResult, PaidUp
  <1>2. CASE p.rule = "NEVER_REMOVE"
    BY <1>2 DEF TrackerResult, PaidUp
  <1>4. CASE p.rule \in RatioRules /\ p.ratio = None
    BY <1>4 DEF TrackerResult, PaidUp, RatioRules
  <1>3. CASE p.rule \in Rules \ {"NEVER_REMOVE"} /\ ~(p.rule \in RatioRules /\ p.ratio = None)
    <2>0. Complete(p)
      BY <1>3 DEF Stored, Complete, Rules
    <2>1. ~(\/ p.rule \in RatioRules /\ p.ratio = None
            \/ p.rule \in TimeRules /\ p.time = None)
      BY <1>3, <2>0 DEF Complete, Rules
    <2>2. (r.time = None \/ r.time < p.grace) <=> ~(r.time # None /\ r.time >= p.grace)
      BY DEF Row, Policy, None
    <2>3. TrackerResult(r, p, TRUE) = "MET" <=>
            /\ p.selected /\ RuleMet(r, p) /\ p.auto
            /\ ~(r.time = None \/ r.time < p.grace)
      BY <1>3, <2>1 DEF TrackerResult
    <2> QED BY <1>3, <2>0, <2>1, <2>2, <2>3, RuleIsOwed DEF PaidUp
  <1> QED BY <1>1, <1>2, <1>3, <1>4 DEF Policy

\* A torrent has no fault exactly if it lets go of its media.
LEMMA FaultlessLetsGo ==
    ASSUME Saves, NEW r \in Row
    PROVE  Faults(r, TRUE) = {} <=> LetsGo(r)
  <1>1. r.trackers \subseteq Domains
    BY DEF Row
  <1>2. \A d \in r.trackers : TrackerResult(r, policy[d], TRUE) = "MET" <=> PaidUp(r, policy[d])
    BY <1>1, SavedIsStored, ResultIsReference
  <1>3. CASE r.left
    BY <1>3 DEF Faults, LetsGo
  <1>4. CASE r.trackers = {}
    BY <1>4 DEF Faults, LetsGo
  <1>5. CASE ~r.left /\ r.trackers # {}
    <2>1. Faults(r, TRUE) = {TrackerResult(r, policy[d], TRUE) : d \in r.trackers} \ {"MET"}
      BY <1>5 DEF Faults
    <2>2. Faults(r, TRUE) = {} <=> \A d \in r.trackers : TrackerResult(r, policy[d], TRUE) = "MET"
      BY <2>1
    <2> QED BY <1>2, <1>5, <2>2 DEF LetsGo
  <1> QED BY <1>3, <1>4, <1>5

\* What a proposal for lifecycle m must say, given the torrent rows tor.
Right(v, m, tor) ==
    /\ v = NoProposal <=> state[m] # "ACTIVE"
    /\ v[1] = "ELIGIBLE" <=> Removable(m, tor)
    /\ state[m] = "ACTIVE" =>
          /\ v[1] = "PROTECTED" <=> standing[m] \in {"NOT_MANAGED", "PROTECTED"}
          /\ v[1] = "RETAINED" <=> standing[m] = "KEEP_RETAINED"

LEMMA MappedLetsGo ==
    ASSUME Saves, NEW m \in Movies, NEW tor \in [Torrents -> Row],
           state[m] = "ACTIVE", standing[m] = "REVIEW_ELIGIBLE"
    PROVE  Removable(m, tor) <=>
             \A t \in Mapped(m, tor) : ~Shared(t, m) /\ Faults(tor[t], TRUE) = {}
  <1>1. \A t \in Torrents : (<<t, m>> \in mapping /\ tor[t].present) <=> t \in Mapped(m, tor)
    BY DEF Mapped
  <1>2. \A t \in Torrents : ~Shared(t, m) <=> \A n \in Movies : <<t, n>> \in mapping => n = m
    BY DEF Shared
  <1>3. \A t \in Torrents : Faults(tor[t], TRUE) = {} <=> LetsGo(tor[t])
    <2> SUFFICES ASSUME NEW t \in Torrents PROVE Faults(tor[t], TRUE) = {} <=> LetsGo(tor[t])
      OBVIOUS
    <2> tor[t] \in Row
      OBVIOUS
    <2> QED BY FaultlessLetsGo
  <1>4. Mapped(m, tor) \subseteq Torrents
    BY DEF Mapped
  <1> QED BY <1>1, <1>2, <1>3, <1>4 DEF Removable

LEMMA VerdictsAreRight ==
    ASSUME Saves, NEW m \in Movies, NEW tor \in [Torrents -> Row],
           NEW v \in Outcomes(m, tor)
    PROVE  Right(v, m, tor)
  <1>1. CASE state[m] # "ACTIVE"
    <2>1. v = <<"NONE", "NONE">> /\ ~Removable(m, tor)
      BY <1>1 DEF Outcomes, NoProposal, Removable
    <2> QED BY <1>1, <2>1 DEF Right, NoProposal
  <1>2. CASE state[m] = "ACTIVE" /\ standing[m] # "REVIEW_ELIGIBLE"
    <2>1. v \in Verdicts(m, tor) /\ ~Removable(m, tor)
      BY <1>2 DEF Outcomes, Removable
    <2>2. standing[m] \in Standings
      BY DEF Saves, TypeOK
    <2>3. v = IF standing[m] = "NOT_MANAGED" THEN <<"PROTECTED", "INSTANCE_NOT_MANAGED">>
              ELSE IF standing[m] = "PROTECTED" THEN <<"PROTECTED", "MEDIA_PROTECTED">>
              ELSE IF standing[m] = "KEEP_RETAINED" THEN <<"RETAINED", "RETENTION_ACTIVE">>
              ELSE <<"BLOCKED", "LIFECYCLE_OTHER">>
      BY <1>2, <2>1 DEF Verdicts
    <2> QED BY <1>2, <2>1, <2>2, <2>3 DEF Right, NoProposal, Standings
  <1>3. CASE state[m] = "ACTIVE" /\ standing[m] = "REVIEW_ELIGIBLE"
    <2> DEFINE faults == UNION {Faults(tor[t], TRUE) : t \in Mapped(m, tor)}
    <2>1. v \in Verdicts(m, tor)
      BY <1>3 DEF Outcomes
    <2>2. Removable(m, tor) <=> \A t \in Mapped(m, tor) : ~Shared(t, m) /\ Faults(tor[t], TRUE) = {}
      BY <1>3, MappedLetsGo
    <2>3. faults = {} <=> \A t \in Mapped(m, tor) : Faults(tor[t], TRUE) = {}
      OBVIOUS
    <2>4. \/ Mapped(m, tor) = {} /\ v = <<"ELIGIBLE", "DRY_RUN_ELIGIBLE_NO_TORRENT">>
          \/ (\E t \in Mapped(m, tor) : Shared(t, m)) /\ v = <<"BLOCKED", "SHARED_TORRENT_MAPPING">>
          \/ /\ ~\E t \in Mapped(m, tor) : Shared(t, m)
             /\ IF faults = {} THEN v = <<"ELIGIBLE", "DRY_RUN_ELIGIBLE">>
                               ELSE v \in {"BLOCKED"} \X faults
      BY <1>3, <2>1 DEF Verdicts
    <2>5. v[1] = IF Removable(m, tor) THEN "ELIGIBLE" ELSE "BLOCKED"
      <3>1. CASE Mapped(m, tor) = {} /\ v = <<"ELIGIBLE", "DRY_RUN_ELIGIBLE_NO_TORRENT">>
        BY <2>2, <3>1
      <3>2. CASE (\E t \in Mapped(m, tor) : Shared(t, m)) /\ v = <<"BLOCKED", "SHARED_TORRENT_MAPPING">>
        BY <2>2, <3>2
      <3>3. CASE /\ ~\E t \in Mapped(m, tor) : Shared(t, m)
                 /\ faults = {} /\ v = <<"ELIGIBLE", "DRY_RUN_ELIGIBLE">>
        BY <2>2, <2>3, <3>3
      <3>4. CASE faults # {} /\ v \in {"BLOCKED"} \X faults
        <4> HIDE DEF faults
        <4>1. v[1] = "BLOCKED"
          BY <3>4
        <4> QED BY <2>2, <2>3, <3>4, <4>1
      <3> QED BY <2>4, <3>1, <3>2, <3>3, <3>4
    <2>6. v # NoProposal
      BY <2>5 DEF NoProposal
    <2> QED BY <1>3, <2>5, <2>6 DEF Right
  <1> QED BY <1>1, <1>2, <1>3

LEMMA EvaluationsAreRight ==
    ASSUME Saves, NEW tor \in [Torrents -> Row], NEW f \in Evaluations(tor),
           NEW m \in Movies
    PROVE  Right(f[m], m, tor)
  <1>1. f[m] \in Outcomes(m, tor)
    BY DEF Evaluations
  <1> QED BY <1>1, VerdictsAreRight

LEMMA ResultIsReason ==
    ASSUME NEW r, NEW p, NEW automatic
    PROVE  TrackerResult(r, p, automatic) \in Reasons \cup {"MET"}
  BY DEF TrackerResult, Reasons

LEMMA EvaluationsAreProposals ==
    ASSUME NEW tor, NEW f \in Evaluations(tor)
    PROVE  f \in Proposals
  <1> DEFINE Some == {"NONE", "ELIGIBLE", "BLOCKED", "RETAINED", "PROTECTED"} \X Reasons
  <1>1. ASSUME NEW m \in Movies PROVE f[m] \in Some
    <2>1. f[m] \in Outcomes(m, tor)
      BY DEF Evaluations
    <2>2. \A t \in Mapped(m, tor) : Faults(tor[t], TRUE) \subseteq Reasons
      BY ResultIsReason DEF Faults, Reasons
    <2> DEFINE faults == UNION {Faults(tor[t], TRUE) : t \in Mapped(m, tor)}
    <2>3. faults \subseteq Reasons
      BY <2>2
    <2>4. \/ f[m] \in {"BLOCKED"} \X faults
          \/ f[m] = <<"NONE", "NONE">>
          \/ f[m] = <<"PROTECTED", "INSTANCE_NOT_MANAGED">>
          \/ f[m] = <<"PROTECTED", "MEDIA_PROTECTED">>
          \/ f[m] = <<"RETAINED", "RETENTION_ACTIVE">>
          \/ f[m] = <<"BLOCKED", "LIFECYCLE_OTHER">>
          \/ f[m] = <<"ELIGIBLE", "DRY_RUN_ELIGIBLE_NO_TORRENT">>
          \/ f[m] = <<"BLOCKED", "SHARED_TORRENT_MAPPING">>
          \/ f[m] = <<"ELIGIBLE", "DRY_RUN_ELIGIBLE">>
      BY <2>1, Zenon DEF Outcomes, Verdicts, NoProposal
    <2> HIDE DEF faults
    <2>5. CASE f[m] \in {"BLOCKED"} \X faults
      BY <2>3, <2>5
    <2> QED BY <2>4, <2>5 DEF Reasons
  <1>2. f \in [Movies -> UNION {Outcomes(m, tor) : m \in Movies}]
    BY DEF Evaluations
  <1> QED BY <1>1, <1>2 DEF Proposals

-----------------------------------------------------------------------------
(***************************************************************************)
(* The policies, and the types.                                            *)
(***************************************************************************)
LEMMA SavedTyped ==
    ASSUME NEW f \in Form, Valid(f)
    PROVE  /\ Saved(f) \in Policy /\ Stored(Saved(f)) /\ Saved(f).rule \in Rules
           /\ f.ratio # NotANumber => Complete(Saved(f))
  <1>1. /\ f.rule \in RatioRules => f.ratio \in Nat \cup {NotANumber}
        /\ f.rule \in TimeRules => f.time \in Nat
        /\ f.grace \in Nat /\ f.auto \in BOOLEAN /\ f.rule \in Rules
    BY LimitsAreNumbers DEF Valid, Form
  <1>2. Saved(f) \in Policy
    BY <1>1 DEF Saved, Policy
  <1>3. Saved(f).rule = f.rule
    BY DEF Saved
  <1>4. /\ Saved(f).ratio # None => f.rule \in RatioRules
        /\ f.ratio # NotANumber /\ f.rule \in RatioRules => Saved(f).ratio # None
        /\ Saved(f).time # None <=> f.rule \in TimeRules
    BY <1>1 DEF Saved, None
  <1> QED BY <1>1, <1>2, <1>3, <1>4 DEF Complete, Stored, Rules

LEMMA SelectionTyped ==
    ASSUME NEW p \in Policy, NEW b \in BOOLEAN
    PROVE  /\ [p EXCEPT !.selected = b] \in Policy
           /\ p.rule # "NONE" /\ Stored(p) => Stored([p EXCEPT !.selected = b])
           /\ p.rule # "NONE" /\ Complete(p) => Complete([p EXCEPT !.selected = b])
           /\ [p EXCEPT !.selected = b].rule = p.rule
  BY DEF Policy, Stored, Complete

LEMMA SelectedTyped ==
    ASSUME Saves, NEW ds \in SUBSET Domains, NEW d \in Domains
    PROVE  /\ Selected(ds)[d] \in Policy /\ Stored(Selected(ds)[d])
           /\ Default.ratio # NotANumber /\ Complete(policy[d])
                => Complete(Selected(ds)[d])
  <1> DEFINE b == d \in ds
  <1>1. policy[d] \in Policy /\ Stored(policy[d])
    BY SavedIsStored
  <1>2. CASE HasPolicy(d)
    <2>1. Selected(ds)[d] = [policy[d] EXCEPT !.selected = b]
      BY <1>2 DEF Selected
    <2>2. b \in BOOLEAN
      OBVIOUS
    <2>3. policy[d].rule # "NONE"
      BY <1>2 DEF HasPolicy
    <2> HIDE DEF b
    <2> QED BY <1>1, <2>1, <2>2, <2>3, SelectionTyped
  <1>3. CASE ~HasPolicy(d) /\ d \in ds
    BY <1>3, SavedTyped, DefaultIsAForm, DefaultIsValid DEF Selected
  <1>4. CASE ~HasPolicy(d) /\ d \notin ds
    BY <1>4 DEF Selected, NoPolicy, Policy, Stored, Complete, None
  <1> QED BY <1>2, <1>3, <1>4

LEMMA RefreshedTyped ==
    ASSUME TypeOK, NEW m \in Movies, NEW rows \in [Mapped(m, torrent) -> Rows]
    PROVE  Refreshed(m, rows) \in [Torrents -> Row]
  <1>1. \A t \in Mapped(m, torrent) : rows[t] \in Row
    BY RowsAreRows
  <1> QED BY <1>1 DEF Refreshed, TypeOK

LEMMA SavesInit == Init => Saves
  <1> SUFFICES ASSUME Init PROVE Saves
    OBVIOUS
  <1>1. NoPolicy \in Policy /\ Stored(NoPolicy) /\ NoRow \in Row
    BY DEF NoPolicy, Policy, Stored, NoRow, Row, None
  <1>2. [m \in Movies |-> NoProposal] \in Proposals
    BY DEF Proposals, NoProposal, Reasons
  <1>3. TypeOK
    BY <1>1, <1>2 DEF Init, TypeOK, States, Standings
  <1>4. \A d \in Domains : Stored(policy[d])
    BY <1>1 DEF Init
  <1> QED BY <1>3, <1>4
          DEF Saves, Stored, PoliciesAreStored, AbsentIsUnselected, HasPolicy

LEMMA SavesStep == Saves /\ [Next]_vars => Saves'
  <1> SUFFICES ASSUME Saves, [Next]_vars PROVE Saves'
    OBVIOUS
  <1>0. TypeOK
    BY DEF Saves
  <1>a. (\A d \in Domains : Stored(policy'[d])) => PoliciesAreStored' /\ AbsentIsUnselected'
    BY DEF Stored, PoliciesAreStored, AbsentIsUnselected, HasPolicy
  <1>b. ASSUME policy' = policy PROVE PoliciesAreStored' /\ AbsentIsUnselected'
    BY <1>b DEF Saves, PoliciesAreStored, AbsentIsUnselected, HasPolicy
  <1>1. ASSUME NEW d \in Domains, NEW f \in Forms, SavePolicy(d, f) PROVE Saves'
    <2>1. Saved(f) \in Policy /\ Stored(Saved(f))
      BY <1>1, SavedTyped, FormsAreForms DEF SavePolicy
    <2>2. policy' = [policy EXCEPT ![d] = Saved(f)]
      BY <1>1 DEF SavePolicy
    <2>3. \A e \in Domains : policy'[e] \in Policy /\ Stored(policy'[e])
      BY <1>0, <2>1, <2>2, SavedIsStored DEF TypeOK
    <2>4. TypeOK'
      BY <1>0, <1>1, <2>2, <2>3 DEF TypeOK, SavePolicy
    <2> QED BY <1>a, <2>3, <2>4 DEF Saves
  <1>2. ASSUME NEW ds \in SUBSET Domains, SelectTrackers(ds) PROVE Saves'
    <2>1. \A e \in Domains : Selected(ds)[e] \in Policy /\ Stored(Selected(ds)[e])
      BY SelectedTyped
    <2>2. policy' = Selected(ds)
      BY <1>2 DEF SelectTrackers
    <2>3. policy' \in [Domains -> Policy]
      BY <2>1, <2>2 DEF Selected
    <2>4. TypeOK'
      BY <1>0, <1>2, <2>3 DEF TypeOK, SelectTrackers
    <2> QED BY <1>a, <2>1, <2>2, <2>4 DEF Saves
  <1>3. ASSUME NEW t \in Torrents, NEW r \in Rows, NEW ms \in SUBSET Movies,
               SyncTorrent(t, r, ms)
        PROVE  Saves'
    <2>1. TypeOK'
      BY <1>0, <1>3, RowsAreRows DEF TypeOK, SyncTorrent
    <2> QED BY <1>3, <1>b, <2>1 DEF Saves, SyncTorrent
  <1>4. ASSUME NEW m \in Movies, NEW s \in {"ACTIVE", "MISSING"}, NEW ts \in SUBSET Torrents,
               SyncMovie(m, s, ts)
        PROVE  Saves'
    <2>1. TypeOK'
      BY <1>0, <1>4 DEF TypeOK, SyncMovie, States
    <2> QED BY <1>4, <1>b, <2>1 DEF Saves, SyncMovie
  <1>5. ASSUME NEW m \in Movies, NEW x \in Standings, Redecide(m, x) PROVE Saves'
    <2>1. TypeOK'
      BY <1>0, <1>5 DEF TypeOK, Redecide
    <2> QED BY <1>5, <1>b, <2>1 DEF Saves, Redecide
  <1>6. ASSUME NEW m \in Movies, Revalidate(m) PROVE Saves'
    <2>1. PICK rows \in [Mapped(m, torrent) -> {r \in Rows : r.present}] :
             /\ torrent' = Refreshed(m, rows)
             /\ \/ /\ proposal' \in Evaluations(Refreshed(m, rows))
                   /\ outdated' = FALSE /\ silent' = FALSE
                \/ UNCHANGED <<proposal, outdated>> /\ silent' = TRUE
      BY <1>6 DEF Revalidate
    <2>2. torrent' \in [Torrents -> Row]
      BY <1>0, <2>1, RefreshedTyped
    <2>3. proposal' \in Proposals /\ outdated' \in BOOLEAN /\ silent' \in BOOLEAN
      BY <1>0, <2>1, EvaluationsAreProposals DEF TypeOK
    <2>4. TypeOK'
      BY <1>0, <1>6, <2>2, <2>3 DEF TypeOK, Revalidate
    <2> QED BY <1>6, <1>b, <2>4 DEF Saves, Revalidate
  <1>7. ASSUME NEW m \in Movies, RevalidateItem(m) PROVE Saves'
    <2>1. torrent' \in [Torrents -> Row]
      BY <1>0, <1>7, RefreshedTyped DEF RevalidateItem
    <2>2. TypeOK'
      BY <1>0, <1>7, <2>1 DEF TypeOK, RevalidateItem
    <2> QED BY <1>7, <1>b, <2>2 DEF Saves, RevalidateItem
  <1>8. ASSUME NEW m \in Movies, MediaDeleted(m) PROVE Saves'
    <2>1. TypeOK'
      BY <1>0, <1>8 DEF TypeOK, MediaDeleted, States
    <2> QED BY <1>8, <1>b, <2>1 DEF Saves, MediaDeleted
  <1>9. CASE BeginRecalculate
    <2>1. TypeOK'
      BY <1>0, <1>9, EvaluationsAreProposals DEF TypeOK, BeginRecalculate, evidence
    <2> QED BY <1>9, <1>b, <2>1 DEF Saves, BeginRecalculate, evidence
  <1>10. CASE EndRecalculate
    <2>1. TypeOK'
      BY <1>0, <1>10 DEF TypeOK, EndRecalculate, evidence
    <2> QED BY <1>10, <1>b, <2>1 DEF Saves, EndRecalculate, evidence
  <1>11. CASE UNCHANGED vars
    <2>1. TypeOK'
      BY <1>0, <1>11 DEF TypeOK, vars, evidence
    <2> QED BY <1>11, <1>b, <2>1 DEF Saves, vars, evidence
  <1> QED BY <1>1, <1>2, <1>3, <1>4, <1>5, <1>6, <1>7, <1>8, <1>9, <1>10, <1>11
          DEF Next, Administer, Synchronize, Work

LEMMA SavesAlways == Spec => []Saves
  BY SavesInit, SavesStep, PTL DEF Spec

\* Every variable has its type.
THEOREM DryRunTyped == Spec => []TypeOK
  <1>1. Saves => TypeOK
    BY DEF Saves
  <1> QED BY <1>1, SavesAlways, PTL

\* Every saved policy has exactly the minimums its rule asks for, in whatever
\* order policies are saved and trackers selected, as long as no form's ratio is
\* what is no number: nothing else gets past the checks of a form.
THEOREM PoliciesCorrect ==
    ASSUME \A f \in Forms \cup {Default} : f.ratio # NotANumber
    PROVE  Spec => []PoliciesAreComplete
  <1> DEFINE AllComplete == \A d \in Domains : Complete(policy[d])
  <1>1. Init => AllComplete
    BY DEF Init, NoPolicy, Complete
  <1>2. ASSUME Saves, AllComplete, [Next]_vars PROVE AllComplete'
    <2>1. CASE UNCHANGED policy
      BY <1>2, <2>1 DEF Complete
    <2>2. ASSUME NEW d \in Domains, NEW f \in Forms, SavePolicy(d, f) PROVE AllComplete'
      <3>1. Complete(Saved(f))
        BY <2>2, SavedTyped, FormsAreForms DEF SavePolicy
      <3>2. policy' = [policy EXCEPT ![d] = Saved(f)]
        BY <2>2 DEF SavePolicy
      <3>3. \A e \in Domains : policy'[e] \in {policy[e], Saved(f)}
        BY <1>2, <3>2 DEF Saves, TypeOK
      <3> QED BY <1>2, <3>1, <3>3
    <2>3. ASSUME NEW ds \in SUBSET Domains, SelectTrackers(ds) PROVE AllComplete'
      <3>1. \A e \in Domains : Complete(Selected(ds)[e])
        BY <1>2, SelectedTyped
      <3>2. policy' = Selected(ds)
        BY <2>3 DEF SelectTrackers
      <3> QED BY <3>1, <3>2
    <2> QED BY <1>2, <2>1, <2>2, <2>3
            DEF Next, Administer, Synchronize, Work, SyncTorrent, SyncMovie, Redecide,
                Revalidate, RevalidateItem, MediaDeleted, BeginRecalculate,
                EndRecalculate, vars, evidence
  <1>3. Saves /\ AllComplete /\ [Next]_vars => AllComplete'
    BY <1>2
  <1>4. AllComplete => PoliciesAreComplete
    BY DEF Complete, PoliciesAreComplete, HasPolicy
  <1> QED BY <1>1, <1>3, <1>4, SavesAlways, PTL DEF Spec

-----------------------------------------------------------------------------
(***************************************************************************)
(* What the proposals promise when a recalculation overlaps with nothing.  *)
(***************************************************************************)
\* Then what a recalculation is about to commit is right for the rows of now.
Pending == \A f \in calc, m \in Movies : Right(f[m], m, torrent)

LEMMA RightStands ==
    ASSUME NEW v, NEW m, UNCHANGED <<state, standing, torrent, mapping, policy>>
    PROVE  Right(v, m, torrent)' <=> Right(v, m, torrent)
  BY DEF Right, Removable, LetsGo, PaidUp, Owed

LEMMA PendingStep ==
    ASSUME ~Overlap, Saves, Pending, [Next]_vars
    PROVE  Pending'
  <1>1. CASE BeginRecalculate
    <2>1. PICK f \in Evaluations(torrent) : calc' = {f}
      BY <1>1 DEF BeginRecalculate
    <2>2. torrent \in [Torrents -> Row] /\ UNCHANGED <<state, standing, torrent, mapping, policy>>
      BY <1>1 DEF Saves, TypeOK, BeginRecalculate, evidence
    <2>3. \A m \in Movies : Right(f[m], m, torrent)
      BY <2>1, <2>2, EvaluationsAreRight
    <2> QED BY <2>1, <2>2, <2>3, RightStands DEF Pending
  <1>2. CASE EndRecalculate
    BY <1>2 DEF EndRecalculate, Pending
  <1>3. CASE UNCHANGED vars
    BY <1>3, RightStands DEF vars, evidence, Pending
  <1>4. CASE calc = {} /\ calc' = calc
    BY <1>4 DEF Pending
  <1> QED BY <1>1, <1>2, <1>3, <1>4
          DEF Next, Administer, Synchronize, Work, SavePolicy, SelectTrackers, SyncTorrent,
              SyncMovie, Redecide, Revalidate, RevalidateItem, MediaDeleted, Quiet

LEMMA PendingAlways == ASSUME ~Overlap PROVE Spec => []Pending
  <1>1. Init => Pending
    BY DEF Init, Pending
  <1>2. Saves /\ Pending /\ [Next]_vars => Pending'
    BY PendingStep
  <1> QED BY <1>1, <1>2, SavesAlways, PTL DEF Spec

\* Only a recalculation and a job's revalidation propose; they leave all but the
\* torrent rows alone, and what they propose is right for the rows they leave.
LEMMA ProposalsAreRight ==
    ASSUME Saves, Pending, [Next]_vars
    PROVE  \/ UNCHANGED proposal
           \/ /\ UNCHANGED <<state, standing, mapping, policy>>
              /\ \A m \in Movies : Right(proposal'[m], m, torrent')
  <1>1. CASE EndRecalculate
    BY <1>1 DEF EndRecalculate, evidence, Pending
  <1>2. ASSUME NEW n \in Movies, Revalidate(n)
        PROVE  \/ UNCHANGED proposal
               \/ /\ UNCHANGED <<state, standing, mapping, policy>>
                  /\ \A m \in Movies : Right(proposal'[m], m, torrent')
    <2>1. PICK rows \in [Mapped(n, torrent) -> {r \in Rows : r.present}] :
             /\ torrent' = Refreshed(n, rows)
             /\ \/ proposal' \in Evaluations(Refreshed(n, rows))
                \/ UNCHANGED proposal
      BY <1>2 DEF Revalidate
    <2>2. torrent' \in [Torrents -> Row]
      BY <2>1, RefreshedTyped DEF Saves
    <2>3. CASE proposal' \in Evaluations(torrent')
      <3>1. \A m \in Movies : Right(proposal'[m], m, torrent')
        BY <2>2, <2>3, EvaluationsAreRight
      <3> QED BY <1>2, <3>1 DEF Revalidate
    <2> QED BY <2>1, <2>3
  <1>3. CASE ~EndRecalculate /\ ~\E n \in Movies : Revalidate(n)
    BY <1>3 DEF Next, Administer, Synchronize, Work, SavePolicy, SelectTrackers, SyncTorrent,
           SyncMovie, Redecide, BeginRecalculate, RevalidateItem, MediaDeleted, vars, evidence
  <1> QED BY <1>1, <1>2, <1>3

\* A proposal becomes ELIGIBLE only for a movie that may be removed.
THEOREM EligibleCorrect == ASSUME ~Overlap PROVE Spec => EligibleIsMet
  <1> DEFINE Earned == \A m \in Movies : proposal'[m][1] = "ELIGIBLE"
                          => proposal'[m] = proposal[m] \/ Removable(m, torrent')
  <1>1. Saves /\ Pending /\ [Next]_vars => [Earned]_vars
    <2> SUFFICES ASSUME Saves, Pending, [Next]_vars PROVE Earned
      OBVIOUS
    <2> QED BY ProposalsAreRight DEF Right
  <1>2. Spec => [][Earned]_vars
    BY <1>1, SavesAlways, PendingAlways, PTL DEF Spec
  <1> QED BY <1>2 DEF EligibleIsMet

\* Until a deletion changes the evidence without a word, the preview is right
\* whenever the page says so.
THEOREM PreviewCorrect == ASSUME ~Overlap PROVE Spec => []PreviewMatches
  <1>1. Init => PreviewMatches
    BY DEF Init, PreviewMatches
  <1>2. ASSUME Saves, Pending, PreviewMatches, [Next]_vars PROVE PreviewMatches'
    <2>1. ASSUME UNCHANGED <<state, standing, mapping, policy>>,
                 \A m \in Movies : Right(proposal'[m], m, torrent')
          PROVE  PreviewMatches'
      <3>1. \A m \in Movies : Removable(m, torrent)' <=> Removable(m, torrent')
        BY <2>1 DEF Removable, LetsGo, PaidUp, Owed
      <3> QED BY <2>1, <3>1 DEF Right, PreviewMatches, Matches
    <2>2. CASE UNCHANGED <<state, standing, torrent, mapping, policy, proposal, outdated, silent>>
      <3>1. \A m \in Movies : Removable(m, torrent)' <=> Removable(m, torrent)
        BY <2>2 DEF Removable, LetsGo, PaidUp, Owed
      <3> QED BY <1>2, <2>2, <3>1 DEF PreviewMatches, Matches
    <2>3. CASE outdated' \/ silent'
      BY <2>3 DEF PreviewMatches
    <2>4. CASE EndRecalculate
      BY <1>2, <2>1, <2>4 DEF EndRecalculate, evidence, Pending
    <2>5. ASSUME NEW m \in Movies, Revalidate(m), ~silent'
          PROVE  PreviewMatches'
      <3>1. PICK rows \in [Mapped(m, torrent) -> {r \in Rows : r.present}] :
               torrent' = Refreshed(m, rows) /\ proposal' \in Evaluations(Refreshed(m, rows))
        BY <2>5 DEF Revalidate
      <3>2. torrent' \in [Torrents -> Row]
        BY <1>2, <3>1, RefreshedTyped DEF Saves
      <3>3. \A n \in Movies : Right(proposal'[n], n, torrent')
        BY <1>2, <3>1, <3>2, EvaluationsAreRight
      <3>4. UNCHANGED <<state, standing, mapping, policy>>
        BY <2>5 DEF Revalidate
      <3> QED BY <2>1, <3>3, <3>4
    <2> QED
      BY <1>2, <2>2, <2>3, <2>4, <2>5
         DEF Next, Administer, Synchronize, Work, SavePolicy, SelectTrackers, SyncTorrent,
             SyncMovie, Redecide, BeginRecalculate, RevalidateItem, MediaDeleted, vars, evidence
  <1>3. Saves /\ Pending /\ PreviewMatches /\ [Next]_vars => PreviewMatches'
    BY <1>2
  <1> QED BY <1>1, <1>3, SavesAlways, PendingAlways, PTL DEF Spec

-----------------------------------------------------------------------------
(***************************************************************************)
(* The tracker rules.                                                      *)
(***************************************************************************)
LEMMA AtLeastGrows ==
    ASSUME NEW x \in Nat \cup {None}, NEW y \in Nat \cup {None}, NEW z \in Nat \cup {None},
           y >= x, AtLeast(x, z)
    PROVE  AtLeast(y, z)
  BY DEF AtLeast, None

\* Seeding longer and further never costs a torrent what it had satisfied.
THEOREM SeedingCorrect == Spec => []SeedingHelps
  <1>1. ASSUME Saves, NEW d \in Domains, NEW t \in Torrents, NEW r \in Rows,
               NEW automatic \in BOOLEAN,
               TrackerResult(torrent[t], policy[d], automatic) = "MET",
               r.ratio >= torrent[t].ratio, r.time >= torrent[t].time
        PROVE  TrackerResult(r, policy[d], automatic) = "MET"
    <2> DEFINE p == policy[d]
               q == torrent[t]
    <2>1. p \in Policy /\ q \in Row /\ r \in Row
      BY <1>1, RowsAreRows DEF Saves, TypeOK
    <2> HIDE DEF p, q
    <2>2. TrackerResult(q, p, automatic) = "MET" /\ r.ratio >= q.ratio /\ r.time >= q.time
      BY <1>1 DEF p, q
    <2>3. /\ p.selected /\ p.rule # "NEVER_REMOVE" /\ RuleMet(q, p) /\ (automatic => p.auto)
          /\ ~(\/ p.rule \in RatioRules /\ p.ratio = None
               \/ p.rule \in TimeRules /\ p.time = None)
          /\ ~(q.time = None \/ q.time < p.grace)
      BY <2>2 DEF TrackerResult
    <2>4. AtLeast(q.ratio, p.ratio) => AtLeast(r.ratio, p.ratio)
      BY <2>1, <2>2, AtLeastGrows DEF Row, Policy
    <2>5. AtLeast(q.time, p.time) => AtLeast(r.time, p.time)
      BY <2>1, <2>2, AtLeastGrows DEF Row, Policy
    <2>6. RuleMet(r, p)
      BY <2>3, <2>4, <2>5 DEF RuleMet
    <2>7. ~(r.time = None \/ r.time < p.grace)
      BY <2>1, <2>2, <2>3 DEF Row, Policy, None
    <2>8. TrackerResult(r, p, automatic) = "MET"
      BY <2>3, <2>6, <2>7 DEF TrackerResult
    <2> QED BY <2>8 DEF p
  <1>2. Saves => SeedingHelps
    BY <1>1 DEF SeedingHelps
  <1> QED BY <1>2, SavesAlways, PTL

\* A tracker that lets an automatic removal pass lets one by hand pass.
LEMMA ByHandIsEasier ==
    ASSUME NEW r, Faults(r, TRUE) = {}
    PROVE  Faults(r, FALSE) = {}
  <1>1. ~r.left /\ r.trackers # {}
    BY DEF Faults
  <1>2. \A d \in r.trackers : TrackerResult(r, policy[d], TRUE) = "MET"
    BY <1>1 DEF Faults
  <1>3. \A d \in r.trackers : TrackerResult(r, policy[d], FALSE) = "MET"
    BY <1>2 DEF TrackerResult
  <1> QED BY <1>1, <1>3 DEF Faults

\* The two implementations of the tracker gate agree on what the dry run proposes.
THEOREM GatesCorrect == Spec => []GatesAgree
  <1>1. ASSUME NEW m \in Movies, NEW v \in Verdicts(m, torrent), v[1] = "ELIGIBLE"
        PROVE  Assessed(m, torrent)
    <2> DEFINE faults == UNION {Faults(torrent[t], TRUE) : t \in Mapped(m, torrent)}
    <2>1. \/ Mapped(m, torrent) = {}
          \/ /\ ~\E t \in Mapped(m, torrent) : Shared(t, m)
             /\ faults = {} \/ v \in {"BLOCKED"} \X faults
          \/ v \in {<<"PROTECTED", "INSTANCE_NOT_MANAGED">>, <<"PROTECTED", "MEDIA_PROTECTED">>,
                    <<"RETAINED", "RETENTION_ACTIVE">>, <<"BLOCKED", "LIFECYCLE_OTHER">>,
                    <<"BLOCKED", "SHARED_TORRENT_MAPPING">>}
      BY Zenon DEF Verdicts
    <2>2. faults = {} => \A t \in Mapped(m, torrent) : Faults(torrent[t], TRUE) = {}
      OBVIOUS
    <2> HIDE DEF faults
    <2>3. /\ v \notin {"BLOCKED"} \X faults
          /\ v \notin {<<"PROTECTED", "INSTANCE_NOT_MANAGED">>, <<"PROTECTED", "MEDIA_PROTECTED">>,
                       <<"RETAINED", "RETENTION_ACTIVE">>, <<"BLOCKED", "LIFECYCLE_OTHER">>,
                       <<"BLOCKED", "SHARED_TORRENT_MAPPING">>}
      BY <1>1
    <2> QED BY <2>1, <2>2, <2>3, ByHandIsEasier DEF Assessed
  <1>2. GatesAgree
    BY <1>1 DEF GatesAgree
  <1> QED BY <1>2, PTL

=============================================================================
