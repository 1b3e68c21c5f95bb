------------------------------- MODULE DryRun -------------------------------
(***************************************************************************)
(* The dry run (services/dry_run.py): from the stored evidence, lifecycles,*)
(* torrents, their mapping and the tracker policies, evaluate_dry_run      *)
(* makes one proposal for every downloaded movie or season, and the page   *)
(* says whether the proposals still match the evidence                     *)
(* (_deletion_queue_context in main.py).  Manual management asks the same  *)
(* of the torrents in an implementation of its own (assess_tracker_safety).*)
(*                                                                         *)
(* Where the rows come from is the business of Inventory and               *)
(* TorrentEvidence; here a synchronization may bring any.  What a          *)
(* lifecycle's rows say, its instance's management mode included, is one   *)
(* value of standing.                                                      *)
(***************************************************************************)
EXTENDS Integers

CONSTANTS
    Movies,      \* lifecycles
    Torrents,    \* torrent rows
    Domains,     \* tracker domains
    Unnamed,     \* domains no policy can be saved for ("unknown", no dot)
    Rows,        \* the contents of a torrent row
    Forms,       \* the contents of a tracker policy form
    RatioLimit,  \* the largest minimum ratio a form may ask for
    TimeLimit,   \* the longest minimum seed time
    GraceLimit,  \* the longest grace period
    Default,     \* the form a newly selected tracker gets
    Overlap      \* a recalculation may overlap with other requests

\* None of the ratio or of the seeding time, in a row and in a policy; a ratio
\* that was typed as "nan".  (A seed time so typed is refused as no whole number,
\* a grace period by round.)
None == -1
NotANumber == -2

Rules     == {"RATIO_ONLY", "TIME_ONLY", "RATIO_OR_TIME", "RATIO_AND_TIME", "NEVER_REMOVE"}
RatioRules == {"RATIO_ONLY", "RATIO_OR_TIME", "RATIO_AND_TIME"}
TimeRules  == {"TIME_ONLY", "RATIO_OR_TIME", "RATIO_AND_TIME"}

Form   == [rule : Rules, ratio : Nat \cup {None, NotANumber}, time : Nat \cup {None},
           grace : Int, auto : BOOLEAN]
Policy == [rule : Rules \cup {"NONE"}, ratio : Nat \cup {None}, time : Nat \cup {None},
           grace : Nat, auto : BOOLEAN, selected : BOOLEAN]
Row    == [present : BOOLEAN, left : BOOLEAN, ratio : Nat \cup {None},
           time : Nat \cup {None}, trackers : SUBSET Domains]

ASSUME RowsAreRows      == Rows \subseteq Row
ASSUME FormsAreForms    == Forms \subseteq Form
ASSUME DefaultIsAForm   == Default \in Form
ASSUME OverlapIsAFlag   == Overlap \in BOOLEAN
ASSUME LimitsAreNumbers == RatioLimit \in Nat /\ TimeLimit \in Nat /\ GraceLimit \in Nat

VARIABLES
    state,     \* media_lifecycle.state
    standing,  \* what the lifecycle's own rows say of it
    torrent,   \* torrent and torrent_tracker
    mapping,   \* torrent_media_mapping
    policy,    \* tracker_policy, selected or not
    proposal,  \* dry_run_proposal
    calc,      \* the proposals of a recalculation that is not committed yet
    outdated,  \* preview_needs_recalculation
    silent     \* history: a deletion has changed the evidence since the last
               \* evaluation, which is no event that outdates the preview

evidence == <<state, standing, torrent, mapping, policy>>
vars     == <<evidence, proposal, calc, outdated, silent>>

States    == {"ACTIVE", "MISSING", "DELETED"}
Standings == {"NOT_MANAGED", "PROTECTED", "KEEP_RETAINED", "REVIEW_ELIGIBLE", "OTHER"}

\* What is not there.
NoPolicy   == [rule |-> "NONE", ratio |-> None, time |-> None, grace |-> 0,
               auto |-> FALSE, selected |-> FALSE]
NoRow      == [present |-> FALSE, left |-> FALSE, ratio |-> None, time |-> None,
               trackers |-> {}]
NoProposal == <<"NONE", "NONE">>

Init ==
    /\ state = [m \in Movies |-> "MISSING"]
    /\ standing = [m \in Movies |-> "OTHER"]
    /\ torrent = [t \in Torrents |-> NoRow]
    /\ mapping = {}
    /\ policy = [d \in Domains |-> NoPolicy]
    /\ proposal = [m \in Movies |-> NoProposal]
    /\ calc = {}
    /\ outdated = TRUE /\ silent = FALSE

-----------------------------------------------------------------------------
(***************************************************************************)
(* One tracker's rule, in the order of _tracker_result; "MET" is passed.   *)
(* The first check that fails names the reason.                            *)
(***************************************************************************)
AtLeast(value, minimum) == value # None /\ (minimum = None \/ value >= minimum)

\* The mutant takes either for both.
MutRuleMet(r, p) == AtLeast(r.ratio, p.ratio) \/ AtLeast(r.time, p.time)
RuleMet(r, p) ==
    LET ratio == AtLeast(r.ratio, p.ratio)
        time  == AtLeast(r.time, p.time) IN
    \/ p.rule = "RATIO_ONLY" /\ ratio
    \/ p.rule = "TIME_ONLY" /\ time
    \/ p.rule = "RATIO_OR_TIME" /\ (ratio \/ time)
    \/ p.rule = "RATIO_AND_TIME" /\ ratio /\ time

TrackerResult(r, p, automatic) ==
    IF ~p.selected THEN "TRACKER_POLICY_MISSING"
    ELSE IF p.rule = "NEVER_REMOVE" THEN "TRACKER_NEVER_REMOVE"
    ELSE IF \/ p.rule \in RatioRules /\ p.ratio = None
            \/ p.rule \in TimeRules /\ p.time = None THEN "TRACKER_POLICY_INCOMPLETE"
    ELSE IF ~RuleMet(r, p) THEN "TRACKER_REQUIREMENT_NOT_MET"
    ELSE IF r.time = None \/ r.time < p.grace THEN "TRACKER_GRACE_PERIOD"
    ELSE IF automatic /\ ~p.auto THEN "TRACKER_AUTOMATION_DISABLED"
    ELSE "MET"

-----------------------------------------------------------------------------
(***************************************************************************)
(* The evaluation of one lifecycle, given the torrent rows tor.  Torrents  *)
(* and trackers come in no particular order, so any of several reasons may *)
(* be the one named.                                                       *)
(***************************************************************************)
Mapped(m, tor) == {t \in Torrents : <<t, m>> \in mapping /\ tor[t].present}

\* The mutant forgets the check.
MutShared(t, m) == FALSE
Shared(t, m)    == \E n \in Movies \ {m} : <<t, n>> \in mapping

\* Why torrent row r does not let go of its media.
Faults(r, automatic) ==
    IF r.left THEN {"TORRENT_INCOMPLETE"}
    ELSE IF r.trackers = {} THEN {"TRACKER_EVIDENCE_MISSING"}
    ELSE {TrackerResult(r, policy[d], automatic) : d \in r.trackers} \ {"MET"}

\* The proposals evaluate_dry_run may make for an ACTIVE lifecycle.
Verdicts(m, tor) ==
    IF standing[m] = "NOT_MANAGED" THEN {<<"PROTECTED", "INSTANCE_NOT_MANAGED">>}
    ELSE IF standing[m] = "PROTECTED" THEN {<<"PROTECTED", "MEDIA_PROTECTED">>}
    ELSE IF standing[m] = "KEEP_RETAINED" THEN {<<"RETAINED", "RETENTION_ACTIVE">>}
    ELSE IF standing[m] # "REVIEW_ELIGIBLE" THEN {<<"BLOCKED", "LIFECYCLE_OTHER">>}
    ELSE IF Mapped(m, tor) = {} THEN {<<"ELIGIBLE", "DRY_RUN_ELIGIBLE_NO_TORRENT">>}
    ELSE IF \E t \in Mapped(m, tor) : Shared(t, m)
         THEN {<<"BLOCKED", "SHARED_TORRENT_MAPPING">>}
    ELSE LET faults == UNION {Faults(tor[t], TRUE) : t \in Mapped(m, tor)} IN
         IF faults = {} THEN {<<"ELIGIBLE", "DRY_RUN_ELIGIBLE">>} ELSE {"BLOCKED"} \X faults

\* evaluate_dry_run: a proposal for what is downloaded, for nothing else.
Outcomes(m, tor) == IF state[m] = "ACTIVE" THEN Verdicts(m, tor) ELSE {NoProposal}
Evaluations(tor) ==
    {f \in [Movies -> UNION {Outcomes(m, tor) : m \in Movies}] :
        \A m \in Movies : f[m] \in Outcomes(m, tor)}

\* assess_tracker_safety, for a movie an administrator has selected: any
\* standing, and no tracker need allow automatic deletion.  The mutant reads the
\* torrents that are gone, too.
MutAssessed(m, tor) ==
    \A t \in Torrents : <<t, m>> \in mapping => ~Shared(t, m) /\ Faults(tor[t], FALSE) = {}
Assessed(m, tor) == \A t \in Mapped(m, tor) : ~Shared(t, m) /\ Faults(tor[t], FALSE) = {}

-----------------------------------------------------------------------------
(***************************************************************************)
(* Tracker policies.                                                       *)
(***************************************************************************)
HasPolicy(d) == policy[d].rule # "NONE"
Discovered   == UNION {torrent[t].trackers : t \in {u \in Torrents : torrent[u].present}}
KnownDomains == Discovered \cup {d \in Domains : HasPolicy(d)}

\* What save_tracker_policy accepts: no comparison refuses what is no number.
Valid(f) == /\ f.rule \in RatioRules => f.ratio \in 1..RatioLimit \cup {NotANumber}
            /\ f.rule \in TimeRules => f.time \in 1..TimeLimit
            /\ f.grace \in 0..GraceLimit

\* It keeps only the minimums the rule asks for; SQLite stores what is no number
\* as NULL.
Saved(f) == [rule |-> f.rule,
             ratio |-> IF f.rule \in RatioRules /\ f.ratio # NotANumber THEN f.ratio ELSE None,
             time |-> IF f.rule \in TimeRules THEN f.time ELSE None,
             grace |-> f.grace, auto |-> f.auto, selected |-> TRUE]

ASSUME DefaultIsValid == Valid(Default)

Quiet == calc = {} \/ Overlap

SavePolicy(d, f) ==
    /\ Quiet /\ d \in KnownDomains \ Unnamed /\ Valid(f)
    /\ policy' = [policy EXCEPT ![d] = Saved(f)]
    /\ outdated' = TRUE
    /\ UNCHANGED <<state, standing, torrent, mapping, proposal, calc, silent>>

\* settings_tracker_selection_update: a policy that is not selected is kept, a
\* selected tracker without one gets the default.  The mutant's event is not one
\* that outdates the preview.
Selected(ds) == [d \in Domains |-> IF HasPolicy(d) THEN [policy[d] EXCEPT !.selected = d \in ds]
                                   ELSE IF d \in ds THEN Saved(Default) ELSE NoPolicy]
MutSelectTrackers(ds) ==
    /\ Quiet /\ ds \subseteq KnownDomains /\ \A d \in ds \cap Unnamed : HasPolicy(d)
    /\ policy' = Selected(ds)
    /\ UNCHANGED <<state, standing, torrent, mapping, proposal, calc, outdated, silent>>
SelectTrackers(ds) ==
    /\ Quiet /\ ds \subseteq KnownDomains /\ \A d \in ds \cap Unnamed : HasPolicy(d)
    /\ policy' = Selected(ds)
    /\ outdated' = TRUE
    /\ UNCHANGED <<state, standing, torrent, mapping, proposal, calc, silent>>

-----------------------------------------------------------------------------
(***************************************************************************)
(* What else changes the evidence, each with an event that outdates the    *)
(* preview.  A synchronization of qBittorrent is told one torrent at a     *)
(* time, one of Arr one movie at a time.                                   *)
(***************************************************************************)
SyncTorrent(t, r, ms) ==
    /\ Quiet /\ (ms = {} \/ r.present) /\ \A m \in ms : state[m] = "ACTIVE"
    /\ torrent' = [torrent EXCEPT ![t] = r]
    /\ mapping' = {p \in mapping : p[1] # t} \cup ({t} \X ms)
    /\ outdated' = TRUE
    /\ UNCHANGED <<state, standing, policy, proposal, calc, silent>>

SyncMovie(m, s, ts) ==
    /\ Quiet /\ (ts = {} \/ s = "ACTIVE") /\ \A t \in ts : torrent[t].present
    /\ state' = [state EXCEPT ![m] = s]
    /\ \E x \in Standings : standing' = [standing EXCEPT ![m] = x]
    /\ mapping' = {p \in mapping : p[2] # m} \cup (ts \X {m})
    /\ outdated' = TRUE
    /\ UNCHANGED <<torrent, policy, proposal, calc, silent>>

\* Protection by hand or by requester, the retention policy, a management mode,
\* a Plex library taken in or out, and every other synchronization.
Redecide(m, x) ==
    /\ Quiet
    /\ standing' = [standing EXCEPT ![m] = x]
    /\ outdated' = TRUE
    /\ UNCHANGED <<state, torrent, mapping, policy, proposal, calc, silent>>

-----------------------------------------------------------------------------
(***************************************************************************)
(* Recalculation, and what the workflows do to evidence and proposals.     *)
(***************************************************************************)
\* deletion_queue_recalculate has read everything before its first write.
BeginRecalculate ==
    /\ calc = {}
    /\ \E f \in Evaluations(torrent) : calc' = {f}
    /\ UNCHANGED <<evidence, proposal, outdated, silent>>
EndRecalculate ==
    /\ calc # {}
    /\ proposal' \in calc
    /\ calc' = {}
    /\ outdated' = FALSE /\ silent' = FALSE
    /\ UNCHANGED evidence

\* _live_revalidate reads the mapped torrents anew and evaluates; a job that is
\* blocked before the evaluation commits what it has read.
Refreshed(m, rows) == [t \in Torrents |-> IF t \in Mapped(m, torrent) THEN rows[t] ELSE torrent[t]]
Revalidate(m) ==
    /\ Quiet /\ state[m] = "ACTIVE"
    /\ \E rows \in [Mapped(m, torrent) -> {r \in Rows : r.present}] :
          /\ torrent' = Refreshed(m, rows)
          /\ \/ /\ proposal' \in Evaluations(Refreshed(m, rows))
                /\ outdated' = FALSE /\ silent' = FALSE
             \/ UNCHANGED <<proposal, outdated>> /\ silent' = TRUE
    /\ UNCHANGED <<state, standing, mapping, policy, calc>>

\* _live_torrent_snapshots of manual management: a torrent may be gone.
RevalidateItem(m) ==
    /\ Quiet /\ state[m] = "ACTIVE"
    /\ \E rows \in [Mapped(m, torrent) -> Rows] : torrent' = Refreshed(m, rows)
    /\ silent' = TRUE
    /\ UNCHANGED <<state, standing, mapping, policy, proposal, calc, outdated>>

\* A job or a manual batch has deleted m.
MediaDeleted(m) ==
    /\ Quiet /\ state[m] = "ACTIVE"
    /\ state' = [state EXCEPT ![m] = "DELETED"]
    /\ silent' = TRUE
    /\ UNCHANGED <<standing, torrent, mapping, policy, proposal, calc, outdated>>

Administer == \/ \E d \in Domains, f \in Forms : SavePolicy(d, f)
              \/ \E ds \in SUBSET Domains : SelectTrackers(ds)
Synchronize == \/ \E t \in Torrents, r \in Rows, ms \in SUBSET Movies : SyncTorrent(t, r, ms)
               \/ \E m \in Movies, s \in {"ACTIVE", "MISSING"}, ts \in SUBSET Torrents :
                      SyncMovie(m, s, ts)
               \/ \E m \in Movies, x \in Standings : Redecide(m, x)
Work        == \E m \in Movies : Revalidate(m) \/ RevalidateItem(m) \/ MediaDeleted(m)

Next == \/ Administer \/ Synchronize \/ Work
        \/ BeginRecalculate \/ EndRecalculate

Spec == Init /\ [][Next]_vars

-----------------------------------------------------------------------------
(***************************************************************************)
(* Properties.                                                             *)
(***************************************************************************)
Reasons   == {"NONE", "INSTANCE_NOT_MANAGED", "MEDIA_PROTECTED", "RETENTION_ACTIVE",
              "LIFECYCLE_OTHER", "DRY_RUN_ELIGIBLE_NO_TORRENT", "SHARED_TORRENT_MAPPING",
              "DRY_RUN_ELIGIBLE", "TORRENT_INCOMPLETE", "TRACKER_EVIDENCE_MISSING",
              "TRACKER_POLICY_MISSING", "TRACKER_NEVER_REMOVE", "TRACKER_POLICY_INCOMPLETE",
              "TRACKER_REQUIREMENT_NOT_MET", "TRACKER_GRACE_PERIOD",
              "TRACKER_AUTOMATION_DISABLED"}
Proposals == [Movies -> {"NONE", "ELIGIBLE", "BLOCKED", "RETAINED", "PROTECTED"} \X Reasons]

TypeOK ==
    /\ state \in [Movies -> States]
    /\ standing \in [Movies -> Standings]
    /\ torrent \in [Torrents -> Row]
    /\ mapping \subseteq Torrents \X Movies
    /\ policy \in [Domains -> Policy]
    /\ proposal \in Proposals
    /\ calc \subseteq Proposals
    /\ outdated \in BOOLEAN /\ silent \in BOOLEAN

\* Every saved policy has exactly the minimums its rule asks for ("Minimum ratio
\* must be greater than 0 and no more than 1000.", dry_run.py:83; violated by a
\* ratio that is no number, which passes both comparisons).
PoliciesAreComplete ==
    \A d \in Domains : HasPolicy(d) =>
        /\ policy[d].ratio # None <=> policy[d].rule \in RatioRules
        /\ policy[d].time # None <=> policy[d].rule \in TimeRules

\* The reference: all of what the tracker is owed, or any if the rule says so,
\* under a policy that says how much that is.
Owed(r, p)    == {o \in {<<r.ratio, p.ratio>>, <<r.time, p.time>>} : o[2] # None}
PaidUp(r, p)  ==
    /\ p.selected /\ p.auto /\ p.rule # "NEVER_REMOVE"
    /\ p.rule \in RatioRules => p.ratio # None
    /\ p.rule \in TimeRules => p.time # None
    /\ r.time # None /\ r.time >= p.grace
    /\ IF p.rule = "RATIO_OR_TIME" THEN \E o \in Owed(r, p) : o[1] >= o[2]
                                   ELSE \A o \in Owed(r, p) : o[1] >= o[2]
LetsGo(r)     == ~r.left /\ r.trackers # {} /\ \A d \in r.trackers : PaidUp(r, policy[d])
Removable(m, tor) ==
    /\ state[m] = "ACTIVE" /\ standing[m] = "REVIEW_ELIGIBLE"
    /\ \A t \in Torrents : (<<t, m>> \in mapping /\ tor[t].present) =>
          LetsGo(tor[t]) /\ \A n \in Movies : <<t, n>> \in mapping => n = m

\* A proposal becomes ELIGIBLE only when every torrent mapped to the movie is
\* its own, complete, and owes none of its trackers anything under a selected
\* policy that allows automatic deletion.
EligibleIsMet ==
    [][\A m \in Movies : proposal'[m][1] = "ELIGIBLE"
            => proposal'[m] = proposal[m] \/ Removable(m, torrent')]_vars

\* The preview is what the evidence asks for: a proposal for all that is
\* downloaded and nothing else, eligible exactly if removable, protected and
\* retained exactly as the lifecycle's rows say.
Matches ==
    \A m \in Movies :
        /\ proposal[m] = NoProposal <=> state[m] # "ACTIVE"
        /\ proposal[m][1] = "ELIGIBLE" <=> Removable(m, torrent)
        /\ state[m] = "ACTIVE" =>
              /\ proposal[m][1] = "PROTECTED" <=> standing[m] \in {"NOT_MANAGED", "PROTECTED"}
              /\ proposal[m][1] = "RETAINED" <=> standing[m] = "KEEP_RETAINED"

\* As long as the page says that the preview matches, and no deletion has come
\* after the evaluation, it does, in whatever order administrators and
\* synchronizations changed what the evaluation reads.
PreviewMatches == ~outdated /\ ~silent => Matches

\* The page says that the preview matches only when it does ("Preview matches
\* the current stored evidence and settings", deletion_queue.html; violated
\* after a deletion, which is no event that outdates it).
PreviewIsCurrent == ~outdated => Matches

\* Under any policy that can be saved, a torrent that has seeded longer and
\* further still satisfies its tracker.
SeedingHelps ==
    \A d \in Domains, t \in Torrents, r \in Rows, automatic \in BOOLEAN :
        /\ TrackerResult(torrent[t], policy[d], automatic) = "MET"
        /\ r.ratio >= torrent[t].ratio /\ r.time >= torrent[t].time
        => TrackerResult(r, policy[d], automatic) = "MET"

\* What the dry run proposes, manual management does not refuse: its own
\* reading of the same rows finds the trackers satisfied.
GatesAgree ==
    \A m \in Movies : state[m] = "ACTIVE" /\ (\E v \in Verdicts(m, torrent) : v[1] = "ELIGIBLE")
                          => Assessed(m, torrent)
=============================================================================
