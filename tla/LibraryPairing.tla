--------------------------- MODULE LibraryPairing ---------------------------
(***************************************************************************)
(* Which Plex library belongs to which Arr instance: chosen by hand        *)
(* (set_plex_library_mapping), or found by a synchronization of Plex from  *)
(* the file names both know (_auto_map_arr_libraries and sync_plex in      *)
(* services/inventory.py).  The deletion workflow looks for a movie in the *)
(* paired library, and only there.                                         *)
(*                                                                         *)
(* Instances and libraries of one media type, and one Plex server; those   *)
(* of the other type are paired apart.  An instance has one lifecycle.     *)
(*                                                                         *)
(* A form loads its rows, may have to wait for a synchronization that is   *)
(* writing, and then writes the columns it changed.                        *)
(***************************************************************************)
EXTENDS Naturals

CONSTANTS
    Arrs,       \* Arr instances
    Libraries,  \* Plex libraries
    MaxScore,   \* the largest number of file names in common
    Overlap,    \* the libraries whose scope may change while Plex is asked about them
    Waiting     \* the instances whose forms may wait for a synchronization

ASSUME MaxScoreIsNat == MaxScore \in Nat \ {0}
ASSUME OverlapIsLibraries == Overlap \subseteq Libraries
ASSUME WaitingIsArrs == Waiting \subseteq Arrs

VARIABLES
    on,        \* integration_instance.enabled of the Arr instances
    selected,  \* managed_library.enabled
    pair,      \* integration_library_mapping
    library,   \* media_lifecycle.library_id of an instance's lifecycle
    key,       \* the library its plex_rating_key is of
    fetched,   \* the libraries a synchronization has fetched, and not written
    form,      \* the form that has loaded its rows, and not written
    score      \* ghost: the file names in common a step found

vars == <<on, selected, pair, library, key, fetched, form, score>>

NoLibrary == "NONE"
Gone      == "GONE"  \* a library of a Plex server that was removed
NoPair    == [library |-> NoLibrary, source |-> "NONE"]
NoForm    == [op |-> "NONE"]
Idle      == {NoLibrary}  \* no synchronization is under way
\* Libraries have identifiers of their own.
ASSUME NamesAreNoLibraries ==
    NoLibrary \notin Libraries /\ Gone \notin Libraries /\ NoLibrary # Gone

Pairs     == {NoPair} \cup [library : Libraries, source : {"AUTO", "MANUAL"}]
Scores    == [Arrs -> [Libraries -> 0..MaxScore]]
NoScores  == [i \in Arrs |-> [l \in Libraries |-> 0]]

Init ==
    /\ on \in [Arrs -> BOOLEAN]
    /\ selected = [l \in Libraries |-> FALSE]
    /\ pair = [i \in Arrs |-> NoPair]
    /\ library = [i \in Arrs |-> NoLibrary]
    /\ key = [i \in Arrs |-> NoLibrary]
    /\ fetched = Idle /\ form = NoForm
    /\ score = NoScores

-----------------------------------------------------------------------------
(***************************************************************************)
(* The forms.                                                              *)
(***************************************************************************)
Quiet(l) == fetched = Idle \/ l \in Overlap

PairedWith(l) == {i \in Arrs : pair[i].library = l}

\* A form loads the rows of some instances.  No other form is under way.
Row(i) == [pair |-> pair[i], library |-> library[i], key |-> key[i]]
Load(op, l, is) ==
    /\ form = NoForm
    /\ form' = [op |-> op, lib |-> l, old |-> [i \in is |-> Row(i)]]
    /\ score' = NoScores
    /\ UNCHANGED <<on, selected, pair, library, key, fetched>>

\* library_enabled: a library taken out of scope is to lose its instance.
LoadToggle(l) == Quiet(l) /\ Load("TOGGLE", l, IF selected[l] THEN PairedWith(l) ELSE {})

\* set_plex_library_mapping with a library that nobody else has, or with none.
LoadPair(i, l) == selected[l] /\ PairedWith(l) \subseteq {i} /\ Load("PAIR", l, {i})
LoadDetect(i)  == Load("DETECT", NoLibrary, {i})

\* The mappings of instances go, whatever they say by now; their lifecycles are
\* to belong to no library any more, but a column that was empty when it was
\* loaded is not written.
Unpair(is) == pair' = [i \in Arrs |-> IF i \in is THEN NoPair ELSE pair[i]]
Emptied(loaded, stored) == IF loaded = NoLibrary THEN stored ELSE NoLibrary
Unplace(is) ==
    /\ library' = [i \in Arrs |-> IF i \in is THEN Emptied(form.old[i].library, library[i])
                                  ELSE library[i]]
    /\ key' = [i \in Arrs |-> IF i \in is THEN Emptied(form.old[i].key, key[i])
                              ELSE key[i]]

\* The mutant forgets the mapping.
MutToggleKeeps ==
    /\ form.op = "TOGGLE" /\ Quiet(form.lib)
    /\ selected' = [selected EXCEPT ![form.lib] = ~@]
    /\ form' = NoForm
    /\ score' = NoScores
    /\ UNCHANGED <<on, pair, library, key, fetched>>
ToggleLibrary ==
    /\ form.op = "TOGGLE" /\ Quiet(form.lib)
    /\ selected' = [selected EXCEPT ![form.lib] = ~@]
    /\ Unpair(DOMAIN form.old) /\ Unplace(DOMAIN form.old)
    /\ form' = NoForm
    /\ score' = NoScores
    /\ UNCHANGED <<on, fetched>>

\* A library that was the instance's already is not written; a row that has come
\* or gone meanwhile, or a library that is another's by now, fails the form.  A
\* lifecycle that was in another library leaves it.
PairByHand ==
    /\ form.op = "PAIR"
    /\ \E i \in DOMAIN form.old :
          LET old == form.old[i].pair
              new == IF old.library = form.lib THEN pair[i].library ELSE form.lib
          IN  /\ old = NoPair <=> pair[i] = NoPair
              /\ PairedWith(new) \subseteq {i}
              /\ pair' = [pair EXCEPT ![i] = [library |-> new, source |-> "MANUAL"]]
    /\ Unplace({i \in DOMAIN form.old : form.old[i].library \notin {form.lib, NoLibrary}})
    /\ form' = NoForm
    /\ score' = NoScores
    /\ UNCHANGED <<on, selected, fetched>>
DetectAutomatically ==
    /\ form.op = "DETECT"
    /\ Unpair({i \in DOMAIN form.old : form.old[i].pair # NoPair})
    /\ Unplace(DOMAIN form.old)
    /\ form' = NoForm
    /\ score' = NoScores
    /\ UNCHANGED <<on, selected, fetched>>

\* The write lock is not to be had, or what was loaded is no longer so.
FormFails ==
    /\ form # NoForm /\ form' = NoForm
    /\ score' = NoScores
    /\ UNCHANGED <<on, selected, pair, library, key, fetched>>

ToggleArr(i) ==
    /\ form = NoForm
    /\ on' = [on EXCEPT ![i] = ~@]
    /\ score' = NoScores
    /\ UNCHANGED <<selected, pair, library, key, fetched, form>>

\* remove_integration_local_data writes before it reads: an Arr instance goes
\* with its lifecycles, and comes back as a new one, disabled.  Plex goes with its
\* libraries; a lifecycle keeps the key it had there.  The mutant keeps its
\* library.  A synchronization of Plex under way can only fail: what it refers to
\* is gone.
RemoveArr(i) ==
    /\ form = NoForm
    /\ on' = [on EXCEPT ![i] = FALSE]
    /\ pair' = [pair EXCEPT ![i] = NoPair]
    /\ library' = [library EXCEPT ![i] = NoLibrary]
    /\ key' = [key EXCEPT ![i] = NoLibrary]
    /\ score' = NoScores
    /\ UNCHANGED <<selected, fetched, form>>

MutRemovePlex ==
    /\ form = NoForm
    /\ fetched' = IF fetched = Idle THEN Idle ELSE {Gone}
    /\ selected' = [l \in Libraries |-> FALSE]
    /\ Unpair(Arrs)
    /\ score' = NoScores
    /\ UNCHANGED <<on, library, key, form>>
RemovePlex ==
    /\ form = NoForm
    /\ fetched' = IF fetched = Idle THEN Idle ELSE {Gone}
    /\ selected' = [l \in Libraries |-> FALSE]
    /\ Unpair(Arrs)
    /\ library' = [i \in Arrs |-> NoLibrary]
    /\ key' = [i \in Arrs |-> IF key[i] = NoLibrary THEN NoLibrary ELSE Gone]
    /\ score' = NoScores
    /\ UNCHANGED <<on, form>>

-----------------------------------------------------------------------------
(***************************************************************************)
(* A synchronization of Plex: fetch_plex_inventory asks Plex about every   *)
(* selected library, then sync_plex pairs and places.                      *)
(***************************************************************************)
Fetch ==
    /\ fetched = Idle
    /\ fetched' = {l \in Libraries : selected[l]}
    /\ score' = NoScores
    /\ UNCHANGED <<on, selected, pair, library, key, form>>

\* The mutant lets a synchronization treat a choice by hand as its own.
MutByHand(i) == FALSE
ByHand(i)    == pair[i].source = "MANUAL"

\* The first mutant forgets that libraries may be reserved, the second leaves
\* those out that anyone has.
MutCandidates == fetched
MutUnpaired   == {l \in fetched : PairedWith(l) = {}}
Candidates    == {l \in fetched : \A i \in PairedWith(l) : ~ByHand(i)}

\* An instance proposes its only best library; a library accepts its only best
\* proposal.
Proposes(i, l, sc) ==
    /\ on[i] /\ ~ByHand(i) /\ l \in Candidates
    /\ sc[i][l] > 0 /\ \A k \in Candidates \ {l} : sc[i][l] > sc[i][k]
Accepts(l, i, sc) ==
    /\ Proposes(i, l, sc)
    /\ \A j \in Arrs \ {i} : Proposes(j, l, sc) => sc[i][l] > sc[j][l]

\* A pairing found before stays until its library or its instance gets another,
\* or its instance is disabled and its library still there.  The mutant drops it
\* when there is no new evidence.
MutLapses(i, sc) == TRUE
Lapses(i, sc) ==
    \/ ~on[i] /\ pair[i].library \in fetched
    \/ on[i] /\ \E j \in Arrs : pair[i] # NoPair /\ Accepts(pair[i].library, j, sc)

AutoMapped(sc) ==
    [i \in Arrs |->
        IF ByHand(i) THEN pair[i]
        ELSE IF \E l \in Libraries : Accepts(l, i, sc)
             THEN [library |-> CHOOSE l \in Libraries : Accepts(l, i, sc), source |-> "AUTO"]
        ELSE IF Lapses(i, sc) THEN NoPair ELSE pair[i]]

\* A synchronization comes between the load of a form and its writes only where
\* Waiting and Overlap say so.
MayCome ==
    form # NoForm => /\ DOMAIN form.old \subseteq Waiting
                     /\ form.op = "TOGGLE" => form.lib \in Overlap

\* sync_plex: every lifecycle is placed in the library of its instance; a key is
\* found only in a library that was fetched.
Place(sc) ==
    /\ fetched \subseteq Libraries /\ MayCome
    /\ score' = sc
    /\ pair' = AutoMapped(sc)
    /\ library' = [i \in Arrs |-> pair'[i].library]
    /\ \E found \in SUBSET Arrs :
          key' = [i \in Arrs |-> IF i \in found /\ pair'[i].library \in fetched
                                 THEN pair'[i].library ELSE NoLibrary]
    /\ fetched' = Idle
    /\ UNCHANGED <<on, selected, form>>

\* The synchronization fails.
Fail ==
    /\ fetched # Idle /\ fetched' = Idle
    /\ score' = NoScores
    /\ UNCHANGED <<on, selected, pair, library, key, form>>

Forms == \/ \E l \in Libraries : LoadToggle(l) \/ \E i \in Arrs : LoadPair(i, l)
         \/ \E i \in Arrs : LoadDetect(i) \/ ToggleArr(i) \/ RemoveArr(i)
         \/ ToggleLibrary \/ PairByHand \/ DetectAutomatically \/ FormFails
         \/ RemovePlex
Next  == Forms \/ Fetch \/ Fail \/ \E sc \in Scores : Place(sc)
Spec  == Init /\ [][Next]_vars

-----------------------------------------------------------------------------
(***************************************************************************)
(* Properties.                                                             *)
(***************************************************************************)
\* A synchronization comes to its end.
Written == fetched # Idle /\ fetched' = Idle

Names   == Libraries \cup {NoLibrary, Gone}
RowType == [pair : Pairs, library : Libraries \cup {NoLibrary}, key : Names]

TypeOK ==
    /\ on \in [Arrs -> BOOLEAN] /\ selected \in [Libraries -> BOOLEAN]
    /\ pair \in [Arrs -> Pairs]
    /\ library \in [Arrs -> Libraries \cup {NoLibrary}]
    /\ key \in [Arrs -> Names]
    /\ fetched \in {Idle, {Gone}} \cup SUBSET Libraries
    /\ form \in {NoForm} \cup [op : {"TOGGLE", "PAIR", "DETECT"},
                               lib : Libraries \cup {NoLibrary},
                               old : UNION {[is -> RowType] : is \in SUBSET Arrs}]
    /\ score \in Scores

\* A library belongs to one instance: whatever was paired by hand, found or
\* disabled before, a synchronization never breaks the table's constraint.
OneOwner == \A i, j \in Arrs : pair[i].library = pair[j].library => i = j \/ pair[i] = NoPair

\* A lifecycle is in the library its instance is paired with, or in none.  The
\* item a deletion looks for in Plex is of that library: once a lifecycle is in a
\* library again, no key of a library or a server it left is remembered.  This
\* holds of the instances whose forms do not wait for a synchronization.
Follows(i) == /\ library[i] \in {NoLibrary, pair[i].library}
              /\ library[i] # NoLibrary => key[i] \in {NoLibrary, library[i]}
LifecyclesFollow == \A i \in Arrs \ Waiting : Follows(i)

\* It is said of all of them: who returns to automatic detection "clears stale
\* lifecycle-to-Plex associations" (DESIGN.md 243), also where a synchronization
\* has placed the lifecycle while the form waited (violated).
AllLifecyclesFollow == \A i \in Arrs : Follows(i)

\* A choice by hand "claims that library" (DESIGN.md 241) for its instance, also
\* where a synchronization has found it another one while the form waited
\* (violated).
ChoiceIsStored ==
    [][PairByHand => \A i \in DOMAIN form.old : pair'[i].library = form.lib]_vars

\* A library that stays in scope while Plex is asked about it is paired only as
\* long as it is in scope, whatever is done with the others meanwhile.
PairedIsSelected ==
    \A i \in Arrs : pair[i] # NoPair => selected[pair[i].library] \/ pair[i].library \in Overlap

\* What is paired is in scope (violated when a library is taken out of scope
\* while Plex is asked about it).
AllPairedIsSelected == \A i \in Arrs : pair[i] # NoPair => selected[pair[i].library]

\* A choice made by hand stands until the administrator changes it: no
\* synchronization does.
ManualStands ==
    [][\A i \in Arrs : Written /\ pair[i].source = "MANUAL" => pair'[i] = pair[i]]_vars

\* A pairing that was found, of an instance that is enabled, is lost to a
\* synchronization only if there is evidence: the instance, or the one that gets
\* its library, has more files in common with the library it gets than with any
\* other that is free.  It need not have more of them there than who loses it.
AutoYieldsToEvidence ==
    [][\A i \in Arrs :
          Written /\ on[i] /\ pair[i].source = "AUTO" /\ pair'[i] # pair[i]
            => \E j \in Arrs :
                  /\ j = i \/ pair'[j].library = pair[i].library
                  /\ pair'[j].source = "AUTO" /\ score'[j][pair'[j].library] > 0
                  /\ \A l \in fetched \ {pair'[j].library} :
                        (\A k \in PairedWith(l) : pair[k].source # "MANUAL")
                            => score'[j][l] < score'[j][pair'[j].library]]_vars

\* Nobody else has evidence for l that could stand against i's: i, which nobody
\* paired by hand, has more files in common with l than with any other library,
\* and more than any other instance has, of those not paired by hand.
ClearWinner(i, l, sc) ==
    /\ on[i] /\ pair[i].source # "MANUAL" /\ sc[i][l] > 0
    /\ l \in fetched /\ \A j \in PairedWith(l) : pair[j].source # "MANUAL"
    /\ \A k \in fetched \ {l} : sc[i][k] < sc[i][l]
    /\ \A j \in Arrs \ {i} : on[j] /\ pair[j].source # "MANUAL" => sc[j][l] < sc[i][l]

\* In whatever rounds ties are broken, and whoever had the library or another one
\* before, a synchronization that succeeds gives a clear winner its library.
ClearWinnerIsPaired ==
    [][\A i \in Arrs, l \in Libraries :
          ClearWinner(i, l, score') /\ Place(score') => pair'[i].library = l]_vars

\* A library is given to the instance that has most files in common with it
\* (violated when another one has as many, in two libraries).
WinnerIsUnambiguous ==
    [][\A i, j \in Arrs : /\ pair'[i] # pair[i] /\ pair'[i].source = "AUTO"
                          /\ i # j /\ on[j] /\ pair[j].source # "MANUAL"
            => score'[i][pair'[i].library] > score'[j][pair'[i].library]]_vars
=============================================================================
