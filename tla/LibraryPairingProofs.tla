------------------------ MODULE LibraryPairingProofs ------------------------
(***************************************************************************)
(* Theorems about LibraryPairing, for any instances, libraries and scores. *)
(*                                                                         *)
(* The argument: an instance proposes at most one library and a library    *)
(* accepts at most one proposal, so a synchronization never gives a        *)
(* library to two instances; and whoever has the library it gives away     *)
(* loses it in the same commit, unless it was chosen by hand, and then it  *)
(* is no candidate.  What a synchronization pairs it has fetched, and what *)
(* is fetched stays in scope, or is a library that may leave it meanwhile. *)
(***************************************************************************)
EXTENDS LibraryPairing, TLAPS

\* What Plex is asked about is in scope, unless it may leave it meanwhile.
FetchedInScope == \A l \in fetched \cap Libraries : selected[l] \/ l \in Overlap

\* What a form has loaded is still so, but for instances whose forms wait; it pairs
\* with a library in scope, and takes one out of scope with all who have it.
FormFits ==
    form # NoForm =>
        /\ \A i \in DOMAIN form.old \ Waiting : form.old[i] = Row(i)
        /\ form.op # "DETECT" => form.lib \in Libraries
        /\ form.op = "PAIR" => selected[form.lib]
        /\ form.op = "TOGGLE" /\ selected[form.lib] /\ form.lib \notin Overlap
              => PairedWith(form.lib) \subseteq DOMAIN form.old

IInv == /\ TypeOK /\ OneOwner /\ LifecyclesFollow /\ PairedIsSelected
        /\ FetchedInScope /\ FormFits

-----------------------------------------------------------------------------
(***************************************************************************)
(* Proposals                                                               *)
(***************************************************************************)
LEMMA PairsTyped ==
    ASSUME NEW p \in Pairs
    PROVE  /\ p # NoPair => p.library \in Libraries /\ p.source \in {"AUTO", "MANUAL"}
           /\ p.library \in Libraries \cup {NoLibrary}
           /\ p.library = NoLibrary <=> p = NoPair
  BY NamesAreNoLibraries DEF Pairs, NoPair

\* An instance has one best library.
LEMMA OneProposal ==
    ASSUME NEW sc \in Scores, NEW i \in Arrs, fetched \subseteq Libraries,
           NEW l, NEW k, Proposes(i, l, sc), Proposes(i, k, sc)
    PROVE  l = k
  <1>1. l \in Libraries /\ k \in Libraries /\ l \in Candidates /\ k \in Candidates
    BY DEF Proposes, Candidates
  <1>2. sc[i][l] \in Nat /\ sc[i][k] \in Nat
    BY <1>1, MaxScoreIsNat DEF Scores
  <1>3. l # k => sc[i][l] > sc[i][k] /\ sc[i][k] > sc[i][l]
    BY <1>1 DEF Proposes
  <1> QED BY <1>2, <1>3

\* A library accepts one proposal.
LEMMA OneAccepted ==
    ASSUME NEW sc \in Scores, NEW i \in Arrs, NEW j \in Arrs, fetched \subseteq Libraries,
           NEW l, Accepts(l, i, sc), Accepts(l, j, sc)
    PROVE  i = j
  <1>1. l \in Libraries /\ Proposes(i, l, sc) /\ Proposes(j, l, sc)
    BY DEF Accepts, Proposes, Candidates
  <1>2. sc[i][l] \in Nat /\ sc[j][l] \in Nat
    BY <1>1, MaxScoreIsNat DEF Scores
  <1>3. i # j => sc[i][l] > sc[j][l] /\ sc[j][l] > sc[i][l]
    BY <1>1 DEF Accepts
  <1> QED BY <1>2, <1>3

\* An instance whose proposal is accepted gets that library.
LEMMA Given ==
    ASSUME NEW sc \in Scores, fetched \subseteq Libraries, NEW i \in Arrs,
           NEW l, Accepts(l, i, sc)
    PROVE  /\ ~ByHand(i) /\ l \in Libraries /\ l \in fetched
           /\ AutoMapped(sc)[i] \in Pairs
           /\ AutoMapped(sc)[i].library = l /\ AutoMapped(sc)[i].source = "AUTO"
  <1>1. ~ByHand(i) /\ l \in Libraries /\ l \in fetched
    BY DEF Accepts, Proposes, Candidates
  <1>2. \A k \in Libraries : Accepts(k, i, sc) => k = l
    BY OneProposal DEF Accepts
  <1>3. (CHOOSE k \in Libraries : Accepts(k, i, sc)) = l
    BY <1>1, <1>2
  <1>4. AutoMapped(sc)[i] = [library |-> l, source |-> "AUTO"]
    BY <1>1, <1>3 DEF AutoMapped
  <1> QED BY <1>1, <1>4 DEF Pairs

\* Any other keeps what it has, or loses it.
LEMMA Mapped ==
    ASSUME NEW sc \in Scores, fetched \subseteq Libraries, NEW i \in Arrs
    PROVE  /\ ByHand(i) => AutoMapped(sc)[i] = pair[i]
           /\ \/ AutoMapped(sc)[i] = pair[i] /\ (ByHand(i) \/ ~Lapses(i, sc))
              \/ \E l \in Libraries : Accepts(l, i, sc)
              \/ AutoMapped(sc)[i] = NoPair /\ ~ByHand(i) /\ Lapses(i, sc)
  <1>1. ByHand(i) => AutoMapped(sc)[i] = pair[i]
    BY DEF AutoMapped
  <1>2. ~ByHand(i) /\ ~(\E l \in Libraries : Accepts(l, i, sc))
          => AutoMapped(sc)[i] = IF Lapses(i, sc) THEN NoPair ELSE pair[i]
    BY DEF AutoMapped
  <1> QED BY <1>1, <1>2

\* A library that is given away was nobody's, or its owner loses it.
LEMMA GivenAway ==
    ASSUME TypeOK, NEW sc \in Scores, fetched \subseteq Libraries,
           NEW i \in Arrs, NEW j \in Arrs, NEW l, Accepts(l, i, sc),
           pair[j].library = l, AutoMapped(sc)[j] = pair[j]
    PROVE  i = j
  <1>1. l \in fetched /\ l \in Libraries
    BY Given
  <1>2. pair[j] # NoPair
    BY <1>1, NamesAreNoLibraries DEF NoPair
  <1>3. ~ByHand(j)
    BY DEF Accepts, Proposes, Candidates, PairedWith
  <1>4. Lapses(j, sc)
    BY <1>1, <1>2 DEF Lapses, TypeOK
  <1>5. PICK k \in Libraries : Accepts(k, j, sc)
    BY <1>2, <1>3, <1>4, Mapped
  <1>6. AutoMapped(sc)[j].library = k
    BY <1>5, Given
  <1> QED BY <1>5, <1>6, OneAccepted

-----------------------------------------------------------------------------
(***************************************************************************)
(* A synchronization                                                       *)
(***************************************************************************)
LEMMA AutoMappedTyped ==
    ASSUME TypeOK, NEW sc \in Scores, fetched \subseteq Libraries
    PROVE  AutoMapped(sc) \in [Arrs -> Pairs]
  <1>1. ASSUME NEW i \in Arrs PROVE AutoMapped(sc)[i] \in Pairs
    <2>1. CASE AutoMapped(sc)[i] = pair[i] \/ AutoMapped(sc)[i] = NoPair
      BY <2>1 DEF TypeOK, Pairs
    <2>2. ASSUME NEW l \in Libraries, Accepts(l, i, sc) PROVE AutoMapped(sc)[i] \in Pairs
      BY <2>2, Given
    <2> QED BY <2>1, <2>2, Mapped
  <1>2. AutoMapped(sc) = [i \in Arrs |-> AutoMapped(sc)[i]]
    BY DEF AutoMapped
  <1> QED BY <1>1, <1>2

\* It keeps the table's constraint.
LEMMA MappedOneOwner ==
    ASSUME TypeOK, OneOwner, NEW sc \in Scores, fetched \subseteq Libraries,
           pair' = AutoMapped(sc)
    PROVE  OneOwner'
  <1> SUFFICES ASSUME NEW i \in Arrs, NEW j \in Arrs, pair'[i].library = pair'[j].library,
                      pair'[i] # NoPair, i # j
               PROVE  FALSE
    BY DEF OneOwner
  <1>1. pair'[i] \in Pairs /\ pair'[j] \in Pairs
    BY AutoMappedTyped
  <1>2. pair'[j] # NoPair
    BY <1>1, PairsTyped
  <1>3. CASE pair'[i] = pair[i] /\ pair'[j] = pair[j]
    BY <1>3 DEF OneOwner
  <1>4. ASSUME NEW l \in Libraries, Accepts(l, i, sc) PROVE FALSE
    <2>1. pair'[i].library = l
      BY <1>4, Given
    <2>2. ASSUME NEW k \in Libraries, Accepts(k, j, sc) PROVE FALSE
      <3>1. pair'[j].library = k
        BY <2>2, Given
      <3> QED BY <1>4, <2>1, <2>2, <3>1, OneAccepted
    <2>3. CASE pair'[j] = pair[j]
      BY <1>4, <2>1, <2>3, GivenAway
    <2> QED BY <1>2, <2>2, <2>3, Mapped
  <1>5. ASSUME NEW k \in Libraries, Accepts(k, j, sc) PROVE FALSE
    <2>1. pair'[j].library = k
      BY <1>5, Given
    <2>2. CASE pair'[i] = pair[i]
      BY <1>5, <2>1, <2>2, GivenAway
    <2> QED BY <1>4, <2>2, Mapped
  <1> QED BY <1>2, <1>3, <1>4, <1>5, Mapped

\* What it pairs is in scope, or may have left it meanwhile.
LEMMA MappedInScope ==
    ASSUME TypeOK, PairedIsSelected, FetchedInScope, NEW sc \in Scores,
           fetched \subseteq Libraries, pair' = AutoMapped(sc), selected' = selected
    PROVE  PairedIsSelected'
  <1> SUFFICES ASSUME NEW i \in Arrs, pair'[i] # NoPair
               PROVE  selected[pair'[i].library] \/ pair'[i].library \in Overlap
    BY DEF PairedIsSelected
  <1>1. CASE pair'[i] = pair[i]
    BY <1>1 DEF PairedIsSelected
  <1>2. ASSUME NEW l \in Libraries, Accepts(l, i, sc)
        PROVE  selected[pair'[i].library] \/ pair'[i].library \in Overlap
    BY <1>2, Given DEF FetchedInScope
  <1> QED BY <1>1, <1>2, Mapped

\* Every lifecycle is placed where its instance is paired.
LEMMA PlaceInvariant ==
    ASSUME IInv, NEW sc \in Scores, Place(sc)
    PROVE  IInv'
  <1>1. /\ fetched \subseteq Libraries /\ fetched' = Idle /\ selected' = selected /\ on' = on
        /\ pair' = AutoMapped(sc) /\ score' = sc /\ form' = form /\ MayCome
        /\ library' = [i \in Arrs |-> pair'[i].library]
        /\ key' \in [Arrs -> Libraries \cup {NoLibrary}]
        /\ \A i \in Arrs : key'[i] \in {NoLibrary, pair'[i].library}
    BY DEF Place
  <1>2. pair' \in [Arrs -> Pairs]
    BY <1>1, AutoMappedTyped DEF IInv
  <1>3. library' \in [Arrs -> Libraries \cup {NoLibrary}]
    BY <1>1, <1>2, PairsTyped
  <1>4. TypeOK'
    BY <1>1, <1>2, <1>3 DEF IInv, TypeOK, Names
  <1>5. OneOwner'
    BY <1>1, MappedOneOwner DEF IInv
  <1>6. PairedIsSelected'
    BY <1>1, MappedInScope DEF IInv
  <1>7. LifecyclesFollow'
    BY <1>1 DEF LifecyclesFollow, Follows
  <1>8. FetchedInScope'
    BY <1>1, NamesAreNoLibraries DEF FetchedInScope, Idle
  <1>9. FormFits'
    BY <1>1 DEF IInv, FormFits, MayCome
  <1> QED BY <1>4, <1>5, <1>6, <1>7, <1>8, <1>9 DEF IInv

-----------------------------------------------------------------------------
(***************************************************************************)
(* The forms                                                               *)
(***************************************************************************)
LEMMA FormTyped ==
    ASSUME TypeOK, form # NoForm
    PROVE  /\ form.op \in {"TOGGLE", "PAIR", "DETECT"}
           /\ form.lib \in Libraries \cup {NoLibrary}
           /\ DOMAIN form.old \subseteq Arrs
           /\ \A i \in DOMAIN form.old : form.old[i] \in RowType
  BY DEF TypeOK

\* A form loads rows as they are.
LEMMA LoadInvariant ==
    ASSUME IInv, NEW op \in {"TOGGLE", "PAIR", "DETECT"},
           NEW l \in Libraries \cup {NoLibrary}, NEW is \in SUBSET Arrs, Load(op, l, is),
           op # "DETECT" => l \in Libraries,
           op = "PAIR" => selected[l],
           op = "TOGGLE" /\ selected[l] => PairedWith(l) \subseteq is
    PROVE  IInv'
  <1>1. PICK rows : rows = [i \in is |-> Row(i)]
    OBVIOUS
  <1>2. /\ form' = [op |-> op, lib |-> l, old |-> rows] /\ score' = NoScores
        /\ UNCHANGED <<on, selected, pair, library, key, fetched>>
    BY <1>1 DEF Load
  <1>3. \A i \in is : Row(i) \in RowType
    BY DEF Row, RowType, IInv, TypeOK
  <1>4. rows \in [is -> RowType]
    BY <1>1, <1>3
  <1>5. rows \in UNION {[js -> RowType] : js \in SUBSET Arrs}
    BY <1>4
  <1>6. NoScores \in Scores
    BY MaxScoreIsNat DEF NoScores, Scores
  <1>7. TypeOK'
    BY <1>2, <1>5, <1>6 DEF IInv, TypeOK
  <1>8. FormFits'
    <2>1. form'.op = op /\ form'.lib = l /\ DOMAIN form'.old = is
      BY <1>1, <1>2
    <2>2. \A i \in is : form'.old[i] = Row(i)'
      BY <1>1, <1>2 DEF Row
    <2>3. PairedWith(l)' = PairedWith(l)
      BY <1>2 DEF PairedWith
    <2> QED BY <1>2, <2>1, <2>2, <2>3 DEF FormFits
  <1> QED BY <1>2, <1>7, <1>8 DEF IInv, OneOwner, LifecyclesFollow, Follows,
          PairedIsSelected, FetchedInScope

\* Instances may go from the table; what is left is as it was.
LEMMA UnpairInvariant ==
    ASSUME TypeOK, OneOwner, NEW lost, Unpair(lost)
    PROVE  /\ pair' \in [Arrs -> Pairs] /\ OneOwner'
           /\ \A i \in Arrs : pair'[i] # NoPair => i \notin lost
           /\ \A i \in Arrs : pair'[i] = IF i \in lost THEN NoPair ELSE pair[i]
  <1>1. \A i \in Arrs : pair'[i] = IF i \in lost THEN NoPair ELSE pair[i]
    BY DEF Unpair
  <1>2. pair' \in [Arrs -> Pairs]
    BY DEF Unpair, TypeOK, Pairs
  <1>3. ASSUME NEW i \in Arrs, NEW j \in Arrs, pair'[i].library = pair'[j].library,
               pair'[i] # NoPair
        PROVE  i = j
    <2>1. i \notin lost /\ pair'[i] = pair[i]
      BY <1>1, <1>3
    <2>2. pair[i].library # NoLibrary
      BY <1>3, <2>1, PairsTyped DEF TypeOK
    <2>3. j \notin lost /\ pair'[j] = pair[j]
      BY <1>1, <1>3, <2>1, <2>2 DEF NoPair
    <2> QED BY <1>3, <2>1, <2>3 DEF OneOwner
  <1> QED BY <1>1, <1>2, <1>3 DEF OneOwner

\* A lifecycle whose rows are still as loaded leaves its library.
LEMMA UnplaceLeaves ==
    ASSUME IInv, form # NoForm, NEW is \in SUBSET DOMAIN form.old, Unplace(is)
    PROVE  /\ library' \in [Arrs -> Libraries \cup {NoLibrary}] /\ key' \in [Arrs -> Names]
           /\ \A i \in is \ Waiting : library'[i] = NoLibrary
           /\ \A i \in Arrs \ is : library'[i] = library[i] /\ key'[i] = key[i]
  <1>1. is \subseteq Arrs
    BY FormTyped DEF IInv
  <1>2. library' \in [Arrs -> Libraries \cup {NoLibrary}] /\ key' \in [Arrs -> Names]
    BY DEF Unplace, Emptied, IInv, TypeOK, Names
  <1>3. ASSUME NEW i \in is \ Waiting PROVE library'[i] = NoLibrary
    <2>1. form.old[i] = Row(i)
      BY DEF IInv, FormFits
    <2>2. form.old[i].library = library[i]
      BY <2>1 DEF Row
    <2> QED BY <1>1, <2>2 DEF Unplace, Emptied
  <1> QED BY <1>2, <1>3 DEF Unplace

LEMMA ToggleInvariant ==
    ASSUME IInv, ToggleLibrary
    PROVE  IInv'
  <1>1. PICK is : is = DOMAIN form.old
    OBVIOUS
  <1>2. PICK l : l = form.lib
    OBVIOUS
  <1>3. form # NoForm /\ form.op = "TOGGLE" /\ l \in Libraries /\ Quiet(l)
    BY <1>2 DEF ToggleLibrary, NoForm, IInv, FormFits
  <1>4. /\ selected' = [selected EXCEPT ![l] = ~@] /\ Unpair(is) /\ Unplace(is)
        /\ form' = NoForm /\ score' = NoScores /\ UNCHANGED <<on, fetched>>
    BY <1>1, <1>2 DEF ToggleLibrary
  <1>5. /\ pair' \in [Arrs -> Pairs] /\ OneOwner'
        /\ \A i \in Arrs : pair'[i] = IF i \in is THEN NoPair ELSE pair[i]
    BY <1>4, UnpairInvariant DEF IInv
  <1>6. /\ library' \in [Arrs -> Libraries \cup {NoLibrary}] /\ key' \in [Arrs -> Names]
        /\ \A i \in is \ Waiting : library'[i] = NoLibrary
        /\ \A i \in Arrs \ is : library'[i] = library[i] /\ key'[i] = key[i]
    BY <1>1, <1>3, <1>4, UnplaceLeaves
  <1>7. /\ selected' \in [Libraries -> BOOLEAN] /\ selected'[l] = ~selected[l]
        /\ \A k \in Libraries \ {l} : selected'[k] = selected[k]
    BY <1>3, <1>4 DEF IInv, TypeOK
  <1>8. TypeOK'
    <2>1. NoScores \in Scores
      BY MaxScoreIsNat DEF NoScores, Scores
    <2> QED BY <1>4, <1>5, <1>6, <1>7, <2>1 DEF IInv, TypeOK
  <1>9. LifecyclesFollow'
    BY <1>5, <1>6 DEF IInv, LifecyclesFollow, Follows
  <1>10. PairedIsSelected'
    <2> SUFFICES ASSUME NEW i \in Arrs, pair'[i] # NoPair
                 PROVE  selected'[pair'[i].library] \/ pair'[i].library \in Overlap
      BY DEF PairedIsSelected
    <2>1. i \notin is /\ pair'[i] = pair[i] /\ pair[i] # NoPair
      BY <1>5
    <2>2. pair[i].library \in Libraries
      BY <2>1, PairsTyped DEF IInv, TypeOK
    <2>3. CASE pair[i].library = l
      BY <1>1, <1>2, <1>3, <2>1, <2>3 DEF IInv, FormFits, PairedIsSelected, PairedWith
    <2>4. CASE pair[i].library # l
      BY <1>7, <2>1, <2>2, <2>4 DEF IInv, PairedIsSelected
    <2> QED BY <2>3, <2>4
  <1>11. FetchedInScope'
    BY <1>3, <1>4, <1>7, NamesAreNoLibraries DEF IInv, FetchedInScope, Quiet, Idle
  <1>12. FormFits'
    BY <1>4 DEF FormFits
  <1> QED BY <1>5, <1>8, <1>9, <1>10, <1>11, <1>12 DEF IInv

\* Only a library that nobody else has by now can be chosen.
LEMMA ByHandInvariant ==
    ASSUME IInv, PairByHand
    PROVE  IInv'
  <1>1. PICK is : is = {i \in DOMAIN form.old : form.old[i].library \notin {form.lib, NoLibrary}}
    OBVIOUS
  <1>2. /\ form # NoForm /\ form.op = "PAIR" /\ form.lib \in Libraries /\ selected[form.lib]
        /\ Unplace(is) /\ form' = NoForm /\ score' = NoScores
        /\ UNCHANGED <<on, selected, fetched>>
    BY <1>1 DEF PairByHand, NoForm, IInv, FormFits
  <1> DEFINE Chosen(j) == IF form.old[j].pair.library = form.lib THEN pair[j].library
                          ELSE form.lib
  <1>0. PICK i \in DOMAIN form.old :
           /\ form.old[i].pair = NoPair <=> pair[i] = NoPair
           /\ PairedWith(Chosen(i)) \subseteq {i}
           /\ pair' = [pair EXCEPT ![i] = [library |-> Chosen(i), source |-> "MANUAL"]]
    BY DEF PairByHand
  <1>a. PICK new : new = Chosen(i)
    OBVIOUS
  <1>3. /\ new = IF form.old[i].pair.library = form.lib THEN pair[i].library ELSE form.lib
        /\ form.old[i].pair = NoPair <=> pair[i] = NoPair
        /\ PairedWith(new) \subseteq {i}
        /\ pair' = [pair EXCEPT ![i] = [library |-> new, source |-> "MANUAL"]]
    BY <1>0, <1>a
  <1> HIDE DEF Chosen
  <1>4. i \in Arrs
    BY <1>2, <1>3, FormTyped DEF IInv
  <1>5. /\ new \in Libraries
        /\ new = form.lib \/ (pair[i] # NoPair /\ new = pair[i].library)
    <2>1. CASE form.old[i].pair.library = form.lib
      <3>1. form.old[i].pair # NoPair
        BY <1>2, <2>1, NamesAreNoLibraries DEF NoPair
      <3>2. pair[i] # NoPair
        BY <1>3, <3>1
      <3> QED BY <1>3, <1>4, <2>1, <3>2, PairsTyped DEF IInv, TypeOK
    <2>2. CASE form.old[i].pair.library # form.lib
      BY <1>2, <1>3, <2>2
    <2> QED BY <2>1, <2>2
  <1>6. PICK p : p = [library |-> new, source |-> "MANUAL"]
    OBVIOUS
  <1>7. p \in Pairs /\ p.library = new
    BY <1>5, <1>6 DEF Pairs
  <1>8. /\ pair' \in [Arrs -> Pairs] /\ pair'[i] = p
        /\ \A j \in Arrs \ {i} : pair'[j] = pair[j] /\ pair[j].library # new
    BY <1>3, <1>4, <1>6, <1>7 DEF IInv, TypeOK, PairedWith
  <1>9. /\ library' \in [Arrs -> Libraries \cup {NoLibrary}] /\ key' \in [Arrs -> Names]
        /\ \A j \in is \ Waiting : library'[j] = NoLibrary
        /\ \A j \in Arrs \ is : library'[j] = library[j] /\ key'[j] = key[j]
    BY <1>1, <1>2, UnplaceLeaves
  <1>10. TypeOK'
    <2>1. NoScores \in Scores
      BY MaxScoreIsNat DEF NoScores, Scores
    <2> QED BY <1>2, <1>8, <1>9, <2>1 DEF IInv, TypeOK
  <1>11. OneOwner'
    BY <1>7, <1>8 DEF IInv, OneOwner
  <1>12. LifecyclesFollow'
    <2> SUFFICES ASSUME NEW j \in Arrs \ Waiting PROVE Follows(j)'
      BY DEF LifecyclesFollow
    <2>1. CASE j \in is
      BY <1>9, <2>1 DEF Follows
    <2>2. CASE j \notin is /\ j # i
      BY <1>8, <1>9, <2>2 DEF IInv, LifecyclesFollow, Follows
    <2>3. CASE j \notin is /\ j = i
      <3>1. form.old[i] = Row(i)
        BY <1>2, <1>3, <2>3 DEF IInv, FormFits
      <3>2. form.old[i].pair = pair[i] /\ form.old[i].library = library[i]
        BY <3>1 DEF Row
      <3>3. library[i] \in {form.lib, NoLibrary}
        BY <1>1, <1>3, <2>3, <3>2
      <3>4. pair'[i].library = form.lib
        BY <1>3, <1>7, <1>8, <3>2
      <3> QED BY <1>9, <2>3, <3>3, <3>4 DEF IInv, LifecyclesFollow, Follows
    <2> QED BY <2>1, <2>2, <2>3
  <1>13. PairedIsSelected'
    <2> SUFFICES ASSUME NEW j \in Arrs, pair'[j] # NoPair
                 PROVE  selected[pair'[j].library] \/ pair'[j].library \in Overlap
      BY <1>2 DEF PairedIsSelected
    <2>1. CASE j = i
      BY <1>2, <1>5, <1>7, <1>8, <2>1 DEF IInv, PairedIsSelected
    <2>2. CASE j # i
      BY <1>8, <2>2 DEF IInv, PairedIsSelected
    <2> QED BY <2>1, <2>2
  <1>14. FetchedInScope' /\ FormFits'
    BY <1>2 DEF IInv, FetchedInScope, FormFits
  <1> QED BY <1>10, <1>11, <1>12, <1>13, <1>14 DEF IInv

LEMMA DetectInvariant ==
    ASSUME IInv, DetectAutomatically
    PROVE  IInv'
  <1>1. PICK is : is = DOMAIN form.old
    OBVIOUS
  <1>2. PICK lost : lost = {i \in is : form.old[i].pair # NoPair}
    OBVIOUS
  <1>3. /\ form # NoForm /\ Unpair(lost) /\ Unplace(is)
        /\ form' = NoForm /\ score' = NoScores /\ UNCHANGED <<on, selected, fetched>>
    BY <1>1, <1>2 DEF DetectAutomatically, NoForm
  <1>4. /\ pair' \in [Arrs -> Pairs] /\ OneOwner'
        /\ \A i \in Arrs : pair'[i] = IF i \in lost THEN NoPair ELSE pair[i]
    BY <1>3, UnpairInvariant DEF IInv
  <1>5. /\ library' \in [Arrs -> Libraries \cup {NoLibrary}] /\ key' \in [Arrs -> Names]
        /\ \A i \in is \ Waiting : library'[i] = NoLibrary
        /\ \A i \in Arrs \ is : library'[i] = library[i] /\ key'[i] = key[i]
    BY <1>1, <1>3, UnplaceLeaves
  <1>6. TypeOK'
    <2>1. NoScores \in Scores
      BY MaxScoreIsNat DEF NoScores, Scores
    <2> QED BY <1>3, <1>4, <1>5, <2>1 DEF IInv, TypeOK
  <1>7. LifecyclesFollow'
    BY <1>2, <1>4, <1>5 DEF IInv, LifecyclesFollow, Follows
  <1>8. PairedIsSelected' /\ FetchedInScope' /\ FormFits'
    BY <1>3, <1>4 DEF IInv, PairedIsSelected, FetchedInScope, FormFits
  <1> QED BY <1>4, <1>6, <1>7, <1>8 DEF IInv

\* The Plex server goes with its libraries, whoever had them.
LEMMA RemovalInvariant ==
    ASSUME IInv, (\E i \in Arrs : RemoveArr(i)) \/ RemovePlex
    PROVE  IInv'
  <1>1. NoScores \in Scores
    BY MaxScoreIsNat DEF NoScores, Scores
  <1>2. ASSUME NEW i \in Arrs, RemoveArr(i) PROVE IInv'
    <2>1. /\ form = NoForm /\ form' = NoForm /\ score' = NoScores
          /\ UNCHANGED <<selected, fetched>> /\ on' \in [Arrs -> BOOLEAN]
          /\ library' = [library EXCEPT ![i] = NoLibrary]
          /\ key' = [key EXCEPT ![i] = NoLibrary]
          /\ pair' = [pair EXCEPT ![i] = NoPair]
      BY <1>2 DEF RemoveArr, IInv, TypeOK
    <2>2. Unpair({i})
      BY <2>1 DEF Unpair, IInv, TypeOK
    <2>3. /\ pair' \in [Arrs -> Pairs] /\ OneOwner'
          /\ \A j \in Arrs : pair'[j] = IF j \in {i} THEN NoPair ELSE pair[j]
      BY <2>2, UnpairInvariant DEF IInv
    <2>4. TypeOK'
      BY <1>1, <2>1, <2>3 DEF IInv, TypeOK, Names
    <2>5. LifecyclesFollow'
      BY <2>1, <2>3 DEF IInv, TypeOK, LifecyclesFollow, Follows
    <2>6. PairedIsSelected' /\ FetchedInScope' /\ FormFits'
      BY <2>1, <2>3 DEF IInv, PairedIsSelected, FetchedInScope, FormFits
    <2> QED BY <2>3, <2>4, <2>5, <2>6 DEF IInv
  <1>3. CASE RemovePlex
    <2>1. /\ form = NoForm /\ form' = NoForm /\ score' = NoScores /\ UNCHANGED on
          /\ fetched' \in {Idle, {Gone}} /\ selected' \in [Libraries -> BOOLEAN]
          /\ library' = [i \in Arrs |-> NoLibrary] /\ key' \in [Arrs -> Names]
          /\ pair' = [i \in Arrs |-> NoPair]
      BY <1>3 DEF RemovePlex, Unpair, Names
    <2>2. TypeOK'
      BY <1>1, <2>1 DEF IInv, TypeOK, Pairs
    <2> QED BY <2>1, <2>2, NamesAreNoLibraries DEF IInv, OneOwner, LifecyclesFollow,
            Follows, PairedIsSelected, FetchedInScope, FormFits, Idle
  <1> QED BY <1>2, <1>3

LEMMA FormsInvariant ==
    ASSUME IInv, Forms
    PROVE  IInv'
  <1>1. ASSUME NEW l \in Libraries, LoadToggle(l) PROVE IInv'
    <2>1. PICK is \in SUBSET Arrs : is = IF selected[l] THEN PairedWith(l) ELSE {}
      BY DEF PairedWith
    <2>2. Load("TOGGLE", l, is)
      BY <1>1, <2>1 DEF LoadToggle
    <2> QED BY <2>1, <2>2, LoadInvariant
  <1>2. ASSUME NEW l \in Libraries, NEW i \in Arrs, LoadPair(i, l) PROVE IInv'
    BY <1>2, LoadInvariant DEF LoadPair
  <1>3. ASSUME NEW i \in Arrs, LoadDetect(i) PROVE IInv'
    BY <1>3, LoadInvariant DEF LoadDetect
  <1>4. ASSUME NEW i \in Arrs, ToggleArr(i) PROVE IInv'
    <2>1. NoScores \in Scores
      BY MaxScoreIsNat DEF NoScores, Scores
    <2>2. /\ form' = NoForm /\ score' = NoScores /\ on' \in [Arrs -> BOOLEAN]
          /\ UNCHANGED <<selected, pair, library, key, fetched>>
      BY <1>4 DEF ToggleArr, IInv, TypeOK
    <2> QED BY <2>1, <2>2 DEF IInv, TypeOK, OneOwner, LifecyclesFollow, Follows,
            PairedIsSelected, FetchedInScope, FormFits
  <1>5. CASE FormFails
    <2>1. NoScores \in Scores
      BY MaxScoreIsNat DEF NoScores, Scores
    <2> QED BY <1>5, <2>1 DEF FormFails, IInv, TypeOK, OneOwner, LifecyclesFollow, Follows,
            PairedIsSelected, FetchedInScope, FormFits
  <1> QED BY <1>1, <1>2, <1>3, <1>4, <1>5, ToggleInvariant, ByHandInvariant,
          DetectInvariant, RemovalInvariant DEF Forms

-----------------------------------------------------------------------------
(***************************************************************************)
(* Theorems                                                                *)
(***************************************************************************)
LEMMA InitInvariant == Init => IInv
  <1> SUFFICES ASSUME Init PROVE IInv
    OBVIOUS
  <1>1. TypeOK
    BY MaxScoreIsNat DEF Init, TypeOK, Pairs, Scores, NoScores, Names
  <1> QED BY <1>1, NamesAreNoLibraries DEF Init, IInv, OneOwner, LifecyclesFollow, Follows,
          PairedIsSelected, FetchedInScope, FormFits, Idle

LEMMA NextInvariant == IInv /\ [Next]_vars => IInv'
  <1> SUFFICES ASSUME IInv, [Next]_vars PROVE IInv'
    OBVIOUS
  <1>1. CASE Forms
    BY <1>1, FormsInvariant
  <1>2. CASE Fetch \/ Fail
    <2>1. /\ UNCHANGED <<on, selected, pair, library, key, form>> /\ score' = NoScores
          /\ fetched' \in {Idle} \cup SUBSET Libraries
          /\ \A l \in fetched' \cap Libraries : selected[l]
      BY <1>2, NamesAreNoLibraries DEF Fetch, Fail, Idle
    <2>2. TypeOK'
      BY <2>1, MaxScoreIsNat DEF IInv, TypeOK, NoScores, Scores
    <2>3. FormFits'
      BY <2>1 DEF IInv, FormFits, Row, PairedWith
    <2> QED BY <2>1, <2>2, <2>3 DEF IInv, OneOwner, LifecyclesFollow, Follows,
            PairedIsSelected, FetchedInScope
  <1>3. ASSUME NEW sc \in Scores, Place(sc) PROVE IInv'
    BY <1>3, PlaceInvariant
  <1>4. CASE UNCHANGED vars
    BY <1>4 DEF vars, IInv, TypeOK, OneOwner, LifecyclesFollow, Follows, PairedIsSelected,
       FetchedInScope, FormFits, Row, PairedWith
  <1> QED BY <1>1, <1>2, <1>3, <1>4 DEF Next

LEMMA Invariance == Spec => []IInv
  BY InitInvariant, NextInvariant, PTL DEF Spec

\* Every variable has its type, a synchronization that fails or finds nothing
\* included.
THEOREM TypeCorrect == Spec => []TypeOK
  BY Invariance, PTL DEF IInv

\* A library belongs to one instance, whatever was found, chosen by hand,
\* disabled or removed before and however the scores tie.
THEOREM OwnersUnique == Spec => []OneOwner
  BY Invariance, PTL DEF IInv

\* The deletion workflow looks for a movie in the library its instance is paired
\* with now: a lifecycle is in no other, and remembers no key of another, if no
\* form of its instance ever waited for a synchronization; forms of the others
\* may.
THEOREM LifecyclesCorrect == Spec => []LifecyclesFollow
  BY Invariance, PTL DEF IInv

\* What is paired is in scope, but for libraries taken out of scope while Plex
\* is asked about them.
THEOREM ScopeCorrect == Spec => []PairedIsSelected
  BY Invariance, PTL DEF IInv

\* If none is, what is paired is in scope: the overlap of a form with a
\* synchronization is the only way to the pairing of a deselected library.
THEOREM ScopeExact ==
    ASSUME Overlap = {}
    PROVE  Spec => []AllPairedIsSelected
  <1>1. PairedIsSelected => AllPairedIsSelected
    BY DEF PairedIsSelected, AllPairedIsSelected
  <1> QED BY <1>1, ScopeCorrect, PTL

\* Only a synchronization that ends well writes pairings and ends.
LEMMA WrittenByPlace ==
    ASSUME [Next]_vars, Written
    PROVE  (\E sc \in Scores : Place(sc)) \/ pair' = pair
  <1>1. CASE Forms
    <2>1. fetched' = fetched \/ fetched' = {Gone}
      BY <1>1 DEF Forms, LoadToggle, LoadPair, LoadDetect, Load, ToggleLibrary, PairByHand,
         DetectAutomatically, FormFails, ToggleArr, RemoveArr, RemovePlex
    <2> QED BY <2>1, NamesAreNoLibraries DEF Written, Idle
  <1>2. CASE Fetch \/ Fail \/ UNCHANGED vars
    BY <1>2 DEF Written, Fetch, Fail, vars
  <1> QED BY <1>1, <1>2 DEF Next

\* No synchronization changes what was chosen by hand.
THEOREM ByHandStands == Spec => ManualStands
  <1>1. IInv /\ [Next]_vars
          => [\A i \in Arrs : Written /\ pair[i].source = "MANUAL" => pair'[i] = pair[i]]_vars
    <2> SUFFICES ASSUME [Next]_vars, NEW i \in Arrs, Written, pair[i].source = "MANUAL"
                 PROVE  pair'[i] = pair[i]
      OBVIOUS
    <2>1. ASSUME NEW sc \in Scores, Place(sc) PROVE pair'[i] = pair[i]
      BY <2>1, Mapped DEF Place, ByHand
    <2> QED BY <2>1, WrittenByPlace
  <1> QED BY <1>1, Invariance, PTL DEF Spec, ManualStands

\* A pairing that was found is lost only where there is evidence: to the
\* instance's own best library, or to an instance whose best library it is.  The
\* one that gets the library is not compared with the one that loses it.
THEOREM FoundYieldsToEvidence == Spec => AutoYieldsToEvidence
  <1> DEFINE Best(j) ==
          /\ pair'[j].source = "AUTO" /\ score'[j][pair'[j].library] > 0
          /\ \A l \in fetched \ {pair'[j].library} :
                (\A k \in PairedWith(l) : pair[k].source # "MANUAL")
                    => score'[j][l] < score'[j][pair'[j].library]
  <1>1. ASSUME IInv, NEW sc \in Scores, Place(sc), NEW j \in Arrs, NEW l, Accepts(l, j, sc)
        PROVE  Best(j) /\ pair'[j].library = l
    <2>1. /\ fetched \subseteq Libraries /\ pair' = AutoMapped(sc) /\ score' = sc
      BY <1>1 DEF Place
    <2>2. pair'[j].library = l /\ pair'[j].source = "AUTO" /\ l \in Libraries
      BY <1>1, <2>1, Given
    <2>3. sc[j][l] > 0 /\ \A k \in Candidates \ {l} : sc[j][l] > sc[j][k]
      BY <1>1 DEF Accepts, Proposes
    <2>4. ASSUME NEW k \in fetched \ {l}, \A i \in PairedWith(k) : pair[i].source # "MANUAL"
          PROVE  sc[j][k] < sc[j][l]
      <3>1. k \in Candidates \ {l}
        BY <2>4 DEF Candidates, ByHand
      <3>2. sc[j][k] \in Nat /\ sc[j][l] \in Nat
        BY <2>1, <2>2, MaxScoreIsNat DEF Scores
      <3> QED BY <2>3, <3>1, <3>2
    <2> QED BY <2>1, <2>2, <2>3, <2>4
  <1>2. IInv /\ [Next]_vars
          => [\A i \in Arrs :
                 Written /\ on[i] /\ pair[i].source = "AUTO" /\ pair'[i] # pair[i]
                   => \E j \in Arrs :
                         /\ j = i \/ pair'[j].library = pair[i].library
                         /\ pair'[j].source = "AUTO" /\ score'[j][pair'[j].library] > 0
                         /\ \A l \in fetched \ {pair'[j].library} :
                               (\A k \in PairedWith(l) : pair[k].source # "MANUAL")
                                   => score'[j][l] < score'[j][pair'[j].library]]_vars
    <2> SUFFICES ASSUME IInv, [Next]_vars, NEW i \in Arrs, Written, on[i],
                        pair[i].source = "AUTO", pair'[i] # pair[i]
                 PROVE  \E j \in Arrs : (j = i \/ pair'[j].library = pair[i].library) /\ Best(j)
      OBVIOUS
    <2>1. PICK sc \in Scores : Place(sc)
      BY WrittenByPlace
    <2>2. fetched \subseteq Libraries /\ pair' = AutoMapped(sc)
      BY <2>1 DEF Place
    <2>3. ASSUME NEW l \in Libraries, Accepts(l, i, sc)
          PROVE  Best(i)
      BY <2>1, <2>3, <1>1
    <2>4. CASE Lapses(i, sc)
      <3>1. PICK j \in Arrs : Accepts(pair[i].library, j, sc)
        BY <2>4 DEF Lapses
      <3> QED BY <2>1, <3>1, <1>1
    <2> QED BY <2>2, <2>3, <2>4, Mapped
  <1> QED BY <1>2, Invariance, PTL DEF Spec, AutoYieldsToEvidence

\* A clear winner's proposal is the only one its library can accept.
LEMMA ClearWinnerIsAccepted ==
    ASSUME NEW sc \in Scores, NEW i \in Arrs, NEW l \in Libraries,
           fetched \subseteq Libraries, ClearWinner(i, l, sc)
    PROVE  Accepts(l, i, sc)
  <1>1. l \in Candidates
    BY DEF ClearWinner, Candidates, ByHand
  <1>2. \A j \in Arrs, k \in Libraries : sc[j][k] \in Nat
    BY MaxScoreIsNat DEF Scores
  <1>3. \A k \in Candidates \ {l} : sc[i][l] > sc[i][k]
    BY <1>2 DEF ClearWinner, Candidates
  <1>4. Proposes(i, l, sc)
    BY <1>1, <1>3 DEF ClearWinner, Proposes, ByHand
  <1>5. \A j \in Arrs \ {i} : Proposes(j, l, sc) => sc[i][l] > sc[j][l]
    BY <1>2 DEF ClearWinner, Proposes, ByHand
  <1> QED BY <1>4, <1>5 DEF Accepts

\* The order in which libraries and instances are compared, and who had what
\* before, matter to ties only.
THEOREM ClearWinnersPaired == Spec => ClearWinnerIsPaired
  <1>1. TypeOK' /\ [Next]_vars
          => [\A i \in Arrs, l \in Libraries :
                 ClearWinner(i, l, score') /\ Place(score') => pair'[i].library = l]_vars
    <2> SUFFICES ASSUME TypeOK', NEW i \in Arrs, NEW l \in Libraries,
                        ClearWinner(i, l, score'), Place(score')
                 PROVE  pair'[i].library = l
      OBVIOUS
    <2>1. score' \in Scores
      BY DEF TypeOK
    <2>2. fetched \subseteq Libraries /\ pair' = AutoMapped(score')
      BY DEF Place
    <2>3. Accepts(l, i, score')
      BY <2>1, <2>2, ClearWinnerIsAccepted
    <2> QED BY <2>1, <2>2, <2>3, Given
  <1> QED BY <1>1, TypeCorrect, PTL DEF Spec, ClearWinnerIsPaired
=============================================================================
