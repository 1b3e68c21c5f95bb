------------------------------ MODULE MCDryRun ------------------------------
(* Instances of DryRun: forms of every kind, and rows around their minimums. *)
EXTENDS DryRun, TLC

F(rule, ratio, time, grace, auto) ==
    [rule |-> rule, ratio |-> ratio, time |-> time, grace |-> grace, auto |-> auto]
R(present, left, ratio, time, trackers) ==
    [present |-> present, left |-> left, ratio |-> ratio, time |-> time, trackers |-> trackers]

MCDefault == F("RATIO_OR_TIME", 2, 1, 0, FALSE)

\* A form that asks for both minimums, one whose ratio is no number, and one
\* that is refused.
SomeForms == {F("RATIO_AND_TIME", 2, 1, 0, TRUE), F("RATIO_AND_TIME", NotANumber, 1, 0, TRUE),
              F("TIME_ONLY", None, 3, 0, TRUE)}

\* Rows at both minimums, at one of them, and of a torrent that is gone.
SomeRows == {R(TRUE, FALSE, 2, 1, Domains), R(TRUE, FALSE, 2, 0, Domains),
             R(FALSE, FALSE, 2, 1, Domains)}

Symmetry == Permutations(Movies) \cup Permutations(Torrents)
=============================================================================
