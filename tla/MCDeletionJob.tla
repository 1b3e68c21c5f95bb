--------------------------- MODULE MCDeletionJob ---------------------------
(***************************************************************************)
(* Model checking of DeletionJob on small sets of requests and torrents.   *)
(***************************************************************************)
EXTENDS DeletionJob, TLC

\* The requests under way, those for the workflow and the administrator's.
UnderWay == Cardinality({e \in Executors : req[e].pc # "idle"})
          + Cardinality({a \in Admins : adm[a].op # "idle"})

\* At most two requests overlap, and torrents leave qBittorrent by the
\* application's hand only (DeletionProgress' runs have them vanish).
TwoAtATime == UnderWay <= 2 /\ Torrents = present \cup removed

\* Request slots and torrents are interchangeable.
Symmetry == Permutations(Executors) \cup Permutations(Torrents)
=============================================================================
