--------------------------- MODULE MCManualBatch ---------------------------
(***************************************************************************)
(* Model checking of ManualBatch on small sets of items and torrents.      *)
(***************************************************************************)
EXTENDS ManualBatch, TLC

\* Items, torrents and retry slots are interchangeable.
Symmetry == Permutations(Items) \cup Permutations(Torrents) \cup Permutations(Retries)

\* Without torrents the switch of qBittorrent is never looked at.
QbitStaysOn == qbit
=============================================================================
