-------------------------- MODULE RemovalProtocol --------------------------
(***************************************************************************)
(* What the deletion workflow promises to the services outside it: media   *)
(* leaves through Radarr first, under an import exclusion; torrent data    *)
(* goes only after that; and the application claims completion only of     *)
(* what has happened (PHASE-1-BUILD-SHEET.md 6 and 19.1).                  *)
(*                                                                         *)
(* Radarr has no deletion that is conditional on an identity, so looking   *)
(* and deleting are two calls.  The promise is that every deletion follows *)
(* a look of its own that found the verified movie; what takes the place   *)
(* of that movie between the two calls is deleted instead.                 *)
(***************************************************************************)
CONSTANT Torrents

VARIABLES
    movie,      \* what Radarr holds: "same", "other" or "absent"
    checked,    \* a look has just found the verified movie
    exclusion,  \* Radarr's import exclusion exists
    removed,    \* torrents the application has removed
    claim       \* the application reports the deletion complete

pvars == <<movie, checked, exclusion, removed, claim>>

Init ==
    /\ movie = "same"
    /\ checked = FALSE
    /\ exclusion = FALSE
    /\ removed = {}
    /\ claim = FALSE

\* Only the verified movie passes the look.
Check ==
    /\ movie = "same"
    /\ checked' = TRUE
    /\ UNCHANGED <<movie, exclusion, removed, claim>>

\* One deletion for one look.
RemoveMovie ==
    /\ checked
    /\ movie # "absent"
    /\ movie' = "absent"
    /\ checked' = FALSE
    /\ exclusion' \in {exclusion, TRUE}
    /\ UNCHANGED <<removed, claim>>

\* The deletion is given up, or has no effect.
Forget ==
    /\ checked' = FALSE
    /\ UNCHANGED <<movie, exclusion, removed, claim>>

Exclude ==
    /\ movie = "absent"
    /\ exclusion' = TRUE
    /\ UNCHANGED <<movie, checked, removed, claim>>

RemoveTorrent(t) ==
    /\ movie = "absent" /\ exclusion
    /\ removed' = removed \cup {t}
    /\ UNCHANGED <<movie, checked, exclusion, claim>>

\* Completion is claimed of a movie that is gone and excluded.  A claim may be
\* withdrawn, also by the request that gives a deletion up.
Claim ==
    /\ movie = "absent" /\ exclusion
    /\ claim' = TRUE
    /\ UNCHANGED <<movie, checked, exclusion, removed>>

Withdraw ==
    /\ claim' = FALSE
    /\ checked' \in {checked, FALSE}
    /\ UNCHANGED <<movie, exclusion, removed>>

\* The owner of the library deletes or re-identifies the movie.
Outside ==
    /\ movie # "absent"
    /\ movie' \in {"other", "absent"}
    /\ UNCHANGED <<checked, exclusion, removed, claim>>

Next ==
    \/ Check \/ RemoveMovie \/ Forget \/ Exclude \/ Claim \/ Withdraw \/ Outside
    \/ \E t \in Torrents : RemoveTorrent(t)

Spec == Init /\ [][Next]_pvars
=============================================================================
