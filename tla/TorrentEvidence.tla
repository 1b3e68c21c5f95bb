--------------------------- MODULE TorrentEvidence ---------------------------
(***************************************************************************)
(* Torrents, their mapping to media and what a deletion takes from it:     *)
(* sync_qbittorrent and _map_torrents (services/inventory.py), the mapping *)
(* sync_arr makes anew, and the deletion workflow (deletion_jobs.py),      *)
(* reduced to the torrents it examines, remembers and removes.             *)
(*                                                                         *)
(* All of them write under the coordinator.  A synchronization reads its   *)
(* service before it writes; as nobody else changes the rows meanwhile, it *)
(* is one step, and the world may change right after it.                   *)
(***************************************************************************)
EXTENDS FiniteSets

CONSTANTS
    Movies,    \* movies, each with its lifecycle row and its deletion job
    Torrents,
    NoMovie,   \* no job is running
    Resumes    \* the movies whose job may be interrupted and executed again

ASSUME ResumesAreMovies == Resumes \subseteq Movies
ASSUME NoMovieIsNone == NoMovie \notin Movies

VARIABLES
    seeding,    \* qBittorrent's torrents
    has,        \* the movies Radarr has a file of
    uses,       \* Radarr's history: <<t, m>> if t was downloaded for m
    known,      \* torrents with a row
    present,    \* torrent.present
    state,      \* media_lifecycle.state
    downloads,  \* media_lifecycle.source_download_ids
    mapping,    \* torrent_media_mapping
    job,        \* deletion_job.state
    snapshot,   \* the torrents in deletion_job.execution_snapshot
    running     \* the movie whose job holds the coordinator

world == <<seeding, has, uses>>
rows  == <<known, present, state, downloads, mapping>>
jobs  == <<job, snapshot, running>>
vars  == <<world, rows, jobs>>

States    == {"ACTIVE", "MISSING", "DELETED"}
JobStates == {"APPROVED", "REVALIDATED", "RADARR_DELETED", "TORRENT_DELETED"}

Init ==
    /\ seeding = {} /\ has = {} /\ uses = {}
    /\ known = {} /\ present = {}
    /\ state = [m \in Movies |-> "MISSING"]
    /\ downloads = [m \in Movies |-> {}]
    /\ mapping = {}
    /\ job = [m \in Movies |-> "APPROVED"]
    /\ snapshot = [m \in Movies |-> {}]
    /\ running = NoMovie

-----------------------------------------------------------------------------
(***************************************************************************)
(* The services.                                                           *)
(***************************************************************************)
\* Radarr imports movies ms from torrent t, new or already seeding.
Import(t, ms) ==
    /\ seeding' = seeding \cup {t}
    /\ has' = has \cup ms
    /\ uses' = uses \cup ({t} \X ms)
    /\ UNCHANGED <<rows, jobs>>

\* Somebody else removes a torrent, or a movie with its history.
TorrentGoes(t) ==
    /\ seeding' = seeding \ {t}
    /\ UNCHANGED <<has, uses, rows, jobs>>
MovieGoes(m) ==
    /\ has' = has \ {m}
    /\ uses' = uses \ (Torrents \X {m})
    /\ UNCHANGED <<seeding, rows, jobs>>

-----------------------------------------------------------------------------
(***************************************************************************)
(* Synchronizations.                                                       *)
(***************************************************************************)
Free == running = NoMovie

\* _map_torrents: torrents ts with every ACTIVE lifecycle linked to them, by the
\* rows st and dl.
Linked(ts, st, dl) == {p \in ts \X Movies : st[p[2]] = "ACTIVE" /\ p[1] \in dl[p[2]]}

\* sync_arr; the global mapping comes last.  The mutants map only torrents that
\* were not mapped, and none.
ArrRows ==
    /\ state' = [m \in Movies |-> IF m \in has THEN "ACTIVE" ELSE "MISSING"]
    /\ downloads' = [m \in Movies |-> IF m \in has THEN {t \in Torrents : <<t, m>> \in uses}
                                      ELSE downloads[m]]
    /\ UNCHANGED <<world, known, present, jobs>>
Unmapped          == {t \in present : \A m \in Movies : <<t, m>> \notin mapping}
MutSyncArrAdds    == Free /\ ArrRows /\ mapping' = mapping \cup Linked(Unmapped, state', downloads')
MutSyncArrForgets == Free /\ ArrRows /\ UNCHANGED mapping
SyncArr           == Free /\ ArrRows /\ mapping' = Linked(present, state', downloads')

\* sync_qbittorrent: present = False is written to all rows at once, present =
\* True is only pending in the session, which does not flush by itself.  The
\* insertion of a row flushes what is pending; _map_torrents reads the table, so
\* it finds the new torrents and those listed before the last new one (early).
SyncQbittorrent ==
    LET new == seeding \ known IN
    /\ Free
    /\ known' = known \cup seeding
    /\ present' = seeding
    /\ \E early \in SUBSET (seeding \cap known) :
          /\ new = {} => early = {}
          /\ mapping' = Linked(new \cup early, state, downloads)
    /\ UNCHANGED <<world, state, downloads, jobs>>

-----------------------------------------------------------------------------
(***************************************************************************)
(* A deletion job: one execution of it holds the coordinator throughout.   *)
(***************************************************************************)
Mapped(m) == {t \in present : <<t, m>> \in mapping}

\* The mutant forgets to count the mappings.
MutUnshared(t, m) == TRUE
Unshared(t, m)    == \A n \in Movies : <<t, n>> \in mapping => n = m

\* _live_revalidate; when a check fails, nothing of this changes.
Revalidate(m) ==
    /\ Free /\ job[m] = "APPROVED" /\ state[m] = "ACTIVE" /\ m \in has
    /\ \A t \in Mapped(m) : Unshared(t, m) /\ t \in seeding
    /\ job' = [job EXCEPT ![m] = "REVALIDATED"]
    /\ snapshot' = [snapshot EXCEPT ![m] = Mapped(m)]
    /\ running' = m
    /\ UNCHANGED <<world, rows>>

\* _execute_radarr_delete.
DeleteMovie(m) ==
    /\ running = m /\ job[m] = "REVALIDATED"
    /\ has' = has \ {m}
    /\ uses' = uses \ (Torrents \X {m})
    /\ state' = [state EXCEPT ![m] = "DELETED"]
    /\ job' = [job EXCEPT ![m] = "RADARR_DELETED"]
    /\ UNCHANGED <<seeding, known, present, downloads, mapping, snapshot, running>>

\* _execute_torrent_deletes, and what follows it.
DeleteTorrents(m) ==
    /\ running = m /\ job[m] = "RADARR_DELETED"
    /\ seeding' = seeding \ snapshot[m]
    /\ job' = [job EXCEPT ![m] = "TORRENT_DELETED"]
    /\ running' = NoMovie
    /\ UNCHANGED <<has, uses, rows, snapshot>>

\* A step fails or the process dies, and the job is executed again: it takes up
\* at its state, and what was revalidated is not revalidated again.
Interrupt(m) ==
    /\ m \in Resumes /\ running = m
    /\ running' = NoMovie
    /\ UNCHANGED <<world, rows, job, snapshot>>
Resume(m) ==
    /\ m \in Resumes /\ Free /\ job[m] \in {"REVALIDATED", "RADARR_DELETED"}
    /\ running' = m
    /\ UNCHANGED <<world, rows, job, snapshot>>

Work(m) == DeleteMovie(m) \/ DeleteTorrents(m)
Outside == \/ \E t \in Torrents : TorrentGoes(t) \/ \E ms \in SUBSET Movies : Import(t, ms)
           \/ \E m \in Movies : MovieGoes(m)

Next == \/ Outside \/ SyncArr \/ SyncQbittorrent
        \/ \E m \in Movies : Revalidate(m) \/ Work(m) \/ Interrupt(m) \/ Resume(m)

\* A running job goes on; Radarr is synchronized again and again, between jobs.
Fairness == SF_vars(SyncArr) /\ \A m \in Movies : WF_vars(Work(m))
Spec     == Init /\ [][Next]_vars /\ Fairness

-----------------------------------------------------------------------------
(***************************************************************************)
(* Properties.                                                             *)
(***************************************************************************)
TypeOK ==
    /\ seeding \subseteq Torrents /\ has \subseteq Movies /\ uses \subseteq Torrents \X Movies
    /\ known \subseteq Torrents /\ present \subseteq known
    /\ state \in [Movies -> States] /\ downloads \in [Movies -> SUBSET Torrents]
    /\ mapping \subseteq Torrents \X Movies
    /\ job \in [Movies -> JobStates] /\ snapshot \in [Movies -> SUBSET Torrents]
    /\ running \in Movies \cup {NoMovie}

\* A torrent that is mapped at all is mapped to every downloaded movie it was
\* downloaded for: that it is shared is never half known.
SharedIsSeen ==
    \A t \in Torrents, m \in Movies, n \in Movies :
        <<t, m>> \in mapping /\ state[n] = "ACTIVE" /\ t \in downloads[n] => <<t, n>> \in mapping

\* What the job of m removes belongs, as far as the rows say, to no other movie
\* that is still there.
RemovesOwn(m) ==
    job[m] # job'[m] /\ job'[m] = "TORRENT_DELETED" =>
        \A t \in snapshot[m], n \in Movies \ {m} : ~(state[n] = "ACTIVE" /\ t \in downloads[n])

\* A job that is not interrupted removes no torrent of another movie, whatever
\* other jobs leave behind when they are.
RemovedIsUnshared == [][\A m \in Movies \ Resumes : RemovesOwn(m)]_vars

\* No job does (violated by one resumed after a synchronization).
AllRemovedIsUnshared == [][\A m \in Movies : RemovesOwn(m)]_vars

\* The mapping is complete again and again: every torrent present in qBittorrent
\* with every downloaded movie it is linked to.
MappingIsComplete == Linked(present, state, downloads) \subseteq mapping
MappingRecovers   == []<>MappingIsComplete

\* A job examines every torrent that is associated with its movie (violated after
\* a synchronization of qBittorrent that found no new torrent).
AllIsExamined ==
    [][\A m \in Movies : job[m] = "APPROVED" /\ job'[m] = "REVALIDATED" =>
          {t \in present : t \in downloads[m]} \subseteq snapshot'[m]]_vars
=============================================================================
