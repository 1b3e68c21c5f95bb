------------------------ MODULE TorrentEvidenceProofs ------------------------
(***************************************************************************)
(* That a shared torrent is known to be shared, and is not removed.        *)
(***************************************************************************)
EXTENDS TorrentEvidence, TLAPS

-----------------------------------------------------------------------------
(***************************************************************************)
(* Types.                                                                  *)
(***************************************************************************)
LEMMA TypedInit == Init => TypeOK
  BY DEF Init, TypeOK, States, JobStates

LEMMA TypedStep == TypeOK /\ [Next]_vars => TypeOK'
  <1> SUFFICES ASSUME TypeOK, [Next]_vars PROVE TypeOK'
    OBVIOUS
  <1> USE DEF TypeOK, world, rows, jobs
  <1>1. ASSUME NEW t \in Torrents, NEW ms \in SUBSET Movies, Import(t, ms) PROVE TypeOK'
    BY <1>1 DEF Import
  <1>2. ASSUME NEW t \in Torrents, TorrentGoes(t) PROVE TypeOK'
    BY <1>2 DEF TorrentGoes
  <1>3. ASSUME NEW m \in Movies, MovieGoes(m) PROVE TypeOK'
    BY <1>3 DEF MovieGoes
  <1>4. CASE SyncArr
    BY <1>4 DEF SyncArr, ArrRows, Linked, States
  <1>5. CASE SyncQbittorrent
    BY <1>5 DEF SyncQbittorrent, Linked
  <1>6. ASSUME NEW m \in Movies, Revalidate(m) PROVE TypeOK'
    BY <1>6 DEF Revalidate, Mapped, JobStates
  <1>7. ASSUME NEW m \in Movies, DeleteMovie(m) PROVE TypeOK'
    BY <1>7 DEF DeleteMovie, States, JobStates
  <1>8. ASSUME NEW m \in Movies, DeleteTorrents(m) PROVE TypeOK'
    BY <1>8 DEF DeleteTorrents, JobStates
  <1>9. ASSUME NEW m \in Movies, Interrupt(m) PROVE TypeOK'
    BY <1>9 DEF Interrupt
  <1>10. ASSUME NEW m \in Movies, Resume(m) PROVE TypeOK'
    BY <1>10 DEF Resume
  <1>11. CASE UNCHANGED vars
    BY <1>11 DEF vars
  <1> QED BY <1>1, <1>2, <1>3, <1>4, <1>5, <1>6, <1>7, <1>8, <1>9, <1>10, <1>11
          DEF Next, Outside, Work

\* Every variable has its type.
THEOREM EvidenceTyped == Spec => []TypeOK
  BY TypedInit, TypedStep, PTL DEF Spec

-----------------------------------------------------------------------------
(***************************************************************************)
(* A mapping that is made is made in full.                                 *)
(***************************************************************************)
\* What Linked gives, it gives for all lifecycles of a torrent.
LEMMA LinkedInFull ==
    ASSUME NEW ts, NEW st, NEW dl, NEW t, NEW m \in Movies, NEW n \in Movies,
           <<t, m>> \in Linked(ts, st, dl), st[n] = "ACTIVE", t \in dl[n]
    PROVE  <<t, n>> \in Linked(ts, st, dl)
  BY DEF Linked

LEMMA SharedInit == Init => SharedIsSeen
  BY DEF Init, SharedIsSeen

LEMMA SharedStep == TypeOK /\ SharedIsSeen /\ [Next]_vars => SharedIsSeen'
  <1> SUFFICES ASSUME TypeOK, SharedIsSeen, [Next]_vars PROVE SharedIsSeen'
    OBVIOUS
  <1>1. CASE SyncArr
    BY <1>1, LinkedInFull DEF SyncArr, SharedIsSeen
  <1>2. CASE SyncQbittorrent
    <2>1. PICK ts : mapping' = Linked(ts, state, downloads) /\ UNCHANGED <<state, downloads>>
      BY <1>2 DEF SyncQbittorrent
    <2> QED BY <2>1, LinkedInFull DEF SharedIsSeen
  <1>3. ASSUME NEW m \in Movies, DeleteMovie(m) PROVE SharedIsSeen'
    <2>1. UNCHANGED <<downloads, mapping>> /\ state' = [state EXCEPT ![m] = "DELETED"]
      BY <1>3 DEF DeleteMovie
    <2>2. \A n \in Movies : state'[n] = "ACTIVE" => state[n] = "ACTIVE"
      BY <2>1 DEF TypeOK
    <2> QED BY <2>1, <2>2 DEF SharedIsSeen
  <1>4. CASE UNCHANGED <<state, downloads, mapping>>
    BY <1>4 DEF SharedIsSeen
  <1> QED BY <1>1, <1>2, <1>3, <1>4
          DEF Next, Outside, Work, Import, TorrentGoes, MovieGoes, Revalidate, DeleteTorrents,
              Interrupt, Resume, vars, rows

\* That a torrent is shared is never half known.
THEOREM SharedCorrect == Spec => []SharedIsSeen
  BY EvidenceTyped, SharedInit, SharedStep, PTL DEF Spec

-----------------------------------------------------------------------------
(***************************************************************************)
(* What was revalidated for a job that is not interrupted still holds.     *)
(***************************************************************************)
InProgress(m) == job[m] \in {"REVALIDATED", "RADARR_DELETED"}

\* Between its revalidation and its last deletion such a job holds the
\* coordinator, and the torrents it remembers are mapped to its movie alone.
Held ==
    \A m \in Movies \ Resumes : InProgress(m) =>
        /\ running = m
        /\ \A t \in snapshot[m] : <<t, m>> \in mapping /\ Unshared(t, m)

LEMMA HeldInit == Init => Held
  BY DEF Init, Held, InProgress

LEMMA HeldStep == TypeOK /\ Held /\ [Next]_vars => Held'
  <1> SUFFICES ASSUME TypeOK, Held, [Next]_vars,
                      NEW m \in Movies \ Resumes, InProgress(m)'
               PROVE  /\ running' = m
                      /\ \A t \in snapshot'[m] : <<t, m>> \in mapping' /\ Unshared(t, m)'
    BY DEF Held
  <1>0. InProgress(m) => ~Free
    BY NoMovieIsNone DEF Held, Free
  <1>1. CASE SyncArr \/ SyncQbittorrent
    BY <1>0, <1>1 DEF SyncArr, ArrRows, SyncQbittorrent, InProgress, jobs
  <1>2. ASSUME NEW n \in Movies, Revalidate(n)
        PROVE  /\ running' = m
               /\ \A t \in snapshot'[m] : <<t, m>> \in mapping' /\ Unshared(t, m)'
    <2>1. /\ job' = [job EXCEPT ![n] = "REVALIDATED"] /\ Free
          /\ snapshot' = [snapshot EXCEPT ![n] = Mapped(n)]
          /\ running' = n /\ UNCHANGED mapping
          /\ \A t \in Mapped(n) : Unshared(t, n)
      BY <1>2 DEF Revalidate, rows
    <2>2. n = m
      BY <1>0, <2>1 DEF TypeOK, InProgress
    <2>3. snapshot'[m] = Mapped(m)
      BY <2>1, <2>2 DEF TypeOK
    <2>4. \A t \in Mapped(m) : <<t, m>> \in mapping' /\ Unshared(t, m)'
      BY <2>1, <2>2 DEF Mapped, Unshared
    <2> QED BY <2>1, <2>2, <2>3, <2>4
  <1>3. ASSUME NEW n \in Movies, DeleteMovie(n)
        PROVE  /\ running' = m
               /\ \A t \in snapshot'[m] : <<t, m>> \in mapping' /\ Unshared(t, m)'
    <2>1. /\ job' = [job EXCEPT ![n] = "RADARR_DELETED"] /\ job[n] = "REVALIDATED"
          /\ UNCHANGED <<mapping, snapshot, running>>
      BY <1>3 DEF DeleteMovie
    <2>2. InProgress(m)
      BY <2>1 DEF TypeOK, InProgress
    <2> QED BY <2>1, <2>2 DEF Held, Unshared
  <1>4. ASSUME NEW n \in Movies, DeleteTorrents(n)
        PROVE  FALSE
    <2>1. running = n /\ job' = [job EXCEPT ![n] = "TORRENT_DELETED"]
      BY <1>4 DEF DeleteTorrents
    <2>2. InProgress(m) /\ n # m
      BY <2>1 DEF TypeOK, InProgress
    <2> QED BY <2>1, <2>2 DEF Held
  <1>5. ASSUME NEW n \in Movies, Resume(n) PROVE FALSE
    BY <1>0, <1>5 DEF Resume, InProgress
  <1>6. ASSUME NEW n \in Movies, Interrupt(n)
        PROVE  /\ running' = m
               /\ \A t \in snapshot'[m] : <<t, m>> \in mapping' /\ Unshared(t, m)'
    BY <1>6 DEF Interrupt, Held, InProgress, Unshared, rows
  <1>7. CASE UNCHANGED <<job, snapshot, running, mapping>>
    BY <1>7 DEF Held, InProgress, Unshared
  <1> QED BY <1>1, <1>2, <1>3, <1>4, <1>5, <1>6, <1>7
          DEF Next, Outside, Work, Import, TorrentGoes, MovieGoes, vars, rows, jobs

\* A job that is not interrupted removes no torrent of another movie.
THEOREM RemovedCorrect == Spec => RemovedIsUnshared
  <1> DEFINE Harmless == \A m \in Movies \ Resumes : RemovesOwn(m)
  <1>1. TypeOK /\ SharedIsSeen /\ Held /\ [Next]_vars => [Harmless]_vars
    <2> SUFFICES ASSUME TypeOK, SharedIsSeen, Held, [Next]_vars,
                        NEW m \in Movies \ Resumes,
                        job[m] # job'[m], job'[m] = "TORRENT_DELETED",
                        NEW t \in snapshot[m], NEW n \in Movies \ {m},
                        state[n] = "ACTIVE", t \in downloads[n]
                 PROVE  FALSE
      BY DEF RemovesOwn
    <2>1. job[m] = "RADARR_DELETED"
      BY DEF TypeOK, Next, Outside, Work, Import, TorrentGoes, MovieGoes, SyncArr, ArrRows,
             SyncQbittorrent, Revalidate, DeleteMovie, DeleteTorrents, Interrupt, Resume,
             vars, jobs
    <2>2. <<t, m>> \in mapping /\ Unshared(t, m)
      BY <2>1 DEF Held, InProgress
    <2>3. <<t, n>> \in mapping
      BY <2>2 DEF SharedIsSeen, TypeOK
    <2> QED BY <2>2, <2>3 DEF Unshared
  <1>2. Spec => []Held
    BY HeldInit, HeldStep, EvidenceTyped, PTL DEF Spec
  <1>3. Spec => [][Harmless]_vars
    BY <1>1, <1>2, EvidenceTyped, SharedCorrect, PTL DEF Spec
  <1> QED BY <1>3 DEF RemovedIsUnshared

=============================================================================
