---------------------------- MODULE MCScheduler ----------------------------
(***************************************************************************)
(* Three integrations; the last, or the first, may be broken.              *)
(***************************************************************************)
EXTENDS Scheduler

CONSTANTS s1, s2, s3

MCOrder == <<s1, s2, s3>>
============================================================================
