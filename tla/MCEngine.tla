------------------------------ MODULE MCEngine ------------------------------
(***************************************************************************)
(* A small instance of Engine: three jobs for two submitters, two workers  *)
(* and channels of one place, so that every channel fills while somebody   *)
(* waits on each of its ends.                                              *)
(***************************************************************************)
EXTENDS Engine

CONSTANTS j1, j2, j3, s1, s2, w1, w2

MCJob == {j1, j2, j3}
MCSubmitter == {s1, s2}
MCWorker == {w1, w2}
=============================================================================
