---------------------------- MODULE MCCpuSampler ---------------------------
(* Two requests, again and again. *)
EXTENDS CpuSampler

CONSTANTS r1, r2
=============================================================================
