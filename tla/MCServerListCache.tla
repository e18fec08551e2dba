------------------------- MODULE MCServerListCache -------------------------
(***************************************************************************)
(* Instances of ServerListCache for TLC.  Processes are interchangeable.    *)
(***************************************************************************)
EXTENDS ServerListCache, TLC

ProcSymmetry == Permutations(Procs)
=============================================================================
