----------------------------- MODULE MCLumeRun -----------------------------
(* LumeRun for TLC: clients and names are interchangeable, and every property *)
(* of the run is about safety.                                                *)
EXTENDS LumeRun, TLC

Symmetry == Permutations(Clients) \cup Permutations(Names)
=============================================================================
