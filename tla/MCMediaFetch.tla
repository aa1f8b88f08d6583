---------------------------- MODULE MCMediaFetch ----------------------------
(* MediaFetch for TLC: version 3 is the wanted one with other bytes in it, and *)
(* version 2 is shorter.                                                       *)
EXTENDS MediaFetch

MCLength == [v \in Versions |-> IF v = 2 THEN Last - 1 ELSE Last]
=============================================================================
