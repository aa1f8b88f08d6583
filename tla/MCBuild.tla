------------------------------ MODULE MCBuild ------------------------------
(* Build for TLC, with the versions of MCMediaFetch.                       *)
EXTENDS Build, MCMediaFetch
=============================================================================
