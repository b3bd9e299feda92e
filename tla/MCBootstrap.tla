------------------------------ MODULE MCBootstrap ------------------------------
(***************************************************************************)
(* Bootstrap for TLC: two terminals, three starts, on every kind of host.  *)
(***************************************************************************)
EXTENDS Bootstrap

MCHosts == [hash : BOOLEAN, python : BOOLEAN]
=============================================================================
