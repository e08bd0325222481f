-------------------------- MODULE MCResilientClient --------------------------
(* Instances of ResilientClient for TLC. *)
EXTENDS ResilientClient
=============================================================================
