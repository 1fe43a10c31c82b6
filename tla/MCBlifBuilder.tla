---------------------------- MODULE MCBlifBuilder ----------------------------
(***************************************************************************)
(* BlifBuilder with four inputs: every tree of at most three combinations.          *)
(***************************************************************************)
EXTENDS BlifBuilder
=============================================================================
