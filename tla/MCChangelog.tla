---------------------------- MODULE MCChangelog -----------------------------
(***************************************************************************)
(* Two correlation IDs that share a changelog partition.                   *)
(***************************************************************************)
EXTENDS Changelog
=============================================================================
