------------------------------- MODULE MCSearchEtl ------------------------------
(***************************************************************************)
(* SearchEtl on a small instance for TLC.                                  *)
(***************************************************************************)
EXTENDS SearchEtl

MCFleets == {{"movies"}, {"persons"}}
=============================================================================
