------------------------------ MODULE MCCampaigns ------------------------------
(***************************************************************************)
(* Campaigns on a small instance for TLC.                                  *)
(***************************************************************************)
EXTENDS Campaigns, TLC

\* Tasks differ only in name.
Symmetry == Permutations(Tasks)
=============================================================================
