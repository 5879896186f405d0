----------------------------- MODULE MCAnalyticsEtl -----------------------------
(***************************************************************************)
(* AnalyticsEtl on a small instance for TLC.                               *)
(***************************************************************************)
EXTENDS AnalyticsEtl

\* One event published twice with two times, one of the kind that feeds all
\* tables, and one of each kind that cannot be stored, two of which might bear
\* its id.
MCRecords ==
  {[kind |-> "other", id |-> 1, time |-> t] : t \in {1, 2}} \cup
  {[kind |-> k, id |-> 2, time |-> 1] : k \in {"view", "odd", "unfit"}} \cup
  {[kind |-> k, id |-> 0, time |-> 0] : k \in {"invalid", "shapeless"}}
=============================================================================
