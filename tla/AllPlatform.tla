---------------------------- MODULE AllPlatform -----------------------------
(* What the platforms order: the configuration that a sync writes, the reading of *)
(* the blocks that it declares for a device, and the commands that write a point. *)
(* The three share no state.                                                      *)
EXTENDS Platform, ReadPlan, Downlink

\* The types of the variables of Platform and Downlink.
TypesOK == TypeOK /\ CommandTypeOK
=============================================================================
