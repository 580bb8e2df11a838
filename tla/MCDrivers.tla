------------------------------ MODULE MCDrivers ------------------------------
(* Two devices with unit IDs of their own, one worker and one one-shot user.  *)
EXTENDS Drivers, TLC

CONSTANTS d1, d2, u, w, l1, l2, l3, a, b

MCUnitOf == (d1 :> 1) @@ (d2 :> 2)
=============================================================================
