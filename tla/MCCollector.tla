----------------------------- MODULE MCCollector -----------------------------
(* A polled device and a pushing one, the threads that serve them, and queues *)
(* of capacity one, so that both fill up.                                     *)
EXTENDS Collector

CONSTANTS a, b, w1, w2, p, run
=============================================================================
