------------------------------- MODULE MCAlert -------------------------------
(* One rule over one point or over two, and the two goroutines that call       *)
(* Process: the pipeline and flushLoop of the processing engine.               *)
EXTENDS Alert, TLC

CONSTANTS r1, pipe, flush, high, low, temp, switch

\* The condition: all of the points are high.
Define(refs, cooldown, usable) ==
    [refs |-> refs, usable |-> usable, cooldown |-> cooldown,
     expr |-> [env \in [refs -> Values] |->
                 IF \A k \in refs : env[k] = high THEN "true" ELSE "false"]]

MCDefs ==
    { Define({temp}, TRUE, TRUE), Define({temp, switch}, FALSE, TRUE), Define({temp}, TRUE, FALSE) }

Symmetry == Permutations(Callers)
=============================================================================
