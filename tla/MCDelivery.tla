------------------------------ MODULE MCDelivery ------------------------------
(* One output, two API handlers that may reload it at the same time, and a     *)
(* queue that holds fewer rows than there are points.                          *)
EXTENDS Delivery, TLC

CONSTANTS a, b, x, y, z, s1, s2, s3, s4, pipe, main, h1, h2

Symmetry == Permutations(Points) \cup Permutations(Reloaders \ {Main})
=============================================================================
