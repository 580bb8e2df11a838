----------------------------- MODULE MCHotReload -----------------------------
(* Two devices on two connections, one polled and one whose driver can be      *)
(* either; the process boots with a few representative configurations.         *)
EXTENDS HotReload, TLC

CONSTANTS d1, d2, c1, c2, tcp, listen, p1, p2, q1, q2, i1, i2

MCConns == {
    (c1 :> tcp @@ c2 :> tcp),
    (c1 :> listen @@ c2 :> listen) }

MCRow(c) == [conn |-> c, params |-> p1, points |-> q1, interval |-> i1, enabled |-> TRUE]

\* Each field differs from the base row in some row, and the pairs that matter together do.
MCSavedRows == LET base == MCRow(c1) IN {
    base,
    [base EXCEPT !.enabled = FALSE],
    [base EXCEPT !.points = q2],
    [base EXCEPT !.interval = i2],
    [base EXCEPT !.params = p2],
    [base EXCEPT !.conn = c2],
    [base EXCEPT !.conn = c2, !.points = q2],
    [base EXCEPT !.conn = c2, !.params = p2] }

MCRows == {
    (d1 :> MCRow(c1) @@ d2 :> MCRow(c1)),
    (d1 :> MCRow(c1) @@ d2 :> MCRow(c2)),
    (d1 :> MCRow(c2) @@ d2 :> MCRow(c1)) }

MCSymmetry == Permutations({d1, d2})

MCInitStores == [rows : MCRows, conns : MCConns]
=============================================================================
