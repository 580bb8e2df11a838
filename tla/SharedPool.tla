----------------------------- MODULE SharedPool -----------------------------
(***************************************************************************)
(* What a driver promises to the users of one connection: while anybody    *)
(* holds the connection there is one physical link and everybody shares    *)
(* it; the last one to leave closes it, and nobody joins a link that is    *)
(* being closed or opens a second one beside it.                           *)
(***************************************************************************)
CONSTANTS
    Holders,  \* who may hold the connection: devices, and users of one request
    Links,    \* physical links
    None      \* no link

VARIABLES
    held,     \* the link each holder uses, or None
    open      \* the physical links that are open

Init ==
    /\ held = [h \in Holders |-> None]
    /\ open = {}

\* The holder joins the link that others use, or opens one when there is none.
Acquire(h) ==
    /\ held[h] = None
    /\ \E l \in Links :
          /\ open \subseteq {l}
          /\ open = {} \/ \E g \in Holders : held[g] = l
          /\ held' = [held EXCEPT ![h] = l]
          /\ open' = {l}

\* The holder leaves; the link stays open while others hold it.
Release(h) ==
    /\ held[h] # None
    /\ held' = [held EXCEPT ![h] = None]
    /\ \/ open' = open
       \/ open' = {} /\ \A g \in Holders : held'[g] = None

\* The link nobody holds any more is closed, when the last Release did not close it.
Close ==
    /\ open # {}
    /\ \A h \in Holders : held[h] = None
    /\ open' = {}
    /\ UNCHANGED held

Next == (\E h \in Holders : Acquire(h) \/ Release(h)) \/ Close

Spec == Init /\ [][Next]_<<held, open>>
=============================================================================
