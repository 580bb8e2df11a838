----------------------------- MODULE MCPlatform ------------------------------
(* Small instances of what the platforms order: a behaviour is one of the three. *)
EXTENDS AllPlatform, TLC

CONSTANTS First, Second, One, Other

VARIABLE which

File(one, other, connection) ==
    [controllers |-> [i \in Connections |-> IF i = One THEN one ELSE other],
     devices     |-> [i \in Devices |-> connection]]

\* The platform's configurations: a controller with its device, the device moved to another of
\* two controllers, a controller disabled with its device, and nothing.
MCFiles == {File(First, Absent, One), File(First, Second, Other),
            File(Skipped, Absent, One), File(Absent, Absent, Absent)}

\* Up to three points.
MCPointLists == {{p, q, r} : p, q, r \in Points}

MCInit ==
    /\ which \in {"sync", "read", "command"}
    /\ Init /\ (which # "sync" => file = [o \in Outputs |-> Absent])
    /\ \/ which = "read" /\ ReadInit
       \/ which # "read" /\ function = "coil" /\ points = {} /\ declared = FALSE
                         /\ todo = Plan /\ results = NoResults /\ failed = FALSE
    /\ CommandInit /\ (which # "command" => output = CHOOSE o \in Receivers : TRUE)

MCNext ==
    /\ UNCHANGED which
    /\ \/ which = "sync" /\ Next /\ UNCHANGED <<readVars, commandVars>>
       \/ which = "read" /\ ReadNext /\ UNCHANGED <<vars, commandVars>>
       \/ which = "command" /\ CommandNext /\ UNCHANGED <<vars, readVars>>

MCSpec == MCInit /\ [][MCNext]_<<which, vars, readVars, commandVars>>

Symmetry == Permutations(Syncs) \cup Permutations(Outputs) \cup Permutations(Instances)
=============================================================================
