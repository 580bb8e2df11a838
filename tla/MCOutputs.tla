----------------------------- MODULE MCOutputs ------------------------------
(* The outputs share no state: a behaviour is that of one batch output or of *)
(* the Sparkplug output.                                                     *)
EXTENDS AllOutputs, TLC

VARIABLE which

MCInit ==
    /\ which \in {"batch", "sparkplug"}
    /\ Init /\ (which = "sparkplug" => kind = CHOOSE k \in Kinds : TRUE)
    /\ Spark!SparkInit /\ (which = "batch" => stored = [d \in SparkDevices |-> Names])

MCNext ==
    /\ UNCHANGED which
    /\ \/ which = "batch" /\ Next /\ UNCHANGED sparkVars
       \/ which = "sparkplug" /\ Spark!SparkNext /\ UNCHANGED vars

MCSpec == MCInit /\ [][MCNext]_<<which, vars, sparkVars>>

Symmetry == Permutations(Devices)

\* Bound: points, notifications, rebuilds and changes of the platform's configuration
\* together, for the outputs that have them all.
MaxEvents == 3

Bounded ==
    kind \in {"thingsboard", "smardaten"} =>
        made + used.notices + used.mappings + used.builds <= MaxEvents
=============================================================================
