----------------------------- MODULE AllOutputs -----------------------------
(* The batch outputs and the Sparkplug output side by side.  They share no state; *)
(* the names of the Sparkplug output that the batch outputs have too are changed. *)
EXTENDS Outputs

CONSTANTS SparkDevices, Names, Notifiers, Sequence, MaxConnects, MaxReports, MaxEdits, MaxData

VARIABLES connection, closed, stored, bornAll, born, meta, waiting, births, task, slot,
          saved, host, raced, unsent, unresolved, dropped, count

sparkVars == <<connection, closed, stored, bornAll, born, meta, waiting, births, task, slot,
               saved, host, raced, unsent, unresolved, dropped, count>>

Spark == INSTANCE Sparkplug
            WITH Devices <- SparkDevices, MaxNotices <- MaxReports, MaxPoints <- MaxData

\* A device of the Sparkplug output has finitely many points, and connections are counted.
ASSUME SparkAssumption ==
    None \notin SparkDevices /\ IsFiniteSet(Names) /\ MaxConnects \in Nat

\* The types of the variables of both modules.
TypesOK == TypeOK /\ Spark!SparkTypeOK

\* See Sparkplug: no undeclared alias arrives, and the devices shown alive are those that the
\* output takes for born (sparkplugb.go:188-265).
HostViewIsRight == Spark!HostViewIsRight

\* See Sparkplug: docs/sparkplugb.md:120 says that what is published while not connected is
\* saved.  Expected to fail.
DisconnectedIsSaved == Spark!DisconnectedIsSaved
=============================================================================
