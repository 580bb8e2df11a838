----------------------------- MODULE MCProcessing -----------------------------
(* One point, with settings that filter, aggregate, do both, or are invalid.    *)
EXTENDS Processing

CONSTANTS temp

Deadband(delta)  == [type |-> "deadband", delta |-> delta]
Between(m, n)    == [type |-> "threshold", op |-> "between", value |-> 0, min |-> m, max |-> n]
DropBad          == [type |-> "quality", dropBad |-> TRUE]
Over(type)       == [type |-> type, window |-> "10s", emit |-> "temp.10s"]

MCNumbers == {-1, 1, 2}

MCSettings ==
    { [filters |-> <<Deadband(2)>>, aggregate |-> None],
      [filters |-> <<Deadband(1), Between(1, 2), DropBad>>, aggregate |-> None],
      [filters |-> <<Deadband(-1)>>, aggregate |-> None],
      [filters |-> <<Deadband(2)>>, aggregate |-> Over("avg")],
      [filters |-> <<>>, aggregate |-> Over("min")] }
=============================================================================
