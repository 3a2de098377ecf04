--------------------------- MODULE MCEventStore ----------------------------
(***************************************************************************)
(* Instances of EventStore for TLC.  The offsets fall while the journals   *)
(* rise, so that the order of positions is not the order of offsets, and   *)
(* the batches may exceed the capacity.                                    *)
(***************************************************************************)
EXTENDS EventStore

MCPositions == {[suffix |-> 1, position |-> 300],
                [suffix |-> 2, position |-> 120],
                [suffix |-> 2, position |-> 200]}
=============================================================================
