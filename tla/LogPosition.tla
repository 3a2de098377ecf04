---------------------------- MODULE LogPosition ----------------------------
(***************************************************************************)
(* Binlog positions and their order (canal-common/src/types.rs).           *)
(*                                                                         *)
(* A journal name enters every comparison only through the number          *)
(* binlog_suffix reads off it, so a journal is that number here.  Cursors  *)
(* are LogPosition values too: one that came from ClientAuth's             *)
(* start_timestamp has a timestamp and no usable position.                 *)
(***************************************************************************)
EXTENDS Naturals

CONSTANT None     \* Option::None

Position == [suffix : Nat, position : Nat]

(* Ord::cmp: the journal's suffix first, then the offset in the journal.   *)
PosLess(p, q) == \/ p.suffix < q.suffix
                 \/ p.suffix = q.suffix /\ p.position < q.position

PosLeq(p, q) == PosLess(p, q) \/ p = q

(* LogPosition::new leaves the timestamp unset; 0 stands for that, since   *)
(* handle_auth only accepts a start_timestamp > 0.                         *)
AtPosition(p) == [pos |-> p, timestamp |-> 0]

(* Fault: the timestamp is not carried over.                               *)
AtNoTimestamp(ts) == [pos |-> None, timestamp |-> 0]

AtTimestamp(ts) == [pos |-> None, timestamp |-> ts]

PosCursor == [pos : Position, timestamp : {0}]

TimeCursor == [pos : {None}, timestamp : Nat \ {0}]

Cursor == PosCursor \cup TimeCursor

ASSUME NoneAssumption == None \notin Position /\ None \notin Cursor
=============================================================================
