-------------------------- MODULE MCSinkDispatch ---------------------------
(***************************************************************************)
(* Instance of SinkDispatch for TLC.                                       *)
(***************************************************************************)
EXTENDS SinkDispatch

CONSTANTS feeder, other
=============================================================================
