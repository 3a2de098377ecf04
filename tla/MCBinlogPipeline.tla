-------------------------- MODULE MCBinlogPipeline --------------------------
(***************************************************************************)
(* BinlogPipeline for TLC: a channel that fills up, batches of three rows, *)
(* binlog events of up to three rows.                                      *)
(***************************************************************************)
EXTENDS BinlogPipeline
=============================================================================
