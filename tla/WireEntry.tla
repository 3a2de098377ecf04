----------------------------- MODULE WireEntry -----------------------------
(***************************************************************************)
(* An event on its way out: the CanalEvent of canal-common, the protobuf   *)
(* messages of canal-proto it is sent in, the server's conversion          *)
(* (canal-server/src/conversion.rs), the client's way back                 *)
(* (canal-client/src/lib.rs, entry_bytes_to_event) and the Kafka           *)
(* connector's payload (canal-connector/src/kafka.rs).                     *)
(*                                                                         *)
(* Protobuf keeps every field as it is, except that a string that is not   *)
(* set is an empty one.  server_id and execute_time are copied like        *)
(* position and are left out; row_change repeats the event's schema and    *)
(* table (connector.rs:408-410), and the client fills them from the        *)
(* header, so they stand in the event only.                                *)
(***************************************************************************)
EXTENDS Integers, Sequences

CONSTANTS
    Null,        \* Option::None
    Empty,       \* the empty string
    Strings      \* names and values

ASSUME WireAssumption == Empty \in Strings /\ Null \notin Strings

-----------------------------------------------------------------------------
(* canal-common.                                                           *)
DmlType == {"Insert", "Update", "Delete"}

EventType == DmlType \cup {"Ddl", "Query", "Rotate", "Xid", "Heartbeat", "Unknown"}

ColumnValue == [name : Strings, value : Strings \cup {Null}, column_type : Int,
                is_key : BOOLEAN, updated : BOOLEAN]

RowData == Seq(ColumnValue)

RowChange == [dml_type : DmlType, before : RowData \cup {Null}, after : RowData \cup {Null}]

CanalEvent == [journal : Strings, position : Nat, entry_type : EventType,
               schema : Strings, table : Strings,
               row_change : RowChange \cup {Null},
               ddl_sql : Strings \cup {Null}, gtid : Strings \cup {Null}]

-----------------------------------------------------------------------------
(* canal-proto: the messages an event is sent in, as far as they are used. *)
ProtoEventType == 0 .. 15

Column == [name : Strings, value : Strings, sql_type : Int, is_key : BOOLEAN,
           updated : BOOLEAN, is_null : BOOLEAN]

ProtoRowData == [before_columns : Seq(Column), after_columns : Seq(Column)]

ProtoRowChange == [event_type : ProtoEventType, row_datas : Seq(ProtoRowData),
                   sql : Strings, is_ddl : BOOLEAN]

Header == [logfile_name : Strings, logfile_offset : Nat, schema_name : Strings,
           table_name : Strings, gtid : Strings, event_type : ProtoEventType]

Entry == [header : Header, store_value : ProtoRowChange]

-----------------------------------------------------------------------------
(* conversion.rs.                                                          *)
ToProtoType(t) ==
    CASE t = "Insert" -> 1
      [] t = "Update" -> 2
      [] t = "Delete" -> 3
      [] t \in {"Ddl", "Query", "Rotate"} -> 7
      [] t = "Xid" -> 13
      [] t = "Heartbeat" -> 15

OrEmpty(s) == IF s = Null THEN Empty ELSE s      \* unwrap_or_default

(* Fault: an empty value is sent as NULL.                                  *)
EmptyIsNull(col, updated) ==
    [name |-> col.name, value |-> OrEmpty(col.value), sql_type |-> col.column_type,
     is_key |-> col.is_key, updated |-> updated, is_null |-> col.value \in {Null, Empty}]

column_value_to_proto(col, updated) ==
    [name |-> col.name, value |-> OrEmpty(col.value), sql_type |-> col.column_type,
     is_key |-> col.is_key, updated |-> updated, is_null |-> col.value = Null]

BeforeColumns(row) ==
    IF row = Null THEN <<>>
    ELSE [i \in 1 .. Len(row) |-> column_value_to_proto(row[i], FALSE)]

(* Fault: the flags of the after image are left out, too.                  *)
AfterUnflagged(row) ==
    IF row = Null THEN <<>>
    ELSE [i \in 1 .. Len(row) |-> column_value_to_proto(row[i], FALSE)]

AfterColumns(row) ==
    IF row = Null THEN <<>>
    ELSE [i \in 1 .. Len(row) |-> column_value_to_proto(row[i], row[i].updated)]

StoreValue(event) ==
    IF event.row_change # Null
    THEN [event_type |-> ToProtoType(event.row_change.dml_type),
          row_datas |-> << [before_columns |-> BeforeColumns(event.row_change.before),
                            after_columns |-> AfterColumns(event.row_change.after)] >>,
          sql |-> Empty, is_ddl |-> FALSE]
    ELSE [event_type |-> ToProtoType(IF event.ddl_sql # Null THEN "Query"
                                     ELSE event.entry_type),
          row_datas |-> <<>>,
          sql |-> OrEmpty(event.ddl_sql), is_ddl |-> event.ddl_sql # Null]

(* The one error: handle_get fails with it and the connection ends.        *)
Convertible(event) == event.entry_type # "Unknown"

canal_event_to_entry(event) ==
    [header |-> [logfile_name |-> event.journal, logfile_offset |-> event.position,
                 schema_name |-> event.schema, table_name |-> event.table,
                 gtid |-> OrEmpty(event.gtid), event_type |-> ToProtoType(event.entry_type)],
     store_value |-> StoreValue(event)]

-----------------------------------------------------------------------------
(* types.rs, EventType::from_proto.                                        *)
FromProtoType(v) ==
    CASE v = 1 -> "Insert"
      [] v = 2 -> "Update"
      [] v = 3 -> "Delete"
      [] v \in {4, 7} -> "Ddl"
      [] v = 5 -> "Query"
      [] v = 13 -> "Xid"
      [] v = 15 -> "Heartbeat"
      [] OTHER -> "Unknown"

(* entry_bytes_to_event.                                                   *)
ColumnFromProto(c) ==
    [name |-> c.name, value |-> IF c.value = Empty /\ c.is_null THEN Null ELSE c.value,
     column_type |-> c.sql_type, is_key |-> c.is_key, updated |-> c.updated]

RowFromProto(columns) ==
    IF columns = <<>> THEN Null
    ELSE [i \in 1 .. Len(columns) |-> ColumnFromProto(columns[i])]

DmlFromProto(v) == IF v = 2 THEN "Update" ELSE IF v = 3 THEN "Delete" ELSE "Insert"

ChangeFromProto(rc) ==
    IF rc.is_ddl \/ rc.row_datas = <<>> THEN Null
    ELSE [dml_type |-> DmlFromProto(rc.event_type),
          before |-> RowFromProto(rc.row_datas[1].before_columns),
          after |-> RowFromProto(rc.row_datas[1].after_columns)]

entry_to_event(entry) ==
    LET hdr == entry.header
        rc == entry.store_value
    IN  [journal |-> hdr.logfile_name, position |-> hdr.logfile_offset,
         entry_type |-> FromProtoType(hdr.event_type),
         schema |-> hdr.schema_name, table |-> hdr.table_name,
         row_change |-> ChangeFromProto(rc),
         ddl_sql |-> IF rc.is_ddl THEN rc.sql ELSE Null,
         gtid |-> IF hdr.gtid = Empty THEN Null ELSE hdr.gtid]

-----------------------------------------------------------------------------
(* kafka.rs, serialize_events: the payload of an event.  Options that are  *)
(* None and flags that are false are left out of the JSON, so a reader     *)
(* finds the same record.                                                  *)
KafkaColumns(row, before) ==
    IF row = Null THEN Null
    ELSE [i \in 1 .. Len(row) |->
            [name |-> row[i].name, value |-> row[i].value, is_key |-> row[i].is_key,
             updated |-> ~ before /\ row[i].updated]]

KafkaPayload(event) ==
    [schema |-> event.schema, table |-> event.table, type |-> event.entry_type,
     position |-> event.position, journal |-> event.journal, gtid |-> event.gtid,
     row_change |-> IF event.row_change = Null THEN Null
                    ELSE [dml_type |-> event.row_change.dml_type,
                          before |-> KafkaColumns(event.row_change.before, TRUE),
                          after |-> KafkaColumns(event.row_change.after, FALSE)],
     ddl_sql |-> event.ddl_sql]

-----------------------------------------------------------------------------
(* The events the wire can carry without loss.  "Ddl, Query, and Rotate    *)
(* are all serialized as proto Query = 7 ... so all three round-trip as    *)
(* EventType::Ddl" (types.rs:102-104); an image without columns comes back *)
(* as none, an empty gtid as none, and the before image has no flags.      *)
Image(row) ==
    row = Null \/ (row \in RowData /\ Len(row) > 0)

Unflagged(row) ==
    row # Null => \A i \in 1 .. Len(row) : row[i].updated = FALSE

Lossless(event) ==
    /\ event.entry_type \notin {"Query", "Rotate", "Unknown"}
    /\ event.gtid # Empty
    /\ event.row_change # Null =>
          /\ event.ddl_sql = Null
          /\ Image(event.row_change.before) /\ Image(event.row_change.after)
          /\ Unflagged(event.row_change.before)
=============================================================================
