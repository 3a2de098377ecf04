---------------------------- MODULE BinlogRows -----------------------------
(***************************************************************************)
(* What the replication thread makes of the binlog: run_replication's loop *)
(* body and process_and_send (canal-binlog/src/connector.rs), the          *)
(* converter and its table map (converter.rs, table_map.rs), and the       *)
(* columns (column_serde.rs).                                              *)
(*                                                                         *)
(* MySQL writes the binlog and the thread reads it event by event, so an   *)
(* event is one action, for both: MySQL's part keeps `mysql` and `truth`,  *)
(* the thread's part keeps `reader` and `sent`.  Channel, batches and      *)
(* store are the matter of BinlogPipeline and EventStore.                  *)
(*                                                                         *)
(* Rows are logged in full (binlog_row_image = FULL), and a value is the   *)
(* string mysql_value_to_string makes of it.                               *)
(***************************************************************************)
EXTENDS WireEntry

CONSTANTS
    TableIds,        \* MySQL's table ids
    TableDefs,       \* contents of a table map event, see TableDef
    Journals,        \* binlog files, in the order they are used
    Gtids,           \* gtids of transactions; Null: an anonymous one
    Statements,      \* SQL of query events
    LongSql,         \* those over DDL_SQL_MAX_LEN bytes
    Truncated,       \* their first DDL_SQL_MAX_LEN characters
    Values,          \* values of a column; Null: NULL
    ColumnName,      \* "col_i", for each column number i
    MaxSent,         \* bound: rows and statements in a behaviour
    MaxEvents        \* bound: binlog events in a behaviour

(* A table map event.  names and keys are there with                       *)
(* binlog_row_metadata = FULL only; names may be Null, and keys empty.     *)
TableDef == [schema : Strings, table : Strings, types : Seq(Int),
             names : Seq(Strings) \cup {Null},
             simple_keys : SUBSET Nat, prefix_keys : SUBSET Nat]

ASSUME RowsAssumption ==
    /\ TableDefs \subseteq TableDef
    /\ \A d \in TableDefs : Len(d.types) > 0 /\ 1 .. Len(d.types) \subseteq DOMAIN ColumnName
    /\ Journals \in Seq(Strings) /\ Len(Journals) > 0
    /\ Gtids \subseteq (Strings \ {Empty}) \cup {Null}
    /\ Statements \subseteq Strings /\ LongSql \subseteq Statements
    /\ Truncated \in [LongSql -> Strings]
    /\ Values \subseteq Strings \cup {Null}
    /\ \A i \in DOMAIN ColumnName : ColumnName[i] \in Strings
    /\ MaxSent \in Nat /\ MaxEvents \in Nat

VARIABLES
    mysql,     \* the server: file, events written, transaction and the tables mapped
               \* in it; `unseen` were mapped before the thread started
    reader,    \* the thread: current_binlog_file, current_gtid, the table map
    sent,      \* what it has sent into the channel, in order: events, or Err
    truth      \* history: what happened in MySQL, event by event

rowVars == <<mysql, reader, sent, truth>>

-----------------------------------------------------------------------------
Err == [entry_type |-> "Err"]        \* a CanalResult::Err

NothingMapped == [id \in TableIds |-> Null]

(* The thread starts anywhere, at the start of a transaction or inside     *)
(* one: then MySQL has mapped tables the thread knows nothing about.       *)
RowsInit ==
    /\ \E inside \in BOOLEAN : \E bound \in [TableIds -> TableDefs \cup {Null}] :
         /\ ~ inside => bound = NothingMapped
         /\ mysql = [file |-> 1, written |-> 0, in_tx |-> inside, gtid |-> Null,
                     bound |-> bound, unseen |-> {id \in TableIds : bound[id] # Null}]
    /\ reader = [file |-> Journals[1], gtid |-> Null,
                 names |-> <<>>, columns |-> <<>>]
    /\ sent = <<>>
    /\ truth = <<>>

-----------------------------------------------------------------------------
(* column_serde.rs.  A column without a name of its own gets a number.     *)
NameOf(def, i) ==
    IF def.names # Null /\ i <= Len(def.names) THEN def.names[i] ELSE ColumnName[i]

build_column_infos(def) ==
    [i \in 1 .. Len(def.types) |->
        [name |-> NameOf(def, i), column_type |-> def.types[i],
         is_key |-> i \in def.simple_keys \cup def.prefix_keys]]

extract_column_values(cells, infos) ==
    [i \in 1 .. Len(cells) |->
        IF i <= Len(infos)
        THEN [name |-> infos[i].name, value |-> cells[i],
              column_type |-> infos[i].column_type, is_key |-> infos[i].is_key,
              updated |-> FALSE]
        ELSE [name |-> ColumnName[i], value |-> cells[i], column_type |-> 0,
              is_key |-> FALSE, updated |-> FALSE]]

(* table_map.rs: names and columns of the table ids seen since the last    *)
(* rotation, as two maps.                                                  *)
Assigned(f, k, v) == [x \in DOMAIN f \cup {k} |-> IF x = k THEN v ELSE f[x]]

(* Fault: columns that are known already are kept.                         *)
ColumnsOnce(r, id, def) ==
    [r EXCEPT !.names = Assigned(@, id, [schema |-> def.schema, table |-> def.table]),
              !.columns = IF id \in DOMAIN @ THEN @
                          ELSE Assigned(@, id, build_column_infos(def))]

put_with_columns(r, id, def) ==
    [r EXCEPT !.names = Assigned(@, id, [schema |-> def.schema, table |-> def.table]),
              !.columns = Assigned(@, id, build_column_infos(def))]

ClearTableMap(r) == [r EXCEPT !.names = <<>>, !.columns = <<>>]

GetColumns(r, id) == IF id \in DOMAIN r.columns THEN r.columns[id] ELSE <<>>

(* converter.rs.                                                           *)
handle_row_event(type, columns) ==
    IF type = "Insert" THEN [dml_type |-> "Insert", before |-> Null, after |-> columns]
    ELSE [dml_type |-> "Delete", before |-> columns, after |-> Null]

Changed(before, after, i) ==
    i > Len(before) \/ before[i].value # after[i].value

handle_update_row_event(before, after) ==
    [dml_type |-> "Update", before |-> before,
     after |-> [i \in 1 .. Len(after) |->
                  [after[i] EXCEPT !.updated = Changed(before, after, i)]]]

-----------------------------------------------------------------------------
(* send_row_events, send_update_events: an event for each row, or an error *)
(* when the table id is not in the map.  A row is the pair of its images,  *)
(* of which an insert and a delete have one.                               *)
Change(type, row, infos) ==
    IF type = "Update"
    THEN handle_update_row_event(extract_column_values(row.before, infos),
                                 extract_column_values(row.after, infos))
    ELSE handle_row_event(type,
           extract_column_values(IF type = "Insert" THEN row.after ELSE row.before, infos))

RowEvent(r, pos, type, id, row) ==
    IF id \notin DOMAIN r.names THEN Err
    ELSE [journal |-> r.file, position |-> pos, entry_type |-> type,
          schema |-> r.names[id].schema, table |-> r.names[id].table,
          row_change |-> Change(type, row, GetColumns(r, id)),
          ddl_sql |-> Null, gtid |-> r.gtid]

Shortened(sql) == IF sql \in LongSql THEN Truncated[sql] ELSE sql

QueryEvent(r, pos, schema, sql) ==
    [journal |-> r.file, position |-> pos, entry_type |-> "Ddl",
     schema |-> schema, table |-> Empty, row_change |-> Null,
     ddl_sql |-> Shortened(sql), gtid |-> r.gtid]

-----------------------------------------------------------------------------
(* What MySQL did, said from MySQL's side: the row of the table that is    *)
(* mapped now, in the file that is written now, in this transaction.       *)
TrueColumn(def, i, value, flag) ==
    [name |-> NameOf(def, i), value |-> value, column_type |-> def.types[i],
     is_key |-> i \in def.simple_keys \/ i \in def.prefix_keys, updated |-> flag]

TrueImage(def, cells, flags) ==
    [i \in 1 .. Len(def.types) |-> TrueColumn(def, i, cells[i], i \in flags)]

TrueChange(def, type, row) ==
    LET changed == {i \in 1 .. Len(def.types) : row.before[i] # row.after[i]}
    IN  [dml_type |-> type,
         before |-> IF type = "Insert" THEN Null ELSE TrueImage(def, row.before, {}),
         after |-> IF type = "Delete" THEN Null
                   ELSE TrueImage(def, row.after, IF type = "Update" THEN changed ELSE {})]

TrueEvent(type, schema, table, change, sql) ==
    [journal |-> Journals[mysql.file], position |-> mysql.written + 1,
     entry_type |-> type, schema |-> schema, table |-> table,
     row_change |-> change, ddl_sql |-> sql, gtid |-> mysql.gtid]

TrueRow(type, def, row) ==
    TrueEvent(type, def.schema, def.table, TrueChange(def, type, row), Null)

Lost == [lost |-> TRUE, event |-> Null]

Happened(event) == [lost |-> FALSE, event |-> event]

-----------------------------------------------------------------------------
(* The binlog, event by event.                                             *)
Writes == mysql.written < MaxEvents

Written(m) == [m EXCEPT !.written = @ + 1]

(* Fault: the file changes without the reader's noticing.                  *)
KeepFile(r, file) == ClearTableMap(r)

Rotated(r, file) == ClearTableMap([r EXCEPT !.file = file])

(* RotateEvent, between transactions only: a transaction is in one file.   *)
Rotate ==
    /\ Writes /\ ~ mysql.in_tx
    /\ mysql.file < Len(Journals)
    /\ mysql' = [Written(mysql) EXCEPT !.file = @ + 1]
    /\ reader' = Rotated(reader, Journals[mysql'.file])
    /\ UNCHANGED <<sent, truth>>

(* A transaction starts: with a gtid event, or with an anonymous one,      *)
(* which the loop skips like any it does not know.                         *)
Gtid(gtid) ==
    /\ Writes /\ ~ mysql.in_tx
    /\ mysql' = [Written(mysql) EXCEPT !.in_tx = TRUE, !.gtid = gtid]
    /\ reader' = IF gtid = Null THEN reader ELSE [reader EXCEPT !.gtid = gtid]
    /\ UNCHANGED <<sent, truth>>

(* QueryEvent: BEGIN, or a DDL statement, which is its transaction.        *)
Query(schema, sql) ==
    /\ Writes /\ mysql.in_tx /\ Len(sent) < MaxSent
    /\ mysql' \in {Written(mysql), [Written(mysql) EXCEPT !.in_tx = FALSE]}
    /\ mysql'.in_tx \/ mysql.bound = NothingMapped
    /\ sent' = Append(sent, QueryEvent(reader, mysql'.written, schema, sql))
    /\ truth' = Append(truth, Happened(TrueEvent("Ddl", schema, Empty, Null, Shortened(sql))))
    /\ UNCHANGED reader

TableMap(id, def) ==
    /\ Writes /\ mysql.in_tx
    /\ mysql' = [Written(mysql) EXCEPT !.bound[id] = def, !.unseen = @ \ {id}]
    /\ reader' = put_with_columns(reader, id, def)
    /\ UNCHANGED <<sent, truth>>

Cells(def) == [1 .. Len(def.types) -> Values]

RowsOf(type, def) ==
    [before : IF type = "Insert" THEN {<<>>} ELSE Cells(def),
     after : IF type = "Delete" THEN {<<>>} ELSE Cells(def)]

(* Write-, Update- and DeleteRowsEvent, of a table MySQL has mapped.       *)
Rows(type, id) ==
    /\ Writes /\ mysql.in_tx
    /\ mysql.bound[id] # Null
    /\ mysql' = Written(mysql)
    /\ \E n \in 1 .. MaxSent - Len(sent) :
       \E rows \in [1 .. n -> RowsOf(type, mysql.bound[id])] :
         /\ sent' = sent \o [i \in 1 .. n |->
                               RowEvent(reader, mysql'.written, type, id, rows[i])]
         /\ truth' = truth \o [i \in 1 .. n |->
                               IF id \in mysql.unseen THEN Lost
                               ELSE Happened(TrueRow(type, mysql.bound[id], rows[i]))]
    /\ UNCHANGED reader

(* XidEvent, the commit: nothing is sent; MySQL's table maps end with it,  *)
(* the reader's stay.                                                      *)
Xid ==
    /\ Writes /\ mysql.in_tx
    /\ mysql' = [Written(mysql) EXCEPT !.in_tx = FALSE,
                                       !.bound = NothingMapped, !.unseen = {}]
    /\ UNCHANGED <<reader, sent, truth>>

RowsNext ==
    \/ Rotate \/ Xid
    \/ \E gtid \in Gtids : Gtid(gtid)
    \/ \E def \in TableDefs, sql \in Statements : Query(def.schema, sql)
    \/ \E id \in TableIds, def \in TableDefs : TableMap(id, def)
    \/ \E type \in DmlType, id \in TableIds : Rows(type, id)
-----------------------------------------------------------------------------
(* Properties.                                                             *)

RowsTypeOK ==
    /\ mysql \in [file : 1 .. Len(Journals), written : 0 .. MaxEvents, in_tx : BOOLEAN,
                  gtid : Gtids \cup {Null},
                  bound : [TableIds -> TableDefs \cup {Null}], unseen : SUBSET TableIds]
    /\ reader.file \in Strings /\ reader.gtid \in Gtids \cup {Null}
    /\ DOMAIN reader.names \subseteq TableIds /\ DOMAIN reader.columns = DOMAIN reader.names
    /\ \A i \in 1 .. Len(sent) : sent[i] = Err \/ sent[i] \in CanalEvent

(* Each event says what happened in MySQL, in the order in which it did:   *)
(* the row of the table its id was mapped to then, with that table's       *)
(* column names, types and keys, flags on what an update changed, and the  *)
(* journal it was in (connector.rs:228-230, 292-472, converter.rs:79-113,  *)
(* table_map.rs:39-61), whichever tables had an id before and whatever     *)
(* files came between.  An error stands for exactly the rows whose table   *)
(* was mapped before the thread started.  The gtid is the transaction's    *)
(* if it has one; an anonymous transaction gets the one before it.         *)
SaysWhatHappened(event, t) ==
    IF t.lost THEN event = Err
    ELSE /\ event # Err
         /\ event = [t.event EXCEPT !.gtid = event.gtid]
         /\ t.event.gtid # Null => event.gtid = t.event.gtid

ReaderTellsTheTruth ==
    /\ Len(sent) = Len(truth)
    /\ \A i \in 1 .. Len(truth) : SaysWhatHappened(sent[i], truth[i])

(* No event loses anything on the wire: what the client makes of the entry *)
(* the server makes of it (conversion.rs:8-123, lib.rs:305-432) is the     *)
(* event the reader sent, NULL, empty values, empty images and flags       *)
(* included.                                                               *)
NothingLostOnTheWire ==
    \A i \in 1 .. Len(sent) :
        sent[i] # Err =>
            /\ Convertible(sent[i])
            /\ entry_to_event(canal_event_to_entry(sent[i])) = sent[i]

(* A Kafka consumer and a TCP client are told the same of every event,     *)
(* though by two conversions (kafka.rs:112-170, conversion.rs:8-105 with   *)
(* lib.rs:305-432): the payload is the one of what the client reads.       *)
KafkaSaysTheSame ==
    \A i \in 1 .. Len(sent) :
        sent[i] # Err =>
            KafkaPayload(sent[i]) = KafkaPayload(entry_to_event(canal_event_to_entry(sent[i])))
=============================================================================
