------------------------- MODULE RowDeliveryProofs -------------------------
(***************************************************************************)
(* Proofs about BinlogRows and its events on the wire, for all tables, ids *)
(* of tables, values, gtids and files, and every bound: RowsInv, for what  *)
(* the thread sends, and FramesInv, for how it gets to the consumer over   *)
(* two streams of bytes that are cut anywhere.                             *)
(***************************************************************************)
EXTENDS RowDelivery, SelectionProofs, FiniteSetTheorems

-----------------------------------------------------------------------------
(* The wire.                                                               *)

(* A column comes back as it was, with the flag it was sent with: NULL and *)
(* the empty string stay apart.                                            *)
LEMMA ColumnRoundTrip ==
    ASSUME NEW col \in ColumnValue, NEW flag \in BOOLEAN
    PROVE  ColumnFromProto(column_value_to_proto(col, flag)) = [col EXCEPT !.updated = flag]
  <1> DEFINE c == column_value_to_proto(col, flag)
  <1>1. /\ c.name = col.name /\ c.sql_type = col.column_type
        /\ c.is_key = col.is_key /\ c.updated = flag
    BY DEF column_value_to_proto
  <1>2. c.value = OrEmpty(col.value) /\ (c.is_null <=> col.value = Null)
    BY DEF column_value_to_proto
  <1>3. (IF c.value = Empty /\ c.is_null THEN Null ELSE c.value) = col.value
    BY <1>2, Zenon DEF OrEmpty
  <1>4. [col EXCEPT !.updated = flag] =
          [name |-> col.name, value |-> col.value, column_type |-> col.column_type,
           is_key |-> col.is_key, updated |-> flag]
    BY DEF ColumnValue
  <1> HIDE DEF c
  <1>5. ColumnFromProto(c) =
          [name |-> c.name, value |-> IF c.value = Empty /\ c.is_null THEN Null ELSE c.value,
           column_type |-> c.sql_type, is_key |-> c.is_key, updated |-> c.updated]
    BY DEF ColumnFromProto
  <1> QED
    BY <1>1, <1>3, <1>4, <1>5 DEF c

(* An image with columns comes back as it was, if its flags were sent; and *)
(* a missing one as none.                                                  *)
LEMMA ImageRoundTrip ==
    ASSUME NEW row, row = Null \/ (row \in RowData /\ Len(row) > 0)
    PROVE  /\ RowFromProto(AfterColumns(row)) = row
           /\ Unflagged(row) => RowFromProto(BeforeColumns(row)) = row
  <1>1. CASE row = Null
    BY <1>1 DEF RowFromProto, AfterColumns, BeforeColumns
  <1>2. CASE row # Null
    <2>1. row \in Seq(ColumnValue) /\ Len(row) \in Nat /\ Len(row) > 0
      BY <1>2 DEF RowData
    <2>2. \A i \in 1 .. Len(row) : row[i] \in ColumnValue
      BY <2>1
    <2>3. row = [i \in 1 .. Len(row) |-> row[i]]
      BY <2>1
    <2>4. ASSUME NEW F, F \in [1 .. Len(row) -> BOOLEAN],
                 \A i \in 1 .. Len(row) : F[i] = row[i].updated,
                 NEW cols, cols = [i \in 1 .. Len(row) |-> column_value_to_proto(row[i], F[i])]
          PROVE  RowFromProto(cols) = row
      <3>1. Len(cols) = Len(row) /\ cols # <<>>
        BY <2>1, <2>4
      <3>2. \A i \in 1 .. Len(row) : ColumnFromProto(cols[i]) = row[i]
        BY <2>2, <2>4, ColumnRoundTrip DEF ColumnValue
      <3>3. [i \in 1 .. Len(cols) |-> ColumnFromProto(cols[i])] = [i \in 1 .. Len(row) |-> row[i]]
        BY <3>1, <3>2
      <3> QED
        BY <2>3, <3>1, <3>3 DEF RowFromProto
    <2>5. RowFromProto(AfterColumns(row)) = row
      <3>1. PICK F : F = [j \in 1 .. Len(row) |-> row[j].updated]
        OBVIOUS
      <3>2. F \in [1 .. Len(row) -> BOOLEAN] /\ \A i \in 1 .. Len(row) : F[i] = row[i].updated
        BY <2>2, <3>1 DEF ColumnValue
      <3>3. AfterColumns(row) = [i \in 1 .. Len(row) |-> column_value_to_proto(row[i], F[i])]
        BY <1>2, <3>2 DEF AfterColumns
      <3> QED
        BY <3>2, <3>3, <2>4
    <2>6. ASSUME Unflagged(row) PROVE RowFromProto(BeforeColumns(row)) = row
      <3>1. \A i \in 1 .. Len(row) : row[i].updated = FALSE
        BY <2>6, <1>2 DEF Unflagged
      <3>2. PICK F : F = [j \in 1 .. Len(row) |-> FALSE]
        OBVIOUS
      <3>3. F \in [1 .. Len(row) -> BOOLEAN] /\ \A i \in 1 .. Len(row) : F[i] = row[i].updated
        BY <3>1, <3>2
      <3>4. BeforeColumns(row) = [i \in 1 .. Len(row) |-> column_value_to_proto(row[i], F[i])]
        BY <1>2, <3>2 DEF BeforeColumns
      <3> QED
        BY <3>3, <3>4, <2>4
    <2> QED
      BY <2>5, <2>6
  <1> QED
    BY <1>1, <1>2

(* The types that come back: Query and Rotate do not (types.rs:102-104).     *)
LEMMA TypeRoundTrip ==
    /\ \A t \in EventType \ {"Query", "Rotate", "Unknown"} :
          FromProtoType(ToProtoType(t)) = t
    /\ \A d \in DmlType : DmlFromProto(ToProtoType(d)) = d
  BY DEF EventType, DmlType, FromProtoType, ToProtoType, DmlFromProto

(* What the client makes of the server's entry is the event, for every     *)
(* event the connector can make (conversion.rs:8-123, lib.rs:305-432).     *)
THEOREM RoundTrip ==
    ASSUME NEW e \in CanalEvent, Lossless(e)
    PROVE  Convertible(e) /\ entry_to_event(canal_event_to_entry(e)) = e
  <1> DEFINE entry == canal_event_to_entry(e)
  <1>1. Convertible(e)
    BY DEF Lossless, Convertible
  <1>2. FromProtoType(entry.header.event_type) = e.entry_type
    BY TypeRoundTrip DEF Lossless, CanalEvent, canal_event_to_entry
  <1>3. ChangeFromProto(entry.store_value) = e.row_change
    <2>1. CASE e.row_change = Null
      BY <2>1 DEF ChangeFromProto, canal_event_to_entry, StoreValue
    <2>2. CASE e.row_change # Null
      <3> DEFINE c == e.row_change
                 rc == entry.store_value
      <3>1. c \in RowChange
        BY <2>2 DEF CanalEvent
      <3>2. /\ RowFromProto(BeforeColumns(c.before)) = c.before
            /\ RowFromProto(AfterColumns(c.after)) = c.after
        BY <2>2, <3>1, ImageRoundTrip DEF Lossless, Image
      <3>3. /\ rc.is_ddl = FALSE /\ rc.event_type = ToProtoType(c.dml_type)
            /\ rc.row_datas = << [before_columns |-> BeforeColumns(c.before),
                                  after_columns |-> AfterColumns(c.after)] >>
        BY <2>2 DEF canal_event_to_entry, StoreValue
      <3>4. /\ rc.row_datas # <<>>
            /\ rc.row_datas[1].before_columns = BeforeColumns(c.before)
            /\ rc.row_datas[1].after_columns = AfterColumns(c.after)
        BY <3>3
      <3>5. ChangeFromProto(rc) = [dml_type |-> DmlFromProto(rc.event_type),
                                   before |-> c.before, after |-> c.after]
        BY <3>2, <3>3, <3>4 DEF ChangeFromProto
      <3>6. DmlFromProto(rc.event_type) = c.dml_type
        BY <3>1, <3>3, TypeRoundTrip DEF RowChange
      <3>7. c = [dml_type |-> c.dml_type, before |-> c.before, after |-> c.after]
        BY <3>1 DEF RowChange
      <3> QED
        BY <3>5, <3>6, <3>7
    <2> QED
      BY <2>1, <2>2
  <1>4. /\ (IF entry.store_value.is_ddl THEN entry.store_value.sql ELSE Null) = e.ddl_sql
        /\ (IF entry.header.gtid = Empty THEN Null ELSE entry.header.gtid) = e.gtid
    BY DEF Lossless, canal_event_to_entry, StoreValue, OrEmpty
  <1>5. e = [journal |-> e.journal, position |-> e.position, entry_type |-> e.entry_type,
             schema |-> e.schema, table |-> e.table, row_change |-> e.row_change,
             ddl_sql |-> e.ddl_sql, gtid |-> e.gtid]
    BY DEF CanalEvent
  <1>6. /\ entry.header.logfile_name = e.journal /\ entry.header.logfile_offset = e.position
        /\ entry.header.schema_name = e.schema /\ entry.header.table_name = e.table
    BY DEF canal_event_to_entry
  <1> HIDE DEF entry
  <1>7. entry_to_event(entry) = e
    BY <1>2, <1>3, <1>4, <1>5, <1>6 DEF entry_to_event
  <1> QED
    BY <1>1, <1>7 DEF entry

-----------------------------------------------------------------------------
(* The columns of a row.                                                   *)

LEMMA DefType ==
    ASSUME NEW def \in TableDefs
    PROVE  /\ def.schema \in Strings /\ def.table \in Strings
           /\ Len(def.types) \in Nat /\ Len(def.types) > 0
           /\ \A i \in 1 .. Len(def.types) : def.types[i] \in Int /\ NameOf(def, i) \in Strings
  <1>1. def \in TableDef /\ Len(def.types) > 0 /\ 1 .. Len(def.types) \subseteq DOMAIN ColumnName
    BY RowsAssumption
  <1>2. def.types \in Seq(Int) /\ def.names \in Seq(Strings) \cup {Null}
    BY <1>1 DEF TableDef
  <1>3. \A i \in 1 .. Len(def.types) : def.types[i] \in Int
    BY <1>2
  <1>4. ASSUME NEW i \in 1 .. Len(def.types) PROVE NameOf(def, i) \in Strings
    <2>1. ColumnName[i] \in Strings
      BY <1>1, RowsAssumption
    <2>2. CASE def.names # Null /\ i <= Len(def.names)
      <3>1. def.names \in Seq(Strings) /\ i \in 1 .. Len(def.names)
        BY <1>2, <2>2
      <3> QED
        BY <3>1, <2>2 DEF NameOf
    <2>3. CASE ~ (def.names # Null /\ i <= Len(def.names))
      BY <2>1, <2>3 DEF NameOf
    <2> QED
      BY <2>2, <2>3
  <1> QED
    BY <1>1, <1>2, <1>3, <1>4 DEF TableDef

(* What the thread takes out of a row, with the columns of its table, is   *)
(* the image MySQL logged, with no flags yet.                              *)
LEMMA ExtractIsImage ==
    ASSUME NEW def \in TableDefs, NEW cells \in Cells(def)
    PROVE  extract_column_values(cells, build_column_infos(def)) = TrueImage(def, cells, {})
  <1> DEFINE n == Len(def.types)
             infos == build_column_infos(def)
  <1>1. n \in Nat /\ Len(cells) = n
    BY DefType DEF Cells
  <1>2. Len(infos) = n
    BY <1>1 DEF build_column_infos
  <1>3. ASSUME NEW i \in 1 .. n
        PROVE  [name |-> infos[i].name, value |-> cells[i],
                column_type |-> infos[i].column_type, is_key |-> infos[i].is_key,
                updated |-> FALSE] = TrueColumn(def, i, cells[i], i \in {})
    <2>1. infos[i] = [name |-> NameOf(def, i), column_type |-> def.types[i],
                      is_key |-> i \in def.simple_keys \cup def.prefix_keys]
      BY <1>3 DEF build_column_infos
    <2>2. (i \in def.simple_keys \cup def.prefix_keys)
            = (i \in def.simple_keys \/ i \in def.prefix_keys)
      OBVIOUS
    <2>3. (i \in {}) = FALSE
      OBVIOUS
    <2>4. /\ infos[i].name = NameOf(def, i) /\ infos[i].column_type = def.types[i]
          /\ infos[i].is_key = (i \in def.simple_keys \cup def.prefix_keys)
      BY <2>1
    <2>5. infos[i].is_key = (i \in def.simple_keys \/ i \in def.prefix_keys)
      BY <2>2, <2>4, Zenon
    <2>6. TrueColumn(def, i, cells[i], i \in {})
            = [name |-> NameOf(def, i), value |-> cells[i], column_type |-> def.types[i],
               is_key |-> (i \in def.simple_keys \/ i \in def.prefix_keys),
               updated |-> i \in {}]
      BY Zenon DEF TrueColumn
    <2> QED
      BY <2>3, <2>4, <2>5, <2>6, Zenon
  <1> HIDE DEF infos, n
  <1>4. extract_column_values(cells, infos)
          = [i \in 1 .. n |-> [name |-> infos[i].name, value |-> cells[i],
                               column_type |-> infos[i].column_type,
                               is_key |-> infos[i].is_key, updated |-> FALSE]]
    BY <1>1, <1>2 DEF extract_column_values
  <1>5. TrueImage(def, cells, {}) = [i \in 1 .. n |-> TrueColumn(def, i, cells[i], i \in {})]
    BY DEF TrueImage, n
  <1> QED
    BY <1>3, <1>4, <1>5 DEF infos

(* A column with another flag is the column with that flag.                *)
LEMMA Flagged ==
    ASSUME NEW def, NEW i, NEW value, NEW old, NEW new
    PROVE  /\ TrueColumn(def, i, value, old).value = value
           /\ [TrueColumn(def, i, value, old) EXCEPT !.updated = new]
                = TrueColumn(def, i, value, new)
  BY DEF TrueColumn

(* An image MySQL logged is a row.                                         *)
LEMMA ImageType ==
    ASSUME NEW def \in TableDefs, NEW cells \in Cells(def), NEW flags
    PROVE  /\ TrueImage(def, cells, flags) \in RowData
           /\ Len(TrueImage(def, cells, flags)) = Len(def.types)
           /\ \A i \in 1 .. Len(def.types) :
                 TrueImage(def, cells, flags)[i] = TrueColumn(def, i, cells[i], i \in flags)
  <1> DEFINE n == Len(def.types)
             image == TrueImage(def, cells, flags)
  <1>1. n \in Nat /\ image = [i \in 1 .. n |-> TrueColumn(def, i, cells[i], i \in flags)]
    BY DefType DEF TrueImage
  <1>2. ASSUME NEW i \in 1 .. n PROVE TrueColumn(def, i, cells[i], i \in flags) \in ColumnValue
    <2>1. cells[i] \in Strings \cup {Null}
      BY RowsAssumption DEF Cells
    <2>2. NameOf(def, i) \in Strings /\ def.types[i] \in Int
      BY DefType
    <2>3. (i \in flags) \in BOOLEAN /\ (i \in def.simple_keys \/ i \in def.prefix_keys) \in BOOLEAN
      OBVIOUS
    <2> QED
      BY <2>1, <2>2, <2>3 DEF TrueColumn, ColumnValue
  <1> HIDE DEF n, image
  <1>3. image \in [1 .. n -> ColumnValue]
    BY <1>1, <1>2
  <1>4. image \in Seq(ColumnValue) /\ Len(image) = n
    BY <1>1, <1>3
  <1> QED
    BY <1>1, <1>4 DEF n, image, RowData

(* The change the thread makes of a row is the change in MySQL: the images *)
(* the statement has, and flags on exactly what an update changed.         *)
LEMMA ChangeIsTrue ==
    ASSUME NEW def \in TableDefs, NEW type \in DmlType, NEW row \in RowsOf(type, def)
    PROVE  /\ Change(type, row, build_column_infos(def)) = TrueChange(def, type, row)
           /\ TrueChange(def, type, row) \in RowChange
           /\ LET c == TrueChange(def, type, row)
              IN  Image(c.before) /\ Image(c.after) /\ Unflagged(c.before)
  <1> DEFINE infos == build_column_infos(def)
             n == Len(def.types)
             changed == {i \in 1 .. n : row.before[i] # row.after[i]}
             c == TrueChange(def, type, row)
  <1>1. n \in Nat /\ n > 0
    BY DefType
  <1>2. /\ type # "Insert" => row.before \in Cells(def)
        /\ type # "Delete" => row.after \in Cells(def)
    BY DEF RowsOf
  <1>3. ASSUME NEW cells \in Cells(def), NEW flags
        PROVE  Image(TrueImage(def, cells, flags)) /\ TrueImage(def, cells, flags) \in RowData
    BY <1>1, ImageType DEF Image
  <1>4. ASSUME NEW cells \in Cells(def) PROVE Unflagged(TrueImage(def, cells, {}))
    <2>1. ASSUME NEW i \in 1 .. n PROVE TrueImage(def, cells, {})[i].updated = FALSE
      <3>1. TrueImage(def, cells, {})[i] = TrueColumn(def, i, cells[i], i \in {})
        BY <2>1, ImageType
      <3>2. (i \in {}) = FALSE
        OBVIOUS
      <3>3. TrueImage(def, cells, {})[i] = TrueColumn(def, i, cells[i], FALSE)
        BY <3>1, <3>2, Zenon
      <3> QED
        BY <3>3 DEF TrueColumn
    <2> QED
      BY <2>1, ImageType DEF Unflagged
  <1>5. CASE type = "Insert"
    <2>1. c = [dml_type |-> "Insert", before |-> Null, after |-> TrueImage(def, row.after, {})]
      BY <1>5 DEF TrueChange
    <2>2. Change(type, row, infos) = [dml_type |-> "Insert", before |-> Null,
                                      after |-> extract_column_values(row.after, infos)]
      BY <1>5 DEF Change, handle_row_event
    <2>3. Change(type, row, infos) = c
      BY <1>2, <1>5, <2>1, <2>2, ExtractIsImage
    <2> QED
      BY <1>2, <1>3, <1>5, <2>1, <2>3 DEF RowChange, DmlType, Image, Unflagged
  <1>6. CASE type = "Delete"
    <2>1. c = [dml_type |-> "Delete", before |-> TrueImage(def, row.before, {}), after |-> Null]
      BY <1>6 DEF TrueChange
    <2>2. Change(type, row, infos) = [dml_type |-> "Delete",
                                      before |-> extract_column_values(row.before, infos),
                                      after |-> Null]
      BY <1>6 DEF Change, handle_row_event
    <2>3. Change(type, row, infos) = c
      BY <1>2, <1>6, <2>1, <2>2, ExtractIsImage
    <2> QED
      BY <1>2, <1>3, <1>4, <1>6, <2>1, <2>3 DEF RowChange, DmlType, Image
  <1>7. CASE type = "Update"
    <2>1. c = [dml_type |-> "Update", before |-> TrueImage(def, row.before, {}),
               after |-> TrueImage(def, row.after, changed)]
      BY <1>7 DEF TrueChange
    <2>2. row.before \in Cells(def) /\ row.after \in Cells(def)
      BY <1>2, <1>7
    <2> DEFINE B == TrueImage(def, row.before, {})
               A == TrueImage(def, row.after, {})
    <2>3. Change(type, row, infos) = handle_update_row_event(B, A)
      BY <1>7, <2>2, ExtractIsImage DEF Change
    <2>4. /\ Len(B) = n /\ Len(A) = n
          /\ \A i \in 1 .. n : B[i] = TrueColumn(def, i, row.before[i], i \in {})
          /\ \A i \in 1 .. n : A[i] = TrueColumn(def, i, row.after[i], i \in {})
      BY <2>2, ImageType
    <2> HIDE DEF B, A
    <2>5. ASSUME NEW i \in 1 .. n
          PROVE  [A[i] EXCEPT !.updated = Changed(B, A, i)]
                   = TrueColumn(def, i, row.after[i], i \in changed)
      <3> PICK no : no = (i \in {})
        OBVIOUS
      <3> PICK yes : yes = Changed(B, A, i)
        OBVIOUS
      <3>1. /\ A[i] = TrueColumn(def, i, row.after[i], no)
            /\ B[i] = TrueColumn(def, i, row.before[i], no)
        BY <2>4, <2>5, Zenon
      <3>5. B[i].value = row.before[i] /\ A[i].value = row.after[i]
        BY <3>1, Flagged
      <3>2. ~ (i > Len(B))
        BY <1>1, <2>4, <2>5
      <3>3. Changed(B, A, i) <=> i \in changed
        BY <3>5, <3>2, <2>5 DEF Changed
      <3>4. Changed(B, A, i) = (i \in changed)
        BY <3>3 DEF Changed
      <3>6. [A[i] EXCEPT !.updated = yes] = TrueColumn(def, i, row.after[i], yes)
        BY <3>1, Flagged
      <3> QED
        BY <3>4, <3>6, Zenon
    <2>6. handle_update_row_event(B, A) = [dml_type |-> "Update", before |-> B,
             after |-> [i \in 1 .. n |-> [A[i] EXCEPT !.updated = Changed(B, A, i)]]]
      BY <2>4 DEF handle_update_row_event
    <2>7. TrueImage(def, row.after, changed)
            = [i \in 1 .. n |-> TrueColumn(def, i, row.after[i], i \in changed)]
      BY DEF TrueImage
    <2>8. Change(type, row, infos) = c
      <3> HIDE DEF changed, n, c
      <3>1. [i \in 1 .. n |-> [A[i] EXCEPT !.updated = Changed(B, A, i)]]
              = TrueImage(def, row.after, changed)
        BY <2>5, <2>7, Zenon
      <3> QED
        BY <2>1, <2>3, <2>6, <3>1, Zenon DEF B
    <2> HIDE DEF changed
    <2> QED
      BY <1>3, <1>4, <1>7, <2>1, <2>2, <2>8 DEF RowChange, DmlType
  <1> QED
    BY <1>5, <1>6, <1>7 DEF DmlType

-----------------------------------------------------------------------------
(* The inductive invariant.  What the truth needs of the past is what the  *)
(* table map holds of a table mapped in the transaction that is open:      *)
(* stale ids of earlier transactions may be there too, but MySQL names     *)
(* none of them in a row.                                                  *)
Truth == [lost : BOOLEAN, event : CanalEvent \cup {Null}]

MysqlOK ==
    /\ mysql \in [file : 1 .. Len(Journals), written : Nat, in_tx : BOOLEAN,
                  gtid : Gtids \cup {Null},
                  bound : [TableIds -> TableDefs \cup {Null}], unseen : SUBSET TableIds]
    /\ ~ mysql.in_tx => mysql.bound = NothingMapped
    /\ \A id \in mysql.unseen : mysql.bound[id] # Null

Follows(id, def) ==
    /\ id \in DOMAIN reader.names /\ id \in DOMAIN reader.columns
    /\ reader.names[id] = [schema |-> def.schema, table |-> def.table]
    /\ reader.columns[id] = build_column_infos(def)

ReaderFollows ==
    /\ reader = [file |-> Journals[mysql.file], gtid |-> reader.gtid,
                 names |-> reader.names, columns |-> reader.columns]
    /\ reader.gtid \in Gtids \cup {Null}
    /\ mysql.gtid # Null => reader.gtid = mysql.gtid
    /\ \A id \in mysql.unseen : id \notin DOMAIN reader.names
    /\ \A id \in TableIds :
         mysql.bound[id] # Null /\ id \notin mysql.unseen => Follows(id, mysql.bound[id])

SentOK ==
    /\ sent \in Seq(CanalEvent \cup {Err}) /\ truth \in Seq(Truth)
    /\ \A i \in 1 .. Len(sent) : sent[i] # Err => Lossless(sent[i])

RowsInv == MysqlOK /\ ReaderFollows /\ SentOK /\ ReaderTellsTheTruth

(* MysqlOK, field by field.                                                *)
LEMMA MysqlFields ==
    ASSUME mysql' = [file |-> mysql'.file, written |-> mysql'.written, in_tx |-> mysql'.in_tx,
                     gtid |-> mysql'.gtid, bound |-> mysql'.bound, unseen |-> mysql'.unseen],
           mysql'.file \in 1 .. Len(Journals), mysql'.written \in Nat,
           mysql'.in_tx \in BOOLEAN, mysql'.gtid \in Gtids \cup {Null},
           mysql'.bound \in [TableIds -> TableDefs \cup {Null}],
           mysql'.unseen \subseteq TableIds,
           ~ mysql'.in_tx => mysql'.bound = NothingMapped,
           \A id \in mysql'.unseen : mysql'.bound[id] # Null
    PROVE  MysqlOK'
  BY DEF MysqlOK

(* Two lists that agree, each continued by one that agrees with the other. *)
LEMMA MoreTruth ==
    ASSUME NEW s \in Seq(CanalEvent \cup {Err}), NEW t \in Seq(Truth), Len(s) = Len(t),
           \A i \in 1 .. Len(t) : SaysWhatHappened(s[i], t[i]),
           \A i \in 1 .. Len(s) : s[i] # Err => Lossless(s[i]),
           NEW a \in Seq(CanalEvent \cup {Err}), NEW b \in Seq(Truth), Len(a) = Len(b),
           \A i \in 1 .. Len(b) : SaysWhatHappened(a[i], b[i]),
           \A i \in 1 .. Len(a) : a[i] # Err => Lossless(a[i])
    PROVE  /\ s \o a \in Seq(CanalEvent \cup {Err}) /\ t \o b \in Seq(Truth)
           /\ Len(s \o a) = Len(t \o b)
           /\ \A i \in 1 .. Len(t \o b) : SaysWhatHappened((s \o a)[i], (t \o b)[i])
           /\ \A i \in 1 .. Len(s \o a) : (s \o a)[i] # Err => Lossless((s \o a)[i])
  <1>1. /\ s \o a \in Seq(CanalEvent \cup {Err}) /\ t \o b \in Seq(Truth)
        /\ Len(s \o a) = Len(s) + Len(a) /\ Len(t \o b) = Len(t) + Len(b)
    OBVIOUS
  <1>2. ASSUME NEW i \in 1 .. Len(s \o a)
        PROVE  \/ i \in 1 .. Len(s) /\ (s \o a)[i] = s[i] /\ (t \o b)[i] = t[i]
               \/ /\ i - Len(s) \in 1 .. Len(a)
                  /\ (s \o a)[i] = a[i - Len(s)] /\ (t \o b)[i] = b[i - Len(s)]
    BY <1>1
  <1> QED
    BY <1>1, <1>2

(* An event that differs from the truth in the gtid of an anonymous        *)
(* transaction only is one the wire can carry.                             *)
LEMMA SentEvent ==
    ASSUME NEW e \in CanalEvent, NEW g \in Gtids \cup {Null},
           e.entry_type \in DmlType \cup {"Ddl"},
           e.gtid # Null => g = e.gtid,
           e.row_change # Null =>
              /\ e.ddl_sql = Null
              /\ Image(e.row_change.before) /\ Image(e.row_change.after)
              /\ Unflagged(e.row_change.before)
    PROVE  /\ [e EXCEPT !.gtid = g] \in CanalEvent
           /\ Lossless([e EXCEPT !.gtid = g])
           /\ [e EXCEPT !.gtid = g] # Err
           /\ Happened(e) \in Truth
           /\ SaysWhatHappened([e EXCEPT !.gtid = g], Happened(e))
  <1> DEFINE x == [e EXCEPT !.gtid = g]
  <1>1. g \in Strings \cup {Null} /\ g # Empty
    BY RowsAssumption, WireAssumption
  <1>2. x \in CanalEvent /\ x.gtid = g /\ x.row_change = e.row_change
        /\ x.entry_type = e.entry_type /\ x.ddl_sql = e.ddl_sql
    BY <1>1 DEF CanalEvent
  <1>3. x # Err
    BY <1>2 DEF Err, DmlType
  <1>4. Lossless(x)
    BY <1>1, <1>2 DEF Lossless, DmlType
  <1>5. Happened(e) \in Truth /\ ~ Happened(e).lost /\ Happened(e).event = e
    BY DEF Happened, Truth
  <1> QED
    BY <1>2, <1>3, <1>4, <1>5 DEF SaysWhatHappened

LEMMA RowsInvInit == Init => RowsInv
  <1> SUFFICES ASSUME Init PROVE RowsInv
    OBVIOUS
  <1> USE DEF Init, RowsInit
  <1>1. MysqlOK
    <2>1. 1 \in 1 .. Len(Journals)
      BY RowsAssumption
    <2>2. ~ mysql.in_tx => mysql.unseen = {}
      BY DEF NothingMapped
    <2> QED
      BY <2>1, <2>2 DEF MysqlOK
  <1>2. ReaderFollows
    BY DEF ReaderFollows
  <1>3. SentOK /\ ReaderTellsTheTruth
    BY DEF SentOK, ReaderTellsTheTruth
  <1> QED
    BY <1>1, <1>2, <1>3 DEF RowsInv

(* Between transactions the table map may go: nothing is mapped.           *)
LEMMA RowsInvRotate == RowsInv /\ Rotate => RowsInv'
  <1> SUFFICES ASSUME RowsInv, Rotate PROVE RowsInv'
    OBVIOUS
  <1>0. MysqlOK /\ ReaderFollows /\ SentOK /\ ReaderTellsTheTruth
    BY DEF RowsInv
  <1>1. mysql' = [file |-> mysql.file + 1, written |-> mysql.written + 1, in_tx |-> mysql.in_tx,
                  gtid |-> mysql.gtid, bound |-> mysql.bound, unseen |-> mysql.unseen]
    BY <1>0 DEF MysqlOK, Rotate, Writes, Written
  <1>2. /\ mysql.file + 1 \in 1 .. Len(Journals)
        /\ mysql.bound = NothingMapped /\ mysql.unseen = {}
    BY <1>0, RowsAssumption DEF MysqlOK, Rotate, NothingMapped
  <1>3. MysqlOK'
    BY <1>0, <1>1, <1>2, MysqlFields DEF MysqlOK
  <1>4. ReaderFollows'
    <2>1. reader' = [file |-> Journals[mysql'.file], gtid |-> reader.gtid,
                     names |-> <<>>, columns |-> <<>>]
      BY <1>0 DEF ReaderFollows, Rotate, Rotated, ClearTableMap
    <2>2. mysql'.bound = NothingMapped /\ mysql'.unseen = {} /\ mysql'.gtid = mysql.gtid
      BY <1>1, <1>2
    <2> QED
      BY <1>0, <2>1, <2>2 DEF ReaderFollows, NothingMapped
  <1>5. SentOK' /\ ReaderTellsTheTruth'
    BY <1>0 DEF Rotate, SentOK, ReaderTellsTheTruth
  <1> QED
    BY <1>3, <1>4, <1>5 DEF RowsInv

LEMMA RowsInvGtid == ASSUME NEW gtid \in Gtids PROVE RowsInv /\ Gtid(gtid) => RowsInv'
  <1> SUFFICES ASSUME RowsInv, Gtid(gtid) PROVE RowsInv'
    OBVIOUS
  <1>0. MysqlOK /\ ReaderFollows /\ SentOK /\ ReaderTellsTheTruth
    BY DEF RowsInv
  <1>1. mysql' = [file |-> mysql.file, written |-> mysql.written + 1, in_tx |-> TRUE,
                  gtid |-> gtid, bound |-> mysql.bound, unseen |-> mysql.unseen]
    BY <1>0 DEF MysqlOK, Gtid, Writes, Written
  <1>2. MysqlOK'
    BY <1>0, <1>1, MysqlFields DEF MysqlOK
  <1>3. ReaderFollows'
    <2>1. reader' = [file |-> Journals[mysql'.file],
                     gtid |-> IF gtid = Null THEN reader.gtid ELSE gtid,
                     names |-> reader.names, columns |-> reader.columns]
      <3>1. mysql'.file = mysql.file
        BY <1>1
      <3>2. CASE gtid = Null
        BY <1>0, <3>1, <3>2 DEF Gtid, ReaderFollows
      <3>3. CASE gtid # Null
        BY <1>0, <3>1, <3>3 DEF Gtid, ReaderFollows
      <3> QED
        BY <3>2, <3>3
    <2>2. mysql'.bound = mysql.bound /\ mysql'.unseen = mysql.unseen /\ mysql'.gtid = gtid
      BY <1>1
    <2> QED
      BY <1>0, <2>1, <2>2 DEF ReaderFollows, Follows
  <1>4. SentOK' /\ ReaderTellsTheTruth'
    BY <1>0 DEF Gtid, SentOK, ReaderTellsTheTruth
  <1> QED
    BY <1>2, <1>3, <1>4 DEF RowsInv

LEMMA RowsInvXid == RowsInv /\ Xid => RowsInv'
  <1> SUFFICES ASSUME RowsInv, Xid PROVE RowsInv'
    OBVIOUS
  <1>0. MysqlOK /\ ReaderFollows /\ SentOK /\ ReaderTellsTheTruth
    BY DEF RowsInv
  <1>1. mysql' = [file |-> mysql.file, written |-> mysql.written + 1, in_tx |-> FALSE,
                  gtid |-> mysql.gtid, bound |-> NothingMapped, unseen |-> {}]
    BY <1>0 DEF MysqlOK, Xid, Writes, Written
  <1>2. MysqlOK'
    <2>1. NothingMapped \in [TableIds -> TableDefs \cup {Null}]
      BY DEF NothingMapped
    <2>2. /\ mysql.file \in 1 .. Len(Journals) /\ mysql.written + 1 \in Nat
          /\ mysql.gtid \in Gtids \cup {Null}
      BY <1>0 DEF MysqlOK
    <2>3. {} \in SUBSET TableIds /\ \A id \in {} : NothingMapped[id] # Null
      OBVIOUS
    <2> QED
      BY <1>1, <2>1, <2>2, <2>3, MysqlFields
  <1>3. ReaderFollows'
    <2>1. /\ mysql'.bound = NothingMapped /\ mysql'.unseen = {}
          /\ mysql'.gtid = mysql.gtid /\ mysql'.file = mysql.file
      BY <1>1
    <2> QED
      BY <1>0, <2>1 DEF Xid, ReaderFollows, NothingMapped
  <1>4. SentOK' /\ ReaderTellsTheTruth'
    BY <1>0 DEF Xid, SentOK, ReaderTellsTheTruth
  <1> QED
    BY <1>2, <1>3, <1>4 DEF RowsInv

(* A table map event makes the reader follow the id it maps.               *)
LEMMA RowsInvTableMap ==
    ASSUME NEW id \in TableIds, NEW def \in TableDefs
    PROVE  RowsInv /\ TableMap(id, def) => RowsInv'
  <1> SUFFICES ASSUME RowsInv, TableMap(id, def) PROVE RowsInv'
    OBVIOUS
  <1>0. MysqlOK /\ ReaderFollows /\ SentOK /\ ReaderTellsTheTruth
    BY DEF RowsInv
  <1>1. mysql' = [file |-> mysql.file, written |-> mysql.written + 1, in_tx |-> TRUE,
                  gtid |-> mysql.gtid, bound |-> [mysql.bound EXCEPT ![id] = def],
                  unseen |-> mysql.unseen \ {id}]
    BY <1>0 DEF MysqlOK, TableMap, Writes, Written
  <1>2. /\ mysql'.file = mysql.file /\ mysql'.gtid = mysql.gtid
        /\ mysql'.bound = [mysql.bound EXCEPT ![id] = def]
        /\ mysql'.unseen = mysql.unseen \ {id}
    BY <1>1
  <1>3. MysqlOK'
    <2>1. [mysql.bound EXCEPT ![id] = def] \in [TableIds -> TableDefs \cup {Null}]
      BY <1>0 DEF MysqlOK
    <2>2. \A x \in mysql.unseen \ {id} : [mysql.bound EXCEPT ![id] = def][x] # Null
      BY <1>0 DEF MysqlOK
    <2>3. /\ mysql.file \in 1 .. Len(Journals) /\ mysql.written + 1 \in Nat
          /\ mysql.gtid \in Gtids \cup {Null} /\ mysql.unseen \ {id} \in SUBSET TableIds
      BY <1>0 DEF MysqlOK
    <2> QED
      BY <1>1, <2>1, <2>2, <2>3, MysqlFields
  <1>4. ReaderFollows'
    <2> DEFINE name == [schema |-> def.schema, table |-> def.table]
    <2>1. reader' = [file |-> Journals[mysql'.file], gtid |-> reader.gtid,
                     names |-> Assigned(reader.names, id, name),
                     columns |-> Assigned(reader.columns, id, build_column_infos(def))]
      <3> DEFINE g == reader.gtid
                 names == reader.names
                 columns == reader.columns
      <3>1. reader = [file |-> Journals[mysql.file], gtid |-> g, names |-> names, columns |-> columns]
        BY <1>0 DEF ReaderFollows
      <3> HIDE DEF g, names, columns
      <3>2. reader' = put_with_columns(reader, id, def)
        BY DEF TableMap
      <3>3. reader' = [file |-> Journals[mysql'.file], gtid |-> g,
                       names |-> Assigned(names, id, name),
                       columns |-> Assigned(columns, id, build_column_infos(def))]
        BY <1>2, <3>1, <3>2 DEF put_with_columns
      <3> QED
        BY <3>3 DEF g, names, columns
    <2>2. /\ DOMAIN reader'.names = DOMAIN reader.names \cup {id}
          /\ DOMAIN reader'.columns = DOMAIN reader.columns \cup {id}
          /\ \A x \in DOMAIN reader.names \cup {id} :
               reader'.names[x] = IF x = id THEN name ELSE reader.names[x]
          /\ \A x \in DOMAIN reader.columns \cup {id} :
               reader'.columns[x] = IF x = id THEN build_column_infos(def)
                                    ELSE reader.columns[x]
      BY <2>1 DEF Assigned
    <2>3. /\ reader' = [file |-> Journals[mysql'.file], gtid |-> reader'.gtid,
                        names |-> reader'.names, columns |-> reader'.columns]
          /\ reader'.gtid = reader.gtid
      BY <2>1
    <2>4. \A x \in mysql'.unseen : x \notin DOMAIN reader'.names
      BY <1>0, <1>2, <2>2 DEF ReaderFollows
    <2>5. ASSUME NEW x \in TableIds, mysql'.bound[x] # Null, x \notin mysql'.unseen
          PROVE  Follows(x, mysql.bound[x])'
      <3>1. CASE x = id
        <4>1. mysql'.bound[x] = def
          BY <1>0, <1>2, <3>1 DEF MysqlOK
        <4>2. /\ id \in DOMAIN reader'.names /\ id \in DOMAIN reader'.columns
              /\ reader'.names[id] = name /\ reader'.columns[id] = build_column_infos(def)
          BY <2>2
        <4> QED
          BY <3>1, <4>1, <4>2 DEF Follows
      <3>2. CASE x # id
        <4>1. mysql'.bound[x] = mysql.bound[x] /\ x \notin mysql.unseen
          BY <1>0, <1>2, <2>5, <3>2 DEF MysqlOK
        <4>2. Follows(x, mysql.bound[x])
          BY <1>0, <2>5, <4>1 DEF ReaderFollows
        <4>3. /\ x \in DOMAIN reader'.names /\ x \in DOMAIN reader'.columns
              /\ reader'.names[x] = reader.names[x] /\ reader'.columns[x] = reader.columns[x]
          BY <2>2, <3>2, <4>2 DEF Follows
        <4> QED
          BY <4>1, <4>2, <4>3 DEF Follows
      <3> QED
        BY <3>1, <3>2
    <2> QED
      BY <1>0, <1>2, <2>3, <2>4, <2>5 DEF ReaderFollows
  <1>5. SentOK' /\ ReaderTellsTheTruth'
    BY <1>0 DEF TableMap, SentOK, ReaderTellsTheTruth
  <1> QED
    BY <1>3, <1>4, <1>5 DEF RowsInv

(* A statement is told as it was, cut as it is cut.                        *)
LEMMA RowsInvQuery ==
    ASSUME NEW def \in TableDefs, NEW sql \in Statements
    PROVE  RowsInv /\ Query(def.schema, sql) => RowsInv'
  <1> SUFFICES ASSUME RowsInv, Query(def.schema, sql) PROVE RowsInv'
    OBVIOUS
  <1>0. MysqlOK /\ ReaderFollows /\ SentOK /\ ReaderTellsTheTruth
    BY DEF RowsInv
  <1>1. PICK t \in BOOLEAN :
          /\ mysql' = [file |-> mysql.file, written |-> mysql.written + 1, in_tx |-> t,
                       gtid |-> mysql.gtid, bound |-> mysql.bound, unseen |-> mysql.unseen]
          /\ ~ t => mysql.bound = NothingMapped
    BY <1>0 DEF MysqlOK, Query, Writes, Written
  <1>2. MysqlOK'
    <2>1. /\ mysql.file \in 1 .. Len(Journals) /\ mysql.written + 1 \in Nat
          /\ mysql.gtid \in Gtids \cup {Null}
          /\ mysql.bound \in [TableIds -> TableDefs \cup {Null}]
          /\ mysql.unseen \in SUBSET TableIds
          /\ \A id \in mysql.unseen : mysql.bound[id] # Null
      BY <1>0 DEF MysqlOK
    <2> QED
      BY <1>1, <2>1, MysqlFields
  <1>3. ReaderFollows'
    BY <1>0, <1>1 DEF Query, ReaderFollows, Follows
  <1>4. SentOK' /\ ReaderTellsTheTruth'
    <2> DEFINE e == TrueEvent("Ddl", def.schema, Empty, Null, Shortened(sql))
               x == QueryEvent(reader, mysql'.written, def.schema, sql)
    <2>1. Shortened(sql) \in Strings
      BY RowsAssumption DEF Shortened
    <2>2. e \in CanalEvent /\ e.entry_type = "Ddl" /\ e.row_change = Null /\ e.gtid = mysql.gtid
      <3>1. Journals[mysql.file] \in Strings /\ mysql.gtid \in Strings \cup {Null}
            /\ mysql.written + 1 \in Nat
        BY <1>0, RowsAssumption DEF MysqlOK
      <3> QED
        BY <2>1, <3>1, DefType, WireAssumption DEF TrueEvent, CanalEvent, EventType
    <2>3. x = [e EXCEPT !.gtid = reader.gtid]
      BY <1>0, <1>1 DEF QueryEvent, TrueEvent, ReaderFollows
    <2> HIDE DEF e, x
    <2>4. /\ x \in CanalEvent /\ Lossless(x) /\ x # Err
          /\ Happened(e) \in Truth /\ SaysWhatHappened(x, Happened(e))
      BY <1>0, <2>2, <2>3, SentEvent DEF ReaderFollows
    <2>5. /\ <<x>> \in Seq(CanalEvent \cup {Err}) /\ <<Happened(e)>> \in Seq(Truth)
          /\ Len(<<x>>) = 1 /\ Len(<<Happened(e)>>) = 1
          /\ <<x>>[1] = x /\ <<Happened(e)>>[1] = Happened(e)
      BY <2>4
    <2>6. sent' = sent \o <<x>> /\ truth' = truth \o <<Happened(e)>>
      BY <1>0 DEF Query, SentOK, e, x
    <2> QED
      BY <1>0, <2>4, <2>5, <2>6, MoreTruth DEF SentOK, ReaderTellsTheTruth
  <1> QED
    BY <1>2, <1>3, <1>4 DEF RowsInv

(* Each row of an event is told as it is in MySQL, if its table was mapped *)
(* since the thread started, and is an error if it was not.                *)
LEMMA RowIsTold ==
    ASSUME RowsInv, NEW type \in DmlType, NEW id \in TableIds, mysql.bound[id] # Null,
           NEW row \in RowsOf(type, mysql.bound[id]),
           NEW x, x = RowEvent(reader, mysql.written + 1, type, id, row),
           NEW t, t = IF id \in mysql.unseen THEN Lost
                      ELSE Happened(TrueRow(type, mysql.bound[id], row))
    PROVE  /\ x \in CanalEvent \cup {Err} /\ t \in Truth
           /\ SaysWhatHappened(x, t)
           /\ x # Err => Lossless(x)
  <1>0. MysqlOK /\ ReaderFollows
    BY DEF RowsInv
  <1> DEFINE def == mysql.bound[id]
  <1>1. def \in TableDefs
    BY <1>0 DEF MysqlOK
  <1>2. CASE id \in mysql.unseen
    <2>1. x = Err /\ t = Lost
      BY <1>0, <1>2 DEF RowEvent, ReaderFollows
    <2>2. Lost \in Truth
      BY DEF Lost, Truth
    <2>3. SaysWhatHappened(Err, Lost)
      BY Zenon DEF SaysWhatHappened, Lost
    <2> QED
      BY <2>1, <2>2, <2>3
  <1>3. CASE id \notin mysql.unseen
    <2> PICK change : change = TrueChange(def, type, row)
      OBVIOUS
    <2>1. Follows(id, def)
      BY <1>0, <1>3 DEF ReaderFollows
    <2>2. /\ Change(type, row, build_column_infos(def)) = change
          /\ change \in RowChange
          /\ Image(change.before) /\ Image(change.after) /\ Unflagged(change.before)
      BY <1>1, ChangeIsTrue
    <2> PICK e : e = TrueRow(type, def, row)
      OBVIOUS
    <2>3. e = [journal |-> Journals[mysql.file], position |-> mysql.written + 1,
               entry_type |-> type, schema |-> def.schema, table |-> def.table,
               row_change |-> change, ddl_sql |-> Null, gtid |-> mysql.gtid]
      BY DEF TrueRow, TrueEvent
    <2>4. /\ Journals[mysql.file] \in Strings /\ mysql.gtid \in Strings \cup {Null}
          /\ mysql.written + 1 \in Nat
      BY <1>0, RowsAssumption DEF MysqlOK
    <2>5. e \in CanalEvent
      BY <1>1, <2>2, <2>3, <2>4, DefType DEF CanalEvent, EventType
    <2>6. x = [e EXCEPT !.gtid = reader.gtid]
      <3>1. reader.file = Journals[mysql.file]
        BY <1>0 DEF ReaderFollows
      <3>2. x = [journal |-> reader.file, position |-> mysql.written + 1, entry_type |-> type,
                 schema |-> def.schema, table |-> def.table, row_change |-> change,
                 ddl_sql |-> Null, gtid |-> reader.gtid]
        BY <2>1, <2>2 DEF RowEvent, GetColumns, Follows
      <3> QED
        BY <2>3, <3>1, <3>2
    <2>7. /\ e.entry_type \in DmlType \cup {"Ddl"} /\ e.row_change = change /\ e.ddl_sql = Null
          /\ e.gtid # Null => reader.gtid = e.gtid
      BY <1>0, <2>3 DEF ReaderFollows
    <2>8. reader.gtid \in Gtids \cup {Null} /\ t = Happened(e)
      BY <1>0, <1>3 DEF ReaderFollows
    <2> QED
      BY <2>2, <2>5, <2>6, <2>7, <2>8, SentEvent
  <1> QED
    BY <1>2, <1>3

LEMMA RowsInvRows ==
    ASSUME NEW type \in DmlType, NEW id \in TableIds
    PROVE  RowsInv /\ Rows(type, id) => RowsInv'
  <1> SUFFICES ASSUME RowsInv, Rows(type, id) PROVE RowsInv'
    OBVIOUS
  <1>0. MysqlOK /\ ReaderFollows /\ SentOK /\ ReaderTellsTheTruth
    BY DEF RowsInv
  <1>1. mysql' = [file |-> mysql.file, written |-> mysql.written + 1, in_tx |-> mysql.in_tx,
                  gtid |-> mysql.gtid, bound |-> mysql.bound, unseen |-> mysql.unseen]
    BY <1>0 DEF MysqlOK, Rows, Writes, Written
  <1>2. MysqlOK'
    BY <1>0, <1>1, MysqlFields DEF MysqlOK
  <1>3. ReaderFollows'
    BY <1>0, <1>1 DEF Rows, ReaderFollows, Follows
  <1>4. SentOK' /\ ReaderTellsTheTruth'
    <2>1. PICK n \in 1 .. MaxSent - Len(sent) :
          \E rows \in [1 .. n -> RowsOf(type, mysql.bound[id])] :
            /\ sent' = sent \o [i \in 1 .. n |->
                                  RowEvent(reader, mysql'.written, type, id, rows[i])]
            /\ truth' = truth \o [i \in 1 .. n |->
                                  IF id \in mysql.unseen THEN Lost
                                  ELSE Happened(TrueRow(type, mysql.bound[id], rows[i]))]
      BY DEF Rows
    <2>2. PICK rows \in [1 .. n -> RowsOf(type, mysql.bound[id])] :
            /\ sent' = sent \o [i \in 1 .. n |->
                                  RowEvent(reader, mysql'.written, type, id, rows[i])]
            /\ truth' = truth \o [i \in 1 .. n |->
                                  IF id \in mysql.unseen THEN Lost
                                  ELSE Happened(TrueRow(type, mysql.bound[id], rows[i]))]
      BY <2>1
    <2> DEFINE a == [i \in 1 .. n |-> RowEvent(reader, mysql'.written, type, id, rows[i])]
               b == [i \in 1 .. n |-> IF id \in mysql.unseen THEN Lost
                                      ELSE Happened(TrueRow(type, mysql.bound[id], rows[i]))]
    <2>3. n \in Nat /\ mysql'.written = mysql.written + 1 /\ mysql.bound[id] # Null
      BY <1>1, RowsAssumption DEF Rows
    <2>4. ASSUME NEW i \in 1 .. n
          PROVE  /\ a[i] \in CanalEvent \cup {Err} /\ b[i] \in Truth
                 /\ SaysWhatHappened(a[i], b[i])
                 /\ a[i] # Err => Lossless(a[i])
      <3>1. rows[i] \in RowsOf(type, mysql.bound[id])
        BY <2>2, <2>4
      <3>2. a[i] = RowEvent(reader, mysql.written + 1, type, id, rows[i])
        BY <2>3, <2>4
      <3>3. b[i] = IF id \in mysql.unseen THEN Lost
                   ELSE Happened(TrueRow(type, mysql.bound[id], rows[i]))
        BY <2>4
      <3> HIDE DEF a, b
      <3> QED
        BY <2>3, <3>1, <3>2, <3>3, RowIsTold
    <2>5. /\ a = [i \in 1 .. n |-> a[i]] /\ b = [i \in 1 .. n |-> b[i]]
          /\ sent' = sent \o a /\ truth' = truth \o b
      BY <2>2
    <2> HIDE DEF a, b
    <2>6. /\ a \in Seq(CanalEvent \cup {Err}) /\ b \in Seq(Truth)
          /\ Len(a) = n /\ Len(b) = n
      <3>1. a \in [1 .. n -> CanalEvent \cup {Err}] /\ b \in [1 .. n -> Truth]
        BY <2>4, <2>5
      <3> QED
        BY <2>3, <3>1
    <2> QED
      BY <1>0, <2>4, <2>5, <2>6, MoreTruth DEF SentOK, ReaderTellsTheTruth
  <1> QED
    BY <1>2, <1>3, <1>4 DEF RowsInv

LEMMA RowsInvStep == RowsInv /\ [Next]_vars => RowsInv'
  <1>1. ASSUME RowsInv, UNCHANGED rowVars PROVE RowsInv'
    BY <1>1 DEF rowVars, RowsInv, MysqlOK, ReaderFollows, Follows, SentOK, ReaderTellsTheTruth
  <1>2. ASSUME RowsInv, RowsNext PROVE RowsInv'
    BY <1>2, RowsInvRotate, RowsInvXid, RowsInvGtid, RowsInvQuery, RowsInvTableMap, RowsInvRows
    DEF RowsNext
  <1>3. WireStep \/ SendKeepAlive => UNCHANGED rowVars
    BY DEF WireStep, ServerStep, ClientStep, UpBytes, DownBytes, SkipEmptyFrame, AnswerGet,
           ReadAck, SendGet, ReadHeader, ReadBody, SendKeepAlive
  <1>4. UNCHANGED vars => UNCHANGED rowVars
    BY DEF vars
  <1> QED
    BY <1>1, <1>2, <1>3, <1>4 DEF Next

LEMMA RowsInvAlways == Spec => []RowsInv
  <1> QED
    BY RowsInvInit, RowsInvStep, PTL DEF Spec

-----------------------------------------------------------------------------
(* What follows from it.                                                   *)

(* Whatever transactions, files, table ids and rows there are, each event  *)
(* the thread sends says what happened in MySQL, in order, and an error    *)
(* stands for a row of a table mapped before the thread started            *)
(* (connector.rs:228-230, 292-472).                                        *)
THEOREM ReaderIsTrue == Spec => []ReaderTellsTheTruth
  <1>1. RowsInv => ReaderTellsTheTruth
    BY DEF RowsInv
  <1> QED
    BY <1>1, RowsInvAlways, PTL

(* Nothing of such an event is lost in conversion.rs and lib.rs:305-432.   *)
THEOREM WireIsLossless == Spec => []NothingLostOnTheWire
  <1>1. RowsInv => NothingLostOnTheWire
    BY RoundTrip DEF RowsInv, SentOK, NothingLostOnTheWire
  <1> QED
    BY <1>1, RowsInvAlways, PTL

(* Kafka's payload of an event is the payload of what a TCP client makes   *)
(* of it (kafka.rs:112-170).                                               *)
THEOREM KafkaAgrees == Spec => []KafkaSaysTheSame
  <1>1. RowsInv => KafkaSaysTheSame
    BY RoundTrip DEF RowsInv, SentOK, KafkaSaysTheSame
  <1> QED
    BY <1>1, RowsInvAlways, PTL

-----------------------------------------------------------------------------
(* Frames.  A byte, and a packet.                                          *)
Packet == [type : {"KeepAlive", "Get", "ClientAck", "Messages"}, messages : Seq(Entry)]

Cell == [length : Nat, at : Nat] \cup [body : Packet, at : Nat]

Pipe == [flight : Seq(Cell), got : Seq(Cell)]

(* The bytes of the stream that its reader has not taken yet.              *)
Stream(pipe) == pipe.got \o pipe.flight

LengthBytes(n) == [i \in 1 .. HeaderBytes |-> [length |-> n, at |-> i]]

(* Two ways to cut one sequence of bytes.                                  *)
LEMMA PrefixAgrees ==
    ASSUME NEW A, NEW g \in Seq(A), NEW f \in Seq(A), NEW e \in Seq(A), NEW r \in Seq(A),
           g \o f = e \o r
    PROVE  /\ Len(g) + Len(f) = Len(e) + Len(r)
           /\ \A i \in 1 .. Len(g) : i <= Len(e) => g[i] = e[i]
  <1>1. PICK u : u = g \o f /\ u = e \o r
    OBVIOUS
  <1>2. Len(u) = Len(g) + Len(f) /\ \A i \in 1 .. Len(g) : u[i] = g[i]
    BY <1>1
  <1>3. Len(u) = Len(e) + Len(r) /\ \A i \in 1 .. Len(e) : u[i] = e[i]
    BY <1>1
  <1>4. QED
    BY <1>2, <1>3

Joins(x, y, z) == z = x \o y

(* What is left when the first piece is taken.                             *)
LEMMA DropAgrees ==
    ASSUME NEW g \in Seq(Cell), NEW f \in Seq(Cell), NEW e \in Seq(Cell), NEW r \in Seq(Cell),
           NEW z, Joins(g, f, z), Joins(e, r, z), Len(e) <= Len(g)
    PROVE  /\ SubSeq(g, 1, Len(e)) = e
           /\ Drop(g, Len(e)) \in Seq(Cell) /\ Joins(Drop(g, Len(e)), f, r)
  <1>0. PICK d, v : d = Drop(g, Len(e)) /\ v = d \o f
    OBVIOUS
  <1>1. PICK n, G, F, R : n = Len(e) /\ G = Len(g) /\ F = Len(f) /\ R = Len(r)
    OBVIOUS
  <1>2. PICK h : h = SubSeq(g, 1, n) /\ d = SubSeq(g, n + 1, G)
    BY <1>0, <1>1 DEF Drop
  <1>3. n \in Nat /\ G \in Nat /\ F \in Nat /\ R \in Nat /\ n <= G /\ G + F = n + R
    <2>1. g \o f = e \o r
      BY DEF Joins
    <2>2. QED
      BY <1>1, <2>1, PrefixAgrees
  <1>4. h \in Seq(Cell) /\ Len(h) = n /\ \A i \in 1 .. n : h[i] = g[i]
    BY <1>1, <1>2, <1>3
  <1>5. d \in Seq(Cell) /\ Len(d) = G - n /\ \A i \in 1 .. G - n : d[i] = g[i + n]
    BY <1>1, <1>2, <1>3
  <1>6. h = e
    <2>1. \A i \in 1 .. n : g[i] = e[i]
      <3>1. g \o f = e \o r
        BY DEF Joins
      <3>2. QED
        BY <1>1, <1>3, <3>1, PrefixAgrees
    <2>2. QED
      BY <1>1, <1>4, <2>1, SeqEqual
  <1>7. PICK u : u = g \o f /\ u = e \o r /\ v = d \o f
    BY <1>0 DEF Joins
  <1>8. /\ v \in Seq(Cell) /\ Len(v) = R
        /\ \A i \in 1 .. R : v[i] = IF i <= G - n THEN d[i] ELSE f[i - (G - n)]
    <2>1. /\ v \in Seq(Cell) /\ Len(v) = Len(d) + F
          /\ \A i \in 1 .. Len(d) + F : v[i] = IF i <= Len(d) THEN d[i] ELSE f[i - Len(d)]
      <3>1. /\ d \o f \in Seq(Cell) /\ Len(d \o f) = Len(d) + Len(f)
            /\ \A i \in 1 .. Len(d) + Len(f) :
                 (d \o f)[i] = IF i <= Len(d) THEN d[i] ELSE f[i - Len(d)]
        <4>1. d \in Seq(Cell)
          BY <1>5
        <4>2. QED
          BY <4>1, ConcatProperties
      <3>2. QED
        BY <1>1, <1>7, <3>1
    <2>2. Len(d) + F = R /\ Len(d) = G - n
      BY <1>3, <1>5
    <2>3. QED
      BY <2>1, <2>2
  <1>9. \A i \in 1 .. R : u[i + n] = r[i]
    BY <1>1, <1>3, <1>7
  <1>10. \A i \in 1 .. n + R : u[i] = IF i <= G THEN g[i] ELSE f[i - G]
    <2>1. \A i \in 1 .. Len(g) + Len(f) :
            (g \o f)[i] = IF i <= Len(g) THEN g[i] ELSE f[i - Len(g)]
      BY ConcatProperties
    <2>2. QED
      BY <1>1, <1>3, <1>7, <2>1
  <1>11. ASSUME NEW i \in 1 .. R
         PROVE  v[i] = r[i]
    <2>1. /\ i + n \in 1 .. n + R /\ (i <= G - n <=> i + n <= G)
          /\ (i + n) - G = i - (G - n)
      BY <1>3
    <2>2. i <= G - n => i \in 1 .. G - n
      BY <1>3
    <2>3. r[i] = IF i + n <= G THEN g[i + n] ELSE f[(i + n) - G]
      BY <1>9, <1>10, <2>1
    <2>4. v[i] = IF i <= G - n THEN g[i + n] ELSE f[i - (G - n)]
      BY <1>5, <1>8, <2>2
    <2>5. QED
      BY <2>1, <2>3, <2>4
  <1>12. v = r
    BY <1>1, <1>8, <1>11, SeqEqual
  <1>13. QED
    BY <1>0, <1>1, <1>2, <1>5, <1>6, <1>12 DEF Joins

-----------------------------------------------------------------------------
(* A pipe that is read from, written to, and delivers.                     *)
LEMMA PipeParts ==
    ASSUME NEW pipe \in Pipe
    PROVE  /\ pipe.flight \in Seq(Cell) /\ pipe.got \in Seq(Cell)
           /\ pipe = [flight |-> pipe.flight, got |-> pipe.got]
  BY DEF Pipe

(* A pipe made of its two parts, and its stream.                           *)
LEMMA PipeOf ==
    ASSUME NEW f \in Seq(Cell), NEW g \in Seq(Cell), NEW v, v = [flight |-> f, got |-> g]
    PROVE  v \in Pipe /\ Stream(v) = g \o f
  <1>1. v \in Pipe
    BY DEF Pipe
  <1>2. v.got = g /\ v.flight = f
    OBVIOUS
  <1>3. QED
    BY <1>1, <1>2 DEF Stream

(* Taking a piece that has arrived leaves the rest (codec.rs:25-64,        *)
(* read_exact).                                                            *)
LEMMA ReadBytes ==
    ASSUME NEW pipe \in Pipe, NEW e \in Seq(Cell), NEW r \in Seq(Cell),
           Stream(pipe) = e \o r, Len(e) <= Len(pipe.got)
    PROVE  /\ SubSeq(pipe.got, 1, Len(e)) = e
           /\ Consume(pipe, Len(e)) \in Pipe /\ Stream(Consume(pipe, Len(e))) = r
  <1>1. PICK g, f : g = pipe.got /\ f = pipe.flight
    OBVIOUS
  <1>2. g \in Seq(Cell) /\ f \in Seq(Cell)
    BY <1>1, PipeParts
  <1>3. PICK z : Joins(g, f, z) /\ Joins(e, r, z)
    BY <1>1 DEF Stream, Joins
  <1>4. Len(e) <= Len(g)
    BY <1>1
  <1>5. /\ SubSeq(g, 1, Len(e)) = e
        /\ Drop(g, Len(e)) \in Seq(Cell) /\ Joins(Drop(g, Len(e)), f, r)
    BY <1>2, <1>3, <1>4, DropAgrees
  <1>6. PICK d : d = Drop(g, Len(e))
    OBVIOUS
  <1>7. pipe = [flight |-> f, got |-> g]
    BY <1>1, PipeParts
  <1>8. PICK v : v = Consume(pipe, Len(e))
    OBVIOUS
  <1>9. v = [flight |-> f, got |-> d]
    BY <1>6, <1>7, <1>8 DEF Consume
  <1>10. d \in Seq(Cell) /\ d \o f = r
    BY <1>5, <1>6 DEF Joins
  <1>11. v \in Pipe /\ Stream(v) = d \o f
    BY <1>2, <1>9, <1>10, PipeOf
  <1>12. QED
    BY <1>1, <1>5, <1>8, <1>10, <1>11

(* Writing a packet puts its bytes at the end of the stream.               *)
LEMMA WriteBytes ==
    ASSUME NEW pipe \in Pipe, NEW p, encode(p) \in Seq(Cell)
    PROVE  Write(pipe, p) \in Pipe /\ Stream(Write(pipe, p)) = Stream(pipe) \o encode(p)
  <1>1. PICK g, f, b : g = pipe.got /\ f = pipe.flight /\ b = encode(p)
    OBVIOUS
  <1>2. g \in Seq(Cell) /\ f \in Seq(Cell) /\ b \in Seq(Cell)
    BY <1>1, PipeParts
  <1>3. PICK fb : fb = f \o b
    OBVIOUS
  <1>4. fb \in Seq(Cell)
    BY <1>2, <1>3
  <1>5. g \o (f \o b) = (g \o f) \o b
    BY <1>2, ConcatAssociative
  <1>6. pipe = [flight |-> f, got |-> g]
    BY <1>1, PipeParts
  <1>7. PICK v : v = Write(pipe, p)
    OBVIOUS
  <1>8. v = [flight |-> fb, got |-> g]
    <2>1. v = [pipe EXCEPT !.flight = pipe.flight \o encode(p)]
      BY <1>7 DEF Write
    <2>2. pipe.flight \o encode(p) = fb
      BY <1>1, <1>3
    <2>3. QED
      BY <1>6, <2>1, <2>2
  <1>9. v \in Pipe /\ Stream(v) = g \o fb
    BY <1>2, <1>4, <1>8, PipeOf
  <1>10. Stream(pipe) = g \o f
    BY <1>1 DEF Stream
  <1>11. QED
    BY <1>1, <1>3, <1>5, <1>7, <1>9, <1>10

(* The network moves bytes and changes none.                               *)
LEMMA CutBytes ==
    ASSUME NEW pipe \in Pipe, NEW n \in 1 .. Len(pipe.flight)
    PROVE  Cut(pipe, n) \in Pipe /\ Stream(Cut(pipe, n)) = Stream(pipe)
  <1>1. PICK g, f : g = pipe.got /\ f = pipe.flight
    OBVIOUS
  <1>2. g \in Seq(Cell) /\ f \in Seq(Cell)
    BY <1>1, PipeParts
  <1>3. n \in 1 .. Len(f)
    BY <1>1
  <1>4. PICK a, d : a = SubSeq(f, 1, n) /\ d = SubSeq(f, n + 1, Len(f))
    OBVIOUS
  <1>5. a \in Seq(Cell) /\ d \in Seq(Cell)
    BY <1>2, <1>3, <1>4
  <1>6. a \o d = f
    <2>1. /\ 1 \in 1 .. Len(f) + 1 /\ n \in 1 - 1 .. Len(f) /\ Len(f) \in n .. Len(f)
      BY <1>2, <1>3
    <2>2. SubSeq(f, 1, n) \o SubSeq(f, n + 1, Len(f)) = SubSeq(f, 1, Len(f))
      BY <1>2, <2>1, ConcatAdjacentSubSeq
    <2>3. SubSeq(f, 1, Len(f)) = f
      BY <1>2, SubSeqFull
    <2>4. QED
      BY <1>4, <2>2, <2>3
  <1>7. PICK ga : ga = g \o a
    OBVIOUS
  <1>8. ga \in Seq(Cell)
    BY <1>2, <1>5, <1>7
  <1>9. (g \o a) \o d = g \o (a \o d)
    BY <1>2, <1>5, ConcatAssociative
  <1>10. PICK v : v = Cut(pipe, n)
    OBVIOUS
  <1>11. v = [flight |-> d, got |-> ga]
    BY <1>1, <1>4, <1>7, <1>10 DEF Cut, Drop
  <1>12. v \in Pipe /\ Stream(v) = ga \o d
    BY <1>5, <1>8, <1>11, PipeOf
  <1>13. Stream(pipe) = g \o f
    BY <1>1 DEF Stream
  <1>14. QED
    BY <1>6, <1>7, <1>9, <1>10, <1>12, <1>13

-----------------------------------------------------------------------------
(* Packets.                                                                *)
LEMMA Sizes ==
    /\ KeepAlive \in Packet /\ BodySize(KeepAlive) = 0
    /\ Get \in Packet /\ BodySize(Get) = 1
    /\ ClientAck \in Packet /\ BodySize(ClientAck) = 1
  <1>1. KeepAlive \in Packet /\ Get \in Packet /\ ClientAck \in Packet
    BY DEF KeepAlive, Get, ClientAck, Packet
  <1>2. Get # KeepAlive /\ ClientAck # KeepAlive
    BY DEF KeepAlive, Get, ClientAck
  <1>3. Get.messages = <<>> /\ ClientAck.messages = <<>> /\ Len(<<>>) = 0
    BY DEF Get, ClientAck
  <1>4. {i \in DOMAIN <<>> : IsLarge(<<>>[i])} = {}
    OBVIOUS
  <1>5. Cardinality({}) = 0
    BY FS_EmptySet
  <1>6. QED
    BY <1>1, <1>2, <1>3, <1>4, <1>5 DEF BodySize

(* A Messages packet is never empty, and never the malformed one.          *)
LEMMA MessagesSize ==
    ASSUME NEW es \in Seq(Entry)
    PROVE  /\ Messages(es) \in Packet /\ BodySize(Messages(es)) \in Nat \ {0}
           /\ Messages(es).messages = es /\ Messages(es) # Malformed
  <1>1. PICK p : p = Messages(es)
    OBVIOUS
  <1>2. p \in Packet /\ p.messages = es /\ p # KeepAlive /\ p # Malformed
    BY <1>1 DEF Messages, Packet, KeepAlive, Malformed
  <1>3. PICK L : L = {i \in DOMAIN es : IsLarge(es[i])}
    OBVIOUS
  <1>4. Len(es) \in Nat /\ L \subseteq 1 .. Len(es)
    BY <1>3
  <1>5. IsFiniteSet(1 .. Len(es))
    BY <1>4, FS_Interval
  <1>6. Cardinality(L) \in Nat
    BY <1>4, <1>5, FS_Subset, FS_CardinalityType
  <1>7. BodySize(p) = 1 + Len(es) + Cardinality(L)
    BY <1>2, <1>3 DEF BodySize
  <1>8. QED
    BY <1>1, <1>2, <1>4, <1>6, <1>7

(* A packet as it is written: a length, then the body (codec.rs:70-76).    *)
LEMMA EncodeType ==
    ASSUME NEW p \in Packet, NEW n \in Nat, n = BodySize(p)
    PROVE  /\ LengthBytes(n) \in Seq(Cell) /\ Len(LengthBytes(n)) = HeaderBytes
           /\ Body(p) \in Seq(Cell) /\ Len(Body(p)) = n
           /\ encode(p) = LengthBytes(n) \o Body(p) /\ encode(p) \in Seq(Cell)
           /\ Len(encode(p)) = HeaderBytes + n
  <1>1. HeaderBytes \in Nat
    BY DeliveryAssumption
  <1>2. LengthBytes(n) \in Seq(Cell) /\ Len(LengthBytes(n)) = HeaderBytes
    <2>1. \A i \in 1 .. HeaderBytes : [length |-> n, at |-> i] \in Cell
      BY <1>1 DEF Cell
    <2>2. QED
      BY <1>1, <2>1 DEF LengthBytes
  <1>3. Body(p) \in Seq(Cell) /\ Len(Body(p)) = n
    <2>1. \A i \in 1 .. n : [body |-> p, at |-> i] \in Cell
      BY DEF Cell
    <2>2. QED
      BY <2>1 DEF Body
  <1>4. encode(p) = LengthBytes(n) \o Body(p)
    BY DEF encode, LengthBytes
  <1>5. PICK a, b : a = LengthBytes(n) /\ b = Body(p)
    OBVIOUS
  <1>6. a \o b \in Seq(Cell) /\ Len(a \o b) = HeaderBytes + n
    BY <1>2, <1>3, <1>5, ConcatProperties
  <1>7. QED
    BY <1>2, <1>3, <1>4, <1>5, <1>6

(* What the two ends read is what was written.                             *)
LEMMA LengthRead ==
    ASSUME NEW g \in Seq(Cell), NEW n, HasHeader(g),
           \A i \in 1 .. HeaderBytes : g[i] = [length |-> n, at |-> i]
    PROVE  LengthOf(g) = n
  <1>1. 1 \in 1 .. HeaderBytes
    BY DeliveryAssumption
  <1>2. g[1] = [length |-> n, at |-> 1]
    BY <1>1
  <1>3. g[1].length = n /\ \A i : [g[1] EXCEPT !.at = i] = [length |-> n, at |-> i]
    BY <1>2
  <1>4. ASSUME NEW i \in 1 .. HeaderBytes
        PROVE  "length" \in DOMAIN g[i]
    <2>1. PICK c : c = g[i] /\ c = [length |-> n, at |-> i]
      OBVIOUS
    <2>2. "length" \in DOMAIN c
      BY <2>1
    <2>3. QED
      BY <2>1, <2>2
  <1>5. QED
    BY <1>3, <1>4 DEF LengthOf, IsHeader

(* Packet::decode of a body is the packet.                                 *)
LEMMA BodyRead ==
    ASSUME NEW p \in Packet, BodySize(p) \in Nat \ {0}
    PROVE  Parse(Body(p)) = p
  <1>1. Body(p)[1] = [body |-> p, at |-> 1]
    BY DEF Body
  <1>2. "body" \in DOMAIN Body(p)[1] /\ Body(p)[1].body = p
    BY <1>1
  <1>3. QED
    BY <1>2 DEF Parse

(* The length that is read is the one of the first packet written.         *)
LEMMA FirstLength ==
    ASSUME NEW p \in Packet, NEW n \in Nat, n = BodySize(p),
           NEW pipe \in Pipe, NEW r \in Seq(Cell), Stream(pipe) = encode(p) \o r,
           HasHeader(pipe.got)
    PROVE  LengthOf(pipe.got) = n
  <1>1. PICK g, f, e : /\ g = pipe.got /\ f = pipe.flight /\ e = encode(p)
                       /\ g \in Seq(Cell) /\ f \in Seq(Cell)
    BY DEF Pipe
  <1>2. e \in Seq(Cell) /\ Len(e) = HeaderBytes + n
    BY <1>1, EncodeType
  <1>3. \A i \in 1 .. Len(g) : i <= Len(e) => g[i] = e[i]
    <2>1. r \in Seq(Cell) /\ g \in Seq(Cell) /\ f \in Seq(Cell) /\ e \in Seq(Cell)
      BY <1>1, <1>2
    <2>2. g \o f = e \o r
      BY <1>1 DEF Stream
    <2>3. QED
      BY <2>1, <2>2, PrefixAgrees
  <1>4. HeaderBytes \in Nat /\ Len(g) \in Nat /\ Len(g) >= HeaderBytes
    BY <1>1, DeliveryAssumption DEF HasHeader
  <1>5. ASSUME NEW i \in 1 .. HeaderBytes
        PROVE  g[i] = [length |-> n, at |-> i]
    <2>1. i \in 1 .. Len(g) /\ i <= Len(e)
      BY <1>2, <1>4
    <2>2. PICK a, b : /\ a = LengthBytes(n) /\ b = Body(p) /\ a \in Seq(Cell) /\ b \in Seq(Cell)
                      /\ Len(a) = HeaderBytes /\ e = a \o b
      BY <1>1, EncodeType
    <2>3. e[i] = a[i]
      BY <1>4, <2>2
    <2>4. a[i] = [length |-> n, at |-> i]
      BY <2>2 DEF LengthBytes
    <2>5. QED
      BY <1>3, <2>1, <2>3, <2>4
  <1>6. QED
    BY <1>1, <1>5, LengthRead

(* The first frame is the first packet, whole, and the rest stays          *)
(* (codec.rs:25-64).                                                       *)
LEMMA FirstFrame ==
    ASSUME NEW p \in Packet, NEW n \in Nat, n = BodySize(p),
           NEW pipe \in Pipe, NEW r \in Seq(Cell), Stream(pipe) = encode(p) \o r,
           HasFrame(pipe.got)
    PROVE  /\ n # 0 => Payload(pipe.got) = p
           /\ Consume(pipe, FrameLength(pipe.got)) \in Pipe
           /\ Stream(Consume(pipe, FrameLength(pipe.got))) = r
  <1>1. HasHeader(pipe.got)
    BY DEF HasFrame
  <1>2. LengthOf(pipe.got) = n /\ Len(pipe.got) >= HeaderBytes + n
    BY <1>1, FirstLength DEF HasFrame
  <1>3. PICK e : e = encode(p)
    OBVIOUS
  <1>4. e \in Seq(Cell) /\ Len(e) = HeaderBytes + n
    BY <1>3, EncodeType
  <1>5. HeaderBytes \in Nat /\ Len(pipe.got) \in Nat
    BY DeliveryAssumption DEF Pipe
  <1>6. /\ SubSeq(pipe.got, 1, Len(e)) = e
        /\ Consume(pipe, Len(e)) \in Pipe /\ Stream(Consume(pipe, Len(e))) = r
    <2>1. e \in Seq(Cell) /\ Len(e) <= Len(pipe.got)
      BY <1>2, <1>4, <1>5
    <2>2. Stream(pipe) = e \o r
      BY <1>3
    <2>3. QED
      BY <2>1, <2>2, ReadBytes
  <1>7. FrameLength(pipe.got) = Len(e)
    BY <1>2, <1>4 DEF FrameLength
  <1>8. n # 0 => Payload(pipe.got) = p
    <2>1. PICK g, h : g = pipe.got /\ g \in Seq(Cell) /\ h = LengthBytes(n)
      BY DEF Pipe
    <2>2. h \in Seq(Cell) /\ Len(h) = HeaderBytes /\ Body(p) \in Seq(Cell) /\ Len(Body(p)) = n
      BY <2>1, EncodeType
    <2>3. PICK b : b = Body(p) /\ e = h \o b
      BY <1>3, <2>1, EncodeType
    <2>4. PICK s : s = SubSeq(g, HeaderBytes + 1, HeaderBytes + n)
      OBVIOUS
    <2>5. s \in Seq(Cell) /\ Len(s) = n /\ \A i \in 1 .. n : s[i] = g[HeaderBytes + i]
      <3>1. HeaderBytes + n <= Len(g) /\ Len(g) \in Nat /\ HeaderBytes \in Nat
        BY <1>2, <1>5, <2>1
      <3>2. g \in Seq(Cell)
        BY <2>1
      <3>3. QED
        BY <2>4, <3>1, <3>2
    <2>6. \A i \in 1 .. n : g[HeaderBytes + i] = e[HeaderBytes + i]
      <3>1. \A k \in 1 .. Len(g) : k <= Len(e) => g[k] = e[k]
        <4>1. pipe.flight \in Seq(Cell) /\ g \o pipe.flight = e \o r
          BY <1>3, <2>1 DEF Pipe, Stream
        <4>2. QED
          BY <1>4, <2>1, <4>1, PrefixAgrees
      <3>2. QED
        BY <1>2, <1>4, <1>5, <2>1, <3>1
    <2>7. \A i \in 1 .. n : e[HeaderBytes + i] = b[i]
      BY <1>5, <2>2, <2>3
    <2>8. s = b
      <3>1. s \in Seq(Cell) /\ b \in Seq(Cell) /\ Len(s) = Len(b)
        BY <2>2, <2>3, <2>5
      <3>2. \A i \in 1 .. Len(s) : s[i] = b[i]
        BY <2>5, <2>6, <2>7
      <3>3. QED
        BY <3>1, <3>2, SeqEqual
    <2>9. Payload(pipe.got) = Parse(Body(p))
      BY <1>2, <2>1, <2>3, <2>4, <2>8 DEF Payload
    <2>10. QED
      BY <2>9, BodyRead
  <1>9. QED
    BY <1>6, <1>7, <1>8

-----------------------------------------------------------------------------
(* Batches, and the answers they are sent in.                              *)
Carried == {e \in CanalEvent : Lossless(e)}

Conv(batch) == [i \in 1 .. Len(batch) |-> canal_event_to_entry(batch[i])]

Answer(batch) == Messages(Conv(batch))

LEMMA IndexedIsSeq ==
    ASSUME NEW A, NEW n \in Nat, NEW v, v = [i \in 1 .. n |-> v[i]],
           \A i \in 1 .. n : v[i] \in A
    PROVE  v \in Seq(A)
  <1>1. v \in [1 .. n -> A]
    OBVIOUS
  <1>2. QED
    BY <1>1

(* The columns of an image are columns of the protocol (conversion.rs).    *)
LEMMA ColumnsType ==
    ASSUME NEW row, row = Null \/ row \in RowData
    PROVE  BeforeColumns(row) \in Seq(Column) /\ AfterColumns(row) \in Seq(Column)
  <1>1. CASE row = Null
    BY <1>1 DEF BeforeColumns, AfterColumns
  <1>2. CASE row # Null
    <2>1. row \in Seq(ColumnValue)
      BY <1>2 DEF RowData
    <2>2. ASSUME NEW i \in 1 .. Len(row), NEW flag \in BOOLEAN
          PROVE  column_value_to_proto(row[i], flag) \in Column
      <3>1. PICK c : c = row[i]
        OBVIOUS
      <3>2. c \in ColumnValue
        BY <2>1, <3>1
      <3>3. OrEmpty(c.value) \in Strings
        BY <3>2, WireAssumption DEF ColumnValue, OrEmpty
      <3>4. c.name \in Strings /\ c.column_type \in Int /\ c.is_key \in BOOLEAN
        BY <3>2 DEF ColumnValue
      <3>5. column_value_to_proto(c, flag) \in Column
        BY <3>3, <3>4 DEF column_value_to_proto, Column
      <3>6. QED
        BY <3>1, <3>5
    <2>3. ASSUME NEW i \in 1 .. Len(row)
          PROVE  row[i].updated \in BOOLEAN
      <3>1. PICK c : c = row[i]
        OBVIOUS
      <3>2. c \in ColumnValue
        BY <2>1, <3>1
      <3>3. QED
        BY <3>1, <3>2 DEF ColumnValue
    <2>4. Len(row) \in Nat
      BY <2>1
    <2>5. \A i \in 1 .. Len(row) : /\ column_value_to_proto(row[i], FALSE) \in Column
                                   /\ column_value_to_proto(row[i], row[i].updated) \in Column
      BY <2>2, <2>3
    <2>6. BeforeColumns(row) \in Seq(Column)
      <3>1. PICK v : v = BeforeColumns(row)
        OBVIOUS
      <3>2. v = [i \in 1 .. Len(row) |-> column_value_to_proto(row[i], FALSE)]
        BY <1>2, <3>1 DEF BeforeColumns
      <3>3. \A i \in 1 .. Len(row) : v[i] = column_value_to_proto(row[i], FALSE)
        BY <3>2
      <3>4. DOMAIN v = 1 .. Len(row) /\ \A i \in 1 .. Len(row) : v[i] \in Column
        BY <2>5, <3>2, <3>3
      <3>5. v = [i \in 1 .. Len(row) |-> v[i]]
        BY <3>2, <3>3
      <3>6. v \in Seq(Column)
        BY <2>4, <3>4, <3>5, IndexedIsSeq
      <3>7. QED
        BY <3>1, <3>6
    <2>7. AfterColumns(row) \in Seq(Column)
      <3>1. PICK v : v = AfterColumns(row)
        OBVIOUS
      <3>2. v = [i \in 1 .. Len(row) |-> column_value_to_proto(row[i], row[i].updated)]
        BY <1>2, <3>1 DEF AfterColumns
      <3>3. \A i \in 1 .. Len(row) : v[i] = column_value_to_proto(row[i], row[i].updated)
        BY <3>2
      <3>4. DOMAIN v = 1 .. Len(row) /\ \A i \in 1 .. Len(row) : v[i] \in Column
        BY <2>5, <3>2, <3>3
      <3>5. v = [i \in 1 .. Len(row) |-> v[i]]
        BY <3>2, <3>3
      <3>6. v \in Seq(Column)
        BY <2>4, <3>4, <3>5, IndexedIsSeq
      <3>7. QED
        BY <3>1, <3>6
    <2>8. QED
      BY <2>6, <2>7
  <1>3. QED
    BY <1>1, <1>2

(* The store value of an event is one of the protocol (conversion.rs).     *)
LEMMA StoreValueType ==
    ASSUME NEW e \in Carried
    PROVE  StoreValue(e) \in ProtoRowChange
  <1>1. /\ e \in CanalEvent /\ e.entry_type \in EventType \ {"Unknown"}
        /\ e.ddl_sql \in Strings \cup {Null} /\ e.row_change \in RowChange \cup {Null}
    BY DEF Carried, CanalEvent, Lossless
  <1>2. \A t \in EventType \ {"Unknown"} : ToProtoType(t) \in 0 .. 15
    BY DEF EventType, DmlType, ToProtoType
  <1>3. CASE e.row_change # Null
    <2>1. PICK c : c = e.row_change
      OBVIOUS
    <2>2. c \in RowChange
      BY <1>1, <1>3, <2>1
    <2>3. PICK k, b, a : /\ k = ToProtoType(c.dml_type) /\ b = BeforeColumns(c.before)
                         /\ a = AfterColumns(c.after)
      OBVIOUS
    <2>4. k \in ProtoEventType
      <3>1. c.dml_type \in EventType \ {"Unknown"}
        BY <2>2 DEF RowChange, DmlType, EventType
      <3>2. QED
        BY <1>2, <2>3, <3>1 DEF ProtoEventType
    <2>5. b \in Seq(Column) /\ a \in Seq(Column)
      <3>1. /\ c.before = Null \/ c.before \in RowData
            /\ c.after = Null \/ c.after \in RowData
        BY <2>2 DEF RowChange
      <3>2. QED
        BY <2>3, <3>1, ColumnsType
    <2>6. PICK d : d = [before_columns |-> b, after_columns |-> a]
      OBVIOUS
    <2>7. <<d>> \in Seq(ProtoRowData)
      <3>1. d \in ProtoRowData
        BY <2>5, <2>6 DEF ProtoRowData
      <3>2. QED
        BY <3>1
    <2>8. StoreValue(e) = [event_type |-> k, row_datas |-> <<d>>, sql |-> Empty,
                           is_ddl |-> FALSE]
      BY <1>3, <2>1, <2>3, <2>6 DEF StoreValue
    <2>9. QED
      BY <2>4, <2>7, <2>8, WireAssumption DEF ProtoRowChange
  <1>4. CASE e.row_change = Null
    <2>1. PICK t : t = IF e.ddl_sql # Null THEN "Query" ELSE e.entry_type
      OBVIOUS
    <2>2. t \in EventType \ {"Unknown"}
      BY <1>1, <2>1 DEF EventType
    <2>3. PICK k, s : k = ToProtoType(t) /\ s = OrEmpty(e.ddl_sql)
      OBVIOUS
    <2>4. k \in ProtoEventType /\ s \in Strings
      BY <1>1, <1>2, <2>2, <2>3, WireAssumption DEF ProtoEventType, OrEmpty
    <2>5. StoreValue(e) = [event_type |-> k, row_datas |-> <<>>, sql |-> s,
                           is_ddl |-> e.ddl_sql # Null]
      BY <1>4, <2>1, <2>3 DEF StoreValue
    <2>6. <<>> \in Seq(ProtoRowData) /\ (e.ddl_sql # Null) \in BOOLEAN
      OBVIOUS
    <2>7. QED
      BY <2>4, <2>5, <2>6 DEF ProtoRowChange
  <1>5. QED
    BY <1>3, <1>4

(* An event becomes an entry of the protocol (conversion.rs:8-123).        *)
LEMMA EntryType ==
    ASSUME NEW e \in Carried
    PROVE  canal_event_to_entry(e) \in Entry
  <1>1. e \in CanalEvent /\ e.entry_type \in EventType \ {"Unknown"}
    BY DEF Carried, CanalEvent, Lossless
  <1>2. \A t \in EventType \ {"Unknown"} : ToProtoType(t) \in 0 .. 15
    BY DEF EventType, DmlType, ToProtoType
  <1>3. PICK g, k, v : /\ g = OrEmpty(e.gtid) /\ k = ToProtoType(e.entry_type)
                       /\ v = StoreValue(e)
    OBVIOUS
  <1>4. g \in Strings
    BY <1>1, <1>3, WireAssumption DEF CanalEvent, OrEmpty
  <1>5. k \in ProtoEventType
    BY <1>1, <1>2, <1>3 DEF ProtoEventType
  <1>6. v \in ProtoRowChange
    BY <1>3, StoreValueType
  <1>7. /\ e.journal \in Strings /\ e.position \in Nat /\ e.schema \in Strings
        /\ e.table \in Strings
    BY <1>1 DEF CanalEvent
  <1>8. PICK h : h = [logfile_name |-> e.journal, logfile_offset |-> e.position,
                      schema_name |-> e.schema, table_name |-> e.table,
                      gtid |-> g, event_type |-> k]
    OBVIOUS
  <1>9. h \in Header
    BY <1>4, <1>5, <1>7, <1>8 DEF Header
  <1>10. canal_event_to_entry(e) = [header |-> h, store_value |-> v]
    BY <1>3, <1>8 DEF canal_event_to_entry
  <1>11. QED
    BY <1>6, <1>9, <1>10 DEF Entry

(* An answer is a packet, and its entries are read as the batch            *)
(* (RoundTrip).                                                            *)
LEMMA AnswerType ==
    ASSUME NEW batch \in Seq(Carried)
    PROVE  /\ Conv(batch) \in Seq(Entry) /\ Len(Conv(batch)) = Len(batch)
           /\ \A i \in 1 .. Len(batch) : entry_to_event(Conv(batch)[i]) = batch[i]
           /\ Answer(batch) \in Packet /\ BodySize(Answer(batch)) \in Nat \ {0}
           /\ Answer(batch).messages = Conv(batch) /\ Answer(batch) # Malformed
  <1>1. PICK es : es = Conv(batch)
    OBVIOUS
  <1>2. es \in Seq(Entry) /\ Len(es) = Len(batch)
    <2>1. \A i \in 1 .. Len(batch) : canal_event_to_entry(batch[i]) \in Entry
      BY EntryType
    <2>2. Len(batch) \in Nat
      OBVIOUS
    <2>3. QED
      BY <1>1, <2>1, <2>2 DEF Conv
  <1>3. ASSUME NEW i \in 1 .. Len(batch)
        PROVE  entry_to_event(es[i]) = batch[i]
    <2>1. PICK e : e = batch[i]
      OBVIOUS
    <2>2. e \in CanalEvent /\ Lossless(e)
      BY <2>1 DEF Carried
    <2>3. es[i] = canal_event_to_entry(e)
      BY <1>1, <2>1 DEF Conv
    <2>4. QED
      BY <2>1, <2>2, <2>3, RoundTrip
  <1>4. QED
    BY <1>1, <1>2, <1>3, MessagesSize DEF Answer

-----------------------------------------------------------------------------
(* What is stored, and what is known.                                      *)
Says == {z \in (CanalEvent \cup {Err}) \X Truth : SaysWhatHappened(z[1], z[2])}

LEMMA ErrIsNone == Err \notin CanalEvent
  <1>1. ASSUME NEW e \in CanalEvent
        PROVE  e # Err
    <2>1. e.entry_type \in EventType /\ Err.entry_type = "Err"
      BY DEF CanalEvent, Err
    <2>2. QED
      BY <2>1 DEF EventType, DmlType
  <1>2. QED
    BY <1>1

(* Filtering out Err is keeping the events.                                *)
LEMMA StoredIs ==
    ASSUME NEW s \in Seq(CanalEvent \cup {Err})
    PROVE  Kept(s, ToSet(s) \ {Err}) = Kept(s, CanalEvent)
  <1>1. PICK A : A = ToSet(s)
    OBVIOUS
  <1>2. A = {s[i] : i \in 1 .. Len(s)}
    BY <1>1 DEF ToSet
  <1>3. s \in Seq(A)
    BY <1>2
  <1>4. \A x \in A : x \in A \ {Err} <=> x \in CanalEvent
    BY <1>2, ErrIsNone
  <1>5. Kept(s, A \ {Err}) = Kept(s, CanalEvent)
    BY <1>3, <1>4, KeptSame
  <1>6. QED
    BY <1>1, <1>5

(* What the thread could know of, as a selection that does not look at     *)
(* truth.                                                                  *)
LEMMA KnownIs ==
    ASSUME NEW t \in Seq(Truth)
    PROVE  Kept(t, {x \in ToSet(t) : ~ x.lost}) = Kept(t, {x \in Truth : ~ x.lost})
  <1>1. PICK A : A = ToSet(t)
    OBVIOUS
  <1>2. A = {t[i] : i \in 1 .. Len(t)}
    BY <1>1 DEF ToSet
  <1>3. t \in Seq(A)
    BY <1>2
  <1>4. PICK S, R : S = {x \in A : ~ x.lost} /\ R = {x \in Truth : ~ x.lost}
    OBVIOUS
  <1>5. \A x \in A : x \in S <=> x \in R
    BY <1>2, <1>4
  <1>6. Kept(t, S) = Kept(t, R)
    BY <1>3, <1>5, KeptSame
  <1>7. QED
    BY <1>1, <1>4, <1>6

(* What the feeder stores are events that survive the wire.                *)
LEMMA StoredType ==
    ASSUME SentOK
    PROVE  Stored \in Seq(Carried)
  <1>1. PICK A : A = {e \in CanalEvent \cup {Err} : e # Err => Lossless(e)}
    OBVIOUS
  <1>2. sent \in Seq(A)
    BY <1>1 DEF SentOK
  <1>3. Kept(sent, CanalEvent) \in Seq(A \cap CanalEvent)
    BY <1>2, KeptType
  <1>4. A \cap CanalEvent = Carried
    BY <1>1, ErrIsNone DEF Carried
  <1>5. Stored = Kept(sent, CanalEvent)
    BY StoredIs DEF SentOK, Stored
  <1>6. QED
    BY <1>3, <1>4, <1>5

(* What is stored is what the thread could know of, one by one.            *)
LEMMA StoredIsKnown ==
    ASSUME SentOK, ReaderTellsTheTruth
    PROVE  Paired(Stored, Known, Says)
  <1>1. sent \in Seq(CanalEvent \cup {Err}) /\ truth \in Seq(Truth)
    BY DEF SentOK
  <1>2. PICK R : R = {x \in Truth : ~ x.lost}
    OBVIOUS
  <1>3. ASSUME NEW x \in CanalEvent \cup {Err}, NEW y \in Truth, <<x, y>> \in Says
        PROVE  x \in CanalEvent <=> y \in R
    <2>1. SaysWhatHappened(x, y)
      BY <1>3 DEF Says
    <2>2. QED
      BY <1>2, <2>1, ErrIsNone DEF SaysWhatHappened
  <1>4. Paired(sent, truth, Says)
    <2>1. Len(sent) = Len(truth)
      BY DEF ReaderTellsTheTruth
    <2>2. ASSUME NEW i \in 1 .. Len(truth)
          PROVE  <<sent[i], truth[i]>> \in Says
      <3>1. PICK x, y : x = sent[i] /\ y = truth[i]
        OBVIOUS
      <3>2. x \in CanalEvent \cup {Err} /\ y \in Truth
        BY <1>1, <2>1, <3>1
      <3>3. SaysWhatHappened(x, y)
        BY <3>1 DEF ReaderTellsTheTruth
      <3>4. <<x, y>> \in Says
        BY <3>2, <3>3 DEF Says
      <3>5. QED
        BY <3>1, <3>4
    <2>3. QED
      BY <2>1, <2>2 DEF Paired
  <1>5. Paired(Kept(sent, CanalEvent), Kept(truth, R), Says)
    BY <1>1, <1>3, <1>4, KeptPairs
  <1>6. Stored = Kept(sent, CanalEvent) /\ Known = Kept(truth, R)
    BY <1>1, <1>2, StoredIs, KnownIs DEF Stored, Known
  <1>7. QED
    BY <1>5, <1>6

(* A step of MySQL's and the thread's adds to what is stored.              *)
LEMMA SentGrows ==
    ASSUME RowsInv, RowsInv', RowsNext \/ UNCHANGED rowVars
    PROVE  \E a \in Seq(CanalEvent \cup {Err}) : sent' = sent \o a
  <1>1. sent \in Seq(CanalEvent \cup {Err}) /\ sent' \in Seq(CanalEvent \cup {Err})
    BY DEF RowsInv, SentOK
  <1>2. CASE sent' = sent
    <2>1. <<>> \in Seq(CanalEvent \cup {Err}) /\ sent \o <<>> = sent
      BY <1>1, ConcatEmptySeq
    <2>2. QED
      BY <1>2, <2>1
  <1>3. ASSUME NEW e, sent' = Append(sent, e)
        PROVE  \E a \in Seq(CanalEvent \cup {Err}) : sent' = sent \o a
    <2>1. Len(sent') = Len(sent) + 1 /\ sent'[Len(sent) + 1] = e /\ Len(sent) \in Nat
      BY <1>1, <1>3
    <2>2. e \in CanalEvent \cup {Err}
      BY <1>1, <2>1
    <2>3. <<e>> \in Seq(CanalEvent \cup {Err})
      BY <2>2
    <2>4. sent' = sent \o <<e>>
      BY <1>1, <1>3, <2>2, AppendIsConcat
    <2>5. QED
      BY <2>3, <2>4
  <1>4. ASSUME NEW n \in Nat, NEW a, a = [i \in 1 .. n |-> a[i]], sent' = sent \o a
        PROVE  a \in Seq(CanalEvent \cup {Err})
    <2>1. \A i \in 1 .. n : sent'[Len(sent) + i] = a[i]
      BY <1>1, <1>4
    <2>2. Len(sent') = Len(sent) + n /\ Len(sent) \in Nat
      BY <1>1, <1>4
    <2>3. \A i \in 1 .. n : Len(sent) + i \in 1 .. Len(sent')
      BY <2>2
    <2>4. \A i \in 1 .. n : a[i] \in CanalEvent \cup {Err}
      BY <1>1, <2>1, <2>3
    <2>5. QED
      BY <1>4, <2>4, IndexedIsSeq
  <1>5. ASSUME NEW type \in DmlType, NEW id \in TableIds, Rows(type, id)
        PROVE  \E a \in Seq(CanalEvent \cup {Err}) : sent' = sent \o a
    <2>0. PICK n \in 1 .. MaxSent - Len(sent) :
          \E rows \in [1 .. n -> RowsOf(type, mysql.bound[id])] :
             sent' = sent \o [i \in 1 .. n |-> RowEvent(reader, mysql'.written, type, id, rows[i])]
      BY <1>5 DEF Rows
    <2>1. PICK rows :
             sent' = sent \o [i \in 1 .. n |-> RowEvent(reader, mysql'.written, type, id, rows[i])]
      BY <2>0
    <2>2. PICK a : a = [i \in 1 .. n |-> RowEvent(reader, mysql'.written, type, id, rows[i])]
      OBVIOUS
    <2>3. n \in Nat
      BY <1>1, RowsAssumption
    <2>4. a = [i \in 1 .. n |-> a[i]]
      BY <2>2
    <2>5. sent' = sent \o a
      BY <2>1, <2>2
    <2>6. QED
      BY <1>4, <2>3, <2>4, <2>5
  <1>6. CASE Rotate \/ Xid \/ UNCHANGED rowVars
    BY <1>2, <1>6 DEF Rotate, Xid, rowVars
  <1>7. ASSUME NEW gtid \in Gtids, Gtid(gtid) PROVE sent' = sent
    BY <1>7 DEF Gtid
  <1>8. ASSUME NEW id \in TableIds, NEW def \in TableDefs, TableMap(id, def) PROVE sent' = sent
    BY <1>8 DEF TableMap
  <1>9. ASSUME NEW def \in TableDefs, NEW sql \in Statements, Query(def.schema, sql)
        PROVE  \E e : sent' = Append(sent, e)
    BY <1>9 DEF Query
  <1>10. QED
    BY <1>2, <1>3, <1>5, <1>6, <1>7, <1>8, <1>9 DEF RowsNext

(* What is stored is only added to.                                        *)
LEMMA StoredGrows ==
    ASSUME RowsInv, RowsInv', RowsNext \/ UNCHANGED rowVars
    PROVE  \E more \in Seq(Carried) : Stored' = Stored \o more
  <1>1. PICK A : A = {e \in CanalEvent \cup {Err} : e # Err => Lossless(e)}
    OBVIOUS
  <1>2. PICK s, s1 : s = sent /\ s1 = sent'
    OBVIOUS
  <1>3. /\ s \in Seq(CanalEvent \cup {Err}) /\ s1 \in Seq(CanalEvent \cup {Err})
        /\ \A i \in 1 .. Len(s1) : s1[i] # Err => Lossless(s1[i])
    BY <1>2 DEF RowsInv, SentOK
  <1>4. PICK a \in Seq(CanalEvent \cup {Err}) : s1 = s \o a
    BY <1>2, SentGrows
  <1>5. Kept(s \o a, CanalEvent) = Kept(s, CanalEvent) \o Kept(a, CanalEvent)
    BY <1>3, <1>4, KeptConcat
  <1>6. /\ Stored = Kept(s, CanalEvent) /\ Stored' = Kept(s1, CanalEvent)
    BY <1>2, <1>3, StoredIs DEF Stored
  <1>7. a \in Seq(A)
    <2>1. \A i \in 1 .. Len(a) : s1[Len(s) + i] = a[i] /\ Len(s) + i \in 1 .. Len(s1)
      BY <1>3, <1>4
    <2>2. \A i \in 1 .. Len(a) : a[i] \in A
      BY <1>1, <1>3, <1>4, <2>1
    <2>3. Len(a) \in Nat /\ a = [i \in 1 .. Len(a) |-> a[i]]
      BY <1>4
    <2>4. QED
      BY <2>2, <2>3, IndexedIsSeq
  <1>8. Kept(a, CanalEvent) \in Seq(A \cap CanalEvent)
    BY <1>7, KeptType
  <1>9. A \cap CanalEvent = Carried
    BY <1>1, ErrIsNone DEF Carried
  <1>10. QED
    BY <1>4, <1>5, <1>6, <1>8, <1>9

-----------------------------------------------------------------------------
(* What the server may still have to read: the ClientAck of the last       *)
(* batch, then an empty frame, then what ends with the bytes c.            *)
Pending(bytes, beaten, c) ==
    \E a \in {<<>>, encode(ClientAck)}, b \in {<<>>, encode(KeepAlive)} :
        /\ b # <<>> => beaten
        /\ bytes = a \o (b \o c)

(* The three packets as they are written.                                  *)
LEMMA Encoded ==
    /\ encode(KeepAlive) \in Seq(Cell) /\ Len(encode(KeepAlive)) = HeaderBytes
    /\ encode(Get) \in Seq(Cell) /\ Len(encode(Get)) = HeaderBytes + 1
    /\ encode(ClientAck) \in Seq(Cell) /\ Len(encode(ClientAck)) = HeaderBytes + 1
    /\ HeaderBytes \in Nat \ {0}
    /\ encode(KeepAlive) # <<>> /\ encode(Get) # <<>> /\ encode(ClientAck) # <<>>
  <1>1. HeaderBytes \in Nat \ {0}
    BY DeliveryAssumption
  <1>2. encode(KeepAlive) \in Seq(Cell) /\ Len(encode(KeepAlive)) = HeaderBytes + 0
    BY Sizes, EncodeType
  <1>3. encode(Get) \in Seq(Cell) /\ Len(encode(Get)) = HeaderBytes + 1
    BY Sizes, EncodeType
  <1>4. encode(ClientAck) \in Seq(Cell) /\ Len(encode(ClientAck)) = HeaderBytes + 1
    BY Sizes, EncodeType
  <1>5. QED
    BY <1>1, <1>2, <1>3, <1>4

LEMMA NoBytesType == <<>> \in Seq(Cell)
  OBVIOUS

(* The five ways in which what is pending changes.                         *)
LEMMA PendingNothing == ASSUME NEW beaten, NEW c \in Seq(Cell) PROVE Pending(c, beaten, c)
  <1>1. <<>> \o (<<>> \o c) = c
    BY ConcatEmptySeq
  <1>2. QED
    BY <1>1 DEF Pending

LEMMA PendingAck == ASSUME NEW beaten PROVE Pending(encode(ClientAck), beaten, <<>>)
  <1>1. PICK a : a = encode(ClientAck) /\ a \in Seq(Cell)
    BY Encoded
  <1>2. a \o (<<>> \o <<>>) = a
    BY <1>1, ConcatEmptySeq
  <1>3. QED
    BY <1>1, <1>2 DEF Pending

LEMMA PendingKeepAlive ==
    ASSUME NEW bytes, Pending(bytes, FALSE, <<>>)
    PROVE  Pending(bytes \o encode(KeepAlive), TRUE, <<>>)
  <1>1. PICK k : k = encode(KeepAlive) /\ k \in Seq(Cell)
    BY Encoded
  <1>2. PICK a \in {<<>>, encode(ClientAck)} : bytes = a \o (<<>> \o <<>>)
    BY DEF Pending
  <1>3. a \in Seq(Cell)
    BY <1>2, Encoded, NoBytesType
  <1>4. bytes = a /\ k \o <<>> = k
    BY <1>1, <1>2, <1>3, ConcatEmptySeq
  <1>5. bytes \o k = a \o (k \o <<>>)
    BY <1>4
  <1>6. QED
    BY <1>1, <1>2, <1>5 DEF Pending

LEMMA PendingGet ==
    ASSUME NEW bytes, NEW beaten, Pending(bytes, beaten, <<>>)
    PROVE  Pending(bytes \o encode(Get), beaten, encode(Get))
  <1>1. PICK a \in {<<>>, encode(ClientAck)}, b \in {<<>>, encode(KeepAlive)} :
          (b # <<>> => beaten) /\ bytes = a \o (b \o <<>>)
    BY DEF Pending
  <1>2. a \in Seq(Cell) /\ b \in Seq(Cell)
    BY <1>1, Encoded, NoBytesType
  <1>3. PICK g : g = encode(Get) /\ g \in Seq(Cell)
    BY Encoded
  <1>4. bytes = a \o b
    BY <1>1, <1>2, ConcatEmptySeq
  <1>5. bytes \o g = a \o (b \o g)
    BY <1>2, <1>3, <1>4, ConcatAssociative
  <1>6. QED
    BY <1>1, <1>3, <1>5 DEF Pending

LEMMA PendingFirst ==
    ASSUME NEW bytes, NEW beaten, NEW c \in Seq(Cell), Pending(bytes, beaten, c)
    PROVE  \/ bytes = c
           \/ \E p \in {ClientAck, KeepAlive}, r \in Seq(Cell) :
                bytes = encode(p) \o r /\ Pending(r, beaten, c)
  <1>1. PICK a \in {<<>>, encode(ClientAck)}, b \in {<<>>, encode(KeepAlive)} :
          (b # <<>> => beaten) /\ bytes = a \o (b \o c)
    BY DEF Pending
  <1>2. PICK bc : bc = b \o c
    OBVIOUS
  <1>3. a \in Seq(Cell) /\ b \in Seq(Cell)
    BY <1>1, Encoded, NoBytesType
  <1>7. bc \in Seq(Cell)
    BY <1>2, <1>3
  <1>4. CASE a = encode(ClientAck)
    <2>1. Pending(bc, beaten, c)
      <3>1. <<>> \o (b \o c) = bc
        BY <1>2, <1>3, ConcatEmptySeq
      <3>2. QED
        BY <1>1, <3>1 DEF Pending
    <2>2. bytes = encode(ClientAck) \o bc
      BY <1>1, <1>2, <1>4
    <2>3. QED
      BY <1>7, <2>1, <2>2
  <1>5. CASE a = <<>>
    <2>1. bytes = bc
      BY <1>1, <1>2, <1>5, <1>7, ConcatEmptySeq
    <2>2. CASE b = <<>>
      BY <1>2, <2>1, <2>2, ConcatEmptySeq
    <2>3. CASE b = encode(KeepAlive)
      <3>1. bytes = encode(KeepAlive) \o c
        BY <1>2, <2>1, <2>3
      <3>2. Pending(c, beaten, c)
        BY PendingNothing
      <3>3. QED
        BY <3>1, <3>2
    <2>4. QED
      BY <1>1, <2>2, <2>3
  <1>6. QED
    BY <1>1, <1>4, <1>5

(* An empty stream has no header.                                          *)
LEMMA EmptyStream ==
    ASSUME NEW pipe \in Pipe, Stream(pipe) = <<>>
    PROVE  ~ HasHeader(pipe.got)
  <1>1. PICK g, f : g = pipe.got /\ f = pipe.flight /\ g \in Seq(Cell) /\ f \in Seq(Cell)
    BY PipeParts
  <1>2. g \o f = <<>> /\ Len(g \o f) = Len(g) + Len(f)
    BY <1>1 DEF Stream
  <1>3. Len(g) = 0
    BY <1>1, <1>2
  <1>4. QED
    BY <1>1, <1>3, DeliveryAssumption DEF HasHeader

(* What the server reads is what the client wrote.                         *)
LEMMA ServerReads ==
    ASSUME NEW pipe \in Pipe, NEW beaten, NEW c, c = <<>> \/ c = encode(Get),
           Pending(Stream(pipe), beaten, c), HasHeader(pipe.got)
    PROVE  \E p \in {ClientAck, KeepAlive, Get}, r \in Seq(Cell) :
             /\ Stream(pipe) = encode(p) \o r /\ LengthOf(pipe.got) = BodySize(p)
             /\ p = Get => r = <<>> /\ c = encode(Get)
             /\ p # Get => Pending(r, beaten, c)
  <1>1. c \in Seq(Cell)
    BY Encoded, NoBytesType
  <1>2. Stream(pipe) # <<>>
    BY EmptyStream
  <1>3. \E p \in {ClientAck, KeepAlive, Get}, r \in Seq(Cell) :
             /\ Stream(pipe) = encode(p) \o r
             /\ p = Get => r = <<>> /\ c = encode(Get)
             /\ p # Get => Pending(r, beaten, c)
    <2>1. CASE Stream(pipe) = c
      <3>1. c = encode(Get)
        BY <1>2, <2>1
      <3>2. encode(Get) \o <<>> = encode(Get)
        BY Encoded, ConcatEmptySeq
      <3>3. <<>> \in Seq(Cell)
        OBVIOUS
      <3>4. QED
        BY <2>1, <3>1, <3>2, <3>3
    <2>2. ASSUME NEW p \in {ClientAck, KeepAlive}, NEW r \in Seq(Cell),
                 Stream(pipe) = encode(p) \o r, Pending(r, beaten, c)
          PROVE  p # Get
      BY DEF ClientAck, KeepAlive, Get
    <2>3. \/ Stream(pipe) = c
          \/ \E p \in {ClientAck, KeepAlive}, r \in Seq(Cell) :
               Stream(pipe) = encode(p) \o r /\ Pending(r, beaten, c)
      BY <1>1, PendingFirst
    <2>4. ASSUME NEW p \in {ClientAck, KeepAlive}, NEW r \in Seq(Cell),
                 Stream(pipe) = encode(p) \o r /\ Pending(r, beaten, c)
          PROVE  \E q \in {ClientAck, KeepAlive, Get}, s \in Seq(Cell) :
                   /\ Stream(pipe) = encode(q) \o s
                   /\ q = Get => s = <<>> /\ c = encode(Get)
                   /\ q # Get => Pending(s, beaten, c)
      BY <2>2, <2>4
    <2>5. QED
      BY <2>1, <2>3, <2>4
  <1>4. PICK p \in {ClientAck, KeepAlive, Get}, r \in Seq(Cell) :
             /\ Stream(pipe) = encode(p) \o r
             /\ p = Get => r = <<>> /\ c = encode(Get)
             /\ p # Get => Pending(r, beaten, c)
    BY <1>3
  <1>5. p \in Packet /\ BodySize(p) \in Nat
    BY Sizes
  <1>6. LengthOf(pipe.got) = BodySize(p)
    BY <1>4, <1>5, FirstLength
  <1>7. QED
    BY <1>4, <1>6

-----------------------------------------------------------------------------
(* What the client has not been given of what was answered, and where a    *)
(* Get, its answer and its ClientAck are.                                  *)
Owed == SubSeq(Stored, Len(consumed) + 1, taken)

Polling ==
    /\ client.pc = "poll" /\ taken = Len(consumed)
    /\ Pending(Stream(up), client.beaten, <<>>) /\ Stream(down) = <<>>

Asking ==
    /\ client.pc = "header" /\ taken = Len(consumed)
    /\ Pending(Stream(up), client.beaten, encode(Get)) /\ Stream(down) = <<>>

Answering ==
    /\ client.pc = "header" /\ Len(consumed) < taken
    /\ Stream(up) = <<>> /\ Stream(down) = encode(Answer(Owed))

Reading ==
    /\ client.pc = "body" /\ Len(consumed) < taken
    /\ Stream(up) = <<>> /\ Stream(down) = Body(Answer(Owed))
    /\ client.need = BodySize(Answer(Owed))

Refused ==
    /\ client.pc = "failed" /\ Len(consumed) < taken
    /\ Stream(up) = <<>> /\ BodySize(Answer(Owed)) > MaxPacketSize

ClientOK ==
    client \in [pc : {"poll", "header", "body", "failed"}, need : 0 .. MaxPacketSize,
                gets : Nat, beaten : BOOLEAN]

ConsumedOK ==
    /\ taken \in 0 .. Len(Stored)
    /\ consumed \in Seq(Carried) /\ Len(consumed) <= taken
    /\ \A i \in 1 .. Len(consumed) : consumed[i] = Stored[i]

FramesInv ==
    /\ up \in Pipe /\ down \in Pipe /\ ClientOK /\ ConsumedOK
    /\ Polling \/ Asking \/ Answering \/ Reading \/ Refused

-----------------------------------------------------------------------------
(* Parts of a sequence.                                                    *)
LEMMA PartOf ==
    ASSUME NEW A, NEW s \in Seq(A), NEW m \in 1 .. Len(s) + 1, NEW n \in m - 1 .. Len(s)
    PROVE  /\ SubSeq(s, m, n) \in Seq(A) /\ Len(SubSeq(s, m, n)) = n - m + 1
           /\ \A i \in 1 .. n - m + 1 : SubSeq(s, m, n)[i] = s[m + i - 1]
  <1>1. m \in Int /\ n \in Int /\ m - 1 <= n
    OBVIOUS
  <1>2. (IF m <= n THEN n - m + 1 ELSE 0) = n - m + 1
    BY <1>1
  <1>3. \A i \in m .. n : s[i] \in A
    <2>1. \A i \in m .. n : i \in 1 .. Len(s)
      OBVIOUS
    <2>2. QED
      BY <2>1
  <1>4. /\ SubSeq(s, m, n) \in Seq(A)
        /\ Len(SubSeq(s, m, n)) = (IF m <= n THEN n - m + 1 ELSE 0)
        /\ \A i \in 1 .. n - m + 1 : SubSeq(s, m, n)[i] = s[m + i - 1]
    BY ONLY <1>1, <1>3, SubSeqProperties
  <1>5. QED
    BY ONLY <1>2, <1>4

(* A part does not change when the sequence grows.                         *)
LEMMA SubSeqAgain ==
    ASSUME NEW A, NEW s \in Seq(A), NEW t \in Seq(A), NEW u, u = s \o t,
           NEW m \in 1 .. Len(s) + 1, NEW n \in m - 1 .. Len(s)
    PROVE  SubSeq(u, m, n) = SubSeq(s, m, n)
  <1>1. u \in Seq(A) /\ Len(u) = Len(s) + Len(t) /\ \A i \in 1 .. Len(s) : u[i] = s[i]
    <2>1. /\ s \o t \in Seq(A) /\ Len(s \o t) = Len(s) + Len(t)
          /\ \A i \in 1 .. Len(s) : (s \o t)[i] = s[i]
      OBVIOUS
    <2>2. QED
      BY <2>1
  <1>2. PICK x, y, k : x = SubSeq(u, m, n) /\ y = SubSeq(s, m, n) /\ k = n - m + 1
    OBVIOUS
  <1>3. n \in m - 1 .. Len(u) /\ m \in 1 .. Len(u) + 1 /\ k \in Nat
    BY <1>1, <1>2
  <1>4. x \in Seq(A) /\ Len(x) = k /\ \A i \in 1 .. k : x[i] = u[m + i - 1]
    BY <1>1, <1>2, <1>3, PartOf
  <1>5. y \in Seq(A) /\ Len(y) = k /\ \A i \in 1 .. k : y[i] = s[m + i - 1]
    BY <1>2, PartOf
  <1>6. \A i \in 1 .. k : m + i - 1 \in 1 .. Len(s)
    BY <1>2
  <1>7. \A i \in 1 .. k : x[i] = y[i]
    BY <1>1, <1>4, <1>5, <1>6
  <1>8. x = y
    BY <1>4, <1>5, <1>7, SeqEqual
  <1>9. QED
    BY <1>2, <1>8

(* What is owed, event by event.                                           *)
LEMMA OwedIs ==
    ASSUME SentOK, ConsumedOK
    PROVE  /\ Stored \in Seq(Carried) /\ Len(Stored) \in Nat
           /\ Owed \in Seq(Carried) /\ Len(Owed) = taken - Len(consumed)
           /\ \A i \in 1 .. Len(Owed) : Owed[i] = Stored[Len(consumed) + i]
  <1>1. PICK s, m : s = Stored /\ m = Len(consumed) /\ s \in Seq(Carried)
    BY StoredType
  <1>2. taken \in 0 .. Len(s) /\ m \in Nat /\ m <= taken
    BY <1>1 DEF ConsumedOK
  <1>3. PICK o : o = SubSeq(s, m + 1, taken)
    OBVIOUS
  <1>4. m + 1 \in 1 .. Len(s) + 1 /\ taken \in (m + 1) - 1 .. Len(s)
    BY <1>1, <1>2
  <1>5. /\ o \in Seq(Carried) /\ Len(o) = taken - (m + 1) + 1
        /\ \A i \in 1 .. taken - (m + 1) + 1 : o[i] = s[(m + 1) + i - 1]
    BY <1>1, <1>3, <1>4, PartOf
  <1>6. Len(o) = taken - m /\ \A i \in 1 .. taken - m : o[i] = s[m + i]
    BY <1>2, <1>5
  <1>7. Owed = o
    BY <1>1, <1>3 DEF Owed
  <1>8. QED
    BY <1>1, <1>5, <1>6, <1>7

-----------------------------------------------------------------------------
(* The batch of a Get is the next part of what is stored.                  *)
LEMMA NextBatchIs ==
    ASSUME NEW s \in Seq(Carried), s = Stored, taken \in 0 .. Len(s)
    PROVE  /\ NextBatch \in Seq(Carried)
           /\ \E k \in 0 .. Len(s) - taken :
                Len(NextBatch) = k /\ NextBatch = SubSeq(s, taken + 1, taken + k)
  <1>1. FetchSize \in Nat \ {0} /\ Len(s) \in Nat
    BY DeliveryAssumption
  <1>2. PICK d : d = SubSeq(s, taken + 1, Len(s))
    OBVIOUS
  <1>3. d \in Seq(Carried) /\ Len(d) = Len(s) - taken
        /\ \A i \in 1 .. Len(s) - taken : d[i] = s[taken + i]
    BY <1>1, <1>2
  <1>4. PICK k : k = IF Len(d) < FetchSize THEN Len(d) ELSE FetchSize
    OBVIOUS
  <1>5. k \in 0 .. Len(s) - taken
    BY <1>1, <1>3, <1>4
  <1>6. NextBatch = SubSeq(d, 1, k)
    BY <1>2, <1>4 DEF NextBatch, Drop
  <1>7. PICK x, y : x = SubSeq(d, 1, k) /\ y = SubSeq(s, taken + 1, taken + k)
    OBVIOUS
  <1>8. x \in Seq(Carried) /\ Len(x) = k /\ \A i \in 1 .. k : x[i] = d[i]
    BY <1>3, <1>5, <1>7
  <1>9. y \in Seq(Carried) /\ Len(y) = k /\ \A i \in 1 .. k : y[i] = s[taken + i]
    <2>1. /\ taken + 1 \in 1 .. Len(s) + 1 /\ taken + k \in (taken + 1) - 1 .. Len(s)
          /\ (taken + k) - (taken + 1) + 1 = k
      BY <1>1, <1>5
    <2>2. /\ y \in Seq(Carried) /\ Len(y) = (taken + k) - (taken + 1) + 1
          /\ \A i \in 1 .. (taken + k) - (taken + 1) + 1 : y[i] = s[(taken + 1) + i - 1]
      BY <1>7, <2>1, PartOf
    <2>3. \A i \in 1 .. k : (taken + 1) + i - 1 = taken + i
      BY <1>5
    <2>4. QED
      BY <2>1, <2>2, <2>3
  <1>10. \A i \in 1 .. k : x[i] = y[i]
    <2>1. \A i \in 1 .. k : i \in 1 .. Len(s) - taken
      BY <1>1, <1>5
    <2>2. QED
      BY <1>3, <1>8, <1>9, <2>1
  <1>11. x = y
    BY <1>8, <1>9, <1>10, SeqEqual
  <1>12. QED
    BY <1>5, <1>6, <1>7, <1>8, <1>11

-----------------------------------------------------------------------------
(* A step that keeps both streams, or adds to what is stored, keeps where  *)
(* everything is.                                                          *)
LEMMA FramesInvKept ==
    ASSUME FramesInv, SentOK, UNCHANGED <<taken, client, consumed>>,
           up' \in Pipe, down' \in Pipe, Stream(up') = Stream(up), Stream(down') = Stream(down),
           NEW more \in Seq(Carried), Stored' = Stored \o more
    PROVE  FramesInv'
  <1>1. PICK s, s1 : s = Stored /\ s1 = Stored' /\ s1 = s \o more
    OBVIOUS
  <1>2. s \in Seq(Carried) /\ taken \in 0 .. Len(s) /\ Len(consumed) \in Nat
        /\ Len(consumed) <= taken
    BY <1>1, StoredType DEF FramesInv, ConsumedOK
  <1>3. Len(s1) = Len(s) + Len(more) /\ Len(more) \in Nat
        /\ \A i \in 1 .. Len(s) : s1[i] = s[i]
    <2>1. Len(s \o more) = Len(s) + Len(more) /\ \A i \in 1 .. Len(s) : (s \o more)[i] = s[i]
      BY <1>2
    <2>2. QED
      BY <1>1, <2>1
  <1>4. Owed' = Owed
    <2>1. Len(consumed) + 1 \in 1 .. Len(s) + 1 /\ taken \in (Len(consumed) + 1) - 1 .. Len(s)
      BY <1>2
    <2>2. SubSeq(s1, Len(consumed) + 1, taken) = SubSeq(s, Len(consumed) + 1, taken)
      BY <1>1, <1>2, <2>1, SubSeqAgain
    <2>3. QED
      BY <1>1, <2>2 DEF Owed
  <1>5. ConsumedOK'
    <2>1. taken \in 0 .. Len(s1)
      BY <1>2, <1>3
    <2>2. \A i \in 1 .. Len(consumed) : consumed[i] = s1[i]
      BY <1>1, <1>2, <1>3 DEF FramesInv, ConsumedOK
    <2>3. QED
      BY <1>1, <2>1, <2>2 DEF FramesInv, ConsumedOK
  <1>6. ClientOK'
    BY DEF FramesInv, ClientOK
  <1>7. Polling => Polling'
    BY DEF Polling
  <1>8. Asking => Asking'
    BY DEF Asking
  <1>9. Answering => Answering'
    BY <1>4 DEF Answering
  <1>10. Reading => Reading'
    BY <1>4 DEF Reading
  <1>11. Refused => Refused'
    BY <1>4 DEF Refused
  <1>12. QED
    BY <1>5, <1>6, <1>7, <1>8, <1>9, <1>10, <1>11 DEF FramesInv

(* It holds at the start; while the network delivers; while MySQL writes.  *)
LEMMA FramesInvInit == Init => FramesInv
  <1> SUFFICES ASSUME Init PROVE FramesInv
    OBVIOUS
  <1>1. <<>> \in Seq(Cell) /\ <<>> \o <<>> = <<>>
    BY NoBytesType, ConcatEmptySeq
  <1>2. up \in Pipe /\ down \in Pipe /\ Stream(up) = <<>> /\ Stream(down) = <<>>
    BY <1>1, PipeOf DEF Init, NoBytes
  <1>3. ClientOK
    BY DeliveryAssumption DEF Init, ClientOK
  <1>4. sent = <<>> /\ Kept(<<>>, ToSet(sent) \ {Err}) = <<>>
    BY KeptEmpty DEF Init, RowsInit
  <1>5. Stored = <<>>
    BY <1>4 DEF Stored
  <1>6. ConsumedOK
    <2>1. consumed = <<>> /\ taken = 0 /\ Len(<<>>) = 0 /\ <<>> \in Seq(Carried)
      BY DEF Init
    <2>2. QED
      BY <1>5, <2>1 DEF ConsumedOK
  <1>7. Pending(Stream(up), client.beaten, <<>>)
    BY <1>1, <1>2, PendingNothing
  <1>8. Polling
    BY <1>2, <1>7 DEF Init, Polling
  <1>9. QED
    BY <1>2, <1>3, <1>6, <1>8 DEF FramesInv

LEMMA FramesInvDeliver == RowsInv /\ FramesInv /\ (UpBytes \/ DownBytes) => FramesInv'
  <1> SUFFICES ASSUME RowsInv, FramesInv, UpBytes \/ DownBytes PROVE FramesInv'
    OBVIOUS
  <1>1. up \in Pipe /\ down \in Pipe /\ SentOK
    BY DEF FramesInv, RowsInv
  <1>2. UNCHANGED <<taken, client, consumed>> /\ Stored' = Stored
    BY DEF UpBytes, DownBytes, rowVars, Stored
  <1>3. /\ up' \in Pipe /\ down' \in Pipe /\ Stream(up') = Stream(up)
        /\ Stream(down') = Stream(down)
    <2>1. CASE UpBytes
      BY <1>1, <2>1, CutBytes DEF UpBytes
    <2>2. CASE DownBytes
      BY <1>1, <2>2, CutBytes DEF DownBytes
    <2>3. QED
      BY <2>1, <2>2
  <1>4. <<>> \in Seq(Carried) /\ Stored' = Stored \o <<>>
    <2>1. Stored \in Seq(Carried)
      BY <1>1, StoredType
    <2>2. Stored \o <<>> = Stored
      BY <2>1, ConcatEmptySeq
    <2>3. QED
      BY <1>2, <2>2
  <1>5. QED
    BY <1>1, <1>2, <1>3, <1>4, FramesInvKept

LEMMA FramesInvRows ==
    RowsInv /\ RowsInv' /\ FramesInv /\ (RowsNext \/ UNCHANGED rowVars) /\ UNCHANGED deliveryVars
      => FramesInv'
  <1> SUFFICES ASSUME RowsInv, RowsInv', FramesInv, RowsNext \/ UNCHANGED rowVars,
                      UNCHANGED deliveryVars
               PROVE  FramesInv'
    OBVIOUS
  <1>1. /\ UNCHANGED <<taken, client, consumed>> /\ SentOK
        /\ up' \in Pipe /\ down' \in Pipe /\ Stream(up') = Stream(up)
        /\ Stream(down') = Stream(down)
    BY DEF deliveryVars, FramesInv, RowsInv
  <1>2. PICK more \in Seq(Carried) : Stored' = Stored \o more
    BY StoredGrows
  <1>3. QED
    BY <1>1, <1>2, FramesInvKept

-----------------------------------------------------------------------------
LEMMA ClientFields ==
    ASSUME ClientOK
    PROVE  client = [pc |-> client.pc, need |-> client.need, gets |-> client.gets,
                     beaten |-> client.beaten]
           /\ client.need \in 0 .. MaxPacketSize /\ client.gets \in Nat
           /\ client.beaten \in BOOLEAN
  BY DEF ClientOK

(* While the server has something to read, the client is not answered.     *)
LEMMA ServerHasFrame ==
    ASSUME FramesInv, HasHeader(up.got)
    PROVE  \/ Polling /\ Pending(Stream(up), client.beaten, <<>>)
           \/ Asking /\ Pending(Stream(up), client.beaten, encode(Get))
  <1>1. up \in Pipe
    BY DEF FramesInv
  <1>2. Stream(up) # <<>>
    BY <1>1, EmptyStream
  <1>3. QED
    BY <1>2 DEF FramesInv, Polling, Asking, Answering, Reading, Refused

(* The frame the server takes is one the client wrote, and it leaves the    *)
(* rest of what the client wrote (handle_client, server.rs).               *)
LEMMA ServerTakes ==
    ASSUME FramesInv, HasFrame(up.got),
           NEW v, v = Consume(up, FrameLength(up.got))
    PROVE  \E p \in {ClientAck, KeepAlive, Get}, c \in {<<>>, encode(Get)} :
             /\ v \in Pipe
             /\ (c = <<>> /\ Polling) \/ (c = encode(Get) /\ Asking)
             /\ LengthOf(up.got) = BodySize(p) /\ (LengthOf(up.got) # 0 => NextPacket = p)
             /\ p = Get => Stream(v) = <<>> /\ c = encode(Get)
             /\ p # Get => Pending(Stream(v), client.beaten, c)
  <1>1. HasHeader(up.got) /\ up \in Pipe
    BY DEF HasFrame, FramesInv
  <1>2. PICK c \in {<<>>, encode(Get)} :
                 /\ Pending(Stream(up), client.beaten, c)
                 /\ (c = <<>> /\ Polling) \/ (c = encode(Get) /\ Asking)
    BY <1>1, ServerHasFrame
  <1>3. c = <<>> \/ c = encode(Get)
    OBVIOUS
  <1>4. PICK p \in {ClientAck, KeepAlive, Get}, r \in Seq(Cell) :
             /\ Stream(up) = encode(p) \o r /\ LengthOf(up.got) = BodySize(p)
             /\ p = Get => r = <<>> /\ c = encode(Get)
             /\ p # Get => Pending(r, client.beaten, c)
    BY <1>1, <1>2, <1>3, ServerReads
  <1>5. PICK n \in Nat : n = BodySize(p) /\ p \in Packet
    BY Sizes
  <1>6. /\ n # 0 => Payload(up.got) = p
        /\ v \in Pipe /\ Stream(v) = r
    BY <1>1, <1>4, <1>5, FirstFrame
  <1>7. QED
    BY <1>2, <1>4, <1>5, <1>6 DEF NextPacket

(* SkipEmptyFrame, ReadAck: what the client waits for is still to come.    *)
LEMMA FramesInvSkipped ==
    ASSUME RowsInv, FramesInv, HasFrame(up.got),
           up' = Consume(up, FrameLength(up.got)),
           UNCHANGED <<down, taken, client, consumed, rowVars>>,
           LengthOf(up.got) = 0 \/ NextPacket = ClientAck
    PROVE  FramesInv'
  <1>1. PICK p \in {ClientAck, KeepAlive, Get}, c \in {<<>>, encode(Get)} :
             /\ up' \in Pipe
             /\ (c = <<>> /\ Polling) \/ (c = encode(Get) /\ Asking)
             /\ LengthOf(up.got) = BodySize(p) /\ (LengthOf(up.got) # 0 => NextPacket = p)
             /\ p # Get => Pending(Stream(up'), client.beaten, c)
    BY ServerTakes
  <1>2. p # Get
    BY <1>1, Sizes DEF Get, ClientAck
  <1>3. Pending(Stream(up'), client.beaten, c)
    BY <1>1, <1>2
  <1>4. ClientOK' /\ ConsumedOK' /\ down' \in Pipe
    BY DEF FramesInv, ClientOK, ConsumedOK, rowVars, Stored
  <1>5. CASE c = <<>> /\ Polling
    <2>1. Polling'
      BY <1>3, <1>5 DEF Polling
    <2>2. QED
      BY <1>1, <1>4, <2>1 DEF FramesInv
  <1>6. CASE c = encode(Get) /\ Asking
    <2>1. Asking'
      BY <1>3, <1>6 DEF Asking
    <2>2. QED
      BY <1>1, <1>4, <2>1 DEF FramesInv
  <1>7. QED
    BY <1>1, <1>5, <1>6

(* The answer takes up where the last one ended.                           *)
LEMMA FramesInvAnswerGet == RowsInv /\ FramesInv /\ AnswerGet => FramesInv'
  <1> SUFFICES ASSUME RowsInv, FramesInv, AnswerGet PROVE FramesInv'
    OBVIOUS
  <1>1. /\ HasFrame(up.got) /\ LengthOf(up.got) > 0 /\ NextPacket = Get
        /\ up' = Consume(up, FrameLength(up.got)) /\ down \in Pipe
    BY DEF AnswerGet, ReadsPacket, FramesInv
  <1>2. PICK p \in {ClientAck, KeepAlive, Get}, c \in {<<>>, encode(Get)} :
             /\ up' \in Pipe
             /\ (c = <<>> /\ Polling) \/ (c = encode(Get) /\ Asking)
             /\ LengthOf(up.got) # 0 => NextPacket = p
             /\ p = Get => Stream(up') = <<>> /\ c = encode(Get)
    BY <1>1, ServerTakes
  <1>3. p = Get
    BY <1>1, <1>2
  <1>4. up' \in Pipe
    BY <1>2
  <1>5. Asking /\ Stream(up') = <<>>
    BY <1>2, <1>3, Encoded
  <1>6. PICK s : s = Stored /\ s \in Seq(Carried) /\ taken \in 0 .. Len(s)
    BY StoredType DEF RowsInv, FramesInv, ConsumedOK
  <1>7. PICK k \in 0 .. Len(s) - taken :
            Len(NextBatch) = k /\ NextBatch = SubSeq(s, taken + 1, taken + k)
    BY <1>6, NextBatchIs
  <1>8. /\ NextBatch # <<>> /\ taken' = taken + k
         /\ down' = Write(down, Answer(NextBatch))
         /\ UNCHANGED <<client, consumed, rowVars>>
    BY <1>7 DEF AnswerGet, Answer, Conv
  <1>9. taken = Len(consumed) /\ client.pc = "header" /\ Stream(down) = <<>>
    BY <1>5 DEF Asking
  <1>10. Stored' = s
    BY <1>6, <1>8 DEF rowVars, Stored
  <1>11. Owed' = NextBatch
    BY <1>7, <1>8, <1>9, <1>10 DEF Owed
  <1>12. ConsumedOK'
    <2>1. k \in Nat /\ taken \in Nat /\ taken + k \in 0 .. Len(s)
      BY <1>6, <1>7
    <2>2. QED
      BY <1>6, <1>8, <1>9, <1>10, <2>1 DEF FramesInv, ConsumedOK
  <1>13. NextBatch \in Seq(Carried)
    BY <1>6, NextBatchIs
  <1>14. k > 0
    BY <1>7, <1>8, <1>13, EmptySeq
  <1>15. down' \in Pipe /\ Stream(down') = encode(Answer(NextBatch))
    <2>1. PICK a : a = Answer(NextBatch) /\ a \in Packet /\ BodySize(a) \in Nat
      BY <1>13, AnswerType
    <2>2. PICK b : b = encode(a) /\ b \in Seq(Cell)
      BY <2>1, EncodeType
    <2>3. down' \in Pipe /\ Stream(down') = Stream(down) \o b
      BY <1>1, <1>8, <2>1, <2>2, WriteBytes
    <2>4. <<>> \o b = b
      BY <2>2, ConcatEmptySeq
    <2>5. QED
      BY <1>9, <2>1, <2>2, <2>3, <2>4
  <1>16. ClientOK'
    BY <1>8 DEF FramesInv, ClientOK
  <1>17. Answering'
    <2>1. Len(consumed') < taken' /\ client'.pc = "header"
      BY <1>6, <1>7, <1>8, <1>9, <1>14
    <2>2. QED
      BY <1>5, <1>11, <1>15, <2>1 DEF Answering
  <1>18. QED
    BY <1>4, <1>12, <1>15, <1>16, <1>17 DEF FramesInv

-----------------------------------------------------------------------------
(* The client's steps: a Get, an empty frame, a length, a body.            *)
LEMMA FramesInvSendGet == RowsInv /\ FramesInv /\ SendGet => FramesInv'
  <1> SUFFICES ASSUME RowsInv, FramesInv, SendGet PROVE FramesInv'
    OBVIOUS
  <1>1. Polling /\ up \in Pipe
    BY DEF FramesInv, SendGet, Asking, Answering, Reading, Refused
  <1>2. UNCHANGED <<down, taken, consumed, rowVars>> /\ up' = Write(up, Get)
    BY DEF SendGet
  <1>3. client' = [pc |-> "header", need |-> client.need, gets |-> client.gets + 1,
                   beaten |-> client.beaten]
    BY ClientFields DEF SendGet, FramesInv
  <1>4. ClientOK' /\ client'.pc = "header" /\ client'.beaten = client.beaten
    BY <1>3, ClientFields DEF FramesInv, ClientOK
  <1>5. up' \in Pipe /\ Stream(up') = Stream(up) \o encode(Get)
    BY <1>1, <1>2, Encoded, WriteBytes
  <1>6. Asking'
    <2>1. Pending(Stream(up) \o encode(Get), client.beaten, encode(Get))
      BY <1>1, PendingGet DEF Polling
    <2>2. QED
      BY <1>1, <1>2, <1>4, <1>5, <2>1 DEF Polling, Asking
  <1>7. ConsumedOK' /\ down' \in Pipe
    BY <1>2 DEF FramesInv, ConsumedOK, rowVars, Stored
  <1>8. QED
    BY <1>4, <1>5, <1>6, <1>7 DEF FramesInv

LEMMA FramesInvSendKeepAlive == RowsInv /\ FramesInv /\ SendKeepAlive => FramesInv'
  <1> SUFFICES ASSUME RowsInv, FramesInv, SendKeepAlive PROVE FramesInv'
    OBVIOUS
  <1>1. Polling /\ up \in Pipe
    BY DEF FramesInv, SendKeepAlive, Asking, Answering, Reading, Refused
  <1>2. UNCHANGED <<down, taken, consumed, rowVars>> /\ up' = Write(up, KeepAlive)
    BY DEF SendKeepAlive
  <1>3. client' = [pc |-> "poll", need |-> client.need, gets |-> client.gets, beaten |-> TRUE]
    BY ClientFields DEF SendKeepAlive, FramesInv
  <1>4. ClientOK' /\ client'.pc = "poll" /\ client'.beaten = TRUE
    BY <1>3, ClientFields DEF FramesInv, ClientOK
  <1>5. up' \in Pipe /\ Stream(up') = Stream(up) \o encode(KeepAlive)
    BY <1>1, <1>2, Encoded, WriteBytes
  <1>6. Polling'
    <2>1. client.beaten = FALSE
      BY ClientFields DEF SendKeepAlive, FramesInv
    <2>2. Pending(Stream(up) \o encode(KeepAlive), TRUE, <<>>)
      BY <1>1, <2>1, PendingKeepAlive DEF Polling
    <2>3. QED
      BY <1>1, <1>2, <1>4, <1>5, <2>2 DEF Polling
  <1>7. ConsumedOK' /\ down' \in Pipe
    BY <1>2 DEF FramesInv, ConsumedOK, rowVars, Stored
  <1>8. QED
    BY <1>4, <1>5, <1>6, <1>7 DEF FramesInv

LEMMA FramesInvReadHeader == RowsInv /\ FramesInv /\ ReadHeader => FramesInv'
  <1> SUFFICES ASSUME RowsInv, FramesInv, ReadHeader PROVE FramesInv'
    OBVIOUS
  <1>1. HasHeader(down.got) /\ down \in Pipe /\ up \in Pipe /\ client.pc = "header"
    BY DEF ReadHeader, FramesInv
  <1>2. Answering
    <2>1. Stream(down) # <<>>
      BY <1>1, EmptyStream
    <2>2. QED
      BY <1>1, <2>1 DEF FramesInv, Polling, Asking, Reading, Refused
  <1>3. UNCHANGED <<up, taken, consumed, rowVars>> /\ down' = Consume(down, HeaderBytes)
    BY DEF ReadHeader
  <1>4. Owed' = Owed
    BY <1>3 DEF Owed, Stored, rowVars
  <1>5. Owed \in Seq(Carried)
    BY OwedIs DEF RowsInv, FramesInv
  <1>6. PICK a, n : a = Answer(Owed) /\ n = BodySize(a) /\ a \in Packet /\ n \in Nat \ {0}
    BY <1>5, AnswerType
  <1>7. PICK h, b : /\ h = LengthBytes(n) /\ h \in Seq(Cell) /\ Len(h) = HeaderBytes
                    /\ b = Body(a) /\ b \in Seq(Cell)
                    /\ encode(a) = h \o b /\ encode(a) \in Seq(Cell)
    BY <1>6, EncodeType
  <1>8. Stream(down) = encode(a) /\ Stream(up) = <<>> /\ Len(consumed) < taken
    BY <1>2, <1>6 DEF Answering
  <1>9. LengthOf(down.got) = n
    <2>1. encode(a) \o <<>> = encode(a)
      BY <1>7, ConcatEmptySeq
    <2>2. n \in Nat /\ Stream(down) = encode(a) \o <<>> /\ <<>> \in Seq(Cell)
      BY <1>6, <1>8, <2>1, NoBytesType
    <2>3. QED
      BY <1>1, <1>6, <2>2, FirstLength
  <1>10. down' \in Pipe /\ Stream(down') = b
    <2>1. Len(h) <= Len(down.got) /\ Stream(down) = h \o b
      BY <1>1, <1>7, <1>8, Encoded DEF HasHeader
    <2>2. Consume(down, Len(h)) \in Pipe /\ Stream(Consume(down, Len(h))) = b
      BY <1>1, <1>7, <2>1, ReadBytes
    <2>3. QED
      BY <1>3, <1>7, <2>2
  <1>11. ConsumedOK'
    BY <1>3 DEF FramesInv, ConsumedOK, rowVars, Stored
  <1>12. CASE n > MaxPacketSize
    <2>1. TooLarge(down.got)
      BY <1>1, <1>9, <1>12 DEF TooLarge
    <2>2. client' = [pc |-> "failed", need |-> client.need, gets |-> client.gets,
                     beaten |-> client.beaten]
      BY <2>1, ClientFields DEF ReadHeader, FramesInv
    <2>3. ClientOK' /\ client'.pc = "failed"
      BY <2>2, ClientFields DEF FramesInv, ClientOK
    <2>4. Refused'
      BY <1>3, <1>4, <1>6, <1>8, <1>12, <2>3 DEF Refused
    <2>5. QED
      BY <1>1, <1>3, <1>10, <1>11, <2>3, <2>4 DEF FramesInv
  <1>13. CASE ~ (n > MaxPacketSize)
    <2>1. LengthOf(down.got) # 0 /\ ~ TooLarge(down.got)
      BY <1>6, <1>9, <1>13 DEF TooLarge
    <2>2. client' = [pc |-> "body", need |-> n, gets |-> client.gets,
                     beaten |-> client.beaten]
      BY <1>9, <2>1, ClientFields DEF ReadHeader, FramesInv
    <2>3. n \in 0 .. MaxPacketSize
      BY <1>6, <1>13, DeliveryAssumption
    <2>4. ClientOK' /\ client'.pc = "body" /\ client'.need = n
      BY <2>2, <2>3, ClientFields DEF FramesInv, ClientOK
    <2>5. Reading'
      BY <1>3, <1>4, <1>6, <1>7, <1>8, <1>10, <2>4 DEF Reading
    <2>6. QED
      BY <1>1, <1>3, <1>10, <1>11, <2>4, <2>5 DEF FramesInv
  <1>14. QED
    BY <1>12, <1>13

LEMMA FramesInvReadBody == RowsInv /\ FramesInv /\ ReadBody => FramesInv'
  <1> SUFFICES ASSUME RowsInv, FramesInv, ReadBody PROVE FramesInv'
    OBVIOUS
  <1>1. down \in Pipe /\ up \in Pipe /\ client.pc = "body" /\ Len(down.got) >= client.need
    BY DEF ReadBody, FramesInv
  <1>2. Reading
    BY <1>1 DEF FramesInv, Polling, Asking, Answering, Refused
  <1>3. UNCHANGED <<taken, rowVars>> /\ down' = Consume(down, client.need)
    BY DEF ReadBody
  <1>4. PICK s, o, m : /\ s = Stored /\ o = Owed /\ m = Len(consumed)
                       /\ s \in Seq(Carried) /\ o \in Seq(Carried) /\ Len(o) = taken - m
                       /\ \A i \in 1 .. Len(o) : o[i] = s[m + i]
    BY OwedIs DEF RowsInv, FramesInv
  <1>5. PICK a, n : a = Answer(o) /\ n = BodySize(a) /\ a \in Packet /\ n \in Nat \ {0}
    BY <1>4, AnswerType
  <1>6. /\ a.messages = Conv(o) /\ a # Malformed /\ Len(Conv(o)) = Len(o)
        /\ \A i \in 1 .. Len(o) : entry_to_event(Conv(o)[i]) = o[i]
    BY <1>4, <1>5, AnswerType
  <1>7. PICK b : b = Body(a) /\ b \in Seq(Cell) /\ Len(b) = n
    BY <1>5, EncodeType
  <1>8. Stream(down) = b /\ Stream(up) = <<>> /\ m < taken /\ client.need = n
    BY <1>2, <1>4, <1>5, <1>7 DEF Reading
  <1>9. SubSeq(down.got, 1, n) = b /\ down' \in Pipe /\ Stream(down') = <<>>
    <2>1. b \o <<>> = b /\ <<>> \in Seq(Cell)
      BY <1>7, ConcatEmptySeq, NoBytesType
    <2>2. Stream(down) = b \o <<>> /\ Len(b) <= Len(down.got)
      <3>1. Len(down.got) \in Nat
        BY <1>1 DEF Pipe
      <3>2. QED
        BY <1>1, <1>5, <1>7, <1>8, <2>1, <3>1
    <2>3. /\ SubSeq(down.got, 1, Len(b)) = b
          /\ Consume(down, Len(b)) \in Pipe /\ Stream(Consume(down, Len(b))) = <<>>
      BY <1>1, <1>7, <2>1, <2>2, ReadBytes
    <2>4. QED
      BY <1>3, <1>7, <1>8, <2>3
  <1>10. Parse(SubSeq(down.got, 1, client.need)) = a
    BY <1>5, <1>7, <1>8, <1>9, BodyRead
  <1>11. /\ consumed' = consumed \o [i \in 1 .. Len(Conv(o)) |-> entry_to_event(Conv(o)[i])]
         /\ client' = [client EXCEPT !.pc = "poll", !.need = 0]
         /\ up' = Write(up, ClientAck)
    BY <1>6, <1>10 DEF ReadBody, Entries
  <1>12. consumed' = consumed \o o
    <2>1. PICK v : v = [i \in 1 .. Len(Conv(o)) |-> entry_to_event(Conv(o)[i])]
      OBVIOUS
    <2>2. v = [i \in 1 .. Len(o) |-> o[i]]
      BY <1>6, <2>1
    <2>3. o = [i \in 1 .. Len(o) |-> o[i]]
      BY <1>4
    <2>4. QED
      BY <1>11, <2>1, <2>2, <2>3
  <1>13. client' = [pc |-> "poll", need |-> 0, gets |-> client.gets, beaten |-> client.beaten]
    BY <1>11, ClientFields DEF FramesInv
  <1>14. ClientOK' /\ client'.pc = "poll"
    BY <1>13, ClientFields, DeliveryAssumption DEF FramesInv, ClientOK
  <1>15. up' \in Pipe /\ Stream(up') = encode(ClientAck)
    <2>1. up' \in Pipe /\ Stream(up') = Stream(up) \o encode(ClientAck)
      BY <1>1, <1>11, Encoded, WriteBytes
    <2>2. <<>> \o encode(ClientAck) = encode(ClientAck)
      BY Encoded, ConcatEmptySeq
    <2>3. QED
      BY <1>8, <2>1, <2>2
  <1>16. PICK u : u = consumed /\ u \in Seq(Carried) /\ Len(u) = m
                  /\ \A i \in 1 .. m : u[i] = s[i]
    BY <1>4 DEF FramesInv, ConsumedOK
  <1>17. taken \in 0 .. Len(s) /\ m \in Nat /\ m <= taken
    BY <1>4, <1>16 DEF FramesInv, ConsumedOK
  <1>18. PICK w : w = consumed' /\ w = u \o o
    BY <1>12, <1>16
  <1>19. w \in Seq(Carried) /\ Len(w) = taken /\ \A i \in 1 .. taken : w[i] = s[i]
    <2>1. /\ u \o o \in Seq(Carried) /\ Len(u \o o) = Len(u) + Len(o)
          /\ \A i \in 1 .. Len(u) + Len(o) : (u \o o)[i] = IF i <= Len(u) THEN u[i] ELSE o[i - Len(u)]
      BY <1>4, <1>16, ConcatProperties
    <2>2. Len(u) + Len(o) = taken
      BY <1>4, <1>16, <1>17
    <2>3. ASSUME NEW i \in 1 .. taken
          PROVE  w[i] = s[i]
      <3>1. w[i] = IF i <= m THEN u[i] ELSE o[i - m]
        BY <1>16, <1>18, <2>1, <2>2
      <3>2. CASE i <= m
        <4>1. i \in 1 .. m
          BY <1>17, <3>2
        <4>2. QED
          BY <1>16, <3>1, <3>2, <4>1
      <3>3. CASE ~ (i <= m)
        <4>1. i - m \in 1 .. Len(o) /\ m + (i - m) = i
          BY <1>4, <1>17, <3>3
        <4>2. o[i - m] = s[m + (i - m)]
          BY <1>4, <4>1
        <4>3. QED
          BY <3>1, <3>3, <4>1, <4>2
      <3>4. QED
        BY <3>2, <3>3
    <2>4. QED
      BY <1>18, <2>1, <2>2, <2>3
  <1>20. Stored' = s
    BY <1>3, <1>4 DEF rowVars, Stored
  <1>21. ConsumedOK'
    BY <1>3, <1>17, <1>18, <1>19, <1>20 DEF ConsumedOK
  <1>22. Polling'
    <2>1. Pending(Stream(up'), client'.beaten, <<>>)
      BY <1>15, PendingAck
    <2>2. QED
      BY <1>3, <1>9, <1>14, <1>18, <1>19, <2>1 DEF Polling
  <1>23. QED
    BY <1>9, <1>14, <1>15, <1>21, <1>22 DEF FramesInv

-----------------------------------------------------------------------------
(* Every step keeps it.                                                    *)
LEMMA FramesInvStep == RowsInv /\ RowsInv' /\ FramesInv /\ [Next]_vars => FramesInv'
  <1> SUFFICES ASSUME RowsInv, RowsInv', FramesInv, [Next]_vars PROVE FramesInv'
    OBVIOUS
  <1>1. CASE RowsNext /\ UNCHANGED deliveryVars
    BY <1>1, FramesInvRows
  <1>2. CASE UNCHANGED vars
    BY <1>2, FramesInvRows DEF vars
  <1>3. CASE UpBytes \/ DownBytes
    BY <1>3, FramesInvDeliver
  <1>4. CASE SkipEmptyFrame
    BY <1>4, FramesInvSkipped DEF SkipEmptyFrame
  <1>5. CASE ReadAck
    BY <1>5, FramesInvSkipped DEF ReadAck, ReadsPacket
  <1>6. CASE AnswerGet
    BY <1>6, FramesInvAnswerGet
  <1>7. CASE SendGet
    BY <1>7, FramesInvSendGet
  <1>8. CASE SendKeepAlive
    BY <1>8, FramesInvSendKeepAlive
  <1>9. CASE ReadHeader
    BY <1>9, FramesInvReadHeader
  <1>10. CASE ReadBody
    BY <1>10, FramesInvReadBody
  <1>11. QED
    BY <1>1, <1>2, <1>3, <1>4, <1>5, <1>6, <1>7, <1>8, <1>9, <1>10
    DEF Next, WireStep, ServerStep, ClientStep

LEMMA FramesInvAlways == Spec => [](RowsInv /\ FramesInv)
  <1>1. Init => RowsInv /\ FramesInv
    BY RowsInvInit, FramesInvInit
  <1>2. RowsInv /\ FramesInv /\ [Next]_vars => RowsInv' /\ FramesInv'
    BY RowsInvStep, FramesInvStep
  <1>3. QED
    BY <1>1, <1>2, PTL DEF Spec

-----------------------------------------------------------------------------
(* The events the binlog still may have, and the two maps of TableMap.     *)
RowsBound ==
    /\ mysql.written <= MaxEvents
    /\ DOMAIN reader.names \subseteq TableIds /\ DOMAIN reader.columns = DOMAIN reader.names

LEMMA RowsBoundInit == Init => RowsBound
  BY RowsAssumption DEF Init, RowsInit, RowsBound

LEMMA RowsBoundStep == RowsInv /\ RowsBound /\ [Next]_vars => RowsBound'
  <1> SUFFICES ASSUME RowsInv, RowsBound, [Next]_vars PROVE RowsBound'
    OBVIOUS
  <1>1. CASE UNCHANGED rowVars
    BY <1>1 DEF RowsBound, rowVars
  <1>2. ASSUME Writes PROVE mysql.written + 1 <= MaxEvents
    BY <1>2, RowsAssumption DEF Writes, RowsInv, MysqlOK
  <1>3. mysql = [file |-> mysql.file, written |-> mysql.written, in_tx |-> mysql.in_tx,
                 gtid |-> mysql.gtid, bound |-> mysql.bound, unseen |-> mysql.unseen]
    BY DEF RowsInv, MysqlOK
  <1>4. reader = [file |-> Journals[mysql.file], gtid |-> reader.gtid,
                  names |-> reader.names, columns |-> reader.columns]
    BY DEF RowsInv, ReaderFollows
  <1>5. CASE Rotate
    <2>1. mysql'.written = mysql.written + 1
      BY <1>3, <1>5 DEF Rotate, Written
    <2>2. reader'.names = <<>> /\ reader'.columns = <<>>
      BY <1>4, <1>5 DEF Rotate, Rotated, ClearTableMap
    <2>3. QED
      BY <1>2, <1>5, <2>1, <2>2 DEF Rotate, RowsBound
  <1>6. CASE Xid
    BY <1>2, <1>3, <1>6 DEF Xid, Written, RowsBound
  <1>7. ASSUME NEW gtid \in Gtids, Gtid(gtid)
        PROVE  RowsBound'
    <2>1. mysql'.written = mysql.written + 1
      BY <1>3, <1>7 DEF Gtid, Written
    <2>2. reader'.names = reader.names /\ reader'.columns = reader.columns
      BY <1>4, <1>7 DEF Gtid
    <2>3. QED
      BY <1>2, <1>7, <2>1, <2>2 DEF Gtid, RowsBound
  <1>8. ASSUME NEW schema, NEW sql, Query(schema, sql)
        PROVE  RowsBound'
    BY <1>2, <1>3, <1>8 DEF Query, Written, RowsBound
  <1>9. ASSUME NEW id \in TableIds, NEW def \in TableDefs, TableMap(id, def)
        PROVE  RowsBound'
    <2>1. mysql'.written = mysql.written + 1
      BY <1>3, <1>9 DEF TableMap, Written
    <2>2. /\ reader'.names = Assigned(reader.names, id, [schema |-> def.schema, table |-> def.table])
          /\ reader'.columns = Assigned(reader.columns, id, build_column_infos(def))
      <3>1. PICK g, names, columns : /\ g = reader.gtid /\ names = reader.names
                                     /\ columns = reader.columns
        OBVIOUS
      <3>2. reader = [file |-> Journals[mysql.file], gtid |-> g, names |-> names,
                      columns |-> columns]
        BY <1>4, <3>1
      <3>3. reader' = put_with_columns(reader, id, def)
        BY <1>9 DEF TableMap
      <3>4. reader' = [file |-> Journals[mysql.file], gtid |-> g,
                       names |-> Assigned(names, id, [schema |-> def.schema, table |-> def.table]),
                       columns |-> Assigned(columns, id, build_column_infos(def))]
        BY <3>2, <3>3 DEF put_with_columns
      <3>5. QED
        BY <3>1, <3>4
    <2>3. /\ DOMAIN reader'.names = DOMAIN reader.names \cup {id}
          /\ DOMAIN reader'.columns = DOMAIN reader.columns \cup {id}
      BY <2>2 DEF Assigned
    <2>4. QED
      BY <1>2, <1>9, <2>1, <2>3 DEF TableMap, RowsBound
  <1>10. ASSUME NEW type \in DmlType, NEW id \in TableIds, Rows(type, id)
         PROVE  RowsBound'
    BY <1>2, <1>3, <1>10 DEF Rows, Written, RowsBound
  <1>11. WireStep \/ SendKeepAlive => UNCHANGED rowVars
    BY DEF WireStep, ServerStep, ClientStep, UpBytes, DownBytes, SkipEmptyFrame, AnswerGet,
           ReadAck, SendGet, ReadHeader, ReadBody, SendKeepAlive
  <1>12. UNCHANGED vars => UNCHANGED rowVars
    BY DEF vars
  <1>13. QED
    BY <1>1, <1>5, <1>6, <1>7, <1>8, <1>9, <1>10, <1>11, <1>12 DEF Next, RowsNext

(* The client has not been sent a byte of anything but packets.            *)
LEMMA BytesTyped ==
    ASSUME NEW pipe \in Pipe, NEW bytes, bytes = pipe.flight \/ bytes = pipe.got,
           NEW i \in 1 .. Len(bytes), "body" \in DOMAIN bytes[i]
    PROVE  \A m \in 1 .. Len(bytes[i].body.messages) : bytes[i].body.messages[m] \in Entry
  <1>1. bytes \in Seq(Cell)
    BY PipeParts
  <1>2. PICK cell : cell = bytes[i] /\ cell \in Cell
    BY <1>1
  <1>3. cell.body \in Packet
    <2>1. CASE cell \in [length : Nat, at : Nat]
      <3>1. DOMAIN cell = {"length", "at"}
        BY <2>1
      <3>2. QED
        BY <1>2, <3>1
    <2>2. CASE cell \in [body : Packet, at : Nat]
      BY <2>2
    <2>3. QED
      BY <1>2, <2>1, <2>2 DEF Cell
  <1>4. cell.body.messages \in Seq(Entry)
    BY <1>3 DEF Packet
  <1>5. QED
    BY <1>2, <1>4

(* The parts of the rows, the bytes of the frames and the loop's state     *)
(* have their types; the server has not answered with more than is stored. *)
THEOREM DeliveryTypeCorrect == Spec => []DeliveryTypeOK
  <1>1. RowsInv /\ RowsBound => RowsTypeOK
    <2> SUFFICES ASSUME RowsInv, RowsBound PROVE RowsTypeOK
      OBVIOUS
    <2>1. mysql \in [file : 1 .. Len(Journals), written : 0 .. MaxEvents, in_tx : BOOLEAN,
                     gtid : Gtids \cup {Null},
                     bound : [TableIds -> TableDefs \cup {Null}], unseen : SUBSET TableIds]
      <3>1. mysql.written \in 0 .. MaxEvents
        BY RowsAssumption DEF RowsInv, MysqlOK, RowsBound
      <3>2. QED
        BY <3>1 DEF RowsInv, MysqlOK
    <2>2. reader.file = Journals[mysql.file] /\ reader.gtid \in Gtids \cup {Null}
      BY DEF RowsInv, ReaderFollows
    <2>3. Journals[mysql.file] \in Strings
      BY RowsAssumption DEF RowsInv, MysqlOK
    <2>4. \A i \in 1 .. Len(sent) : sent[i] = Err \/ sent[i] \in CanalEvent
      BY DEF RowsInv, SentOK
    <2>5. QED
      BY <2>1, <2>2, <2>3, <2>4 DEF RowsTypeOK, RowsBound
  <1>2. RowsTypeOK /\ FramesInv => DeliveryTypeOK
    <2> SUFFICES ASSUME RowsTypeOK, FramesInv PROVE DeliveryTypeOK
      OBVIOUS
    <2>1. taken \in 0 .. Len(Stored) /\ client.pc \in {"poll", "header", "body", "failed"}
          /\ client.need \in 0 .. MaxPacketSize
      BY DEF FramesInv, ConsumedOK, ClientOK
    <2>2. ASSUME NEW pipe \in {down.flight, down.got}, NEW i \in 1 .. Len(pipe),
                 "body" \in DOMAIN pipe[i]
          PROVE  \A m \in 1 .. Len(pipe[i].body.messages) : pipe[i].body.messages[m] \in Entry
      BY <2>2, BytesTyped DEF FramesInv
    <2>3. QED
      BY <2>1, <2>2 DEF DeliveryTypeOK
  <1>3. Spec => []RowsBound
    <2>1. RowsBound /\ RowsInv /\ [Next]_vars => RowsBound'
      BY RowsBoundStep
    <2>2. QED
      BY <2>1, RowsBoundInit, RowsInvAlways, PTL DEF Spec
  <1>4. QED
    BY <1>1, <1>2, <1>3, FramesInvAlways, PTL

(* However the bytes are cut, the consumer has been given a beginning of   *)
(* what is stored, and that is what happened in MySQL, row by row.         *)
THEOREM ConsumerIsTrue == Spec => []ConsumerReadsTheTruth
  <1>1. RowsInv /\ FramesInv => ConsumerReadsTheTruth
    <2> SUFFICES ASSUME RowsInv, FramesInv PROVE ConsumerReadsTheTruth
      OBVIOUS
    <2>1. Paired(Stored, Known, Says)
      BY StoredIsKnown DEF RowsInv
    <2>2. Len(Stored) = Len(Known) /\ \A i \in 1 .. Len(Known) : <<Stored[i], Known[i]>> \in Says
      BY <2>1 DEF Paired
    <2>3. Stored \in Seq(Carried) /\ Len(Stored) \in Nat
      BY StoredType DEF RowsInv
    <2>4. Len(consumed) \in 0 .. Len(Stored)
      BY <2>3 DEF FramesInv, ConsumedOK
    <2>5. ASSUME NEW i \in 1 .. Len(consumed)
          PROVE  SaysWhatHappened(consumed[i], Known[i])
      <3>1. consumed[i] = Stored[i] /\ i \in 1 .. Len(Known)
        BY <2>2, <2>3, <2>4 DEF FramesInv, ConsumedOK
      <3>2. SaysWhatHappened(Stored[i], Known[i])
        BY <2>2, <3>1 DEF Says
      <3>3. QED
        BY <3>1, <3>2
    <2>6. QED
      BY <2>2, <2>4, <2>5 DEF ConsumerReadsTheTruth
  <1>2. QED
    BY <1>1, FramesInvAlways, PTL

(* The server never takes a piece of one packet for another, and the       *)
(* client gives up only at a packet that is larger than it reads.          *)
THEOREM RefusedIsOversized == Spec => []OnlyOversizedRefused
  <1>1. RowsInv /\ FramesInv => ~ ServerFails
    <2> SUFFICES ASSUME RowsInv, FramesInv PROVE ~ ServerFails
      OBVIOUS
    <2>1. ASSUME HasHeader(up.got)
          PROVE  \E p \in {ClientAck, KeepAlive, Get}, r \in Seq(Cell) :
                   Stream(up) = encode(p) \o r /\ LengthOf(up.got) = BodySize(p)
      <3>1. up \in Pipe
        BY DEF FramesInv
      <3>2. PICK c : (c = <<>> \/ c = encode(Get)) /\ Pending(Stream(up), client.beaten, c)
        BY <2>1, ServerHasFrame
      <3>3. QED
        BY <2>1, <3>1, <3>2, ServerReads
    <2>2. ~ TooLarge(up.got)
      <3>1. ASSUME TooLarge(up.got) PROVE FALSE
        <4>1. PICK p \in {ClientAck, KeepAlive, Get} : LengthOf(up.got) = BodySize(p)
          BY <2>1, <3>1 DEF TooLarge
        <4>2. BodySize(p) \in 0 .. 1
          BY <4>1, Sizes
        <4>3. QED
          BY <3>1, <4>1, <4>2, DeliveryAssumption DEF TooLarge
      <3>2. QED
        BY <3>1
    <2>3. ~ (ReadsPacket /\ NextPacket = Malformed)
      <3>1. ASSUME ReadsPacket, NextPacket = Malformed PROVE FALSE
        <4>1. HasFrame(up.got) /\ LengthOf(up.got) > 0
          BY <3>1 DEF ReadsPacket
        <4>2. PICK p \in {ClientAck, KeepAlive, Get} : NextPacket = p
          BY <4>1, ServerTakes
        <4>3. QED
          BY <3>1, <4>2 DEF Malformed, ClientAck, KeepAlive, Get
      <3>2. QED
        BY <3>1
    <2>4. \A i \in taken + 1 .. Len(Stored) : Convertible(Stored[i])
      <3>1. Stored \in Seq(Carried) /\ taken \in Nat
        BY StoredType DEF RowsInv, FramesInv, ConsumedOK
      <3>2. ASSUME NEW i \in taken + 1 .. Len(Stored)
            PROVE  Convertible(Stored[i])
        <4>1. PICK e : e = Stored[i]
          OBVIOUS
        <4>2. e \in CanalEvent /\ Lossless(e)
          BY <3>1, <4>1 DEF Carried
        <4>3. QED
          BY <4>1, <4>2, RoundTrip
      <3>3. QED
        BY <3>2
    <2>5. QED
      BY <2>2, <2>3, <2>4 DEF ServerFails
  <1>2. RowsInv /\ FramesInv /\ client.pc = "failed" =>
          \E i \in 1 .. Len(Stored) :
             LET batch == SubSeq(Stored, i, taken)
             IN  BodySize(Messages([m \in 1 .. Len(batch) |-> canal_event_to_entry(batch[m])]))
                   > MaxPacketSize
    <2> SUFFICES ASSUME RowsInv, FramesInv, client.pc = "failed"
                 PROVE  \E i \in 1 .. Len(Stored) :
                          BodySize(Answer(SubSeq(Stored, i, taken))) > MaxPacketSize
      BY DEF Answer, Conv
    <2>1. Refused
      BY DEF FramesInv, Polling, Asking, Answering, Reading
    <2>2. Len(Stored) \in Nat
      BY OwedIs DEF RowsInv, FramesInv
    <2>3. Len(consumed) + 1 \in 1 .. Len(Stored)
      BY <2>1, <2>2 DEF Refused, FramesInv, ConsumedOK
    <2>4. BodySize(Answer(SubSeq(Stored, Len(consumed) + 1, taken))) > MaxPacketSize
      BY <2>1 DEF Refused, Owed
    <2>5. QED
      BY <2>3, <2>4
  <1>3. RowsInv /\ FramesInv => OnlyOversizedRefused
    BY <1>1, <1>2 DEF OnlyOversizedRefused
  <1>4. QED
    BY <1>3, FramesInvAlways, PTL
=============================================================================
