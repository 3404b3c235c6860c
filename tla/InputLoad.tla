------------------------------ MODULE InputLoad ------------------------------
(***************************************************************************)
(* The first half of create_master_queue, which MasterQueue begins behind: *)
(* the rows of the source workbook, which people fill in between two runs, *)
(* are prepared, checked and inserted into tbl_input one by one.  What     *)
(* pandas makes of a column matters: numbers in a column with an empty     *)
(* cell become floating-point numbers, and 12 then reads 12.0.             *)
(*                                                                         *)
(* A row is what _insert_input_dataframe looks at: Case_ID, Processor, and *)
(* whether the other required fields are there once Case_Number has been   *)
(* cleaned and Case_Json been built.  The other cells are data.            *)
(***************************************************************************)
EXTENDS Integers, Sequences, FiniteSets

CONSTANTS
    Cases,             \* Case_IDs that occur in the source
    Names,             \* values of its Processor column
    Blank,             \* an empty cell
    KeyOf,             \* _processor_mapping_key: without spaces, casefolded
    Mappings,          \* process_config.processor_mapping: name-ID pairs, or NoMapping
    NoMapping,         \* it is not configured
    NumericCases,      \* the Case_IDs are numbers
    NumericNames,      \* the Processors are numbers
    MaxRows,           \* bound: rows of the workbook
    MaxFaults          \* bound: reads, INSERTs and commits that fail

ASSUME InputAssumption ==
    /\ Blank \notin Cases \cup Names
    /\ \A m \in Mappings : \A p \in m : p[2] # Blank
    /\ MaxRows \in Nat /\ MaxFaults \in Nat
    /\ NumericCases \in BOOLEAN /\ NumericNames \in BOOLEAN

VARIABLES
    columns,     \* which of Case_ID and Processor the workbook has
    mapping,     \* the configured processor_mapping
    book,        \* the rows of the workbook
    table,       \* tbl_input: [identifier, case, processor, complete]
    pc,          \* "idle", "load", "done" or "raised"
    pos,         \* the row being loaded
    summary,     \* what the load reports: rows inserted, skipped, failed and why
    faults

inputVars == <<columns, mapping, book, table, pc, pos, summary, faults>>

NoSummary == [inserted |-> {}, skipped |-> {}, failed |-> {}]
Row == [case : IF "Case_ID" \in columns THEN Cases \cup {Blank} ELSE {Blank},
        processor : IF "Processor" \in columns THEN Names \cup {Blank} ELSE {Blank},
        complete : BOOLEAN]

Init ==
    /\ columns \in SUBSET {"Case_ID", "Processor"}
    /\ mapping \in Mappings
    /\ book = <<>>
    /\ table = {}
    /\ pc = "idle"
    /\ pos = 1
    /\ summary = NoSummary
    /\ faults = 0
-----------------------------------------------------------------------------
(* People add rows to the workbook and change cells of it.  What they do   *)
(* while it is being loaded, the next load sees.                           *)
EditBook ==
    /\ pc # "load" /\ pc' = "idle"
    /\ \/ Len(book) < MaxRows /\ \E row \in Row : book' = Append(book, row)
       \/ \E i \in DOMAIN book, row \in Row, field \in {"case", "processor", "complete"} :
             book' = [book EXCEPT ![i][field] = row[field]]
    /\ UNCHANGED <<columns, mapping, table, pos, summary, faults>>

(* _normalized_processor_mapping: non-empty, and no two names that are the *)
(* same once normalized.                                                   *)
IsValidMapping ==
    mapping # NoMapping =>
        /\ mapping # {}
        /\ \A p, q \in mapping : KeyOf[p[1]] = KeyOf[q[1]] => p = q

(* The columns that tbl_input requires and the prepared data has not.      *)
MissingColumns ==
    {"Case_ID", "Processor"} \ (columns \cup IF mapping = NoMapping THEN {} ELSE {"Processor"})

(* DataFrame(rows): the column of a field, read as floating-point numbers. *)
IsWidened(numeric, field) == numeric /\ \E i \in DOMAIN book : book[i][field] = Blank

(* An invalid mapping and a missing column stop the load before any row.   *)
StartLoad ==
    /\ pc # "load"
    /\ pc' = IF IsValidMapping /\ MissingColumns = {} THEN "load" ELSE "raised"
    /\ pos' = 1
    /\ summary' = NoSummary
    /\ UNCHANGED <<columns, mapping, book, table, faults>>

(* The workbook is missing, or somebody has it open.                       *)
BookCannotBeRead ==
    /\ pc # "load" /\ pc' = "raised"
    /\ faults < MaxFaults /\ faults' = faults + 1
    /\ summary' = NoSummary /\ pos' = 1
    /\ UNCHANGED <<columns, mapping, book, table>>

(* The ID a Processor is mapped to: str(7.0) is no key of the mapping.     *)
MappedTo_Faulty(name) == {p[2] : p \in mapping}
MappedTo(name) ==
    IF name = Blank \/ IsWidened(NumericNames, "processor")
    THEN {}
    ELSE {p[2] : p \in {q \in mapping : KeyOf[q[1]] = KeyOf[name]}}

(* processor_errors: filled for all rows before the first is inserted, and *)
(* read by position.  The book is not read again, so one predicate of the  *)
(* row says the same.                                                      *)
HasProcessorError_Faulty(row) ==
    mapping # NoMapping /\ \E i \in 1..pos : MappedTo(book[i].processor) = {}
HasProcessorError(row) == mapping # NoMapping /\ MappedTo(row.processor) = {}

(* _validate_required_row_values, behind the mapping of the Processor.     *)
IsMissingValue(row) ==
    row.case = Blank \/ ~ row.complete \/ (mapping = NoMapping /\ row.processor = Blank)

(* Input_Identifier is Process_ID_Case_ID, with the Case_ID as it reads.   *)
Identifier_Faulty(row) == <<row.processor, IsWidened(NumericCases, "case")>>
Identifier(row) == <<row.case, IsWidened(NumericCases, "case")>>

Stored(row) ==
    [identifier |-> Identifier(row), case |-> row.case,
     processor |-> IF mapping = NoMapping THEN row.processor
                   ELSE CHOOSE id \in MappedTo(row.processor) : TRUE]

(* The unique index of tbl_input on Input_Identifier.                      *)
IsDuplicate(row) == \E old \in table : old.identifier = Identifier(row)

(* A row is booked under one heading, and the loop goes on to the next.    *)
Book(heading, entry) ==
    /\ summary' = [summary EXCEPT ![heading] = @ \cup {entry}]
    /\ pos' = pos + 1

RejectRow(row) ==
    /\ \/ HasProcessorError(row) /\ Book("failed", <<pos, "processor">>)
       \/ ~ HasProcessorError(row) /\ IsMissingValue(row) /\ Book("failed", <<pos, "missing">>)
    /\ UNCHANGED <<table, faults, pc>>

InsertRow(row) ==
    /\ ~ IsDuplicate(row)
    /\ table' = table \cup {Stored(row)}
    /\ Book("inserted", pos)
    /\ UNCHANGED <<faults, pc>>

SkipRow_Faulty(row) ==
    /\ IsDuplicate(row)
    /\ summary' = [summary EXCEPT !.skipped = @ \cup {pos},
                                  !.failed = @ \cup {<<pos, "database">>}]
    /\ pos' = pos + 1
    /\ UNCHANGED <<table, faults, pc>>

(* The INSERT fails: _is_duplicate_input_error, for either driver.         *)
SkipRow(row) ==
    /\ IsDuplicate(row)
    /\ Book("skipped", pos)
    /\ UNCHANGED <<table, faults, pc>>

(* Another error: the row is rolled back and recorded.                     *)
FailRow ==
    /\ faults < MaxFaults /\ faults' = faults + 1
    /\ Book("failed", <<pos, "database">>)
    /\ UNCHANGED <<table, pc>>

(* The connection is lost, before or after the commit took effect, and the *)
(* rollback raises out of the loop.                                        *)
LoseLoad(row) ==
    /\ faults < MaxFaults /\ faults' = faults + 1
    /\ table' \in {table} \cup IF IsDuplicate(row) THEN {} ELSE {table \cup {Stored(row)}}
    /\ pc' = "raised"
    /\ UNCHANGED <<pos, summary>>

LoadRow ==
    /\ pc = "load" /\ pos <= Len(book)
    /\ LET row == book[pos]
       IN  \/ RejectRow(row)
           \/ /\ ~ HasProcessorError(row) /\ ~ IsMissingValue(row)
              /\ InsertRow(row) \/ SkipRow(row) \/ FailRow \/ LoseLoad(row)
    /\ UNCHANGED <<columns, mapping, book>>

FinishLoad ==
    /\ pc = "load" /\ pos > Len(book)
    /\ pc' = "done"
    /\ UNCHANGED <<columns, mapping, book, table, pos, summary, faults>>

Next == EditBook \/ StartLoad \/ BookCannotBeRead \/ LoadRow \/ FinishLoad

Spec == Init /\ [][Next]_inputVars
FairSpec == Spec /\ WF_inputVars(LoadRow \/ FinishLoad) /\ WF_inputVars(StartLoad)
-----------------------------------------------------------------------------
(* Every variable keeps its type.                                          *)
TypeOK ==
    /\ columns \subseteq {"Case_ID", "Processor"}
    /\ mapping \in Mappings
    /\ book \in Seq(Row) /\ Len(book) <= MaxRows
    /\ pc \in {"idle", "load", "done", "raised"}
    /\ pos \in 1..(MaxRows + 1)
    /\ summary \in [inserted : SUBSET (1..MaxRows), skipped : SUBSET (1..MaxRows),
                    failed : SUBSET ((1..MaxRows) \X {"processor", "missing", "database"})]
    /\ faults \in 0..MaxFaults
    /\ \A s \in table : s.identifier[1] = s.case /\ s.identifier[2] \in BOOLEAN

(* Orqflow_Requirement.md:604: Input_Identifier is the idempotency key.    *)
(* However often the source is loaded, with rows added, changed, repeated  *)
(* or rejected in between, and with commits that are reported as failed    *)
(* although they took effect, a case is in tbl_input once.                 *)
OneInputPerCase == \A s, t \in table : s.case = t.case => s = t

(* A completed load has booked every row of the source under exactly one   *)
(* heading: inserted, skipped or failed.                                   *)
FailedRows == {f[1] : f \in summary.failed}
LoadAccountsForEveryRow ==
    pc = "done" =>
        /\ summary.inserted \cup summary.skipped \cup FailedRows = DOMAIN book
        /\ summary.inserted \cap summary.skipped = {}
        /\ FailedRows \cap (summary.inserted \cup summary.skipped) = {}

(* docs/excel_master_queue_plan.md:77, 80: nothing gets into tbl_input     *)
(* without a case and the ID that the mapping, as it is configured, gives  *)
(* to a Processor; and a row whose Processor has no ID never does.         *)
StoredRowsAreMapped ==
    [][\A s \in table' \ table :
          /\ s.case # Blank /\ s.processor # Blank
          /\ mapping # NoMapping =>
                \E p \in mapping : /\ p[2] = s.processor
                                   /\ book[pos].processor \in Names
                                   /\ KeyOf[p[1]] = KeyOf[book[pos].processor]]_inputVars

(* A case all whose rows can be loaded is, whatever the rows before them   *)
(* are and although single loads fail, unless the rows are taken back.     *)
IsLoadable(c) ==
    /\ IsValidMapping /\ MissingColumns = {}
    /\ \E i \in DOMAIN book : book[i].case = c
    /\ \A i \in DOMAIN book :
          book[i].case = c =>
              /\ book[i].complete /\ book[i].processor # Blank
              /\ mapping # NoMapping => \E p \in mapping : KeyOf[p[1]] = KeyOf[book[i].processor]
LoadableCasesArrive ==
    \A c \in Cases : IsLoadable(c) ~> (~ IsLoadable(c) \/ \E s \in table : s.case = c)
=============================================================================
