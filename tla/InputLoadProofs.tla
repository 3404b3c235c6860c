--------------------------- MODULE InputLoadProofs ---------------------------
(***************************************************************************)
(* The load of the source into tbl_input, for every source, mapping and    *)
(* number of loads: what it stores, and how it accounts for the rows.  The *)
(* loads begin what QueueSets promises.                                    *)
(***************************************************************************)
EXTENDS InputLoad, TLAPS

(* The rows behind the load are booked once, the others not at all.        *)
BookedOnce ==
    pc \in {"load", "done"} =>
        /\ pos <= Len(book) + 1
        /\ pc = "done" => pos = Len(book) + 1
        /\ summary.inserted \cup summary.skipped \cup FailedRows = 1..(pos - 1)
        /\ summary.inserted \cap summary.skipped = {}
        /\ FailedRows \cap (summary.inserted \cup summary.skipped) = {}

InputInvariant == TypeOK /\ BookedOnce

(* Why a row fails.                                                        *)
Reasons == {"processor", "missing", "database"}

LEMMA InitEstablishesInput == Init => InputInvariant
<1> SUFFICES ASSUME Init
             PROVE  InputInvariant
  OBVIOUS
<1>1. Len(book) = 0 /\ book \in Seq(Row)
  BY DEF Init
<1>2. QED
  BY <1>1, InputAssumption DEF Init, InputInvariant, TypeOK, BookedOnce, NoSummary

(* The columns of the workbook do not change, and so what a row is.        *)
LEMMA RowsStayRows == UNCHANGED columns => Row' = Row
  BY DEF Row

LEMMA EditedRowIsRow ==
    ASSUME NEW old \in Row, NEW row \in Row, NEW field \in {"case", "processor", "complete"}
    PROVE  [old EXCEPT ![field] = row[field]] \in Row
<1>1. CASE field = "case"
  BY <1>1 DEF Row
<1>2. CASE field = "processor"
  BY <1>2 DEF Row
<1>3. CASE field = "complete"
  BY <1>3 DEF Row
<1>4. QED
  BY <1>1, <1>2, <1>3

LEMMA EditBookKeeps == InputInvariant /\ EditBook => InputInvariant'
<1> SUFFICES ASSUME InputInvariant, EditBook
             PROVE  InputInvariant'
  OBVIOUS
<1>1. /\ pc' = "idle"
      /\ UNCHANGED <<columns, mapping, table, pos, summary, faults>>
  BY DEF EditBook
<1>2. book' \in Seq(Row) /\ Len(book') <= MaxRows
  <2>1. CASE Len(book) < MaxRows /\ \E row \in Row : book' = Append(book, row)
    BY <2>1, InputAssumption DEF InputInvariant, TypeOK
  <2>2. CASE \E i \in DOMAIN book, row \in Row, field \in {"case", "processor", "complete"} :
                book' = [book EXCEPT ![i][field] = row[field]]
    <3>1. PICK i \in DOMAIN book, row \in Row, field \in {"case", "processor", "complete"} :
                  book' = [book EXCEPT ![i][field] = row[field]]
      BY <2>2
    <3>2. book[i] \in Row /\ book \in Seq(Row)
      BY <3>1 DEF InputInvariant, TypeOK
    <3>3. [book[i] EXCEPT ![field] = row[field]] \in Row
      BY <3>1, <3>2, EditedRowIsRow
    <3>4. book' = [book EXCEPT ![i] = [book[i] EXCEPT ![field] = row[field]]]
      BY <3>1, <3>2
    <3>5. QED
      BY <3>2, <3>3, <3>4 DEF InputInvariant, TypeOK
  <2>3. QED
    BY <2>1, <2>2 DEF EditBook
<1>3. QED
  BY <1>1, <1>2, RowsStayRows DEF InputInvariant, TypeOK, BookedOnce

LEMMA StartLoadKeeps == InputInvariant /\ (StartLoad \/ BookCannotBeRead) => InputInvariant'
<1> SUFFICES ASSUME InputInvariant, StartLoad \/ BookCannotBeRead
             PROVE  InputInvariant'
  OBVIOUS
<1>1. /\ UNCHANGED <<columns, mapping, book, table>>
      /\ pos' = 1 /\ summary' = NoSummary
      /\ pc' \in {"load", "raised"} /\ faults' \in 0..MaxFaults
  BY InputAssumption DEF StartLoad, BookCannotBeRead, InputInvariant, TypeOK
<1>2. TypeOK'
  BY <1>1, RowsStayRows, InputAssumption DEF InputInvariant, TypeOK, NoSummary
<1>3. BookedOnce'
  BY <1>1 DEF InputInvariant, TypeOK, BookedOnce, FailedRows, NoSummary
<1>4. QED
  BY <1>2, <1>3 DEF InputInvariant

(* Whatever comes of a row, it is booked once, or the load ends.           *)
Booked ==
    /\ pos' = pos + 1
    /\ \/ \E heading \in {"inserted", "skipped"} :
             summary' = [summary EXCEPT ![heading] = @ \cup {pos}]
       \/ \E reason \in Reasons :
             summary' = [summary EXCEPT !.failed = @ \cup {<<pos, reason>>}]

LEMMA RowIsBooked ==
    ASSUME LoadRow
    PROVE  /\ pc = "load" /\ pos <= Len(book)
           /\ UNCHANGED <<columns, mapping, book>>
           /\ \/ pc' = "load" /\ Booked
              \/ pc' = "raised" /\ UNCHANGED <<pos, summary>>
  BY DEF LoadRow, RejectRow, InsertRow, SkipRow, FailRow, LoseLoad, Book, Booked, Reasons

LEMMA BookingKeeps ==
    ASSUME InputInvariant, pc = "load", pos <= Len(book), Booked,
           UNCHANGED <<columns, mapping, book>>, pc' = "load"
    PROVE  /\ BookedOnce'
           /\ pos' \in 1..(MaxRows + 1)
           /\ summary' \in [inserted : SUBSET (1..MaxRows), skipped : SUBSET (1..MaxRows),
                            failed : SUBSET ((1..MaxRows) \X Reasons)]
<1>1. /\ pos \in 1..MaxRows /\ Len(book) \in Nat /\ MaxRows \in Nat
      /\ pos' = pos + 1
  BY InputAssumption DEF InputInvariant, TypeOK, Booked
<1>2. 1..(pos' - 1) = 1..(pos - 1) \cup {pos} /\ pos \notin 1..(pos - 1)
  BY <1>1
<1>3. CASE \E heading \in {"inserted", "skipped"} :
              summary' = [summary EXCEPT ![heading] = @ \cup {pos}]
  <2>1. FailedRows' = FailedRows
    BY <1>3 DEF InputInvariant, TypeOK, FailedRows
  <2>2. QED
    BY <1>1, <1>2, <1>3, <2>1 DEF InputInvariant, TypeOK, BookedOnce, Reasons
<1>4. CASE \E reason \in Reasons :
              summary' = [summary EXCEPT !.failed = @ \cup {<<pos, reason>>}]
  <2>1. PICK reason \in Reasons : summary' = [summary EXCEPT !.failed = @ \cup {<<pos, reason>>}]
    BY <1>4
  <2>2. summary'.failed = summary.failed \cup {<<pos, reason>>}
    BY <2>1 DEF InputInvariant, TypeOK
  <2>3. FailedRows' = FailedRows \cup {pos}
    <3>1. FailedRows' = {f[1] : f \in summary.failed \cup {<<pos, reason>>}}
      BY <2>2 DEF FailedRows
    <3>2. FailedRows' = FailedRows \cup {<<pos, reason>>[1]}
      BY <3>1, Zenon DEF FailedRows
    <3>3. QED
      BY <3>2
  <2>4. QED
    BY <1>1, <1>2, <2>1, <2>2, <2>3 DEF InputInvariant, TypeOK, BookedOnce, Reasons
<1>5. QED
  BY <1>3, <1>4 DEF Booked

(* What LoadRow may add to tbl_input: the row, which has what it needs.    *)
LEMMA RowIsStored ==
    ASSUME LoadRow
    PROVE  \/ UNCHANGED table
           \/ /\ ~ HasProcessorError(book[pos]) /\ ~ IsMissingValue(book[pos])
              /\ ~ IsDuplicate(book[pos])
              /\ table' = table \cup {Stored(book[pos])}
  BY DEF LoadRow, RejectRow, InsertRow, SkipRow, FailRow, LoseLoad

LEMMA LoadRowKeeps == InputInvariant /\ LoadRow => InputInvariant'
<1> SUFFICES ASSUME InputInvariant, LoadRow
             PROVE  InputInvariant'
  OBVIOUS
<1>1. UNCHANGED <<columns, mapping, book>> /\ pc = "load" /\ pc' \in {"load", "raised"}
  BY RowIsBooked
<1>2. faults' \in 0..MaxFaults
  BY InputAssumption
  DEF LoadRow, RejectRow, InsertRow, SkipRow, FailRow, LoseLoad, InputInvariant, TypeOK
<1>3. \A s \in table' : s.identifier[1] = s.case /\ s.identifier[2] \in BOOLEAN
  <2>1. Stored(book[pos]).identifier = <<book[pos].case, IsWidened(NumericCases, "case")>>
    BY DEF Stored, Identifier
  <2>2. Stored(book[pos]).case = book[pos].case
    BY DEF Stored
  <2>3. IsWidened(NumericCases, "case") \in BOOLEAN
    BY InputAssumption DEF IsWidened
  <2>4. \A s \in table' : s \in table \/ s = Stored(book[pos])
    BY RowIsStored
  <2>5. QED
    BY <2>1, <2>2, <2>3, <2>4 DEF InputInvariant, TypeOK
<1>4. /\ BookedOnce'
      /\ pos' \in 1..(MaxRows + 1)
      /\ summary' \in [inserted : SUBSET (1..MaxRows), skipped : SUBSET (1..MaxRows),
                       failed : SUBSET ((1..MaxRows) \X Reasons)]
  BY RowIsBooked, BookingKeeps DEF InputInvariant, TypeOK, BookedOnce, Reasons
<1>5. QED
  BY <1>1, <1>2, <1>3, <1>4, RowsStayRows DEF InputInvariant, TypeOK, Reasons

LEMMA FinishLoadKeeps == InputInvariant /\ FinishLoad => InputInvariant'
<1> SUFFICES ASSUME InputInvariant, FinishLoad
             PROVE  InputInvariant'
  OBVIOUS
<1>1. pc' = "done" /\ UNCHANGED <<columns, mapping, book, table, pos, summary, faults>>
  BY DEF FinishLoad
<1>2. pos = Len(book) + 1
  BY DEF FinishLoad, InputInvariant, TypeOK, BookedOnce
<1>3. QED
  BY <1>1, <1>2, RowsStayRows
  DEF FinishLoad, InputInvariant, TypeOK, BookedOnce, FailedRows

(* The inductive invariant of the load.                                    *)
THEOREM InputInvariantHolds == Spec => []InputInvariant
<1>1. InputInvariant /\ [Next]_inputVars => InputInvariant'
  <2> SUFFICES ASSUME InputInvariant, [Next]_inputVars
               PROVE  InputInvariant'
    OBVIOUS
  <2>1. CASE UNCHANGED inputVars
    BY <2>1, RowsStayRows
    DEF inputVars, InputInvariant, TypeOK, BookedOnce, FailedRows
  <2>2. QED
    BY <2>1, EditBookKeeps, StartLoadKeeps, LoadRowKeeps, FinishLoadKeeps DEF Next
<1>2. QED
  BY InitEstablishesInput, <1>1, PTL DEF Spec

(* Every variable keeps its type.                                          *)
THEOREM InputsAreTyped == Spec => []TypeOK
<1>1. InputInvariant => TypeOK
  BY DEF InputInvariant
<1>2. QED
  BY InputInvariantHolds, <1>1, PTL

(* A completed load has booked every row under exactly one heading.        *)
THEOREM LoadsAccountForEveryRow == Spec => []LoadAccountsForEveryRow
<1>1. InputInvariant => LoadAccountsForEveryRow
  <2> SUFFICES ASSUME InputInvariant, pc = "done"
               PROVE  LoadAccountsForEveryRow
    BY DEF LoadAccountsForEveryRow
  <2>1. Len(book) \in Nat /\ DOMAIN book = 1..Len(book) /\ pos - 1 = Len(book)
    BY DEF InputInvariant, TypeOK, BookedOnce
  <2>2. QED
    BY <2>1 DEF InputInvariant, BookedOnce, LoadAccountsForEveryRow
<1>2. QED
  BY InputInvariantHolds, <1>1, PTL

(* Only rows with a case and a mapped Processor get into tbl_input.        *)
THEOREM StoredRowsStayMapped == Spec => StoredRowsAreMapped
<1> DEFINE Mapped(s) ==
        /\ s.case # Blank /\ s.processor # Blank
        /\ mapping # NoMapping =>
              \E p \in mapping : /\ p[2] = s.processor
                                 /\ book[pos].processor \in Names
                                 /\ KeyOf[p[1]] = KeyOf[book[pos].processor]
<1>1. ASSUME InputInvariant, LoadRow, NEW s \in table' \ table
      PROVE  Mapped(s)
  <2>1. /\ s = Stored(book[pos])
        /\ ~ HasProcessorError(book[pos]) /\ ~ IsMissingValue(book[pos])
    BY <1>1, RowIsStored
  <2>2. book[pos] \in Row
    BY <1>1, RowIsBooked DEF InputInvariant, TypeOK
  <2>3. s.case # Blank
    BY <2>1 DEF Stored, IsMissingValue
  <2>4. CASE mapping = NoMapping
    BY <2>1, <2>3, <2>4 DEF Stored, IsMissingValue
  <2>5. CASE mapping # NoMapping
    <3>1. MappedTo(book[pos].processor) # {}
      BY <2>1, <2>5 DEF HasProcessorError
    <3>2. s.processor \in MappedTo(book[pos].processor)
      BY <2>1, <2>5, <3>1 DEF Stored
    <3>3. book[pos].processor # Blank
      BY <3>1 DEF MappedTo
    <3>4. \E p \in mapping : p[2] = s.processor /\ KeyOf[p[1]] = KeyOf[book[pos].processor]
      BY <3>2 DEF MappedTo
    <3>5. book[pos].processor \in Names
      BY <2>2, <3>3 DEF Row
    <3>6. s.processor # Blank
      BY <1>1, <3>4, InputAssumption DEF InputInvariant, TypeOK
    <3>7. QED
      BY <2>3, <3>4, <3>5, <3>6
  <2>6. QED
    BY <2>4, <2>5
<1>2. ASSUME InputInvariant, [Next]_inputVars
      PROVE  [\A s \in table' \ table : Mapped(s)]_inputVars
  <2>1. LoadRow \/ UNCHANGED table
    BY <1>2 DEF Next, EditBook, StartLoad, BookCannotBeRead, FinishLoad, inputVars
  <2>2. QED
    BY <1>1, <1>2, <2>1
<1>3. QED
  BY InputInvariantHolds, <1>2, PTL DEF Spec, StoredRowsAreMapped
-----------------------------------------------------------------------------
(* tbl_input as MasterQueue has it: an identifier is there, and new, once  *)
(* a row with it is stored.  No queue set is created here.                 *)
Identifiers == Cases \X BOOLEAN
Loaded == INSTANCE QueueSets WITH
    Inputs <- Identifiers,
    Apps <- {},
    input <- [i \in Identifiers |->
                IF \E s \in table : s.identifier = i THEN "new" ELSE "absent"],
    rows <- [p \in Identifiers \X {} |-> 0]

LEMMA RowIsLoaded ==
    ASSUME InputInvariant, LoadRow, table' # table
    PROVE  \E i \in Identifiers : Loaded!Load(i)
<1> DEFINE Entry(i, stored) == IF \E s \in stored : s.identifier = i THEN "new" ELSE "absent"
           input == [i \in Identifiers |-> Entry(i, table)]
<1>1. /\ ~ IsDuplicate(book[pos]) /\ table' = table \cup {Stored(book[pos])}
      /\ ~ IsMissingValue(book[pos])
  BY RowIsStored
<1>2. Stored(book[pos]).identifier = Identifier(book[pos])
  BY DEF Stored
<1>3. book[pos] \in Row
  BY RowIsBooked DEF InputInvariant, TypeOK
<1>4. PICK i \in Identifiers : i = Identifier(book[pos])
  <2>1. IsWidened(NumericCases, "case") \in BOOLEAN
    BY InputAssumption DEF IsWidened
  <2>2. book[pos].case \in Cases
    BY <1>1, <1>3 DEF Row, IsMissingValue
  <2>3. Identifier(book[pos]) \in Identifiers
    BY <2>1, <2>2 DEF Identifier, Identifiers
  <2>4. QED
    BY <2>3
<1>5. input[i] = "absent"
  BY <1>1, <1>4 DEF IsDuplicate
<1>6. \A j \in Identifiers :
         (\E s \in table' : s.identifier = j) <=> (j = i \/ \E s \in table : s.identifier = j)
  BY <1>1, <1>2, <1>4
<1>7. [j \in Identifiers |-> Entry(j, table')] = [input EXCEPT ![i] = "new"]
  BY <1>4, <1>6
<1>8. QED
  BY <1>5, <1>7 DEF Loaded!Load

(* However often a source is loaded, with rejected and repeated rows and   *)
(* commits that raise though they took effect, whether its Case_IDs are    *)
(* numbers or not: an Input_Identifier gets into tbl_input once, on its    *)
(* own, and stays.  With this the loads begin what MasterQueue goes on     *)
(* with, the promise of QueueSets.                                         *)
THEOREM LoadsImplementQueueSets == Spec => Loaded!SetsSpec
<1>1. Init => Loaded!SetsInit
  BY DEF Init, Loaded!SetsInit
<1>2. InputInvariant /\ [Next]_inputVars => [Loaded!SetsNext]_(Loaded!setVars)
  <2> SUFFICES ASSUME InputInvariant, [Next]_inputVars
               PROVE  [Loaded!SetsNext]_(Loaded!setVars)
    OBVIOUS
  <2>1. CASE UNCHANGED table
    BY <2>1 DEF Loaded!setVars
  <2>2. CASE LoadRow /\ table' # table
    BY <2>2, RowIsLoaded DEF Loaded!SetsNext
  <2>3. QED
    BY <2>1, <2>2 DEF Next, EditBook, StartLoad, BookCannotBeRead, FinishLoad, inputVars
<1>3. QED
  BY <1>1, <1>2, InputInvariantHolds, PTL DEF Spec, Loaded!SetsSpec
=============================================================================
