------------------------------ MODULE MCKeySteps ------------------------------
(***************************************************************************)
(* Worksheets of three rows for KeySteps, drawn from the rows in which one *)
(* cell decides: Sequences that agree, are out of order, blank or text;    *)
(* BatchCounts, Applications and Modules that are refused.                 *)
(***************************************************************************)
EXTENDS KeySteps

Number(halves) == <<"number", halves>>
BlankCell == <<"blank", 0>>
TextCell == <<"text", 0>>
MCRow(state, sequence, batch, application, module) ==
    [state |-> state, sequence |-> sequence, batch |-> batch,
     application |-> application, module |-> module]

MCSequences == {Number(2), Number(3), BlankCell, TextCell}
MCRowValues ==
    {MCRow("PROCESS_TRANSACTION", s, BlankCell, Number(a), TRUE) : s \in MCSequences, a \in {2, 4}}
    \cup {MCRow("PROCESS_TRANSACTION", Number(2), b, Number(2), TRUE) :
             b \in {Number(0), Number(4), Number(1), Number(-2), TextCell}}
    \cup {MCRow("PROCESS_TRANSACTION", Number(2), BlankCell, a, TRUE) :
             a \in {BlankCell, Number(3), Number(0)}}
    \cup {MCRow("PROCESS_TRANSACTION", Number(2), BlankCell, Number(2), FALSE)}
    \cup {MCRow(h, s, BlankCell, Number(a), m) :
             h \in {"LOGIN_APPLICATION", "EXECUTION_INIT"},
             s \in {Number(2), Number(3), BlankCell}, a \in {2, 4}, m \in {TRUE}}
    \cup {MCRow(h, Number(2), BlankCell, Number(2), FALSE) :
             h \in {"LOGIN_APPLICATION", "EXECUTION_INIT", "FRAMEWORK_INIT"}}
=============================================================================
