------------------------------- MODULE KeySteps -------------------------------
(***************************************************************************)
(* KeySteps.xlsx, which people write and framework_init reads once, and    *)
(* the code that interprets it: the scheduler's steps (pandas), the        *)
(* applications a master queues rows for (Decimal), and the hooks that     *)
(* execution_init, login_application and framework_init look up.           *)
(*                                                                         *)
(* A cell is <<"number", halves>>, <<"blank", 0>> or <<"text", 0>>, so     *)
(* that 1/2 is <<"number", 1>>.  A module is its row; whether its text     *)
(* names a callable is left to Scheduler, where any hook may raise.        *)
(***************************************************************************)
EXTENDS Integers, Sequences, FiniteSets

CONSTANTS
    RowValues,   \* rows that occur: [state, sequence, batch, application, module]
    MaxRows      \* bound: rows of the worksheet

States == {"PROCESS_TRANSACTION", "LOGIN_APPLICATION", "EXECUTION_INIT",
           "FRAMEWORK_INIT", "OTHER"}
Cells == ({"number"} \X Int) \cup {<<"blank", 0>>, <<"text", 0>>}

ASSUME RowsAssumption ==
    /\ MaxRows \in Nat
    /\ \A row \in RowValues :
          /\ row.state \in States
          /\ {row.sequence, row.batch, row.application} \subseteq Cells
          /\ row.module \in BOOLEAN

VARIABLES
    columns,     \* whether the required columns are all there
    sheet,       \* the rows of state["key_steps"]
    phase,       \* "edit", then "ready" or "refused" by framework_init; "ended"
    steps,       \* state["process_steps"]: [row, app, limit], limit 0 is None
    active,      \* runtime_config.active_process_step_index, 0 before it is set
    queued,      \* the applications of the last master run, "raised" or "none"
    called       \* ghost: the application of the last session, and the rows
                 \* whose modules execution_init, login and the row ran for it

stepVars == <<columns, sheet, phase, steps, active, queued, called>>

None == 0
Raised == -1
NothingCalled == [app |-> None, reset |-> None, login |-> None, process |-> None]

Init ==
    /\ columns \in BOOLEAN
    /\ sheet = <<>>
    /\ phase = "edit"
    /\ steps = <<>>
    /\ active = 0
    /\ queued = <<"none", <<>>>>
    /\ called = NothingCalled

WriteRow ==
    /\ phase = "edit" /\ Len(sheet) < MaxRows
    /\ \E row \in RowValues : sheet' = Append(sheet, row)
    /\ UNCHANGED <<columns, phase, steps, active, queued, called>>
-----------------------------------------------------------------------------
IsNumber(cell) == cell[1] = "number"
IsBlank(cell) == cell[1] = "blank"
IsInteger(cell) == IsNumber(cell) /\ cell[2] % 2 = 0

(* _positive_integer, and _positive_application_id of the master.          *)
IsApplication(cell) == IsInteger(cell) /\ cell[2] > 0
(* _parse_batch_limit: a blank cell and zero are both None.                *)
IsBatchCount_Faulty(cell) == IsBlank(cell) \/ IsInteger(cell)
IsBatchCount(cell) == IsBlank(cell) \/ (IsInteger(cell) /\ cell[2] >= 0)
LimitOf(cell) == IF IsBlank(cell) THEN 0 ELSE cell[2] \div 2

RowsOf(state) == {i \in DOMAIN sheet : sheet[i].state = state}
AppOf(i) == sheet[i].application[2] \div 2

(* sort_values of pandas: a Sequence that is no number comes last.         *)
PandasPrecedes(i, j) ==
    LET x == sheet[i].sequence
        y == sheet[j].sequence
    IN  \/ IsNumber(x) /\ ~ IsNumber(y)
        \/ IsNumber(x) /\ IsNumber(y) /\ x[2] < y[2]
        \/ IsNumber(x) = IsNumber(y) /\ (IsNumber(x) => x[2] = y[2]) /\ i < j

(* sort by (Decimal, workbook order), of the master and of the hooks.      *)
Precedes_Faulty(i, j) ==
    \/ sheet[i].sequence[2] < sheet[j].sequence[2]
    \/ /\ sheet[i].sequence[2] = sheet[j].sequence[2]
       /\ AppOf(i) < AppOf(j) \/ (AppOf(i) = AppOf(j) /\ i < j)
Precedes(i, j) ==
    \/ sheet[i].sequence[2] < sheet[j].sequence[2]
    \/ sheet[i].sequence[2] = sheet[j].sequence[2] /\ i < j

(* load_process_steps: to_numeric takes a blank Sequence for NaN.          *)
StepsAreValid ==
    /\ columns
    /\ RowsOf("PROCESS_TRANSACTION") # {}
    /\ \A i \in RowsOf("PROCESS_TRANSACTION") :
          /\ IsNumber(sheet[i].sequence) \/ IsBlank(sheet[i].sequence)
          /\ IsApplication(sheet[i].application)
          /\ sheet[i].module
          /\ IsBatchCount(sheet[i].batch)

(* The rows, sorted.                                                       *)
InOrder(rows, Before(_, _)) ==
    CHOOSE order \in [1..Cardinality(rows) -> rows] :
        \A k, l \in DOMAIN order : k < l => Before(order[k], order[l])

ProcessSteps ==
    LET order == InOrder(RowsOf("PROCESS_TRANSACTION"), PandasPrecedes)
    IN  [k \in DOMAIN order |-> [row |-> order[k], app |-> AppOf(order[k]),
                                 limit |-> LimitOf(sheet[order[k]].batch)]]

(* _select_framework_init_module raises when there are several rows; the   *)
(* hook of one row without a module is skipped.                            *)
FrameworkHookIsValid == Cardinality(RowsOf("FRAMEWORK_INIT")) <= 1

FrameworkInit ==
    /\ phase = "edit"
    /\ phase' = IF StepsAreValid /\ FrameworkHookIsValid THEN "ready" ELSE "refused"
    /\ steps' = IF StepsAreValid THEN ProcessSteps ELSE <<>>
    /\ active' = IF phase' = "ready" THEN 1 ELSE 0
    /\ UNCHANGED <<columns, sheet, queued, called>>
-----------------------------------------------------------------------------
(* What the set of those seen lets through: the first of each.             *)
Distinct(apps) ==
    LET firsts == InOrder({k \in DOMAIN apps : \A l \in 1..(k - 1) : apps[l] # apps[k]},
                          LAMBDA k, l : k < l)
    IN  [n \in DOMAIN firsts |-> apps[firsts[n]]]

(* _extract_distinct_process_applications; what it raises ends the run.    *)
MasterQueueCreator ==
    /\ phase = "ready"
    /\ queued' =
          IF \A i \in RowsOf("PROCESS_TRANSACTION") :
                IsNumber(sheet[i].sequence) /\ IsApplication(sheet[i].application)
          THEN LET order == InOrder(RowsOf("PROCESS_TRANSACTION"), Precedes)
               IN  <<"apps", Distinct([k \in DOMAIN order |-> AppOf(order[k])])>>
          ELSE <<"raised", <<>>>>
    /\ phase' = IF queued'[1] = "raised" THEN "ended" ELSE phase
    /\ UNCHANGED <<columns, sheet, steps, active, called>>

(* _select_login_module and _select_execution_init_module: the rows of the *)
(* application are sorted, and only the first one's module is looked at.   *)
HookRows(state, app) ==
    {i \in RowsOf(state) : IsNumber(sheet[i].application)
                           /\ sheet[i].application[2] = 2 * app}
Hook(state, app) ==
    LET rows == HookRows(state, app)
        first == CHOOSE i \in rows : \A j \in rows : i = j \/ Precedes(i, j)
    IN  IF rows = {} THEN None
        ELSE IF \E i \in rows : ~ IsNumber(sheet[i].sequence) THEN Raised
        ELSE IF ~ sheet[first].module THEN Raised
        ELSE first

(* _select_process_step: the first step of the application, whichever step *)
(* is active.                                                              *)
ProcessStep(app) == LET k == CHOOSE k \in DOMAIN steps :
                               /\ steps[k].app = app
                               /\ \A l \in 1..(k - 1) : steps[l].app # app
                    IN  steps[k].row

(* activate_next_process_step                                              *)
NextStep == IF active = Len(steps) THEN 1 ELSE active + 1

(* _run_application_reset_hook: of the application active until now, before*)
(* the next step is activated.                                             *)
ResetHook_Faulty == Hook("EXECUTION_INIT", steps[NextStep].app)
ResetHook == Hook("EXECUTION_INIT", steps[active].app)

(* The session of a step begins, and gets a row to log in and process or   *)
(* none.  A login that raises fails the row.                               *)
Begin(step, reset, row) ==
    LET app == steps[step].app
        login == IF row THEN Hook("LOGIN_APPLICATION", app) ELSE None
    IN  /\ active' = step
        /\ called' = [app |-> app, reset |-> reset, login |-> login,
                      process |-> IF row /\ login # Raised THEN ProcessStep(app) ELSE None]
        /\ UNCHANGED phase

(* A reset hook that raises ends the run in the application to be left.    *)
AbandonReset ==
    /\ phase' = "ended"
    /\ called' = [called EXCEPT !.reset = Raised, !.login = None, !.process = None]
    /\ UNCHANGED active

(* STARTUP, MASTER_QUEUE_REFRESH and the next row of a session reset       *)
(* nothing; RETRY keeps the step and the row; BATCH_COMPLETE and APP_SWITCH*)
(* go on to the next step.                                                 *)
KeepSession == \E row \in BOOLEAN : Begin(active, None, row)
RowHeld == called.process # None \/ called.login = Raised
Reset ==
    /\ called.app # None
    /\ \/ ResetHook = Raised /\ AbandonReset
       \/ ResetHook # Raised /\ RowHeld /\ Begin(active, ResetHook, TRUE)
       \/ ResetHook # Raised /\ \E row \in BOOLEAN : Begin(NextStep, ResetHook, row)
Session ==
    /\ phase = "ready"
    /\ KeepSession \/ Reset
    /\ UNCHANGED <<columns, sheet, steps, queued>>

Next == WriteRow \/ FrameworkInit \/ MasterQueueCreator \/ Session

Spec == Init /\ [][Next]_stepVars
-----------------------------------------------------------------------------
(* Every variable keeps its type; the steps suit the scheduler, which      *)
(* takes its limits for natural numbers and 0 for None.                    *)
TypeOK ==
    /\ columns \in BOOLEAN
    /\ sheet \in Seq(RowValues) /\ Len(sheet) <= MaxRows
    /\ phase \in {"edit", "ready", "refused", "ended"}
    /\ steps \in Seq([row : DOMAIN sheet, app : Nat \ {0}, limit : Nat])
    /\ active \in (IF phase \in {"ready", "ended"} THEN DOMAIN steps ELSE {0})
    /\ queued[1] \in {"none", "apps", "raised"} /\ queued[2] \in Seq(Nat \ {0})
    /\ called.app \in Nat
    /\ {called.reset, called.login, called.process} \subseteq DOMAIN sheet \cup {None, Raised}

(* Two pieces of code read the same rows, one with pandas, one with        *)
(* Decimal.  A master that accepts the sheet queues rows for exactly the   *)
(* applications of the steps, and lists them in the order in which the     *)
(* scheduler first reaches them; it refuses a sheet that the scheduler     *)
(* took only for a blank Sequence, which Orqflow_Requirement.md:375        *)
(* forbids and pandas reads as NaN (process_runtime.py:228).               *)
ParsersAgree ==
    /\ queued[1] = "apps" =>
          LET apps == queued[2]
              first(a) == CHOOSE k \in DOMAIN steps :
                             steps[k].app = a /\ \A l \in 1..(k - 1) : steps[l].app # a
          IN  /\ {apps[i] : i \in DOMAIN apps} = {steps[k].app : k \in DOMAIN steps}
              /\ \A i, j \in DOMAIN apps : i < j => first(apps[i]) < first(apps[j])
    /\ queued[1] = "raised" =>
          \E i \in RowsOf("PROCESS_TRANSACTION") : IsBlank(sheet[i].sequence)

(* A module that belongs to the application, and that the sheet puts behind*)
(* no other module of that application for the same state.                 *)
OwnModule(i, app) ==
    /\ AppOf(i) = app
    /\ sheet[i].module
    /\ \A j \in RowsOf(sheet[i].state) :
          sheet[j].application = sheet[i].application /\ IsNumber(sheet[j].sequence)
              => /\ IsNumber(sheet[i].sequence)
                 /\ sheet[i].sequence[2] <= sheet[j].sequence[2]
RunsFor(i, app) == i \in {None, Raised} \/ OwnModule(i, app)

(* Orqflow_Requirement.md:647: execution_init resets the application of the*)
(* session that ends with that application's own hook, and the session that*)
(* begins logs in to its own application and works with its own module,    *)
(* each the earliest the sheet has for it.                                 *)
SessionRunsItsOwnModules ==
    [][called' # called => /\ RunsFor(called'.reset, called.app)
                           /\ RunsFor(called'.login, called'.app)
                           /\ RunsFor(called'.process, called'.app)]_stepVars
=============================================================================
