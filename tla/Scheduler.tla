------------------------------ MODULE Scheduler ------------------------------
(***************************************************************************)
(* One bot process of the framework: the graph of framework/graph.py, node *)
(* by node, over the rows of tbl_queue it shares with whoever inserts them.*)
(* A node is one action and the routing function behind it picks the next  *)
(* node; only route_after_execution_init, which queries the queue and the  *)
(* clock itself, is a step of its own.  Rows may be inserted by another    *)
(* master bot between any two steps, and the process may die at any step   *)
(* and be started again on the queue it left behind.                       *)
(*                                                                         *)
(* The texts the scheduler carries (last_error, last_message, cto_details) *)
(* are modelled by their provenance: the row whose processing produced     *)
(* them, or NoRow.  Not modelled because nothing decides on them:          *)
(* batch_count, first_run, last_result, timestamps, Bot_Name.              *)
(*                                                                         *)
(* An operator whose name ends in _Faulty, or in _Faulty and a word, is    *)
(* not part of the model: it is the definition that follows it with a slip *)
(* a programmer could make, and shows which property would notice it.      *)
(***************************************************************************)
EXTENDS Integers, Sequences, FiniteSets

CONSTANTS
    Rows,           \* IDs of the rows of tbl_queue of this process
    AppOf,          \* Application_Details of every row
    Steps,          \* process_steps: the ordered [app, limit]; limit 0 is None
    RetryLimit,     \* execution_config.retry_limit
    WaitLimit,      \* execution_config.wait_limit, 0 when wait_enabled is false
    Masterbot,      \* process_config.settings.masterbot
    Periodic,       \* master_queue_interval_hours is positive
    NoRow,          \* the value None of a transaction
    NoApp,          \* no application session is open
    MaxRuns,        \* bound: runs of the process
    MaxMasterRuns   \* bound: master queue runs after which time stands still

ASSUME RowsAssumption == Rows \subseteq Nat /\ NoRow \notin Rows
ASSUME StepsAssumption ==
    /\ Len(Steps) \in Nat \ {0}
    /\ \A i \in 1..Len(Steps) : Steps[i].limit \in Nat
AppsOfSteps == {Steps[i].app : i \in 1..Len(Steps)}
ASSUME AppsAssumption ==
    /\ NoApp \notin AppsOfSteps
    /\ \A r \in Rows : AppOf[r] # NoApp
ASSUME LimitsAssumption ==
    /\ RetryLimit \in Nat
    /\ WaitLimit \in Nat
    /\ MaxRuns \in Nat
    /\ MaxMasterRuns \in Nat
ASSUME FlagsAssumption == Masterbot \in BOOLEAN /\ Periodic \in BOOLEAN

VARIABLES
    status,      \* tbl_queue.Processing_Status; "absent" before the INSERT
    comments,    \* tbl_queue.Bot_Comment: whose texts were appended to it
    cto,         \* tbl_queue.CTO_Details: whose details it holds
    rt,          \* state["runtime_config"]
    node,        \* the node about to run, or how the process ended
    masterDue,   \* the interval has elapsed since master_queue_last_run_at
    runs,        \* processes started so far
    session,     \* ghost: the application a login hook last logged in to
    attempts     \* ghost: attempts at the held row since it was fetched

queueVars == <<status, comments, cto>>
ghostVars == <<session, attempts>>
vars == <<status, comments, cto, rt, node, masterDue, runs, session, attempts>>
-----------------------------------------------------------------------------
Statuses == {"absent", "eligible", "in_progress", "success", "skipped", "failed"}
FinalStatuses == {"success", "skipped", "failed"}
Outcomes == {"SUCCESS", "BUSINESS_EXCEPTION", "SYSTEM_EXCEPTION", "NO_TRANSACTION"}
Actions == {"PROCESS", "GET_TRANSACTION", "RETRY", "APP_SWITCH", "BATCH_COMPLETE",
            "MASTER_QUEUE_REFRESH", "END"}
ResetReasons == {"BATCH_COMPLETE", "APP_SWITCH", "RETRY"}
Reasons == ResetReasons \cup {"STARTUP", "MASTER_QUEUE_REFRESH"}
Nodes == {"framework_init", "execution_init", "route_execution_init",
          "master_queue_creator", "master_queue_wait", "get_transaction",
          "login_application", "process_transaction", "transition_hub", "end"}
Over == {"stopped", "aborted"}

Runtime ==
    [retry_count : Nat, step : 0..Len(Steps), session_batch_count : Nat,
     execution_init_reason : Reasons, master_queue_run_count : Nat,
     wait_count : Nat, txn : Rows \cup {NoRow},
     last_status : Outcomes \cup {"NONE"}, last_error : Rows \cup {NoRow},
     last_message : Rows \cup {NoRow}, cto_details : Rows \cup {NoRow},
     next_action : Actions \cup {"NONE"}, application_logged_in : BOOLEAN,
     queue_initialized : BOOLEAN]

InitialRuntime ==
    [retry_count |-> 0, step |-> 0, session_batch_count |-> 0,
     execution_init_reason |-> "STARTUP", master_queue_run_count |-> 0,
     wait_count |-> 0, txn |-> NoRow,
     last_status |-> "NONE", last_error |-> NoRow,
     last_message |-> NoRow, cto_details |-> NoRow,
     next_action |-> "NONE", application_logged_in |-> FALSE,
     queue_initialized |-> FALSE]

ActiveApp == Steps[rt.step].app
ActiveLimit == Steps[rt.step].limit

Fetchable_Faulty(r) == status[r] = "eligible"
Fetchable(r) == status[r] \in {"in_progress", "eligible"}
HasEligible(apps) == \E r \in Rows : Fetchable(r) /\ AppOf[r] \in apps

(* The row fetch_next_transaction selects for an application: In           *)
(* Processing before eligible, then the lowest ID.                         *)
Precedes_Faulty(r, s) == r <= s
Precedes(r, s) ==
    \/ status[r] = "in_progress" /\ status[s] = "eligible"
    \/ status[r] = status[s] /\ r <= s
IsNext(r, app) ==
    /\ Fetchable(r) /\ AppOf[r] = app
    /\ \A s \in Rows : Fetchable(s) /\ AppOf[s] = app => Precedes(r, s)

(* _set_runtime_failure, and the except branches that do the same.         *)
Failed(r) == [r EXCEPT !.last_status = "SYSTEM_EXCEPTION",
                       !.last_error = NoRow, !.next_action = "END"]
-----------------------------------------------------------------------------
Init ==
    /\ status = [r \in Rows |-> "absent"]
    /\ comments = [r \in Rows |-> {}]
    /\ cto = [r \in Rows |-> NoRow]
    /\ rt = InitialRuntime
    /\ node = "framework_init"
    /\ masterDue = FALSE
    /\ runs = 1
    /\ session = NoApp
    /\ attempts = 0

ActivateStep(r, i) == [r EXCEPT !.step = i, !.session_batch_count = 0]
NextStep_Faulty(r) == r.step + 1
NextStep_FaultyStuck(r) == r.step
NextStep(r) == (r.step % Len(Steps)) + 1

FrameworkInit ==
    /\ node = "framework_init"
    /\ \/ /\ rt' = ActivateStep(rt, 1)
          /\ node' = "execution_init"
       \/ \* KeySteps fails, or what comes after it: the database, the hook
          /\ rt' \in {Failed(rt), Failed(ActivateStep(rt, 1))}
          /\ node' = "end"
    /\ UNCHANGED <<queueVars, masterDue, runs, ghostVars>>

InitReason(r) ==
    IF r.next_action \in Reasons \ {"STARTUP"} THEN r.next_action
                                               ELSE r.execution_init_reason

AfterReset_Faulty(r) ==
    ActivateStep([r EXCEPT !.application_logged_in = FALSE,
                           !.execution_init_reason = InitReason(r)], NextStep(r))
AfterReset_FaultySession(r) ==
    LET kept == [r EXCEPT !.execution_init_reason = InitReason(r)]
    IN  IF InitReason(r) = "RETRY" THEN [kept EXCEPT !.session_batch_count = 0]
                                   ELSE ActivateStep(kept, NextStep(r))

(* The runtime after initialize_execution: the session is reset for a      *)
(* reset reason, and the next step is activated unless the row is retried. *)
AfterReset(r) ==
    LET reason == InitReason(r)
        closed == [r EXCEPT !.application_logged_in = FALSE,
                            !.execution_init_reason = reason]
    IN  IF reason = "RETRY" THEN [closed EXCEPT !.session_batch_count = 0]
                            ELSE ActivateStep(closed, NextStep(r))

ExecutionInit ==
    /\ node = "execution_init"
    /\ \/ /\ InitReason(rt) \in ResetReasons
          /\ rt' = AfterReset(rt)
          /\ session' = NoApp
       \/ \* the application's reset hook fails
          /\ InitReason(rt) \in ResetReasons
          /\ rt' = Failed(rt)
          /\ UNCHANGED session
       \/ /\ InitReason(rt) \notin ResetReasons
          /\ rt' = [rt EXCEPT !.execution_init_reason = InitReason(rt)]
          /\ UNCHANGED session
    /\ node' = "route_execution_init"
    /\ UNCHANGED <<queueVars, masterDue, runs, attempts>>

IsMasterQueueDue ==
    /\ Masterbot
    /\ rt.master_queue_run_count = 0 \/ (Periodic /\ masterDue)

HasPeriodicMasterQueue_Faulty == Masterbot
HasPeriodicMasterQueue == Masterbot /\ Periodic

AfterExecutionInit_Faulty ==
    IF rt.next_action = "END" THEN "end"
    ELSE IF IsMasterQueueDue THEN "master_queue_creator"
    ELSE IF \/ rt.execution_init_reason = "STARTUP"
            \/ rt.queue_initialized /\ HasEligible(AppsOfSteps)
         THEN "get_transaction"
    ELSE IF HasPeriodicMasterQueue THEN "master_queue_wait"
    ELSE "end"

AfterExecutionInit_FaultyEnd ==
    IF rt.execution_init_reason = "RETRY" THEN "login_application"
    ELSE IF IsMasterQueueDue THEN "master_queue_creator"
    ELSE IF rt.next_action = "END" THEN "end"
    ELSE IF \/ rt.execution_init_reason = "STARTUP"
            \/ rt.queue_initialized /\ HasEligible(AppsOfSteps)
         THEN "get_transaction"
    ELSE IF HasPeriodicMasterQueue THEN "master_queue_wait"
    ELSE "end"

AfterExecutionInit ==
    IF rt.next_action = "END" THEN "end"
    ELSE IF rt.execution_init_reason = "RETRY" THEN "login_application"
    ELSE IF IsMasterQueueDue THEN "master_queue_creator"
    ELSE IF \/ rt.execution_init_reason = "STARTUP"
            \/ rt.queue_initialized /\ HasEligible(AppsOfSteps)
         THEN "get_transaction"
    ELSE IF HasPeriodicMasterQueue THEN "master_queue_wait"
    ELSE "end"

RouteAfterExecutionInit ==
    /\ node = "route_execution_init"
    /\ node' = AfterExecutionInit
    /\ UNCHANGED <<queueVars, rt, masterDue, runs, ghostVars>>

(* Queue sets are committed input by input, so some of them are there even *)
(* when the run fails.  The early returns of create_master_queue are dead: *)
(* the only edge into the node is taken when the run is due.               *)
InsertRows ==
    \E new \in SUBSET {r \in Rows : status[r] = "absent"} :
        status' = [r \in Rows |-> IF r \in new THEN "eligible" ELSE status[r]]

MasterQueueCreator ==
    /\ node = "master_queue_creator"
    /\ InsertRows
    /\ \/ /\ rt' = [rt EXCEPT !.master_queue_run_count = @ + 1]
          /\ masterDue' = FALSE
          /\ node' = "get_transaction"
       \/ /\ rt' = Failed(rt)
          /\ UNCHANGED masterDue
          /\ node' = "end"
    /\ UNCHANGED <<comments, cto, runs, ghostVars>>

(* wait_count only decides whether it is below WaitLimit, so counting on   *)
(* from there is cut off.                                                  *)
MasterQueueWait ==
    /\ node = "master_queue_wait"
    /\ \/ rt' = [rt EXCEPT !.wait_count = IF @ < WaitLimit THEN @ + 1 ELSE @,
                           !.execution_init_reason = "MASTER_QUEUE_REFRESH",
                           !.next_action = "MASTER_QUEUE_REFRESH"]
       \/ rt' = Failed(rt)
    /\ node' = "execution_init"
    /\ UNCHANGED <<queueVars, masterDue, runs, ghostVars>>
-----------------------------------------------------------------------------
(* fetch_next reads, marks the row and commits; it may fail before the     *)
(* commit or lose the answer to it.                                        *)
GetTransaction ==
    /\ node = "get_transaction"
    /\ \/ \E r \in Rows :
             /\ IsNext(r, ActiveApp)
             /\ status' = [status EXCEPT ![r] = "in_progress"]
             /\ \/ /\ rt' = [rt EXCEPT !.txn = r, !.wait_count = 0,
                                       !.last_status = "SUCCESS", !.last_error = NoRow,
                                       !.next_action = "PROCESS", !.queue_initialized = TRUE]
                   /\ attempts' = 0
                   /\ node' = "login_application"
                \/ \* the commit went through but raised
                   /\ rt' = [rt EXCEPT !.txn = NoRow, !.last_status = "SYSTEM_EXCEPTION",
                                       !.last_error = NoRow, !.next_action = "NONE",
                                       !.queue_initialized = TRUE]
                   /\ UNCHANGED attempts
                   /\ node' = "transition_hub"
       \/ /\ rt' = [rt EXCEPT !.txn = NoRow, !.last_status = "SYSTEM_EXCEPTION",
                              !.last_error = NoRow, !.next_action = "NONE",
                              !.queue_initialized = TRUE]
          /\ node' = "transition_hub"
          /\ UNCHANGED <<status, attempts>>
       \/ /\ ~ HasEligible({ActiveApp})
          /\ rt' = [rt EXCEPT !.txn = NoRow, !.last_status = "NO_TRANSACTION",
                              !.next_action = "NONE", !.queue_initialized = TRUE]
          /\ node' = "transition_hub"
          /\ UNCHANGED <<status, attempts>>
    /\ UNCHANGED <<comments, cto, masterDue, runs, session>>

(* The text of an exception, and the message of a result, may be blank.    *)
TextsOf(r) == {r.txn, NoRow}

LoginFailed(r, text) ==
    [r EXCEPT !.application_logged_in = FALSE, !.last_status = "SYSTEM_EXCEPTION",
              !.last_error = text, !.last_message = NoRow, !.next_action = "NONE"]

LoginApplication ==
    /\ node = "login_application"
    /\ attempts' = attempts + 1
    /\ \/ /\ rt.application_logged_in
          /\ node' = "process_transaction"
          /\ UNCHANGED <<rt, session>>
       \/ /\ ~ rt.application_logged_in
          /\ rt' = [rt EXCEPT !.application_logged_in = TRUE]
          /\ session' = AppOf[rt.txn]
          /\ node' = "process_transaction"
       \/ /\ ~ rt.application_logged_in
          /\ \E text \in TextsOf(rt) : rt' = LoginFailed(rt, text)
          /\ node' = "transition_hub"
          /\ UNCHANGED session
    /\ UNCHANGED <<queueVars, masterDue, runs>>

ProcessReturned_Faulty(r, outcome, text, details, action) ==
    [r EXCEPT !.last_status = outcome,
              !.last_error = IF outcome = "SUCCESS" THEN NoRow ELSE text,
              !.last_message = IF text = NoRow THEN @ ELSE text,
              !.cto_details = details, !.next_action = action]

(* A result names an outcome, may carry a message and CTO details and may  *)
(* ask for an action; none but APP_SWITCH is ever looked at.               *)
ProcessReturned(r, outcome, text, details, action) ==
    [r EXCEPT !.last_status = outcome,
              !.last_error = IF outcome = "SUCCESS" THEN NoRow ELSE text,
              !.last_message = text, !.cto_details = details, !.next_action = action]
ProcessRaised(r, text) ==
    [r EXCEPT !.last_status = "SYSTEM_EXCEPTION", !.last_error = text,
              !.last_message = NoRow, !.cto_details = NoRow, !.next_action = "NONE"]

ProcessTransaction ==
    /\ node = "process_transaction"
    /\ \E text \in TextsOf(rt) :
          \/ \E outcome \in Outcomes \ {"NO_TRANSACTION"}, details \in {rt.txn, NoRow},
                action \in {"NONE", "APP_SWITCH"} :
                rt' = ProcessReturned(rt, outcome, text, details, action)
          \/ rt' = ProcessRaised(rt, text)
    /\ node' = "transition_hub"
    /\ UNCHANGED <<queueVars, masterDue, runs, ghostVars>>
-----------------------------------------------------------------------------
IsSessionBatchComplete_Faulty(r) ==
    LET limit == Steps[r.step].limit
    IN  limit # 0 /\ r.session_batch_count > limit
IsSessionBatchComplete(r) ==
    LET limit == Steps[r.step].limit
    IN  limit # 0 /\ r.session_batch_count >= limit

NextAfterFinalized(r) ==
    IF r.next_action = "APP_SWITCH"
    THEN [r EXCEPT !.execution_init_reason = "APP_SWITCH"]
    ELSE IF IsSessionBatchComplete(r)
    THEN [r EXCEPT !.execution_init_reason = "BATCH_COMPLETE",
                   !.next_action = "BATCH_COMPLETE"]
    ELSE [r EXCEPT !.next_action = "GET_TRANSACTION"]

(* The runtime once the held row is final: counted, released and retries   *)
(* forgotten, before the next action is chosen.                            *)
Released_Faulty(r) == [r EXCEPT !.session_batch_count = @ + 1, !.txn = NoRow]
Released_FaultyHeld(r) == [r EXCEPT !.session_batch_count = @ + 1, !.retry_count = 0]
Released(r) == [r EXCEPT !.session_batch_count = @ + 1, !.retry_count = 0, !.txn = NoRow]

(* _mark_final: blank text leaves Bot_Comment and CTO_Details alone.       *)
MarkFinal(outcome, text) ==
    /\ status' = [status EXCEPT ![rt.txn] = outcome]
    /\ comments' = [comments EXCEPT ![rt.txn] = @ \cup ({text} \ {NoRow})]
    /\ cto' = [cto EXCEPT ![rt.txn] = IF rt.cto_details = NoRow THEN @ ELSE rt.cto_details]
    /\ rt' = NextAfterFinalized(Released(rt))

ResolveFinal ==
    \/ rt.last_status = "SUCCESS" /\ MarkFinal("success", rt.last_message)
    \/ rt.last_status = "BUSINESS_EXCEPTION" /\ MarkFinal("skipped", rt.last_error)
    \/ /\ rt.last_status = "SYSTEM_EXCEPTION" /\ rt.txn # NoRow
       /\ rt.retry_count >= RetryLimit
       /\ MarkFinal("failed", rt.last_error)

ResolveRetry ==
    /\ rt.last_status = "SYSTEM_EXCEPTION" /\ rt.txn # NoRow
    /\ rt.retry_count < RetryLimit
    /\ rt' = [rt EXCEPT !.retry_count = @ + 1, !.next_action = "RETRY"]

ResolveNothingHeld ==
    /\ rt.last_status = "SYSTEM_EXCEPTION" /\ rt.txn = NoRow
    /\ rt' = [rt EXCEPT !.retry_count = 0, !.next_action = "END"]

ResolveNoTransaction ==
    /\ rt.last_status = "NO_TRANSACTION"
    /\ LET elsewhere == HasEligible(AppsOfSteps \ {ActiveApp})
       IN  \/ /\ elsewhere
              /\ rt' = [rt EXCEPT !.txn = NoRow, !.execution_init_reason = "APP_SWITCH",
                                  !.next_action = "APP_SWITCH"]
           \/ /\ ~ elsewhere /\ rt.wait_count < WaitLimit
              /\ rt' = [rt EXCEPT !.txn = NoRow, !.wait_count = @ + 1,
                                  !.next_action = "GET_TRANSACTION"]
           \/ /\ ~ elsewhere /\ rt.wait_count >= WaitLimit
              /\ rt' = [rt EXCEPT !.txn = NoRow, !.execution_init_reason = "BATCH_COMPLETE",
                                  !.next_action = "BATCH_COMPLETE"]

AfterTransition(action) ==
    CASE action \in {"APP_SWITCH", "BATCH_COMPLETE", "MASTER_QUEUE_REFRESH", "RETRY"}
                         -> "execution_init"
      [] action = "END"  -> "end"
      [] OTHER           -> "get_transaction"

TransitionHub ==
    /\ node = "transition_hub"
    /\ \/ ResolveFinal
       \/ (ResolveRetry \/ ResolveNothingHeld \/ ResolveNoTransaction)
          /\ UNCHANGED queueVars
    /\ node' = AfterTransition(rt'.next_action)
    /\ UNCHANGED <<masterDue, runs, session, attempts>>

End ==
    /\ node = "end"
    /\ rt' = [rt EXCEPT !.next_action = "END"]
    /\ node' = "stopped"
    /\ UNCHANGED <<queueVars, masterDue, runs, ghostVars>>

BotStep ==
    \/ FrameworkInit \/ ExecutionInit \/ RouteAfterExecutionInit
    \/ MasterQueueCreator \/ MasterQueueWait
    \/ GetTransaction \/ LoginApplication \/ ProcessTransaction
    \/ TransitionHub \/ End
-----------------------------------------------------------------------------
(* Another master bot commits queue sets for this process.  IDs are drawn  *)
(* when a row is inserted and become visible when it is committed, so they *)
(* need not appear in order.                                               *)
RowsArrive ==
    /\ InsertRows
    /\ UNCHANGED <<comments, cto, rt, node, masterDue, runs, ghostVars>>

TimePasses ==
    /\ Periodic /\ ~ masterDue
    /\ rt.master_queue_run_count \in 1..(MaxMasterRuns - 1)
    /\ masterDue' = TRUE
    /\ UNCHANGED <<queueVars, rt, node, runs, ghostVars>>

(* The process is killed, or an exception nothing catches ends it: a query *)
(* of the router or of the hub, a failing UPDATE of _mark_final, the       *)
(* driver that does not stop.  Its memory is gone, its rows are not.       *)
Crash ==
    /\ node \notin Over
    /\ node' = "aborted"
    /\ rt' = InitialRuntime
    /\ masterDue' = FALSE
    /\ session' = NoApp
    /\ attempts' = 0
    /\ UNCHANGED <<queueVars, runs>>

Restart ==
    /\ node \in Over
    /\ runs < MaxRuns
    /\ runs' = runs + 1
    /\ node' = "framework_init"
    /\ rt' = InitialRuntime
    /\ masterDue' = FALSE
    /\ session' = NoApp
    /\ attempts' = 0
    /\ UNCHANGED queueVars

Next == BotStep \/ RowsArrive \/ TimePasses \/ Crash \/ Restart

Spec == Init /\ [][Next]_vars
FairSpec == Spec /\ WF_vars(BotStep)
-----------------------------------------------------------------------------
(* Every variable keeps its type.                                          *)
TypeOK ==
    /\ status \in [Rows -> Statuses]
    /\ comments \in [Rows -> SUBSET Rows]
    /\ cto \in [Rows -> Rows \cup {NoRow}]
    /\ rt \in Runtime
    /\ node \in Nodes \cup Over
    /\ masterDue \in BOOLEAN
    /\ runs \in Nat
    /\ session \in AppsOfSteps \cup {NoApp}
    /\ attempts \in Nat

(* The row the bot holds is In Processing in the queue and belongs to the  *)
(* active application: neither a retry, a session reset nor a refresh may  *)
(* move the scheduler to another application, or let the row go, while it  *)
(* is being worked on (Orqflow_Requirement.md section 10.2, RETRY).        *)
HeldRowIsActive ==
    rt.txn # NoRow => status[rt.txn] = "in_progress" /\ AppOf[rt.txn] = ActiveApp

(* get_transaction overwrites txn, and the master queue nodes may take     *)
(* hours: none of them is ever reached with a row in hand, although all of *)
(* them lie behind the same execution_init that a retry goes through.      *)
NothingHeldBetweenRows ==
    node \in {"get_transaction", "master_queue_creator", "master_queue_wait"}
        => rt.txn = NoRow /\ rt.retry_count = 0

(* A row is processed in the application its session was opened for: the   *)
(* login that application_logged_in lets the bot skip is one to the row's  *)
(* own application.                                                        *)
ProcessedInOwnSession ==
    node = "process_transaction" => session = AppOf[rt.txn]

(* A positive BatchCount is not exceeded in one session: the scheduler     *)
(* does not fetch or work on another row once session_batch_count has      *)
(* reached it.  A retry opens a new session and sets the count to 0        *)
(* (initialize_execution), so a step may finalise more rows in its turn.   *)
BatchWithinLimit ==
    /\ node \in {"get_transaction", "login_application", "process_transaction"}
    /\ ActiveLimit # 0
    => rt.session_batch_count < ActiveLimit

(* At most one row per application is In Processing, crashes and restarts  *)
(* included: what an interrupted run left behind is taken up before        *)
(* anything new is claimed.                                                *)
OneInProgressPerApp ==
    \A r, s \in Rows :
        status[r] = "in_progress" /\ status[s] = "in_progress" /\ AppOf[r] = AppOf[s]
            => r = s

(* A run that reports success, exit code 0 of cli.main, leaves no row of   *)
(* its applications In Processing.                                         *)
CleanExitLeavesNothingOpen ==
    node = "stopped" /\ rt.last_status # "SYSTEM_EXCEPTION"
        => \A r \in Rows : AppOf[r] \in AppsOfSteps => status[r] # "in_progress"

(* END is final: a failed wait goes on to execution_init with its old      *)
(* reason, which is handled once more, and a failed reset hook to the      *)
(* router, but neither a retry, a due master run nor a waiting row keeps   *)
(* the process going.  (At transition_hub END is a process's own wish.)    *)
EndIsFinal ==
    rt.next_action = "END" => node \in {"execution_init", "route_execution_init",
                                        "transition_hub", "end", "stopped"}

(* A row gets a comment only with its final status, and only the text of   *)
(* its own processing, although the texts in the runtime outlive the row   *)
(* they are about.                                                         *)
CommentsAreOwn ==
    \A r \in Rows :
        comments[r] \subseteq (IF status[r] \in FinalStatuses THEN {r} ELSE {})

(* A row is given up only after the first attempt and RetryLimit retries   *)
(* in the run that fails it, whether login or processing failed: retries   *)
(* spent on an earlier row are not charged to it, and none is added.       *)
FailedAfterAllRetries ==
    [][\A r \in Rows : status[r] # "failed" /\ status'[r] = "failed"
            => attempts = RetryLimit + 1]_vars

(* Without a periodic master queue every run comes to an end, whatever     *)
(* waits, retries, switches and resets it goes through.                    *)
Termination == <>[](node \in Over)

(* A run that goes on serves every row of its applications: no sequence of *)
(* batches, switches, waits and master runs passes a row by for ever.      *)
(* Rows is finite: of a step without a limit, which goes on as long as its *)
(* application has rows, nothing is promised if they never stop arriving.  *)
EligibleIsServed ==
    \A r \in Rows :
        (status[r] = "eligible" /\ AppOf[r] \in AppsOfSteps /\ node \notin Over)
            ~> (status[r] \in FinalStatuses \/ node \in Over)

(* What the scheduler does to the rows is what the lifecycle promises.     *)
Lifecycle == INSTANCE TransactionLifecycle WITH held <- rt.txn
ImplementsLifecycle == Lifecycle!LifecycleSpec
-----------------------------------------------------------------------------
(* Orqflow_Requirement.md:806: "Transaction-specific runtime data shall be *)
(* cleared or reset when moving to the next transaction": a row never gets *)
(* the CTO details of another.                                             *)
CtoDetailsAreOwn == \A r \in Rows : cto[r] \in {r, NoRow}
=============================================================================
