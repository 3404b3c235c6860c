-------------------------- MODULE SchedulerInvariant -------------------------
(***************************************************************************)
(* The inductive invariant of Scheduler: what the scheduler relies on at   *)
(* every node for its safety properties to survive the next step.  None of *)
(* the properties is inductive alone; whether the row in hand survives a   *)
(* pass through execution_init, say, depends on why the node was entered.  *)
(***************************************************************************)
EXTENDS Scheduler

Held == rt.txn # NoRow

(* A fresh process has the initial runtime, and every node behind it has   *)
(* an active step.                                                         *)
StepIsActive ==
    /\ node = "framework_init" => rt = InitialRuntime
    /\ (node \in Nodes \ {"framework_init", "end"} \/ Held) => rt.step \in 1..Len(Steps)

(* Where a row is in hand, where none is, and that only RETRY takes one    *)
(* through execution_init.                                                 *)
HoldingFollowsNode ==
    /\ node \in {"login_application", "process_transaction"} => Held
    /\ node \in {"get_transaction", "master_queue_creator", "master_queue_wait"} => ~ Held
    /\ node = "execution_init" => (Held <=> InitReason(rt) = "RETRY")
    /\ node = "execution_init" /\ Held => rt.next_action = "RETRY"
    /\ node = "route_execution_init" /\ rt.next_action # "END"
            => (Held <=> rt.execution_init_reason = "RETRY")
    /\ node = "master_queue_wait" => rt.execution_init_reason # "RETRY"
    /\ node = "transition_hub" =>
          /\ rt.last_status \in Outcomes
          /\ rt.last_status \in {"SUCCESS", "BUSINESS_EXCEPTION"} => Held
          /\ rt.last_status = "NO_TRANSACTION" => ~ Held
    /\ node \in Over => rt = InitialRuntime \/ node = "stopped"

(* Retries belong to the row in hand, and attempts tells them apart from   *)
(* those of any other row.                                                 *)
RetriesAreCounted ==
    /\ ~ Held => rt.retry_count = 0
    /\ rt.retry_count <= RetryLimit
    /\ node \in {"execution_init", "route_execution_init", "login_application"} /\ Held
            => attempts = rt.retry_count
    /\ node \in {"process_transaction", "transition_hub"} /\ Held
            => attempts = rt.retry_count + 1

SessionIsActive ==
    /\ rt.application_logged_in => rt.step # 0 /\ session = ActiveApp
    /\ node = "process_transaction" => rt.application_logged_in

(* The session has room for another row wherever one may be fetched or     *)
(* finished; execution_init makes room for every reason that resets.       *)
BatchHasRoom ==
    LET roomy ==
          \/ node \in {"get_transaction", "login_application", "process_transaction",
                       "transition_hub", "master_queue_creator", "master_queue_wait"}
          \/ node = "route_execution_init" /\ rt.next_action # "END"
          \/ /\ node = "execution_init" /\ rt.next_action # "END"
             /\ InitReason(rt) \notin ResetReasons
    IN  roomy /\ ActiveLimit # 0 => rt.session_batch_count < ActiveLimit

(* The text that marking the row final would write is the row's own.       *)
TextIsOwn ==
    node = "transition_hub" /\ Held =>
        /\ rt.last_status = "SUCCESS" => rt.last_message \in TextsOf(rt)
        /\ rt.last_status \in {"BUSINESS_EXCEPTION", "SYSTEM_EXCEPTION"}
                => rt.last_error \in TextsOf(rt)

(* The router may only believe that nothing is left when it can ask the    *)
(* queue, and every other way to the end records a system exception.       *)
EndIsAccountedFor ==
    /\ node \in {"login_application", "process_transaction", "transition_hub",
                 "master_queue_wait"} => rt.queue_initialized
    /\ node = "execution_init" /\ InitReason(rt) # "STARTUP" => rt.queue_initialized
    /\ node = "route_execution_init" /\ rt.execution_init_reason # "STARTUP"
            => rt.queue_initialized
    /\ node = "master_queue_wait" => rt.execution_init_reason # "STARTUP"
    /\ node \in {"execution_init", "route_execution_init"} /\ rt.next_action = "END"
            => rt.last_status = "SYSTEM_EXCEPTION"
    /\ node \in {"end", "stopped"} =>
          \/ rt.last_status = "SYSTEM_EXCEPTION"
          \/ \A r \in Rows : AppOf[r] \in AppsOfSteps => status[r] # "in_progress"

(* The conjunction is inductive: it holds of a fresh process and every     *)
(* step keeps it, whatever the constants are.                              *)
InductiveInvariant ==
    /\ TypeOK
    /\ StepIsActive
    /\ HoldingFollowsNode
    /\ HeldRowIsActive
    /\ RetriesAreCounted
    /\ SessionIsActive
    /\ BatchHasRoom
    /\ OneInProgressPerApp
    /\ TextIsOwn
    /\ CommentsAreOwn
    /\ EndIsAccountedFor
=============================================================================
