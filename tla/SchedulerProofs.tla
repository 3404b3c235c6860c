--------------------------- MODULE SchedulerProofs ---------------------------
(***************************************************************************)
(* InductiveInvariant holds of a fresh process and every step keeps it, so *)
(* the safety properties of Scheduler hold for every value of the          *)
(* constants.  One lemma per action; each first says what the action does  *)
(* to the runtime and then goes through the conjuncts.  The last part maps *)
(* every step to TransactionLifecycle.                                     *)
(***************************************************************************)
EXTENDS SchedulerInvariant, TLAPS
-----------------------------------------------------------------------------
(* What the operators on runtime_config return: the facts about records    *)
(* that the proofs about the steps rest on.                                *)

(* The keys that say which row is being worked on, in which session.       *)
SameWork(s, r) ==
    /\ s.txn = r.txn
    /\ s.step = r.step
    /\ s.retry_count = r.retry_count
    /\ s.session_batch_count = r.session_batch_count
    /\ s.queue_initialized = r.queue_initialized

(* Assigning a value of its type to a key keeps a runtime a runtime.       *)
LEMMA SetKey ==
    ASSUME NEW r \in Runtime
    PROVE  /\ \A v \in Nat : [r EXCEPT !.retry_count = v] \in Runtime
           /\ \A v \in 0..Len(Steps) : [r EXCEPT !.step = v] \in Runtime
           /\ \A v \in Nat : [r EXCEPT !.session_batch_count = v] \in Runtime
           /\ \A v \in Reasons : [r EXCEPT !.execution_init_reason = v] \in Runtime
           /\ \A v \in Nat : [r EXCEPT !.master_queue_run_count = v] \in Runtime
           /\ \A v \in Nat : [r EXCEPT !.wait_count = v] \in Runtime
           /\ \A v \in Rows \cup {NoRow} : [r EXCEPT !.txn = v] \in Runtime
           /\ \A v \in Outcomes \cup {"NONE"} : [r EXCEPT !.last_status = v] \in Runtime
           /\ \A v \in Rows \cup {NoRow} : [r EXCEPT !.last_error = v] \in Runtime
           /\ \A v \in Rows \cup {NoRow} : [r EXCEPT !.last_message = v] \in Runtime
           /\ \A v \in Rows \cup {NoRow} : [r EXCEPT !.cto_details = v] \in Runtime
           /\ \A v \in Actions \cup {"NONE"} : [r EXCEPT !.next_action = v] \in Runtime
           /\ \A v \in BOOLEAN : [r EXCEPT !.application_logged_in = v] \in Runtime
           /\ \A v \in BOOLEAN : [r EXCEPT !.queue_initialized = v] \in Runtime
<1>1. \A v \in Nat : [r EXCEPT !.retry_count = v] \in Runtime
  BY SMT DEF Runtime
<1>2. \A v \in 0..Len(Steps) : [r EXCEPT !.step = v] \in Runtime
  BY SMT DEF Runtime
<1>3. \A v \in Nat : [r EXCEPT !.session_batch_count = v] \in Runtime
  BY SMT DEF Runtime
<1>4. \A v \in Reasons : [r EXCEPT !.execution_init_reason = v] \in Runtime
  BY SMT DEF Runtime
<1>5. \A v \in Nat : [r EXCEPT !.master_queue_run_count = v] \in Runtime
  BY SMT DEF Runtime
<1>6. \A v \in Nat : [r EXCEPT !.wait_count = v] \in Runtime
  BY SMT DEF Runtime
<1>7. \A v \in Rows \cup {NoRow} : [r EXCEPT !.txn = v] \in Runtime
  BY SMT DEF Runtime
<1>8. \A v \in Outcomes \cup {"NONE"} : [r EXCEPT !.last_status = v] \in Runtime
  BY SMT DEF Runtime
<1>9. \A v \in Rows \cup {NoRow} : [r EXCEPT !.last_error = v] \in Runtime
  BY SMT DEF Runtime
<1>10. \A v \in Rows \cup {NoRow} : [r EXCEPT !.last_message = v] \in Runtime
  BY SMT DEF Runtime
<1>11. \A v \in Rows \cup {NoRow} : [r EXCEPT !.cto_details = v] \in Runtime
  BY SMT DEF Runtime
<1>12. \A v \in Actions \cup {"NONE"} : [r EXCEPT !.next_action = v] \in Runtime
  BY SMT DEF Runtime
<1>13. \A v \in BOOLEAN : [r EXCEPT !.application_logged_in = v] \in Runtime
  BY SMT DEF Runtime
<1>14. \A v \in BOOLEAN : [r EXCEPT !.queue_initialized = v] \in Runtime
  BY SMT DEF Runtime
<1>15. QED
  BY <1>1, <1>2, <1>3, <1>4, <1>5, <1>6, <1>7, <1>8, <1>9, <1>10, <1>11, <1>12, <1>13, <1>14

(* A fresh process starts from a well-typed runtime.                       *)
LEMMA InitialRuntimeType == InitialRuntime \in Runtime
<1>1. 0 \in 0..Len(Steps) BY StepsAssumption
<1>2. QED
  BY <1>1 DEF InitialRuntime, Runtime, Reasons, ResetReasons, Outcomes, Actions

(* Round robin: the step after any step, or after none, is one of Steps.   *)
LEMMA NextStepInRange ==
    ASSUME NEW r \in Runtime
    PROVE  NextStep(r) \in 1..Len(Steps)
<1>1. Len(Steps) \in Nat \ {0} BY StepsAssumption
<1>2. r.step \in Nat BY <1>1 DEF Runtime
<1>3. r.step % Len(Steps) \in 0..(Len(Steps) - 1) BY <1>1, <1>2
<1>4. QED BY <1>1, <1>3 DEF NextStep

(* The reason a pass through execution_init works with is a reason.        *)
LEMMA InitReasonType ==
    ASSUME NEW r \in Runtime
    PROVE  InitReason(r) \in Reasons
BY DEF InitReason, Runtime, Reasons

(* Activating a step changes the step and starts its batch, nothing else.  *)
LEMMA ActivateStepRuntime ==
    ASSUME NEW r \in Runtime, NEW i \in 1..Len(Steps)
    PROVE  /\ ActivateStep(r, i) \in Runtime
           /\ ActivateStep(r, i).step = i
           /\ ActivateStep(r, i).session_batch_count = 0
           /\ ActivateStep(r, i).txn = r.txn
           /\ ActivateStep(r, i).retry_count = r.retry_count
           /\ ActivateStep(r, i).next_action = r.next_action
           /\ ActivateStep(r, i).execution_init_reason = r.execution_init_reason
           /\ ActivateStep(r, i).last_status = r.last_status
           /\ ActivateStep(r, i).application_logged_in = r.application_logged_in
           /\ ActivateStep(r, i).queue_initialized = r.queue_initialized
<1>1. 0 \in Nat /\ i \in 0..Len(Steps) BY StepsAssumption
<1>2. ActivateStep(r, i) \in Runtime BY <1>1, SetKey, Zenon DEF ActivateStep
<1>3. QED BY <1>2 DEF ActivateStep, Runtime

(* A runtime failure records a system exception and asks for the end.      *)
LEMMA FailedRuntime ==
    ASSUME NEW r \in Runtime
    PROVE  /\ Failed(r) \in Runtime
           /\ Failed(r).last_status = "SYSTEM_EXCEPTION"
           /\ Failed(r).next_action = "END"
           /\ SameWork(Failed(r), r)
           /\ Failed(r).execution_init_reason = r.execution_init_reason
           /\ Failed(r).application_logged_in = r.application_logged_in
<1>1. /\ "SYSTEM_EXCEPTION" \in Outcomes \cup {"NONE"}
      /\ "END" \in Actions \cup {"NONE"}
      /\ NoRow \in Rows \cup {NoRow}
  BY DEF Outcomes, Actions
<1>2. Failed(r) \in Runtime BY <1>1, SetKey, Zenon DEF Failed
<1>3. QED BY <1>2 DEF Failed, SameWork, Runtime

(* After a reset nobody is logged in and the session counts from zero; the *)
(* next step is active, or the same one when the row in hand is retried.   *)
LEMMA AfterResetRuntime ==
    ASSUME NEW r \in Runtime
    PROVE  /\ AfterReset(r) \in Runtime
           /\ AfterReset(r).application_logged_in = FALSE
           /\ AfterReset(r).execution_init_reason = InitReason(r)
           /\ AfterReset(r).session_batch_count = 0
           /\ InitReason(r) = "RETRY" => AfterReset(r).step = r.step
           /\ InitReason(r) # "RETRY" => AfterReset(r).step \in 1..Len(Steps)
           /\ AfterReset(r).txn = r.txn
           /\ AfterReset(r).retry_count = r.retry_count
           /\ AfterReset(r).next_action = r.next_action
           /\ AfterReset(r).last_status = r.last_status
           /\ AfterReset(r).queue_initialized = r.queue_initialized
<1> DEFINE closed == [r EXCEPT !.application_logged_in = FALSE,
                               !.execution_init_reason = InitReason(r)]
<1>1. closed \in Runtime
  BY InitReasonType, SetKey, Zenon
<1>2. /\ closed.application_logged_in = FALSE
      /\ closed.execution_init_reason = InitReason(r)
      /\ closed.step = r.step
      /\ closed.txn = r.txn
      /\ closed.retry_count = r.retry_count
      /\ closed.next_action = r.next_action
      /\ closed.last_status = r.last_status
      /\ closed.queue_initialized = r.queue_initialized
  BY DEF Runtime
<1>3. NextStep(closed) \in 1..Len(Steps)
  BY <1>1, NextStepInRange
<1>4. AfterReset(r) = IF InitReason(r) = "RETRY"
                      THEN [closed EXCEPT !.session_batch_count = 0]
                      ELSE ActivateStep(closed, NextStep(closed))
  <2>1. NextStep(closed) = NextStep(r)
    BY <1>2 DEF NextStep
  <2>2. QED
    BY <2>1 DEF AfterReset
<1> HIDE DEF closed
<1>5. CASE InitReason(r) = "RETRY"
  <2>1. AfterReset(r) = [closed EXCEPT !.session_batch_count = 0]
    BY <1>4, <1>5
  <2>2. AfterReset(r) \in Runtime
    BY <1>1, <2>1, SetKey, Zenon
  <2>3. QED
    BY <1>1, <1>2, <1>5, <2>1, <2>2 DEF Runtime
<1>6. CASE InitReason(r) # "RETRY"
  <2>1. AfterReset(r) = ActivateStep(closed, NextStep(closed))
    BY <1>4, <1>6
  <2>2. /\ AfterReset(r) \in Runtime
        /\ AfterReset(r).step \in 1..Len(Steps)
        /\ AfterReset(r).session_batch_count = 0
    BY <1>1, <1>3, <2>1, ActivateStepRuntime
  <2>3. QED
    BY <1>1, <1>2, <1>6, <2>1, <2>2 DEF ActivateStep, Runtime
<1>7. QED
  BY <1>5, <1>6

(* Releasing a row counts it and forgets its retries.                      *)
LEMMA ReleasedRuntime ==
    ASSUME NEW r \in Runtime
    PROVE  /\ Released(r) \in Runtime
           /\ Released(r).txn = NoRow
           /\ Released(r).retry_count = 0
           /\ Released(r).session_batch_count = r.session_batch_count + 1
           /\ Released(r).step = r.step
           /\ Released(r).last_status = r.last_status
           /\ Released(r).next_action = r.next_action
           /\ Released(r).application_logged_in = r.application_logged_in
           /\ Released(r).queue_initialized = r.queue_initialized
<1>1. r.session_batch_count \in Nat BY DEF Runtime
<1>2. /\ r.session_batch_count + 1 \in Nat
      /\ 0 \in Nat
      /\ NoRow \in Rows \cup {NoRow}
  BY <1>1
<1>3. Released(r) \in Runtime BY <1>2, SetKey, Zenon DEF Released
<1>4. QED BY <1>3 DEF Released, Runtime

(* A finished row is followed by a reset whose reason is recorded, or by   *)
(* another fetch while the session has room.                               *)
LEMMA NextAfterFinalizedRuntime ==
    ASSUME NEW r \in Runtime
    PROVE  LET n == NextAfterFinalized(r)
           IN  /\ n \in Runtime
               /\ SameWork(n, r)
               /\ n.last_status = r.last_status
               /\ n.application_logged_in = r.application_logged_in
               /\ \/ n.next_action = "APP_SWITCH"
                  \/ n.next_action = "BATCH_COMPLETE"
                  \/ n.next_action = "GET_TRANSACTION" /\ ~ IsSessionBatchComplete(r)
<1> DEFINE switched == [r EXCEPT !.execution_init_reason = "APP_SWITCH"]
           completed == [r EXCEPT !.execution_init_reason = "BATCH_COMPLETE",
                                  !.next_action = "BATCH_COMPLETE"]
           another == [r EXCEPT !.next_action = "GET_TRANSACTION"]
<1>1. /\ "APP_SWITCH" \in Reasons
      /\ "BATCH_COMPLETE" \in Reasons
      /\ "BATCH_COMPLETE" \in Actions \cup {"NONE"}
      /\ "GET_TRANSACTION" \in Actions \cup {"NONE"}
  BY DEF Reasons, ResetReasons, Actions
<1>2. switched \in Runtime /\ completed \in Runtime /\ another \in Runtime
  BY <1>1, SetKey, Zenon
<1>3. CASE r.next_action = "APP_SWITCH"
  BY <1>2, <1>3 DEF NextAfterFinalized, SameWork, Runtime
<1>4. CASE r.next_action # "APP_SWITCH" /\ IsSessionBatchComplete(r)
  BY <1>2, <1>4 DEF NextAfterFinalized, SameWork, Runtime
<1>5. CASE r.next_action # "APP_SWITCH" /\ ~ IsSessionBatchComplete(r)
  BY <1>2, <1>5 DEF NextAfterFinalized, SameWork, Runtime
<1>6. QED
  BY <1>3, <1>4, <1>5

(* Inserting rows neither claims nor finishes any.                         *)
LEMMA InsertedRows ==
    ASSUME status \in [Rows -> Statuses], InsertRows
    PROVE  /\ status' \in [Rows -> Statuses]
           /\ \A r \in Rows :
                 /\ status'[r] = "in_progress" <=> status[r] = "in_progress"
                 /\ status'[r] \in FinalStatuses <=> status[r] \in FinalStatuses
BY DEF InsertRows, Statuses, FinalStatuses
-----------------------------------------------------------------------------
(* A process that has just been started satisfies the invariant.           *)
LEMMA InitEstablishes == Init => InductiveInvariant
<1> SUFFICES ASSUME Init PROVE InductiveInvariant
  OBVIOUS
<1>1. /\ rt.txn = NoRow /\ rt.retry_count = 0 /\ rt.application_logged_in = FALSE
      /\ node = "framework_init"
  BY DEF Init, InitialRuntime
<1>2. TypeOK
  BY InitialRuntimeType DEF Init, TypeOK, Statuses, Nodes
<1>3. StepIsActive /\ HoldingFollowsNode /\ HeldRowIsActive
  BY <1>1 DEF Init, StepIsActive, HoldingFollowsNode, HeldRowIsActive, Held, Nodes, Over
<1>4. RetriesAreCounted /\ SessionIsActive /\ BatchHasRoom
  BY <1>1, LimitsAssumption
  DEF Init, RetriesAreCounted, SessionIsActive, BatchHasRoom, Held
<1>5. OneInProgressPerApp /\ TextIsOwn /\ CommentsAreOwn /\ EndIsAccountedFor
  BY <1>1
  DEF Init, OneInProgressPerApp, TextIsOwn, CommentsAreOwn, EndIsAccountedFor, FinalStatuses
<1>6. QED
  BY <1>2, <1>3, <1>4, <1>5 DEF InductiveInvariant

(* Starting up activates the first step, or fails.                         *)
LEMMA FrameworkInitKeeps ==
    InductiveInvariant /\ FrameworkInit => InductiveInvariant'
<1> SUFFICES ASSUME InductiveInvariant, FrameworkInit
             PROVE  InductiveInvariant'
  OBVIOUS
<1> USE DEF InductiveInvariant
<1>1. /\ node = "framework_init"
      /\ UNCHANGED <<status, comments, cto, masterDue, runs, session, attempts>>
      /\ rt \in Runtime
      /\ rt.txn = NoRow /\ rt.retry_count = 0 /\ rt.application_logged_in = FALSE
      /\ rt.execution_init_reason = "STARTUP" /\ rt.next_action = "NONE"
  <2>1. rt = InitialRuntime
    BY DEF FrameworkInit, StepIsActive
  <2>2. rt \in Runtime
    BY <2>1, InitialRuntimeType
  <2>3. QED
    BY <2>1, <2>2 DEF FrameworkInit, queueVars, ghostVars, InitialRuntime
<1>2. CASE rt' = ActivateStep(rt, 1) /\ node' = "execution_init"
  <2>1. /\ rt' \in Runtime
        /\ rt'.step = 1
        /\ rt'.session_batch_count = 0
        /\ rt'.txn = NoRow /\ rt'.retry_count = 0 /\ rt'.application_logged_in = FALSE
        /\ rt'.execution_init_reason = "STARTUP" /\ rt'.next_action = "NONE"
    <3>1. 1 \in 1..Len(Steps) BY StepsAssumption
    <3>2. QED BY <1>1, <1>2, <3>1, ActivateStepRuntime
  <2>2. InitReason(rt') = "STARTUP"
    BY <2>1 DEF InitReason, Reasons, ResetReasons
  <2>3. TypeOK'
    BY <1>1, <1>2, <2>1 DEF TypeOK, Nodes
  <2>4. StepIsActive' /\ HoldingFollowsNode' /\ HeldRowIsActive'
    BY <1>2, <2>1, <2>2, StepsAssumption
    DEF StepIsActive, HoldingFollowsNode, HeldRowIsActive, Held, Over
  <2>5. RetriesAreCounted' /\ SessionIsActive'
    BY <1>1, <1>2, <2>1, LimitsAssumption DEF RetriesAreCounted, SessionIsActive, Held
  <2>6. BatchHasRoom'
    BY <2>1, StepsAssumption DEF BatchHasRoom, ActiveLimit
  <2>7. OneInProgressPerApp' /\ TextIsOwn' /\ CommentsAreOwn' /\ EndIsAccountedFor'
    BY <1>1, <1>2, <2>1, <2>2
    DEF OneInProgressPerApp, TextIsOwn, CommentsAreOwn, EndIsAccountedFor
  <2>8. QED
    BY <2>3, <2>4, <2>5, <2>6, <2>7
<1>3. CASE rt' \in {Failed(rt), Failed(ActivateStep(rt, 1))} /\ node' = "end"
  <2>1. /\ rt' \in Runtime
        /\ rt'.last_status = "SYSTEM_EXCEPTION"
        /\ rt'.txn = NoRow /\ rt'.retry_count = 0 /\ rt'.application_logged_in = FALSE
    <3>1. CASE rt' = Failed(rt)
      BY <1>1, <3>1, FailedRuntime DEF SameWork
    <3>2. CASE rt' = Failed(ActivateStep(rt, 1))
      <4> DEFINE active == ActivateStep(rt, 1)
      <4>1. /\ active \in Runtime /\ active.txn = NoRow /\ active.retry_count = 0
            /\ active.application_logged_in = FALSE
        BY <1>1, StepsAssumption, ActivateStepRuntime
      <4> HIDE DEF active
      <4>2. rt' = Failed(active)
        BY <3>2 DEF active
      <4>3. QED
        BY <4>1, <4>2, FailedRuntime DEF SameWork
    <3>3. QED
      BY <1>3, <3>1, <3>2
  <2>2. TypeOK'
    BY <1>1, <1>3, <2>1 DEF TypeOK, Nodes
  <2>3. StepIsActive' /\ HoldingFollowsNode' /\ HeldRowIsActive'
    BY <1>3, <2>1 DEF StepIsActive, HoldingFollowsNode, HeldRowIsActive, Held, Over
  <2>4. RetriesAreCounted' /\ SessionIsActive' /\ BatchHasRoom'
    BY <1>3, <2>1, LimitsAssumption
    DEF RetriesAreCounted, SessionIsActive, BatchHasRoom, Held
  <2>5. OneInProgressPerApp' /\ TextIsOwn' /\ CommentsAreOwn' /\ EndIsAccountedFor'
    BY <1>1, <1>3, <2>1
    DEF OneInProgressPerApp, TextIsOwn, CommentsAreOwn, EndIsAccountedFor
  <2>6. QED
    BY <2>2, <2>3, <2>4, <2>5
<1>4. QED
  BY <1>2, <1>3 DEF FrameworkInit

(* A pass through execution_init keeps the row in hand and its step if it  *)
(* is being retried, and otherwise has no row in hand to lose.             *)
LEMMA ExecutionInitKeeps ==
    InductiveInvariant /\ ExecutionInit => InductiveInvariant'
<1> SUFFICES ASSUME InductiveInvariant, ExecutionInit
             PROVE  InductiveInvariant'
  OBVIOUS
<1> USE DEF InductiveInvariant
<1>1. /\ node = "execution_init" /\ node' = "route_execution_init"
      /\ UNCHANGED <<status, comments, cto, masterDue, runs, attempts>>
      /\ rt \in Runtime
      /\ rt.step \in 1..Len(Steps)
      /\ Held <=> InitReason(rt) = "RETRY"
      /\ InitReason(rt) # "STARTUP" => rt.queue_initialized
  BY DEF ExecutionInit, queueVars, TypeOK, StepIsActive, HoldingFollowsNode,
         EndIsAccountedFor, Nodes
<1> DEFINE Kept == /\ rt' \in Runtime
                   /\ rt'.step \in 1..Len(Steps)
                   /\ Held => rt'.step = rt.step
                   /\ rt'.txn = rt.txn
                   /\ rt'.retry_count = rt.retry_count
                   /\ rt'.queue_initialized = rt.queue_initialized
                   /\ rt'.next_action # "END" => rt'.execution_init_reason = InitReason(rt)
                   /\ rt'.execution_init_reason # "STARTUP" => InitReason(rt) # "STARTUP"
                   /\ rt'.next_action = "END" => rt'.last_status = "SYSTEM_EXCEPTION"
                   /\ session' \in AppsOfSteps \cup {NoApp}
           SessionKept == /\ rt'.application_logged_in => session' = Steps[rt'.step].app
           Roomy == rt'.next_action # "END" /\ Steps[rt'.step].limit # 0
                        => rt'.session_batch_count < Steps[rt'.step].limit
<1>2. Kept /\ SessionKept /\ Roomy
  <2>1. CASE /\ InitReason(rt) \in ResetReasons
             /\ rt' = AfterReset(rt)
             /\ session' = NoApp
    <3>1. Kept
      BY <1>1, <2>1, AfterResetRuntime DEF TypeOK, EndIsAccountedFor
    <3>2. rt'.application_logged_in = FALSE /\ rt'.session_batch_count = 0
      BY <1>1, <2>1, AfterResetRuntime
    <3>3. Steps[rt'.step].limit \in Nat
      BY <3>1, StepsAssumption
    <3>4. QED
      BY <3>1, <3>2, <3>3
  <2>2. CASE /\ InitReason(rt) \in ResetReasons
             /\ rt' = Failed(rt)
             /\ UNCHANGED session
    BY <1>1, <2>2, FailedRuntime
    DEF SameWork, TypeOK, SessionIsActive, ActiveApp, ResetReasons
  <2>3. CASE /\ InitReason(rt) \notin ResetReasons
             /\ rt' = [rt EXCEPT !.execution_init_reason = InitReason(rt)]
             /\ UNCHANGED session
    <3>1. rt' \in Runtime
      BY <1>1, <2>3, InitReasonType, SetKey, Zenon
    <3>2. /\ rt'.execution_init_reason = InitReason(rt)
          /\ SameWork(rt', rt)
          /\ rt'.next_action = rt.next_action
          /\ rt'.last_status = rt.last_status
          /\ rt'.application_logged_in = rt.application_logged_in
      BY <1>1, <2>3 DEF Runtime, SameWork
    <3>3. Kept /\ SessionKept
      BY <1>1, <2>3, <3>1, <3>2
      DEF SameWork, TypeOK, EndIsAccountedFor, SessionIsActive, ActiveApp
    <3>4. Roomy
      BY <1>1, <2>3, <3>2 DEF SameWork, BatchHasRoom, ActiveLimit
    <3>5. QED
      BY <3>3, <3>4
  <2>4. QED
    BY <2>1, <2>2, <2>3 DEF ExecutionInit
<1>3. TypeOK'
  BY <1>1, <1>2 DEF TypeOK, Nodes
<1>4. StepIsActive' /\ HoldingFollowsNode'
  BY <1>1, <1>2 DEF StepIsActive, HoldingFollowsNode, Held, Over
<1>5. HeldRowIsActive' /\ OneInProgressPerApp' /\ CommentsAreOwn'
  BY <1>1, <1>2
  DEF HeldRowIsActive, ActiveApp, Held, OneInProgressPerApp, CommentsAreOwn
<1>6. RetriesAreCounted' /\ TextIsOwn'
  BY <1>1, <1>2 DEF RetriesAreCounted, TextIsOwn, Held
<1>7. SessionIsActive' /\ BatchHasRoom'
  BY <1>1, <1>2, StepsAssumption
  DEF SessionIsActive, BatchHasRoom, ActiveApp, ActiveLimit
<1>8. EndIsAccountedFor'
  BY <1>1, <1>2 DEF EndIsAccountedFor
<1>9. QED
  BY <1>3, <1>4, <1>5, <1>6, <1>7, <1>8

(* The router sends a row in hand to login only, and ends a run that has   *)
(* not failed only when the queue holds nothing open.                      *)
LEMMA RouteAfterExecutionInitKeeps ==
    InductiveInvariant /\ RouteAfterExecutionInit => InductiveInvariant'
<1> SUFFICES ASSUME InductiveInvariant, RouteAfterExecutionInit
             PROVE  InductiveInvariant'
  OBVIOUS
<1> USE DEF InductiveInvariant
<1>1. /\ node = "route_execution_init" /\ node' = AfterExecutionInit
      /\ UNCHANGED <<status, comments, cto, rt, masterDue, runs, session, attempts>>
      /\ rt.step \in 1..Len(Steps)
  BY DEF RouteAfterExecutionInit, queueVars, ghostVars, StepIsActive, Nodes
<1>2. /\ node' \in {"end", "login_application", "master_queue_creator",
                    "get_transaction", "master_queue_wait"}
      /\ node' # "end" => rt.next_action # "END"
      /\ node' = "login_application" <=>
            rt.next_action # "END" /\ rt.execution_init_reason = "RETRY"
      /\ node' = "master_queue_wait" =>
            rt.execution_init_reason \notin {"STARTUP", "RETRY"}
      /\ node' = "end" =>
            \/ rt.next_action = "END"
            \/ /\ rt.execution_init_reason # "STARTUP"
               /\ ~ (rt.queue_initialized /\ HasEligible(AppsOfSteps))
  BY <1>1 DEF AfterExecutionInit
<1>3. TypeOK'
  BY <1>1, <1>2 DEF TypeOK, Nodes
<1>4. StepIsActive' /\ HoldingFollowsNode'
  BY <1>1, <1>2 DEF StepIsActive, HoldingFollowsNode, Held, Over
<1>5. HeldRowIsActive' /\ OneInProgressPerApp' /\ CommentsAreOwn'
  BY <1>1 DEF HeldRowIsActive, ActiveApp, OneInProgressPerApp, CommentsAreOwn
<1>6. RetriesAreCounted' /\ TextIsOwn'
  BY <1>1, <1>2 DEF RetriesAreCounted, HoldingFollowsNode, TextIsOwn, Held
<1>7. SessionIsActive' /\ BatchHasRoom'
  BY <1>1, <1>2 DEF SessionIsActive, BatchHasRoom, ActiveApp, ActiveLimit
<1>8. EndIsAccountedFor'
  BY <1>1, <1>2 DEF EndIsAccountedFor, HasEligible, Fetchable
<1>9. QED
  BY <1>3, <1>4, <1>5, <1>6, <1>7, <1>8

(* A master queue run touches no row that is already there, and fails with *)
(* a system exception.                                                     *)
LEMMA MasterQueueCreatorKeeps ==
    InductiveInvariant /\ MasterQueueCreator => InductiveInvariant'
<1> SUFFICES ASSUME InductiveInvariant, MasterQueueCreator
             PROVE  InductiveInvariant'
  OBVIOUS
<1> USE DEF InductiveInvariant
<1>1. /\ node = "master_queue_creator"
      /\ InsertRows
      /\ UNCHANGED <<comments, cto, runs, session, attempts>>
      /\ rt \in Runtime
      /\ rt.step \in 1..Len(Steps)
      /\ rt.txn = NoRow
  BY DEF MasterQueueCreator, ghostVars, TypeOK, StepIsActive, HoldingFollowsNode, Held, Nodes
<1>2. /\ status' \in [Rows -> Statuses]
      /\ \A r \in Rows :
            /\ status'[r] = "in_progress" <=> status[r] = "in_progress"
            /\ status'[r] \in FinalStatuses <=> status[r] \in FinalStatuses
  BY <1>1, InsertedRows DEF TypeOK
<1>3. /\ rt' \in Runtime
      /\ SameWork(rt', rt)
      /\ rt'.application_logged_in = rt.application_logged_in
      /\ masterDue' \in BOOLEAN
      /\ node' \in {"get_transaction", "end"}
      /\ node' = "end" => rt'.last_status = "SYSTEM_EXCEPTION"
  <2>1. CASE /\ rt' = [rt EXCEPT !.master_queue_run_count = @ + 1]
             /\ masterDue' = FALSE
             /\ node' = "get_transaction"
    <3>1. rt.master_queue_run_count + 1 \in Nat
      BY <1>1 DEF Runtime
    <3>2. rt' \in Runtime
      BY <1>1, <2>1, <3>1, SetKey, Zenon
    <3>3. QED
      BY <1>1, <2>1, <3>2 DEF SameWork, Runtime
  <2>2. CASE rt' = Failed(rt) /\ UNCHANGED masterDue /\ node' = "end"
    BY <1>1, <2>2, FailedRuntime DEF TypeOK
  <2>3. QED
    BY <2>1, <2>2 DEF MasterQueueCreator
<1>4. TypeOK'
  BY <1>1, <1>2, <1>3 DEF TypeOK, Nodes
<1>5. StepIsActive' /\ HoldingFollowsNode' /\ HeldRowIsActive'
  BY <1>1, <1>3 DEF SameWork, StepIsActive, HoldingFollowsNode, HeldRowIsActive, Held, Over
<1>6. OneInProgressPerApp' /\ CommentsAreOwn'
  BY <1>1, <1>2 DEF OneInProgressPerApp, CommentsAreOwn
<1>7. RetriesAreCounted' /\ TextIsOwn'
  BY <1>1, <1>3 DEF SameWork, RetriesAreCounted, TextIsOwn, Held
<1>8. SessionIsActive' /\ BatchHasRoom'
  BY <1>1, <1>3 DEF SameWork, SessionIsActive, BatchHasRoom, ActiveApp, ActiveLimit
<1>9. EndIsAccountedFor'
  BY <1>3 DEF EndIsAccountedFor
<1>10. QED
  BY <1>4, <1>5, <1>6, <1>7, <1>8, <1>9

(* Waiting for the next master run holds nothing and asks for a refresh,   *)
(* or fails with the last reason still in place, which is never RETRY.     *)
LEMMA MasterQueueWaitKeeps ==
    InductiveInvariant /\ MasterQueueWait => InductiveInvariant'
<1> SUFFICES ASSUME InductiveInvariant, MasterQueueWait
             PROVE  InductiveInvariant'
  OBVIOUS
<1> USE DEF InductiveInvariant
<1>1. /\ node = "master_queue_wait" /\ node' = "execution_init"
      /\ UNCHANGED <<status, comments, cto, masterDue, runs, session, attempts>>
      /\ rt \in Runtime
      /\ rt.step \in 1..Len(Steps)
      /\ rt.txn = NoRow
      /\ rt.execution_init_reason \notin {"RETRY", "STARTUP"}
      /\ rt.queue_initialized
  BY DEF MasterQueueWait, queueVars, ghostVars, TypeOK, StepIsActive, HoldingFollowsNode,
         EndIsAccountedFor, Held, Nodes
<1>2. /\ rt' \in Runtime
      /\ SameWork(rt', rt)
      /\ rt'.application_logged_in = rt.application_logged_in
      /\ InitReason(rt') \notin {"RETRY", "STARTUP"}
      /\ rt'.next_action = "END" => rt'.last_status = "SYSTEM_EXCEPTION"
  <2>1. CASE rt' = [rt EXCEPT !.wait_count = IF @ < WaitLimit THEN @ + 1 ELSE @,
                              !.execution_init_reason = "MASTER_QUEUE_REFRESH",
                              !.next_action = "MASTER_QUEUE_REFRESH"]
    <3>1. /\ (IF rt.wait_count < WaitLimit THEN rt.wait_count + 1 ELSE rt.wait_count) \in Nat
          /\ "MASTER_QUEUE_REFRESH" \in Reasons
          /\ "MASTER_QUEUE_REFRESH" \in Actions \cup {"NONE"}
      BY <1>1, LimitsAssumption DEF Runtime, Reasons, Actions
    <3>2. rt' \in Runtime
      BY <1>1, <2>1, <3>1, SetKey, Zenon
    <3>3. /\ SameWork(rt', rt)
          /\ rt'.application_logged_in = rt.application_logged_in
          /\ rt'.next_action = "MASTER_QUEUE_REFRESH"
      BY <1>1, <2>1 DEF SameWork, Runtime
    <3>4. QED
      BY <3>2, <3>3 DEF InitReason, Reasons
  <2>2. CASE rt' = Failed(rt)
    BY <1>1, <2>2, FailedRuntime DEF InitReason, Reasons, ResetReasons
  <2>3. QED
    BY <2>1, <2>2 DEF MasterQueueWait
<1>3. TypeOK'
  BY <1>1, <1>2 DEF TypeOK, Nodes
<1>4. StepIsActive' /\ HoldingFollowsNode' /\ HeldRowIsActive'
  BY <1>1, <1>2 DEF SameWork, StepIsActive, HoldingFollowsNode, HeldRowIsActive, Held, Over
<1>5. OneInProgressPerApp' /\ CommentsAreOwn'
  BY <1>1 DEF OneInProgressPerApp, CommentsAreOwn
<1>6. RetriesAreCounted' /\ TextIsOwn'
  BY <1>1, <1>2 DEF SameWork, RetriesAreCounted, TextIsOwn, Held
<1>7. SessionIsActive' /\ BatchHasRoom'
  BY <1>1, <1>2 DEF SameWork, SessionIsActive, BatchHasRoom, ActiveApp, ActiveLimit
<1>8. EndIsAccountedFor'
  BY <1>1, <1>2 DEF SameWork, EndIsAccountedFor
<1>9. QED
  BY <1>3, <1>4, <1>5, <1>6, <1>7, <1>8

(* The row that is fetched belongs to the active application, and no other *)
(* row of it is In Processing: an abandoned one would have come first.     *)
LEMMA GetTransactionKeeps ==
    InductiveInvariant /\ GetTransaction => InductiveInvariant'
<1> SUFFICES ASSUME InductiveInvariant, GetTransaction
             PROVE  InductiveInvariant'
  OBVIOUS
<1> USE DEF InductiveInvariant
<1>1. /\ node = "get_transaction"
      /\ UNCHANGED <<comments, cto, masterDue, runs, session>>
      /\ status \in [Rows -> Statuses]
      /\ rt \in Runtime
      /\ rt.step \in 1..Len(Steps)
      /\ rt.txn = NoRow /\ rt.retry_count = 0
  BY DEF GetTransaction, TypeOK, StepIsActive, HoldingFollowsNode, RetriesAreCounted,
         Held, Nodes
<1> DEFINE Claimed(r) == /\ IsNext(r, ActiveApp)
                         /\ status' = [status EXCEPT ![r] = "in_progress"]
           Fetched(r) == /\ rt' = [rt EXCEPT !.txn = r, !.wait_count = 0,
                                    !.last_status = "SUCCESS", !.last_error = NoRow,
                                    !.next_action = "PROCESS", !.queue_initialized = TRUE]
                         /\ attempts' = 0
                         /\ node' = "login_application"
           Raised == /\ rt' = [rt EXCEPT !.txn = NoRow, !.last_status = "SYSTEM_EXCEPTION",
                                !.last_error = NoRow, !.next_action = "NONE",
                                !.queue_initialized = TRUE]
                     /\ UNCHANGED attempts
                     /\ node' = "transition_hub"
           Empty == /\ rt' = [rt EXCEPT !.txn = NoRow, !.last_status = "NO_TRANSACTION",
                               !.next_action = "NONE", !.queue_initialized = TRUE]
                    /\ UNCHANGED attempts
                    /\ node' = "transition_hub"
<1>2. \/ \E r \in Rows : Claimed(r) /\ (Fetched(r) \/ Raised)
      \/ (Raised \/ Empty) /\ UNCHANGED status
  BY DEF GetTransaction
<1> DEFINE QueueIsSound == /\ status' \in [Rows -> Statuses]
                          /\ OneInProgressPerApp'
                          /\ CommentsAreOwn'
<1>3. QueueIsSound
  <2>1. ASSUME NEW r \in Rows, Claimed(r)
        PROVE  QueueIsSound
    <3>1. /\ status' \in [Rows -> Statuses]
          /\ \A s \in Rows : s # r => status'[s] = status[s]
          /\ status'[r] = "in_progress" /\ status[r] \notin FinalStatuses
      BY <1>1, <2>1 DEF Statuses, IsNext, Fetchable, FinalStatuses
    <3>2. \A s \in Rows : status[s] = "in_progress" /\ AppOf[s] = AppOf[r] => s = r
      BY <2>1 DEF IsNext, Fetchable, Precedes, OneInProgressPerApp
    <3>3. OneInProgressPerApp'
      BY <3>1, <3>2 DEF OneInProgressPerApp
    <3>4. CommentsAreOwn'
      BY <1>1, <3>1 DEF CommentsAreOwn, FinalStatuses
    <3>5. QED
      BY <3>1, <3>3, <3>4
  <2>2. CASE UNCHANGED status
    BY <1>1, <2>2 DEF OneInProgressPerApp, CommentsAreOwn
  <2>3. QED
    BY <1>2, <2>1, <2>2
<1>4. /\ "SUCCESS" \in Outcomes \cup {"NONE"}
      /\ "SYSTEM_EXCEPTION" \in Outcomes \cup {"NONE"}
      /\ "NO_TRANSACTION" \in Outcomes \cup {"NONE"}
      /\ "PROCESS" \in Actions \cup {"NONE"}
      /\ "NONE" \in Actions \cup {"NONE"}
      /\ NoRow \in Rows \cup {NoRow}
      /\ 0 \in Nat /\ TRUE \in BOOLEAN
  BY DEF Outcomes, Actions
<1> DEFINE SameSession == /\ rt'.step = rt.step
                          /\ rt'.retry_count = rt.retry_count
                          /\ rt'.session_batch_count = rt.session_batch_count
                          /\ rt'.application_logged_in = rt.application_logged_in
                          /\ rt'.queue_initialized = TRUE
<1>5. ASSUME NEW r \in Rows, Claimed(r), Fetched(r)
      PROVE  InductiveInvariant'
  <2>1. rt' \in Runtime
    <3>1. r \in Rows \cup {NoRow}
      OBVIOUS
    <3>2. QED
      BY <1>1, <1>4, <1>5, <3>1, SetKey, Zenon
  <2>2. SameSession /\ rt'.txn = r /\ r # NoRow
    BY <1>1, <1>5, RowsAssumption DEF Runtime
  <2>3. status'[r] = "in_progress" /\ AppOf[r] = ActiveApp
    BY <1>1, <1>5 DEF IsNext
  <2>4. TypeOK'
    BY <1>1, <1>3, <1>5, <2>1 DEF TypeOK, Nodes
  <2>5. StepIsActive' /\ HoldingFollowsNode'
    BY <1>1, <1>5, <2>2 DEF StepIsActive, HoldingFollowsNode, Held, Over
  <2>6. HeldRowIsActive'
    BY <2>2, <2>3 DEF HeldRowIsActive, ActiveApp
  <2>7. RetriesAreCounted' /\ TextIsOwn'
    BY <1>1, <1>5, <2>2, LimitsAssumption DEF RetriesAreCounted, TextIsOwn, Held
  <2>8. SessionIsActive' /\ BatchHasRoom'
    BY <1>1, <1>5, <2>2 DEF SessionIsActive, BatchHasRoom, ActiveApp, ActiveLimit
  <2>9. EndIsAccountedFor'
    BY <1>5, <2>2 DEF EndIsAccountedFor
  <2>10. QED
    BY <1>3, <2>4, <2>5, <2>6, <2>7, <2>8, <2>9
<1>6. ASSUME Raised \/ Empty
      PROVE  InductiveInvariant'
  <2>1. rt' \in Runtime
    <3>1. CASE Raised
      BY <1>1, <1>4, <3>1, SetKey, Zenon
    <3>2. CASE Empty
      BY <1>1, <1>4, <3>2, SetKey, Zenon
    <3>3. QED
      BY <1>6, <3>1, <3>2
  <2>2. SameSession /\ rt'.txn = NoRow
    BY <1>1, <1>6 DEF Runtime
  <2>3. rt'.last_status \in {"SYSTEM_EXCEPTION", "NO_TRANSACTION"}
    BY <1>1, <1>6 DEF Runtime
  <2>4. TypeOK'
    BY <1>1, <1>3, <1>6, <2>1 DEF TypeOK, Nodes
  <2>5. StepIsActive' /\ HoldingFollowsNode' /\ HeldRowIsActive'
    BY <1>1, <1>6, <2>2, <2>3
    DEF StepIsActive, HoldingFollowsNode, HeldRowIsActive, Held, Over, Outcomes
  <2>6. RetriesAreCounted' /\ TextIsOwn'
    BY <1>1, <1>6, <2>2, LimitsAssumption DEF RetriesAreCounted, TextIsOwn, Held
  <2>7. SessionIsActive' /\ BatchHasRoom'
    BY <1>1, <1>6, <2>2 DEF SessionIsActive, BatchHasRoom, ActiveApp, ActiveLimit
  <2>8. EndIsAccountedFor'
    BY <1>6, <2>2 DEF EndIsAccountedFor
  <2>9. QED
    BY <1>3, <2>4, <2>5, <2>6, <2>7, <2>8
<1>7. QED
  BY <1>2, <1>5, <1>6

(* A login opens the session of the row's own application, which is the    *)
(* active one; a failed login leaves its text for the row in hand.         *)
LEMMA LoginApplicationKeeps ==
    InductiveInvariant /\ LoginApplication => InductiveInvariant'
<1> SUFFICES ASSUME InductiveInvariant, LoginApplication
             PROVE  InductiveInvariant'
  OBVIOUS
<1> USE DEF InductiveInvariant
<1>1. /\ node = "login_application"
      /\ attempts' = attempts + 1
      /\ UNCHANGED <<status, comments, cto, masterDue, runs>>
      /\ rt \in Runtime
      /\ rt.step \in 1..Len(Steps)
      /\ rt.txn \in Rows /\ rt.txn # NoRow
      /\ AppOf[rt.txn] = ActiveApp
      /\ ActiveApp \in AppsOfSteps
      /\ rt.queue_initialized
  <2>1. /\ rt \in Runtime /\ rt.txn # NoRow /\ rt.step \in 1..Len(Steps)
        /\ node = "login_application"
    BY DEF LoginApplication, TypeOK, StepIsActive, HoldingFollowsNode, Held, Nodes
  <2>2. rt.txn \in Rows
    BY <2>1 DEF Runtime
  <2>3. QED
    BY <2>1, <2>2
    DEF LoginApplication, queueVars, HeldRowIsActive, ActiveApp, AppsOfSteps, EndIsAccountedFor
<1> DEFINE LoggedIn == /\ rt'.application_logged_in = TRUE
                       /\ session' = ActiveApp
                       /\ node' = "process_transaction"
           NotLoggedIn == /\ rt'.application_logged_in = FALSE
                          /\ session' = session
                          /\ node' = "transition_hub"
                          /\ rt'.last_status = "SYSTEM_EXCEPTION"
                          /\ rt'.last_error \in {rt.txn, NoRow}
<1>2. rt' \in Runtime /\ SameWork(rt', rt) /\ (LoggedIn \/ NotLoggedIn)
  <2>1. CASE /\ rt.application_logged_in
             /\ node' = "process_transaction"
             /\ UNCHANGED <<rt, session>>
    BY <1>1, <2>1 DEF SameWork, SessionIsActive, Runtime
  <2>2. CASE /\ rt' = [rt EXCEPT !.application_logged_in = TRUE]
             /\ session' = AppOf[rt.txn]
             /\ node' = "process_transaction"
    BY <1>1, <2>2 DEF SameWork, Runtime
  <2>3. ASSUME NEW text \in TextsOf(rt), rt' = LoginFailed(rt, text),
               node' = "transition_hub", UNCHANGED session
        PROVE  rt' \in Runtime /\ SameWork(rt', rt) /\ NotLoggedIn
    <3>1. /\ FALSE \in BOOLEAN
          /\ text \in {rt.txn, NoRow}
          /\ "SYSTEM_EXCEPTION" \in Outcomes \cup {"NONE"}
          /\ "NONE" \in Actions \cup {"NONE"}
          /\ text \in Rows \cup {NoRow} /\ NoRow \in Rows \cup {NoRow}
      BY <1>1 DEF Outcomes, TextsOf
    <3>2. rt' \in Runtime
      BY <1>1, <2>3, <3>1, SetKey, Zenon DEF LoginFailed
    <3>3. SameWork(rt', rt) /\ NotLoggedIn
      BY <1>1, <2>3, <3>1 DEF LoginFailed, SameWork, Runtime
    <3>4. QED
      BY <3>2, <3>3
  <2>4. QED
    BY <2>1, <2>2, <2>3 DEF LoginApplication
<1>3. TypeOK'
  BY <1>1, <1>2 DEF TypeOK, Nodes
<1>4. StepIsActive' /\ HoldingFollowsNode'
  BY <1>1, <1>2 DEF SameWork, StepIsActive, HoldingFollowsNode, Held, Over, Outcomes
<1>5. HeldRowIsActive' /\ OneInProgressPerApp' /\ CommentsAreOwn'
  BY <1>1, <1>2
  DEF SameWork, HeldRowIsActive, ActiveApp, OneInProgressPerApp, CommentsAreOwn
<1>6. RetriesAreCounted' /\ TextIsOwn'
  BY <1>1, <1>2 DEF SameWork, RetriesAreCounted, TextIsOwn, TextsOf, Held
<1>7. SessionIsActive' /\ BatchHasRoom'
  BY <1>1, <1>2, StepsAssumption
  DEF SameWork, SessionIsActive, BatchHasRoom, ActiveApp, ActiveLimit
<1>8. EndIsAccountedFor'
  BY <1>1, <1>2 DEF SameWork, EndIsAccountedFor
<1>9. QED
  BY <1>3, <1>4, <1>5, <1>6, <1>7, <1>8

(* Processing only records what came of the attempt: the text and the      *)
(* outcome are those of the row in hand.                                   *)
LEMMA ProcessTransactionKeeps ==
    InductiveInvariant /\ ProcessTransaction => InductiveInvariant'
<1> SUFFICES ASSUME InductiveInvariant, ProcessTransaction
             PROVE  InductiveInvariant'
  OBVIOUS
<1> USE DEF InductiveInvariant
<1>1. /\ node = "process_transaction" /\ node' = "transition_hub"
      /\ UNCHANGED <<status, comments, cto, masterDue, runs, session, attempts>>
      /\ rt \in Runtime /\ rt.txn \in Rows
  BY DEF ProcessTransaction, queueVars, ghostVars, TypeOK, HoldingFollowsNode, Held, Runtime
<1> DEFINE Recorded ==
             /\ rt' \in Runtime
             /\ SameWork(rt', rt)
             /\ rt'.last_status \in {"SUCCESS", "BUSINESS_EXCEPTION", "SYSTEM_EXCEPTION"}
             /\ rt'.last_status = "SUCCESS" => rt'.last_message \in {rt.txn, NoRow}
             /\ rt'.last_status # "SUCCESS" => rt'.last_error \in {rt.txn, NoRow}
             /\ rt'.application_logged_in = rt.application_logged_in
<1>2. Recorded
  <2>1. ASSUME NEW outcome \in Outcomes \ {"NO_TRANSACTION"},
               NEW text \in {rt.txn, NoRow}, NEW details \in {rt.txn, NoRow},
               NEW action \in {"NONE", "APP_SWITCH"},
               rt' = ProcessReturned(rt, outcome, text, details, action)
        PROVE  Recorded
    <3>1. /\ outcome \in Outcomes \cup {"NONE"}
          /\ (IF outcome = "SUCCESS" THEN NoRow ELSE text) \in Rows \cup {NoRow}
          /\ text \in Rows \cup {NoRow}
          /\ details \in Rows \cup {NoRow}
          /\ action \in Actions \cup {"NONE"}
      BY <1>1 DEF Outcomes, Actions
    <3>2. rt' \in Runtime
      BY <1>1, <2>1, <3>1, SetKey, Zenon DEF ProcessReturned
    <3>3. QED
      BY <1>1, <2>1, <3>2 DEF ProcessReturned, SameWork, Runtime, Outcomes
  <2>2. ASSUME NEW text \in {rt.txn, NoRow}, rt' = ProcessRaised(rt, text)
        PROVE  Recorded
    <3>1. /\ "SYSTEM_EXCEPTION" \in Outcomes \cup {"NONE"}
          /\ "NONE" \in Actions \cup {"NONE"}
          /\ text \in Rows \cup {NoRow}
          /\ NoRow \in Rows \cup {NoRow}
      BY <1>1 DEF Outcomes
    <3>2. rt' \in Runtime
      BY <1>1, <2>2, <3>1, SetKey, Zenon DEF ProcessRaised
    <3>3. QED
      BY <1>1, <2>2, <3>2 DEF ProcessRaised, SameWork, Runtime
  <2>3. QED
    BY <2>1, <2>2 DEF ProcessTransaction, TextsOf
<1>3. TypeOK'
  BY <1>1, <1>2 DEF SameWork, TypeOK, Nodes
<1>4. StepIsActive'
  BY <1>1, <1>2 DEF SameWork, StepIsActive, Held, Nodes
<1>5. HoldingFollowsNode'
  BY <1>1, <1>2, RowsAssumption
  DEF SameWork, HoldingFollowsNode, Held, Outcomes, Over
<1>6. HeldRowIsActive' /\ OneInProgressPerApp' /\ CommentsAreOwn'
  BY <1>1, <1>2 DEF SameWork, HeldRowIsActive, ActiveApp, OneInProgressPerApp, CommentsAreOwn
<1>7. RetriesAreCounted'
  BY <1>1, <1>2 DEF SameWork, RetriesAreCounted, Held
<1>8. SessionIsActive' /\ BatchHasRoom'
  BY <1>1, <1>2 DEF SameWork, SessionIsActive, BatchHasRoom, ActiveApp, ActiveLimit, ResetReasons
<1>9. TextIsOwn'
  BY <1>1, <1>2 DEF SameWork, TextIsOwn, TextsOf, Held
<1>10. EndIsAccountedFor'
  BY <1>1, <1>2 DEF SameWork, EndIsAccountedFor
<1>11. QED
  BY <1>3, <1>4, <1>5, <1>6, <1>7, <1>8, <1>9, <1>10

(* The hub's verdict leaves a row in hand only to retry it; it marks a row *)
(* with the row's own text, and goes on fetching only while the session    *)
(* has room.                                                               *)
LEMMA TransitionHubKeeps ==
    InductiveInvariant /\ TransitionHub => InductiveInvariant'
<1> SUFFICES ASSUME InductiveInvariant, TransitionHub
             PROVE  InductiveInvariant'
  OBVIOUS
<1> USE DEF InductiveInvariant
<1>1. /\ node = "transition_hub"
      /\ node' = AfterTransition(rt'.next_action)
      /\ UNCHANGED <<masterDue, runs, session, attempts>>
      /\ status \in [Rows -> Statuses]
      /\ comments \in [Rows -> SUBSET Rows]
      /\ cto \in [Rows -> Rows \cup {NoRow}]
      /\ rt \in Runtime
      /\ rt.step \in 1..Len(Steps)
      /\ rt.queue_initialized
  BY DEF TransitionHub, TypeOK, StepIsActive, EndIsAccountedFor, Nodes
<1> DEFINE QueueIsSound == /\ status' \in [Rows -> Statuses]
                          /\ comments' \in [Rows -> SUBSET Rows]
                          /\ cto' \in [Rows -> Rows \cup {NoRow}]
                          /\ OneInProgressPerApp'
                          /\ CommentsAreOwn'
           SameStep == /\ rt' \in Runtime
                       /\ rt'.step = rt.step
                       /\ rt'.application_logged_in = rt.application_logged_in
                       /\ rt'.queue_initialized
           Resets == rt'.next_action \in {"APP_SWITCH", "BATCH_COMPLETE"}
           Fetches == /\ rt'.next_action = "GET_TRANSACTION"
                      /\ ActiveLimit # 0 => rt'.session_batch_count < ActiveLimit
           Ends == rt'.next_action = "END" /\ rt'.last_status = "SYSTEM_EXCEPTION"
           LetsGo == /\ QueueIsSound
                     /\ SameStep
                     /\ rt'.txn = NoRow /\ rt'.retry_count = 0
                     /\ Resets \/ Fetches \/ Ends
           Retries == /\ QueueIsSound
                      /\ SameStep
                      /\ UNCHANGED status
                      /\ rt'.txn = rt.txn /\ rt.txn # NoRow
                      /\ rt'.next_action = "RETRY"
                      /\ attempts = rt'.retry_count
                      /\ rt'.retry_count <= RetryLimit
<1>2. ASSUME ResolveFinal
      PROVE  LetsGo
  <2> DEFINE n == Released(rt)
  <2>1. PICK outcome \in FinalStatuses, text \in {rt.txn, NoRow} :
          MarkFinal(outcome, text) /\ rt.txn # NoRow /\ rt.txn \in Rows
    <3>1. rt.last_status \in {"SUCCESS", "BUSINESS_EXCEPTION"} => rt.txn # NoRow
      BY <1>1 DEF HoldingFollowsNode, Held
    <3>2. /\ rt.txn # NoRow => rt.txn \in Rows
          /\ rt.txn # NoRow /\ rt.last_status = "SUCCESS" => rt.last_message \in {rt.txn, NoRow}
          /\ rt.txn # NoRow /\ rt.last_status \in {"BUSINESS_EXCEPTION", "SYSTEM_EXCEPTION"}
                => rt.last_error \in {rt.txn, NoRow}
      BY <1>1 DEF TextIsOwn, TextsOf, Held, Runtime
    <3>3. QED
      BY <1>2, <3>1, <3>2 DEF ResolveFinal, FinalStatuses
  <2>2. rt.txn \in Rows /\ rt.txn # NoRow /\ status[rt.txn] = "in_progress"
    BY <2>1 DEF HeldRowIsActive
  <2>3. /\ status' = [status EXCEPT ![rt.txn] = outcome]
        /\ comments' = [comments EXCEPT ![rt.txn] = @ \cup ({text} \ {NoRow})]
        /\ cto' = [cto EXCEPT ![rt.txn] = IF rt.cto_details = NoRow THEN @
                                                                   ELSE rt.cto_details]
        /\ rt' = NextAfterFinalized(n)
    BY <2>1 DEF MarkFinal
  <2>4. QueueIsSound
    <3>1. status' \in [Rows -> Statuses]
      BY <1>1, <2>1, <2>3 DEF FinalStatuses, Statuses
    <3>2. comments' \in [Rows -> SUBSET Rows]
      BY <1>1, <2>1, <2>2, <2>3
    <3>3. cto' \in [Rows -> Rows \cup {NoRow}]
      <4>1. rt.cto_details \in Rows \cup {NoRow}
        BY <1>1 DEF Runtime
      <4>2. QED
        BY <1>1, <2>3, <4>1
    <3>4. OneInProgressPerApp'
      BY <1>1, <2>1, <2>2, <2>3 DEF OneInProgressPerApp, FinalStatuses
    <3>5. CommentsAreOwn'
      <4>1. ASSUME NEW r \in Rows, r # rt.txn
            PROVE  status'[r] = status[r] /\ comments'[r] = comments[r]
        BY <1>1, <2>3, <4>1
      <4>2. comments[rt.txn] = {}
        BY <2>2 DEF CommentsAreOwn, FinalStatuses
      <4>3. status'[rt.txn] = outcome /\ comments'[rt.txn] \subseteq {rt.txn}
        BY <1>1, <2>1, <2>2, <2>3, <4>2
      <4>4. QED
        BY <2>1, <4>1, <4>3 DEF CommentsAreOwn
    <3>6. QED
      BY <3>1, <3>2, <3>3, <3>4, <3>5
  <2>5. /\ n \in Runtime
        /\ n.txn = NoRow /\ n.retry_count = 0
        /\ n.step = rt.step
        /\ n.application_logged_in = rt.application_logged_in
        /\ n.queue_initialized
    BY <1>1, ReleasedRuntime
  <2> HIDE DEF n
  <2>6. /\ rt' \in Runtime
        /\ SameWork(rt', n)
        /\ rt'.application_logged_in = n.application_logged_in
        /\ Resets \/ (rt'.next_action = "GET_TRANSACTION" /\ ~ IsSessionBatchComplete(n))
    BY <2>3, <2>5, NextAfterFinalizedRuntime
  <2>7. SameStep /\ rt'.txn = NoRow /\ rt'.retry_count = 0
    BY <2>5, <2>6 DEF SameWork
  <2>8. Resets \/ Fetches
    <3>1. n.session_batch_count \in Nat /\ ActiveLimit \in Nat
      BY <1>1, <2>5, StepsAssumption DEF Runtime, ActiveLimit
    <3>2. QED
      BY <2>5, <2>6, <3>1 DEF SameWork, IsSessionBatchComplete, ActiveLimit
  <2>9. QED
    BY <2>4, <2>7, <2>8
<1>3. ASSUME UNCHANGED queueVars
      PROVE  QueueIsSound
  BY <1>1, <1>3 DEF queueVars, OneInProgressPerApp, CommentsAreOwn
<1>4. ASSUME ResolveRetry, UNCHANGED queueVars
      PROVE  Retries
  <2>1. /\ rt.retry_count + 1 \in Nat
        /\ "RETRY" \in Actions \cup {"NONE"}
        /\ attempts = rt.retry_count + 1
        /\ rt.retry_count < RetryLimit
        /\ rt.retry_count \in Nat
    BY <1>1, <1>4 DEF ResolveRetry, RetriesAreCounted, Held, Runtime, Actions
  <2>2. rt' = [rt EXCEPT !.retry_count = @ + 1, !.next_action = "RETRY"]
    BY <1>4 DEF ResolveRetry
  <2>3. rt' \in Runtime
    BY <1>1, <2>1, <2>2, SetKey, Zenon
  <2>4. /\ SameStep
        /\ rt'.txn = rt.txn /\ rt'.next_action = "RETRY"
        /\ rt'.retry_count = rt.retry_count + 1
    BY <1>1, <2>2, <2>3 DEF Runtime
  <2>5. rt'.retry_count <= RetryLimit
    BY <2>1, <2>4, LimitsAssumption
  <2>6. QED
    BY <1>3, <1>4, <2>1, <2>4, <2>5 DEF ResolveRetry, queueVars
<1>5. ASSUME ResolveNothingHeld, UNCHANGED queueVars
      PROVE  LetsGo
  <2>1. /\ rt' = [rt EXCEPT !.retry_count = 0, !.next_action = "END"]
        /\ rt.txn = NoRow /\ rt.last_status = "SYSTEM_EXCEPTION"
    BY <1>5 DEF ResolveNothingHeld
  <2>2. 0 \in Nat /\ "END" \in Actions \cup {"NONE"}
    BY DEF Actions
  <2>3. rt' \in Runtime
    BY <1>1, <2>1, <2>2, SetKey, Zenon
  <2>4. SameStep /\ rt'.txn = NoRow /\ rt'.retry_count = 0 /\ Ends
    BY <1>1, <2>1, <2>3 DEF Runtime
  <2>5. QED
    BY <1>3, <1>5, <2>4
<1>6. ASSUME ResolveNoTransaction, UNCHANGED queueVars
      PROVE  LetsGo
  <2>1. /\ rt.txn = NoRow /\ rt.retry_count = 0
        /\ ActiveLimit # 0 => rt.session_batch_count < ActiveLimit
    BY <1>1, <1>6
    DEF ResolveNoTransaction, HoldingFollowsNode, RetriesAreCounted, BatchHasRoom, Held
  <2>2. /\ NoRow \in Rows \cup {NoRow}
        /\ "APP_SWITCH" \in Reasons /\ "BATCH_COMPLETE" \in Reasons
        /\ "APP_SWITCH" \in Actions \cup {"NONE"}
        /\ "BATCH_COMPLETE" \in Actions \cup {"NONE"}
        /\ "GET_TRANSACTION" \in Actions \cup {"NONE"}
        /\ rt.wait_count + 1 \in Nat
    BY <1>1 DEF Reasons, ResetReasons, Actions, Runtime
  <2>3. CASE rt' = [rt EXCEPT !.txn = NoRow, !.execution_init_reason = "APP_SWITCH",
                              !.next_action = "APP_SWITCH"]
    <3>1. rt' \in Runtime
      BY <1>1, <2>2, <2>3, SetKey, Zenon
    <3>2. SameStep /\ rt'.txn = NoRow /\ rt'.retry_count = 0 /\ Resets
      BY <1>1, <2>1, <2>3, <3>1 DEF Runtime
    <3>3. QED
      BY <1>3, <1>6, <3>2
  <2>4. CASE rt' = [rt EXCEPT !.txn = NoRow, !.wait_count = @ + 1,
                              !.next_action = "GET_TRANSACTION"]
    <3>1. rt' \in Runtime
      BY <1>1, <2>2, <2>4, SetKey, Zenon
    <3>2. SameStep /\ rt'.txn = NoRow /\ rt'.retry_count = 0 /\ Fetches
      BY <1>1, <2>1, <2>4, <3>1 DEF Runtime
    <3>3. QED
      BY <1>3, <1>6, <3>2
  <2>5. CASE rt' = [rt EXCEPT !.txn = NoRow, !.execution_init_reason = "BATCH_COMPLETE",
                              !.next_action = "BATCH_COMPLETE"]
    <3>1. rt' \in Runtime
      BY <1>1, <2>2, <2>5, SetKey, Zenon
    <3>2. SameStep /\ rt'.txn = NoRow /\ rt'.retry_count = 0 /\ Resets
      BY <1>1, <2>1, <2>5, <3>1 DEF Runtime
    <3>3. QED
      BY <1>3, <1>6, <3>2
  <2>6. QED
    BY <1>6, <2>3, <2>4, <2>5 DEF ResolveNoTransaction
<1>7. LetsGo \/ Retries
  BY <1>2, <1>4, <1>5, <1>6 DEF TransitionHub
<1>8. CASE LetsGo
  <2>1. /\ Resets => node' = "execution_init" /\ InitReason(rt') \in ResetReasons \ {"RETRY"}
        /\ Fetches => node' = "get_transaction"
        /\ Ends => node' = "end"
    BY <1>1 DEF AfterTransition, InitReason, Reasons, ResetReasons
  <2>2. TypeOK'
    BY <1>1, <1>8, <2>1 DEF TypeOK, Nodes
  <2>3. StepIsActive' /\ HoldingFollowsNode' /\ HeldRowIsActive'
    BY <1>1, <1>8, <2>1
    DEF StepIsActive, HoldingFollowsNode, HeldRowIsActive, Held, Over
  <2>4. RetriesAreCounted' /\ TextIsOwn'
    BY <1>8, LimitsAssumption DEF RetriesAreCounted, TextIsOwn, Held
  <2>5. SessionIsActive' /\ BatchHasRoom'
    BY <1>1, <1>8, <2>1 DEF SessionIsActive, BatchHasRoom, ActiveApp, ActiveLimit
  <2>6. EndIsAccountedFor'
    BY <1>8, <2>1 DEF EndIsAccountedFor
  <2>7. QED
    BY <1>8, <2>2, <2>3, <2>4, <2>5, <2>6
<1>9. CASE Retries
  <2>1. node' = "execution_init" /\ InitReason(rt') = "RETRY"
    BY <1>1, <1>9 DEF AfterTransition, InitReason, Reasons, ResetReasons
  <2>2. TypeOK'
    BY <1>1, <1>9, <2>1 DEF TypeOK, Nodes
  <2>3. StepIsActive' /\ HoldingFollowsNode' /\ HeldRowIsActive'
    BY <1>1, <1>9, <2>1
    DEF StepIsActive, HoldingFollowsNode, HeldRowIsActive, ActiveApp, Held, Over
  <2>4. RetriesAreCounted' /\ TextIsOwn'
    BY <1>1, <1>9, <2>1 DEF RetriesAreCounted, TextIsOwn, Held
  <2>5. SessionIsActive' /\ BatchHasRoom'
    BY <1>1, <1>9, <2>1
    DEF SessionIsActive, BatchHasRoom, ActiveApp, ActiveLimit, ResetReasons
  <2>6. EndIsAccountedFor'
    BY <1>9, <2>1 DEF EndIsAccountedFor
  <2>7. QED
    BY <1>9, <2>2, <2>3, <2>4, <2>5, <2>6
<1>10. QED
  BY <1>7, <1>8, <1>9

(* Cleaning up changes nothing that the invariant depends on.              *)
LEMMA EndKeeps ==
    InductiveInvariant /\ End => InductiveInvariant'
<1> SUFFICES ASSUME InductiveInvariant, End
             PROVE  InductiveInvariant'
  OBVIOUS
<1> USE DEF InductiveInvariant
<1>1. /\ node = "end" /\ node' = "stopped"
      /\ UNCHANGED <<status, comments, cto, masterDue, runs, session, attempts>>
      /\ rt \in Runtime
      /\ rt' = [rt EXCEPT !.next_action = "END"]
  BY DEF End, queueVars, ghostVars, TypeOK
<1>2. /\ SameWork(rt', rt)
      /\ rt'.last_status = rt.last_status
      /\ rt'.application_logged_in = rt.application_logged_in
  BY <1>1 DEF SameWork, Runtime
<1>3. TypeOK'
  <2>1. rt' \in Runtime
    BY <1>1, SetKey, Zenon DEF Actions
  <2>2. QED
    BY <1>1, <2>1 DEF TypeOK, Over
<1>4. StepIsActive' /\ HoldingFollowsNode'
  BY <1>1, <1>2 DEF SameWork, StepIsActive, HoldingFollowsNode, Held, Nodes, Over
<1>5. HeldRowIsActive' /\ OneInProgressPerApp' /\ CommentsAreOwn'
  BY <1>1, <1>2
  DEF SameWork, HeldRowIsActive, ActiveApp, OneInProgressPerApp, CommentsAreOwn
<1>6. RetriesAreCounted' /\ TextIsOwn'
  BY <1>1, <1>2 DEF SameWork, RetriesAreCounted, TextIsOwn, Held
<1>7. SessionIsActive' /\ BatchHasRoom'
  BY <1>1, <1>2 DEF SameWork, SessionIsActive, BatchHasRoom, ActiveApp, ActiveLimit
<1>8. EndIsAccountedFor'
  BY <1>1, <1>2 DEF EndIsAccountedFor
<1>9. QED
  BY <1>3, <1>4, <1>5, <1>6, <1>7, <1>8

(* Rows inserted by somebody else disturb nothing, whenever they appear.   *)
LEMMA RowsArriveKeeps ==
    InductiveInvariant /\ RowsArrive => InductiveInvariant'
<1> SUFFICES ASSUME InductiveInvariant, RowsArrive
             PROVE  InductiveInvariant'
  OBVIOUS
<1> USE DEF InductiveInvariant
<1>1. UNCHANGED <<comments, cto, rt, node, masterDue, runs, session, attempts>>
  BY DEF RowsArrive, ghostVars
<1>2. /\ status' \in [Rows -> Statuses]
      /\ \A r \in Rows :
            /\ status'[r] = "in_progress" <=> status[r] = "in_progress"
            /\ status'[r] \in FinalStatuses <=> status[r] \in FinalStatuses
  BY InsertedRows DEF RowsArrive, TypeOK
<1>3. TypeOK'
  BY <1>1, <1>2 DEF TypeOK
<1>4. StepIsActive' /\ HoldingFollowsNode' /\ RetriesAreCounted'
  BY <1>1 DEF StepIsActive, HoldingFollowsNode, RetriesAreCounted, Held, InitReason
<1>5. HeldRowIsActive'
  <2>1. rt.txn \in Rows \cup {NoRow}
    BY DEF TypeOK, Runtime
  <2>2. QED
    BY <1>1, <1>2, <2>1 DEF HeldRowIsActive, ActiveApp
<1>6. SessionIsActive' /\ BatchHasRoom' /\ TextIsOwn'
  BY <1>1
  DEF SessionIsActive, BatchHasRoom, TextIsOwn, Held, ActiveApp, ActiveLimit, InitReason
<1>7. OneInProgressPerApp' /\ CommentsAreOwn'
  BY <1>1, <1>2 DEF OneInProgressPerApp, CommentsAreOwn
<1>8. EndIsAccountedFor'
  BY <1>1, <1>2 DEF EndIsAccountedFor, InitReason
<1>9. QED
  BY <1>3, <1>4, <1>5, <1>6, <1>7, <1>8

(* Time alone, or no step at all, disturbs nothing.                        *)
LEMMA TimePassesKeeps ==
    InductiveInvariant /\ (TimePasses \/ UNCHANGED vars) => InductiveInvariant'
<1> SUFFICES ASSUME InductiveInvariant, TimePasses \/ UNCHANGED vars
             PROVE  InductiveInvariant'
  OBVIOUS
<1> USE DEF InductiveInvariant
<1>1. /\ UNCHANGED <<status, comments, cto, rt, node, runs, session, attempts>>
      /\ masterDue' \in BOOLEAN
  BY DEF TimePasses, vars, queueVars, ghostVars, TypeOK
<1>2. TypeOK'
  BY <1>1 DEF TypeOK
<1>3. StepIsActive' /\ HoldingFollowsNode' /\ HeldRowIsActive' /\ RetriesAreCounted'
  BY <1>1
  DEF StepIsActive, HoldingFollowsNode, HeldRowIsActive, RetriesAreCounted, Held,
      ActiveApp, InitReason
<1>4. SessionIsActive' /\ BatchHasRoom' /\ TextIsOwn'
  BY <1>1
  DEF SessionIsActive, BatchHasRoom, TextIsOwn, Held, ActiveApp, ActiveLimit, InitReason
<1>5. OneInProgressPerApp' /\ CommentsAreOwn' /\ EndIsAccountedFor'
  BY <1>1 DEF OneInProgressPerApp, CommentsAreOwn, EndIsAccountedFor, InitReason
<1>6. QED
  BY <1>2, <1>3, <1>4, <1>5

(* Death and restart lose the runtime and keep the queue: what is left In  *)
(* Processing is still one row per application, without any text.          *)
LEMMA CrashAndRestartKeep ==
    InductiveInvariant /\ (Crash \/ Restart) => InductiveInvariant'
<1> SUFFICES ASSUME InductiveInvariant, Crash \/ Restart
             PROVE  InductiveInvariant'
  OBVIOUS
<1> USE DEF InductiveInvariant
<1>1. /\ node' \in {"aborted", "framework_init"}
      /\ rt' = InitialRuntime
      /\ UNCHANGED <<status, comments, cto>>
      /\ masterDue' = FALSE /\ session' = NoApp /\ attempts' = 0
      /\ runs' \in Nat
  BY DEF Crash, Restart, queueVars, TypeOK
<1>2. /\ rt' \in Runtime
      /\ rt'.txn = NoRow /\ rt'.retry_count = 0 /\ rt'.application_logged_in = FALSE
  BY <1>1, InitialRuntimeType DEF InitialRuntime
<1>3. TypeOK'
  BY <1>1, <1>2 DEF TypeOK, Nodes, Over
<1>4. StepIsActive' /\ HoldingFollowsNode' /\ HeldRowIsActive'
  BY <1>1, <1>2 DEF StepIsActive, HoldingFollowsNode, HeldRowIsActive, Held, Nodes
<1>5. RetriesAreCounted' /\ SessionIsActive' /\ BatchHasRoom'
  BY <1>1, <1>2, LimitsAssumption DEF RetriesAreCounted, SessionIsActive, BatchHasRoom, Held
<1>6. OneInProgressPerApp' /\ TextIsOwn' /\ CommentsAreOwn' /\ EndIsAccountedFor'
  BY <1>1, <1>2 DEF OneInProgressPerApp, TextIsOwn, CommentsAreOwn, EndIsAccountedFor, Held
<1>7. QED
  BY <1>3, <1>4, <1>5, <1>6

(* Every step keeps the invariant.                                         *)
LEMMA NextKeeps == InductiveInvariant /\ [Next]_vars => InductiveInvariant'
BY FrameworkInitKeeps, ExecutionInitKeeps, RouteAfterExecutionInitKeeps,
   MasterQueueCreatorKeeps, MasterQueueWaitKeeps, GetTransactionKeeps,
   LoginApplicationKeeps, ProcessTransactionKeeps, TransitionHubKeeps, EndKeeps,
   RowsArriveKeeps, TimePassesKeeps, CrashAndRestartKeep
DEF Next, BotStep
-----------------------------------------------------------------------------
(* The invariant holds in every state of every behaviour: whatever the     *)
(* graph goes through, what each node relies on is there when it runs.     *)
THEOREM InvariantHolds == Spec => []InductiveInvariant
BY InitEstablishes, NextKeeps, PTL DEF Spec

(* Every variable keeps its type, whatever the size of the queue, the      *)
(* steps and the limits.                                                   *)
THEOREM TypesHold == Spec => []TypeOK
<1>1. InductiveInvariant => TypeOK
  BY DEF InductiveInvariant
<1>2. QED
  BY <1>1, InvariantHolds, PTL

(* The row in hand is In Processing and of the active application, through *)
(* retries, resets, switches and refreshes.                                *)
THEOREM HeldRowStaysActive == Spec => []HeldRowIsActive
<1>1. InductiveInvariant => HeldRowIsActive
  BY DEF InductiveInvariant
<1>2. QED
  BY <1>1, InvariantHolds, PTL

(* No node that fetches, creates or waits is reached with a row in hand or *)
(* with retries of one left over.                                          *)
THEOREM NothingIsHeldBetweenRows == Spec => []NothingHeldBetweenRows
<1>1. InductiveInvariant => NothingHeldBetweenRows
  BY DEF InductiveInvariant, HoldingFollowsNode, RetriesAreCounted, Held,
         NothingHeldBetweenRows
<1>2. QED
  BY <1>1, InvariantHolds, PTL

(* No row is ever processed in the session of another application.         *)
THEOREM SessionBelongsToRow == Spec => []ProcessedInOwnSession
<1>1. InductiveInvariant => ProcessedInOwnSession
  BY DEF InductiveInvariant, HoldingFollowsNode, HeldRowIsActive, SessionIsActive, Held,
         ProcessedInOwnSession
<1>2. QED
  BY <1>1, InvariantHolds, PTL

(* No session takes another row once its batch is full.                    *)
THEOREM BatchLimitHolds == Spec => []BatchWithinLimit
<1>1. InductiveInvariant => BatchWithinLimit
  BY DEF InductiveInvariant, BatchHasRoom, BatchWithinLimit
<1>2. QED
  BY <1>1, InvariantHolds, PTL

(* However often the process dies, no application ever has two rows In     *)
(* Processing.                                                             *)
THEOREM OneRowInProgress == Spec => []OneInProgressPerApp
<1>1. InductiveInvariant => OneInProgressPerApp
  BY DEF InductiveInvariant
<1>2. QED
  BY <1>1, InvariantHolds, PTL

(* A run that ends without a system exception leaves nothing open.         *)
THEOREM CleanExitIsClean == Spec => []CleanExitLeavesNothingOpen
<1>1. InductiveInvariant => CleanExitLeavesNothingOpen
  BY DEF InductiveInvariant, EndIsAccountedFor, CleanExitLeavesNothingOpen
<1>2. QED
  BY <1>1, InvariantHolds, PTL

(* A row's comment is the text of its own processing.                      *)
THEOREM CommentsStayOwn == Spec => []CommentsAreOwn
<1>1. InductiveInvariant => CommentsAreOwn
  BY DEF InductiveInvariant
<1>2. QED
  BY <1>1, InvariantHolds, PTL
-----------------------------------------------------------------------------
(***************************************************************************)
(* What the scheduler does to the rows of tbl_queue is what                *)
(* TransactionLifecycle promises: with the row in hand for held, every     *)
(* step of the scheduler is one of the lifecycle or leaves the rows alone. *)
(* And a row is given up only after all its attempts.                      *)
(***************************************************************************)

(* A session or runtime reset moves no row and keeps the one in hand.      *)
LEMMA InitAndRouteStutter ==
    ASSUME InductiveInvariant,
           FrameworkInit \/ ExecutionInit \/ RouteAfterExecutionInit
    PROVE  UNCHANGED <<status, rt.txn>>
<1>1. rt \in Runtime /\ UNCHANGED status
  BY DEF FrameworkInit, ExecutionInit, RouteAfterExecutionInit, queueVars,
         InductiveInvariant, TypeOK
<1>2. CASE FrameworkInit
  <2>1. 1 \in 1..Len(Steps)
    BY StepsAssumption
  <2> DEFINE active == ActivateStep(rt, 1)
  <2>2. active \in Runtime /\ active.txn = rt.txn
    BY <1>1, <2>1, ActivateStepRuntime
  <2>3. rt' \in {active, Failed(rt), Failed(active)}
    BY <1>2 DEF FrameworkInit
  <2> HIDE DEF active
  <2>4. QED
    BY <1>1, <2>2, <2>3, FailedRuntime DEF SameWork
<1>3. CASE ExecutionInit
  <2>1. CASE rt' = [rt EXCEPT !.execution_init_reason = InitReason(rt)]
    BY <1>1, <2>1 DEF Runtime
  <2>2. CASE rt' = AfterReset(rt)
    BY <1>1, <2>2, AfterResetRuntime
  <2>3. CASE rt' = Failed(rt)
    BY <1>1, <2>3, FailedRuntime DEF SameWork
  <2>4. QED
    BY <1>3, <2>1, <2>2, <2>3 DEF ExecutionInit
<1>4. CASE RouteAfterExecutionInit
  BY <1>1, <1>4 DEF RouteAfterExecutionInit
<1>5. QED
  BY <1>2, <1>3, <1>4

(* Neither do the nodes that work on a row or wait for one.                *)
LEMMA WorkStutters ==
    ASSUME InductiveInvariant,
           MasterQueueWait \/ LoginApplication \/ ProcessTransaction \/ End
    PROVE  UNCHANGED <<status, rt.txn>>
<1>1. rt \in Runtime /\ UNCHANGED status
  BY DEF MasterQueueWait, LoginApplication, ProcessTransaction, End, queueVars,
         InductiveInvariant, TypeOK
<1>2. CASE MasterQueueWait
  BY <1>1, <1>2, FailedRuntime DEF MasterQueueWait, SameWork, Runtime
<1>3. CASE LoginApplication
  BY <1>1, <1>3 DEF LoginApplication, LoginFailed, TextsOf, Runtime
<1>4. CASE ProcessTransaction
  BY <1>1, <1>4 DEF ProcessTransaction, ProcessReturned, ProcessRaised, TextsOf, Runtime
<1>5. CASE End
  BY <1>1, <1>5 DEF End, Runtime
<1>6. QED
  BY <1>2, <1>3, <1>4, <1>5

(* Rows appear by a master run of this process or of another one.          *)
LEMMA InsertionCreates ==
    ASSUME InductiveInvariant, MasterQueueCreator \/ RowsArrive
    PROVE  Lifecycle!Create
<1>1. rt \in Runtime /\ InsertRows
  BY DEF MasterQueueCreator, RowsArrive, InductiveInvariant, TypeOK
<1>2. UNCHANGED rt.txn
  <2>1. CASE rt' = [rt EXCEPT !.master_queue_run_count = @ + 1]
    BY <1>1, <2>1 DEF Runtime
  <2>2. QED
    BY <1>1, <2>1, FailedRuntime DEF MasterQueueCreator, RowsArrive, SameWork
<1>3. QED
  BY <1>1, <1>2 DEF InsertRows, Lifecycle!Create

(* Fetching claims a row with nothing in hand, or leaves the queue alone.  *)
LEMMA FetchingClaims ==
    ASSUME InductiveInvariant, GetTransaction
    PROVE  \/ \E r \in Rows : Lifecycle!Claim(r)
           \/ UNCHANGED <<status, rt.txn>>
<1>1. rt \in Runtime /\ rt.txn = NoRow
  BY DEF GetTransaction, InductiveInvariant, TypeOK, HoldingFollowsNode, Held
<1>2. \/ /\ UNCHANGED status
         /\ rt'.txn = NoRow
      \/ \E r \in Rows : /\ IsNext(r, ActiveApp)
                        /\ status' = [status EXCEPT ![r] = "in_progress"]
                        /\ rt'.txn \in {r, NoRow}
  BY <1>1 DEF GetTransaction, Runtime
<1>3. QED
  BY <1>1, <1>2 DEF IsNext, Fetchable, Lifecycle!Claim

(* The hub finishes the row in hand or leaves all rows alone.              *)
LEMMA HubFinalises ==
    ASSUME InductiveInvariant, TransitionHub
    PROVE  \/ \E outcome \in FinalStatuses : Lifecycle!Finalise(outcome)
           \/ UNCHANGED <<status, rt.txn>>
<1>1. /\ rt \in Runtime
      /\ node = "transition_hub"
  BY DEF TransitionHub, InductiveInvariant, TypeOK
<1>2. ASSUME ResolveFinal
      PROVE  \E outcome \in FinalStatuses : Lifecycle!Finalise(outcome)
  <2>1. rt.txn # NoRow /\ status[rt.txn] = "in_progress"
    BY <1>1, <1>2
    DEF ResolveFinal, InductiveInvariant, HoldingFollowsNode, HeldRowIsActive, Held
  <2>2. PICK outcome \in FinalStatuses : /\ status' = [status EXCEPT ![rt.txn] = outcome]
                                         /\ rt' = NextAfterFinalized(Released(rt))
    BY <1>2 DEF ResolveFinal, MarkFinal, FinalStatuses
  <2>3. rt'.txn = NoRow
    BY <1>1, <2>2, ReleasedRuntime, NextAfterFinalizedRuntime DEF SameWork
  <2>4. QED
    BY <2>1, <2>2, <2>3 DEF Lifecycle!Finalise
<1>3. ASSUME ResolveRetry \/ ResolveNothingHeld \/ ResolveNoTransaction,
             UNCHANGED queueVars
      PROVE  UNCHANGED <<status, rt.txn>>
  <2>1. rt.last_status = "NO_TRANSACTION" => rt.txn = NoRow
    BY <1>1 DEF InductiveInvariant, HoldingFollowsNode, Held
  <2>2. QED
    BY <1>1, <1>3, <2>1
    DEF ResolveRetry, ResolveNothingHeld, ResolveNoTransaction, queueVars, Runtime
<1>4. QED
  BY <1>2, <1>3 DEF TransitionHub

(* A process that dies or starts again lets go of its row and moves none.  *)
LEMMA DeathAbandons ==
    ASSUME Crash \/ Restart
    PROVE  Lifecycle!Abandon
BY DEF Crash, Restart, queueVars, InitialRuntime, Lifecycle!Abandon

(* Every step of the scheduler is a step of the lifecycle or a stutter.    *)
LEMMA StepRefines ==
    InductiveInvariant /\ [Next]_vars
        => [Lifecycle!LifecycleNext]_(Lifecycle!lifecycleVars)
<1> SUFFICES ASSUME InductiveInvariant, [Next]_vars
             PROVE  Lifecycle!LifecycleNext \/ UNCHANGED <<status, rt.txn>>
  BY DEF Lifecycle!lifecycleVars
<1>1. CASE FrameworkInit \/ ExecutionInit \/ RouteAfterExecutionInit
  BY <1>1, InitAndRouteStutter
<1>2. CASE MasterQueueWait \/ LoginApplication \/ ProcessTransaction \/ End
  BY <1>2, WorkStutters
<1>3. CASE MasterQueueCreator \/ RowsArrive
  BY <1>3, InsertionCreates DEF Lifecycle!LifecycleNext
<1>4. CASE GetTransaction
  BY <1>4, FetchingClaims DEF Lifecycle!LifecycleNext
<1>5. CASE TransitionHub
  BY <1>5, HubFinalises DEF Lifecycle!LifecycleNext, Lifecycle!FinalStates, FinalStatuses
<1>6. CASE Crash \/ Restart
  BY <1>6, DeathAbandons DEF Lifecycle!LifecycleNext
<1>7. CASE TimePasses \/ UNCHANGED vars
  BY <1>7 DEF TimePasses, vars, queueVars
<1>8. QED
  BY <1>1, <1>2, <1>3, <1>4, <1>5, <1>6, <1>7 DEF Next, BotStep
-----------------------------------------------------------------------------
(* The scheduler implements the lifecycle of the rows: a row is claimed    *)
(* only with empty hands, becomes final only while it is held, once, and   *)
(* is never touched again, through every crash and restart.                *)
THEOREM SchedulerImplementsLifecycle == Spec => ImplementsLifecycle
<1>1. Init => Lifecycle!LifecycleInit
  BY DEF Init, InitialRuntime, Lifecycle!LifecycleInit
<1>2. QED
  BY <1>1, StepRefines, InvariantHolds, PTL DEF Spec, ImplementsLifecycle, Lifecycle!LifecycleSpec

(* A step that fails a row is the hub's, and the row has had the first     *)
(* attempt and RetryLimit more in this run.                                *)
LEMMA FailingTakesAllAttempts ==
    InductiveInvariant /\ [Next]_vars =>
        [\A r \in Rows : status[r] # "failed" /\ status'[r] = "failed"
              => attempts = RetryLimit + 1]_vars
<1> SUFFICES ASSUME InductiveInvariant, Next,
                    NEW r \in Rows, status[r] # "failed", status'[r] = "failed"
             PROVE  attempts = RetryLimit + 1
  OBVIOUS
<1>1. /\ status \in [Rows -> Statuses]
      /\ rt \in Runtime
  BY DEF InductiveInvariant, TypeOK
<1>2. TransitionHub
  <2>1. ~ InsertRows
    BY <1>1 DEF InsertRows
  <2>2. ~ GetTransaction
    BY <1>1 DEF GetTransaction
  <2>3. UNCHANGED status => FALSE
    OBVIOUS
  <2>4. QED
    BY <2>1, <2>2, <2>3
    DEF Next, BotStep, FrameworkInit, ExecutionInit, RouteAfterExecutionInit,
        MasterQueueCreator, MasterQueueWait, LoginApplication, ProcessTransaction,
        End, RowsArrive, TimePasses, Crash, Restart, queueVars
<1>3. /\ rt.txn # NoRow
      /\ rt.retry_count >= RetryLimit
      /\ node = "transition_hub"
  BY <1>1, <1>2
  DEF TransitionHub, ResolveFinal, MarkFinal, queueVars
<1>4. attempts = rt.retry_count + 1 /\ rt.retry_count <= RetryLimit
  BY <1>3 DEF InductiveInvariant, RetriesAreCounted, Held
<1>5. QED
  BY <1>1, <1>3, <1>4, LimitsAssumption DEF Runtime

(* No row is given up before its last retry, and none is given up for the  *)
(* retries of another row.                                                 *)
THEOREM RowsFailAfterAllRetries == Spec => FailedAfterAllRetries
BY FailingTakesAllAttempts, InvariantHolds, PTL DEF Spec, FailedAfterAllRetries

(* Nothing that an END passes on its way to the end takes it back.         *)
LEMMA EndIsKept ==
    InductiveInvariant /\ EndIsFinal /\ [Next]_vars => EndIsFinal'
<1> SUFFICES ASSUME InductiveInvariant, EndIsFinal, [Next]_vars
             PROVE  EndIsFinal'
  OBVIOUS
<1>1. rt \in Runtime
  BY DEF InductiveInvariant, TypeOK
<1>2. CASE FrameworkInit \/ MasterQueueCreator \/ MasterQueueWait \/ End
  <2>1. CASE MasterQueueCreator
    <3>1. rt' = [rt EXCEPT !.master_queue_run_count = @ + 1] \/ node' = "end"
      BY <2>1 DEF MasterQueueCreator
    <3>2. rt.next_action # "END"
      BY <2>1 DEF MasterQueueCreator, EndIsFinal
    <3>3. QED
      BY <1>1, <3>1, <3>2 DEF EndIsFinal, Runtime
  <2>2. CASE FrameworkInit
    <3>1. node' = "end" \/ rt' = ActivateStep(rt, 1)
      BY <2>2 DEF FrameworkInit
    <3>2. rt.next_action # "END"
      BY <2>2 DEF FrameworkInit, EndIsFinal
    <3>3. QED
      BY <1>1, <3>1, <3>2 DEF EndIsFinal, ActivateStep, Runtime
  <2>3. CASE MasterQueueWait \/ End
    BY <2>3 DEF MasterQueueWait, End, EndIsFinal
  <2>4. QED
    BY <1>2, <2>1, <2>2, <2>3
<1>3. CASE ExecutionInit \/ RouteAfterExecutionInit
  BY <1>3
  DEF ExecutionInit, RouteAfterExecutionInit, AfterExecutionInit, EndIsFinal
<1>4. CASE GetTransaction \/ LoginApplication \/ ProcessTransaction
  <2>1. GetTransaction => rt'.next_action \in {"PROCESS", "NONE"}
    BY <1>1 DEF GetTransaction, Runtime
  <2>2. LoginApplication => rt'.next_action \in {rt.next_action, "NONE"}
    BY <1>1 DEF LoginApplication, LoginFailed, Runtime
  <2>3. LoginApplication => rt.next_action # "END"
    BY DEF LoginApplication, EndIsFinal
  <2>4. ProcessTransaction => node' = "transition_hub"
    BY DEF ProcessTransaction
  <2>5. QED
    BY <1>4, <2>1, <2>2, <2>3, <2>4 DEF EndIsFinal
<1>5. CASE TransitionHub
  <2>1. rt'.next_action = "END" => node' = "end"
    BY <1>5 DEF TransitionHub, AfterTransition
  <2>2. QED
    BY <2>1 DEF EndIsFinal
<1>6. CASE RowsArrive \/ TimePasses \/ UNCHANGED vars
  BY <1>6 DEF RowsArrive, TimePasses, vars, EndIsFinal
<1>7. CASE Crash \/ Restart
  BY <1>7 DEF Crash, Restart, InitialRuntime, EndIsFinal
<1>8. QED
  BY <1>2, <1>3, <1>4, <1>5, <1>6, <1>7 DEF Next, BotStep

(* A run that has decided to end ends, whatever is due, waiting or to be   *)
(* retried when it gets to the router.                                     *)
THEOREM EndStaysFinal == Spec => []EndIsFinal
<1>1. Init => EndIsFinal
  BY DEF Init, InitialRuntime, EndIsFinal
<1>2. QED
  BY <1>1, EndIsKept, InvariantHolds, PTL DEF Spec
=============================================================================
