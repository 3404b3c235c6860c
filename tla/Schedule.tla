------------------------------- MODULE Schedule -------------------------------
(***************************************************************************)
(* When a masterbot populates the queue: master_queue_interval_hours       *)
(* against the wall clock, which Scheduler abstracts to the flag masterDue.*)
(* The clock is looked at where execution_init routes, and by the creator  *)
(* itself; in between the bot works on the rows of a session, runs the     *)
(* project's reset hook or sleeps.  time.sleep counts real time,           *)
(* datetime.now reads a clock that may be set in the meantime.             *)
(*                                                                         *)
(* A tick is a unit of wait_seconds and of the interval.                   *)
(***************************************************************************)
EXTENDS Integers, FiniteSets

CONSTANTS
    Intervals,    \* master_queue_interval_hours in ticks, 0 when blank or zero
    WaitSeconds,  \* execution_config.wait_seconds in ticks
    WaitLimit,    \* execution_config.wait_limit, 0 when wait_enabled is false
    BatchCount,   \* the largest BatchCount of the steps, 0 when one has none
    MaxTicks,     \* bound: ticks until time stands still
    MaxSet        \* bound: ticks by which the clock is set in all

ASSUME ScheduleAssumption ==
    /\ Intervals \subseteq Nat /\ WaitSeconds \in Nat \ {0} /\ WaitLimit \in Nat
    /\ BatchCount \in Nat
    /\ MaxTicks \in Nat /\ MaxSet \in Nat

VARIABLES
    interval,     \* the configured one
    clock,        \* datetime.now
    node,         \* the node that runs or sleeps
    asleep,       \* ticks until time.sleep returns
    run_count,    \* runtime_config.master_queue_run_count
    last_run_at,  \* runtime_config.master_queue_last_run_at
    wait_count,   \* runtime_config.wait_count
    session_batch_count,  \* runtime_config.session_batch_count
    ticks,        \* ghost: real time since the start
    since,        \* ghost: real time since the last run was completed
    free,         \* ghost: real time since the bot last worked or ran
    forward,      \* ghost: how far the clock was set forward since that run
    back,         \* ghost: how far it was set back
    overdue       \* ghost: rows fetched one after the other while a run was
                  \* due, since it was made or a row retried

ghostVars == <<ticks, since, free, forward, back>>
rowVars == <<session_batch_count, overdue>>
scheduleVars == <<interval, clock, node, asleep, run_count, last_run_at, wait_count,
                  ghostVars, rowVars>>

Init ==
    /\ interval \in Intervals
    /\ clock = 0 /\ node = "route" /\ asleep = 0
    /\ run_count = 0 /\ last_run_at = 0 /\ wait_count = 0
    /\ ticks = 0 /\ since = 0 /\ free = 0 /\ forward = 0 /\ back = 0
    /\ session_batch_count = 0 /\ overdue = 0
-----------------------------------------------------------------------------
(* is_master_queue_due                                                     *)
IsDue_Faulty == run_count = 0 \/ clock >= last_run_at + interval
IsDue == run_count = 0 \/ (interval # 0 /\ clock >= last_run_at + interval)

Busy == {"creating", "working", "execution_init"}
Sleeping == {"transition_hub", "master_queue_wait"}

(* Time passes while the bot works on a row, runs a hook, populates the    *)
(* queue or sleeps.                                                        *)
Tick ==
    /\ ticks < MaxTicks /\ ticks' = ticks + 1
    /\ node \in Busy \/ (node \in Sleeping /\ asleep > 0)
    /\ clock' = clock + 1
    /\ since' = since + 1
    /\ asleep' = IF node \in Sleeping THEN asleep - 1 ELSE asleep
    /\ free' = IF node \in Busy THEN 0 ELSE free + 1
    /\ UNCHANGED <<interval, node, run_count, last_run_at, wait_count, forward, back>>
    /\ UNCHANGED rowVars

(* Somebody, or the time service, sets the clock of the machine.           *)
SetClock ==
    /\ \E by \in -MaxSet..MaxSet \ {0} :
          /\ forward + back + (IF by > 0 THEN by ELSE -by) <= MaxSet
          /\ clock' = clock + by
          /\ forward' = IF by > 0 THEN forward + by ELSE forward
          /\ back' = IF by < 0 THEN back - by ELSE back
    /\ UNCHANGED <<interval, node, asleep, run_count, last_run_at, wait_count, ticks, since, free>>
    /\ UNCHANGED rowVars

Goto(n) == node' = n /\ asleep' = 0
Sleep(n) == node' = n /\ asleep' = WaitSeconds
NoTime == UNCHANGED <<interval, clock, ghostVars>>

(* The ghost of a look at the clock: a run found due stays overdue.        *)
LookAtClock ==
    /\ overdue' = IF IsDue THEN overdue ELSE 0
    /\ UNCHANGED session_batch_count

(* execution_init after a session: the reset hook of its application may   *)
(* take any time, or raise, which ends the process; the next step begins.  *)
ExecutionInit ==
    /\ node = "execution_init"
    /\ \/ Goto("route") /\ session_batch_count' = 0
       \/ Goto("end") /\ UNCHANGED session_batch_count
    /\ UNCHANGED <<run_count, last_run_at, wait_count, overdue>> /\ NoTime

(* route_after_execution_init: eligible rows are there or not.             *)
Route ==
    /\ node = "route"
    /\ \/ IsDue /\ Goto("creator")
       \/ ~ IsDue /\ Goto("get_transaction")
       \/ ~ IsDue /\ interval # 0 /\ Sleep("master_queue_wait")
       \/ ~ IsDue /\ interval = 0 /\ Goto("end")
    /\ LookAtClock
    /\ UNCHANGED <<run_count, last_run_at, wait_count>> /\ NoTime

(* create_master_queue asks the clock again.                               *)
StartRun ==
    /\ node = "creator"
    /\ IF IsDue THEN Goto("creating") ELSE Goto("get_transaction")
    /\ LookAtClock
    /\ UNCHANGED <<run_count, last_run_at, wait_count>> /\ NoTime

(* record_master_queue_run: the interval counts from the end of a run.     *)
RecordRun_Faulty ==
    /\ run_count' = run_count + 1
    /\ last_run_at' = IF run_count = 0 THEN clock ELSE last_run_at + interval
RecordRun ==
    /\ run_count' = run_count + 1
    /\ last_run_at' = clock
CompleteRun ==
    /\ node = "creating"
    /\ RecordRun
    /\ Goto("get_transaction")
    /\ since' = 0 /\ free' = 0 /\ forward' = 0 /\ back' = 0
    /\ overdue' = 0
    /\ UNCHANGED <<interval, clock, ticks, wait_count, session_batch_count>>
FailRun ==
    /\ node = "creating"
    /\ Goto("end")
    /\ UNCHANGED <<run_count, last_run_at, wait_count, rowVars>> /\ NoTime

(* get_transaction fetches a row, which is worked on, or nothing; then the *)
(* transition hub waits for rows WaitLimit times, or ends the session, or  *)
(* switches to an application that has rows.                               *)
WaitForRows_Faulty ==
    /\ wait_count < WaitLimit
    /\ Sleep("transition_hub") /\ UNCHANGED <<wait_count, free>>
WaitForRows ==
    /\ wait_count < WaitLimit
    /\ Sleep("transition_hub") /\ wait_count' = wait_count + 1
    /\ UNCHANGED free
GetTransaction ==
    /\ node = "get_transaction"
    /\ \/ /\ Goto("working") /\ wait_count' = 0 /\ free' = 0
          /\ overdue' = IF IsDue THEN overdue + 1 ELSE 0
       \/ Goto("execution_init") /\ UNCHANGED <<wait_count, free, overdue>>
       \/ WaitForRows /\ UNCHANGED overdue
    /\ UNCHANGED <<interval, clock, run_count, last_run_at, ticks, since, forward, back,
                   session_batch_count>>

(* The row is finished: the session goes on unless it is complete, or ends *)
(* before, at a smaller limit of its step or when project code asks for a  *)
(* switch.                                                                 *)
SessionBatchComplete_Faulty == BatchCount # 0 /\ session_batch_count > BatchCount
SessionBatchComplete == BatchCount # 0 /\ session_batch_count >= BatchCount
FinishRow ==
    /\ node = "working"
    /\ session_batch_count' = session_batch_count + 1
    /\ \/ ~ SessionBatchComplete' /\ Goto("get_transaction")
       \/ Goto("execution_init")
    /\ UNCHANGED <<run_count, last_run_at, wait_count, overdue>> /\ NoTime

(* The row has failed and is retried: execution_init resets the session's  *)
(* application and count and routes to the login, whatever the clock shows.*)
RetryRow ==
    /\ node = "working"
    /\ \/ session_batch_count' = 0 /\ overdue' = 0 /\ UNCHANGED <<node, asleep>>
       \/ Goto("end") /\ UNCHANGED rowVars
    /\ UNCHANGED <<run_count, last_run_at, wait_count>> /\ NoTime

WakeInHub ==
    /\ node = "transition_hub" /\ asleep = 0
    /\ Goto("get_transaction")
    /\ UNCHANGED <<run_count, last_run_at, wait_count, rowVars>> /\ NoTime

(* wait_for_master_queue_schedule goes back through execution_init, which  *)
(* calls no hook for a refresh.                                            *)
WakeInMasterWait ==
    /\ node = "master_queue_wait" /\ asleep = 0
    /\ Goto("route")
    /\ wait_count' = wait_count + 1
    /\ UNCHANGED <<run_count, last_run_at, rowVars>> /\ NoTime

Next ==
    \/ Tick \/ SetClock
    \/ ExecutionInit \/ Route \/ StartRun \/ CompleteRun \/ FailRun
    \/ GetTransaction \/ FinishRow \/ RetryRow \/ WakeInHub \/ WakeInMasterWait

Spec == Init /\ [][Next]_scheduleVars
-----------------------------------------------------------------------------
(* docs/excel_master_queue_plan.md:140: without an interval there is one   *)
(* successful run; with one, and however long runs take and whoever sets   *)
(* the clock, a run begins no earlier than the interval after the end of   *)
(* the last, less what the clock was set forward in between.               *)
RunsAreSpaced ==
    [][node # "creating" /\ node' = "creating" /\ run_count > 0
          => interval # 0 /\ since >= interval - forward]_scheduleVars

(* docs/excel_master_queue_plan.md:20, 24: a bot that neither works nor    *)
(* ran for so long begins a run that is due, more than the interval after  *)
(* the last and what the clock was set back, within the longest it sleeps  *)
(* without a look at the clock: its master wait, or all the waits for rows *)
(* between two fetched rows, which share wait_count.  Rows, runs and reset *)
(* hooks are work, and take as long as they take.                          *)
LongestSleep == WaitSeconds * (IF WaitLimit > 1 THEN WaitLimit ELSE 1)
DueRunIsInTime ==
    interval # 0 /\ run_count > 0 =>
        since <= interval + back + LongestSleep \/ free <= LongestSleep

(* docs/excel_master_queue_plan.md:20: a run that is due is kept waiting by*)
(* at most BatchCount rows, taken together over all sessions until the run *)
(* is made, where every step has a BatchCount, except that a retry begins  *)
(* the count again (execution_init_runtime.py:44).  Without a BatchCount,  *)
(* or with retries in every batch, nothing bounds the rows a due run waits *)
(* for: a session goes on as long as its application has any.              *)
LateRowsAreLimited == interval # 0 /\ BatchCount # 0 => overdue <= BatchCount
=============================================================================
