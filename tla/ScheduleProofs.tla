---------------------------- MODULE ScheduleProofs ----------------------------
(***************************************************************************)
(* RunsAreSpaced, DueRunIsInTime and LateRowsAreLimited for every interval,*)
(* wait and batch, however long the bot runs and however far the clock is  *)
(* set.                                                                    *)
(***************************************************************************)
EXTENDS Schedule, TLAPS

Types ==
    /\ interval \in Nat
    /\ clock \in Int /\ last_run_at \in Int
    /\ node \in {"route", "creator", "get_transaction", "end"} \cup Busy \cup Sleeping
    /\ asleep \in 0..WaitSeconds
    /\ run_count \in Nat /\ wait_count \in Nat
    /\ ticks \in Nat /\ since \in Nat /\ free \in Nat /\ forward \in Nat /\ back \in Nat

(* The clock shows the time since the last run and how it was set.         *)
ClockAddsUp == run_count > 0 => clock - last_run_at = since + forward - back

(* How long the bot has slept in n waits, and how long a run has been due. *)
Slept(n) == WaitSeconds * n
Overdue == since - interval - back

(* What DueRunIsInTime needs at each node, once a run has been made.       *)
OverdueFollowsNode ==
    /\ node = "working" => wait_count = 0 /\ free = 0
    /\ node = "transition_hub" => wait_count <= WaitLimit
    /\ interval # 0 /\ run_count > 0 =>
          /\ node = "get_transaction" =>
                Overdue < 0
                \/ (wait_count <= WaitLimit
                      /\ (Overdue <= Slept(wait_count) \/ free <= Slept(wait_count)))
          /\ node = "transition_hub" =>
                Overdue <= Slept(wait_count) - asleep \/ free <= Slept(wait_count) - asleep
          /\ node = "master_queue_wait" => Overdue < WaitSeconds - asleep
          /\ Overdue <= LongestSleep \/ free <= LongestSleep

ScheduleInvariant == Types /\ ClockAddsUp /\ OverdueFollowsNode

(* Arithmetic: another wait is WaitSeconds longer, and WaitLimit of them,  *)
(* or one, are no longer than LongestSleep.                                *)
LEMMA SleepsAddUp ==
    /\ LongestSleep \in Nat /\ WaitSeconds <= LongestSleep
    /\ \A n \in Nat : /\ Slept(n) \in Nat
                      /\ Slept(n + 1) = Slept(n) + WaitSeconds
                      /\ n <= WaitLimit => Slept(n) <= LongestSleep
<1>1. \A m \in Nat, n \in Nat : m <= n => WaitSeconds * m <= WaitSeconds * n
  <2> SUFFICES ASSUME NEW m \in Nat, NEW n \in Nat, m <= n
               PROVE  WaitSeconds * m <= WaitSeconds * n
    OBVIOUS
  <2>1. n - m \in Nat /\ WaitSeconds * n = WaitSeconds * m + WaitSeconds * (n - m)
    BY ScheduleAssumption
  <2>2. WaitSeconds * (n - m) \in Nat
    BY <2>1, ScheduleAssumption
  <2>3. WaitSeconds * m \in Nat
    BY ScheduleAssumption
  <2>4. QED
    BY <2>1, <2>2, <2>3
<1>2. PICK most \in Nat : /\ LongestSleep = WaitSeconds * most
                          /\ WaitLimit <= most /\ 1 <= most
  BY ScheduleAssumption DEF LongestSleep
<1>3. \A n \in Nat : WaitSeconds * n \in Nat /\ WaitSeconds * (n + 1) = WaitSeconds * n + WaitSeconds
  BY ScheduleAssumption
<1>4. WaitSeconds * 1 = WaitSeconds
  BY ScheduleAssumption
<1>5. WaitSeconds <= LongestSleep /\ LongestSleep \in Nat
  BY <1>1, <1>2, <1>3, <1>4
<1>6. \A n \in Nat : n <= WaitLimit => WaitSeconds * n <= LongestSleep
  BY <1>1, <1>2, ScheduleAssumption
<1>7. QED
  BY <1>3, <1>5, <1>6 DEF Slept

LEMMA InitEstablishesSchedule == Init => ScheduleInvariant
  BY ScheduleAssumption
  DEF Init, ScheduleInvariant, Types, ClockAddsUp, OverdueFollowsNode, Busy, Sleeping

(* A run that is not due is not overdue, whatever was done to the clock.   *)
LEMMA NotDueIsNotOverdue ==
    ASSUME ScheduleInvariant, ~ IsDue
    PROVE  run_count > 0 /\ (interval # 0 => Overdue < 0)
  BY DEF ScheduleInvariant, Types, ClockAddsUp, IsDue, Overdue

LEMMA TickKeeps == ScheduleInvariant /\ Tick => ScheduleInvariant'
<1> SUFFICES ASSUME ScheduleInvariant, Tick
             PROVE  ScheduleInvariant'
  OBVIOUS
<1>1. Types' /\ ClockAddsUp'
  BY ScheduleAssumption DEF ScheduleInvariant, Types, ClockAddsUp, Tick, Busy, Sleeping
<1>2. Overdue' = Overdue + 1 /\ Overdue \in Int /\ LongestSleep' = LongestSleep
  BY DEF ScheduleInvariant, Types, Tick, Overdue, LongestSleep
<1>3. Slept(wait_count) \in Nat /\ Slept(wait_count)' = Slept(wait_count)
  BY SleepsAddUp DEF ScheduleInvariant, Types, Tick, Slept
<1>4. CASE node \in Busy
  BY <1>1, <1>4, SleepsAddUp
  DEF ScheduleInvariant, Types, Tick, Busy, Sleeping, OverdueFollowsNode, LongestSleep
<1>5. CASE node = "transition_hub"
  <2>1. wait_count <= WaitLimit /\ Slept(wait_count) <= LongestSleep
    BY <1>5, SleepsAddUp DEF ScheduleInvariant, Types, OverdueFollowsNode
  <2>2. asleep' = asleep - 1 /\ free' = free + 1 /\ asleep > 0
    BY <1>5 DEF Tick, Busy, Sleeping
  <2>3. OverdueFollowsNode'
    BY <1>1, <1>2, <1>3, <1>5, <2>1, <2>2, SleepsAddUp
    DEF ScheduleInvariant, Types, Tick, OverdueFollowsNode
  <2>4. QED
    BY <1>1, <2>3 DEF ScheduleInvariant
<1>6. CASE node = "master_queue_wait"
  <2>1. asleep' = asleep - 1 /\ asleep > 0
    BY <1>6 DEF Tick, Busy, Sleeping
  <2>2. OverdueFollowsNode'
    BY <1>1, <1>2, <1>6, <2>1, SleepsAddUp, ScheduleAssumption
    DEF ScheduleInvariant, Types, Tick, OverdueFollowsNode
  <2>3. QED
    BY <1>1, <2>2 DEF ScheduleInvariant
<1>7. QED
  BY <1>4, <1>5, <1>6 DEF Tick, Sleeping

LEMMA SetClockKeeps == ScheduleInvariant /\ SetClock => ScheduleInvariant'
<1> SUFFICES ASSUME ScheduleInvariant, SetClock
             PROVE  ScheduleInvariant'
  OBVIOUS
<1>1. PICK by \in Int : /\ clock' = clock + by
                        /\ forward' = IF by > 0 THEN forward + by ELSE forward
                        /\ back' = IF by < 0 THEN back - by ELSE back
  BY ScheduleAssumption DEF SetClock
<1>2. UNCHANGED <<interval, node, asleep, run_count, last_run_at, wait_count, ticks, since, free>>
  BY DEF SetClock
<1>3. Types' /\ ClockAddsUp'
  BY <1>1, <1>2 DEF ScheduleInvariant, Types, ClockAddsUp
<1>4. Overdue' <= Overdue /\ Overdue \in Int /\ Overdue' \in Int
  BY <1>1, <1>2 DEF ScheduleInvariant, Types, Overdue
<1>5. LongestSleep' = LongestSleep /\ Slept(wait_count)' = Slept(wait_count)
  BY <1>2 DEF LongestSleep, Slept
<1>6. OverdueFollowsNode'
  BY <1>2, <1>4, <1>5, SleepsAddUp, ScheduleAssumption
  DEF ScheduleInvariant, Types, OverdueFollowsNode
<1>7. QED
  BY <1>3, <1>6 DEF ScheduleInvariant

(* What the nodes do in no time leaves the clock and the ghosts alone.     *)
LEMMA NoTimeKeepsClock ==
    ASSUME ScheduleInvariant, NoTime, UNCHANGED <<run_count, last_run_at>>
    PROVE  /\ ClockAddsUp'
           /\ Overdue' = Overdue /\ Overdue \in Int /\ LongestSleep' = LongestSleep
           /\ UNCHANGED <<interval, clock, ticks, since, free, forward, back>>
  BY DEF ScheduleInvariant, Types, ClockAddsUp, NoTime, ghostVars, Overdue, LongestSleep

(* A reset hook ends in no time of its own: Tick counts what it takes.     *)
LEMMA ExecutionInitKeeps == ScheduleInvariant /\ ExecutionInit => ScheduleInvariant'
<1> SUFFICES ASSUME ScheduleInvariant, ExecutionInit
             PROVE  ScheduleInvariant'
  OBVIOUS
<1>1. /\ NoTime /\ UNCHANGED <<run_count, last_run_at, wait_count>>
      /\ node' \in {"route", "end"} /\ asleep' = 0
  BY DEF ExecutionInit, Goto
<1>2. Types'
  BY <1>1, NoTimeKeepsClock, ScheduleAssumption DEF ScheduleInvariant, Types, Busy, Sleeping
<1>3. OverdueFollowsNode'
  BY <1>1, NoTimeKeepsClock DEF ScheduleInvariant, OverdueFollowsNode
<1>4. QED
  BY <1>1, <1>2, <1>3, NoTimeKeepsClock DEF ScheduleInvariant

LEMMA RouteKeeps == ScheduleInvariant /\ (Route \/ StartRun) => ScheduleInvariant'
<1> SUFFICES ASSUME ScheduleInvariant, Route \/ StartRun
             PROVE  ScheduleInvariant'
  OBVIOUS
<1>1. NoTime /\ UNCHANGED <<run_count, last_run_at, wait_count>>
  BY DEF Route, StartRun
<1>2. \/ node' \in {"creator", "creating", "end"} /\ asleep' = 0
      \/ node' = "get_transaction" /\ asleep' = 0 /\ ~ IsDue
      \/ node' = "master_queue_wait" /\ asleep' = WaitSeconds /\ ~ IsDue
  BY DEF Route, StartRun, Goto, Sleep
<1>3. Types'
  BY <1>1, <1>2, NoTimeKeepsClock, ScheduleAssumption DEF ScheduleInvariant, Types, Busy, Sleeping
<1>4. OverdueFollowsNode'
  BY <1>1, <1>2, NoTimeKeepsClock, NotDueIsNotOverdue, ScheduleAssumption
  DEF ScheduleInvariant, Types, OverdueFollowsNode
<1>5. QED
  BY <1>1, <1>3, <1>4, NoTimeKeepsClock DEF ScheduleInvariant

LEMMA CompleteRunKeeps == ScheduleInvariant /\ CompleteRun => ScheduleInvariant'
<1> SUFFICES ASSUME ScheduleInvariant, CompleteRun
             PROVE  ScheduleInvariant'
  OBVIOUS
<1>1. /\ node' = "get_transaction" /\ asleep' = 0
      /\ run_count' = run_count + 1 /\ last_run_at' = clock
      /\ since' = 0 /\ free' = 0 /\ forward' = 0 /\ back' = 0
      /\ UNCHANGED <<interval, clock, ticks, wait_count>>
  BY DEF CompleteRun, RecordRun, Goto
<1>2. Types' /\ ClockAddsUp'
  BY <1>1, ScheduleAssumption DEF ScheduleInvariant, Types, ClockAddsUp, Busy, Sleeping
<1>3. interval # 0 => Overdue' < 0
  BY <1>1 DEF ScheduleInvariant, Types, Overdue
<1>4. LongestSleep' = LongestSleep /\ LongestSleep \in Nat
  BY SleepsAddUp DEF LongestSleep
<1>5. OverdueFollowsNode'
  BY <1>1, <1>3, <1>4 DEF OverdueFollowsNode
<1>6. QED
  BY <1>2, <1>5 DEF ScheduleInvariant

LEMMA GetTransactionKeeps == ScheduleInvariant /\ GetTransaction => ScheduleInvariant'
<1> SUFFICES ASSUME ScheduleInvariant, GetTransaction
             PROVE  ScheduleInvariant'
  OBVIOUS
<1>1. UNCHANGED <<interval, clock, run_count, last_run_at, ticks, since, forward, back>>
      /\ node = "get_transaction"
  BY DEF GetTransaction
<1>2. ClockAddsUp' /\ Overdue' = Overdue /\ Overdue \in Int /\ LongestSleep' = LongestSleep
  BY <1>1 DEF ScheduleInvariant, Types, ClockAddsUp, Overdue, LongestSleep
<1>3. CASE node' = "working" /\ asleep' = 0 /\ wait_count' = 0 /\ free' = 0
  <2>1. Types'
    BY <1>1, <1>3, ScheduleAssumption DEF ScheduleInvariant, Types, Busy, Sleeping
  <2>2. OverdueFollowsNode'
    BY <1>1, <1>2, <1>3, SleepsAddUp DEF OverdueFollowsNode
  <2>3. QED
    BY <1>2, <2>1, <2>2 DEF ScheduleInvariant
<1>4. CASE node' = "execution_init" /\ asleep' = 0 /\ UNCHANGED <<wait_count, free>>
  <2>1. Types'
    BY <1>1, <1>4, ScheduleAssumption DEF ScheduleInvariant, Types, Busy, Sleeping
  <2>2. OverdueFollowsNode'
    BY <1>1, <1>2, <1>4 DEF ScheduleInvariant, OverdueFollowsNode
  <2>3. QED
    BY <1>2, <2>1, <2>2 DEF ScheduleInvariant
<1>5. CASE WaitForRows
  <2>1. /\ node' = "transition_hub" /\ asleep' = WaitSeconds
        /\ wait_count < WaitLimit /\ wait_count' = wait_count + 1 /\ free' = free
    BY <1>5 DEF WaitForRows, Sleep
  <2>2. Types'
    BY <1>1, <2>1, ScheduleAssumption DEF ScheduleInvariant, Types, Busy, Sleeping
  <2>3. Slept(wait_count)' = Slept(wait_count) + WaitSeconds /\ Slept(wait_count) \in Nat
    <3>1. Slept(wait_count)' = Slept(wait_count')
      BY DEF Slept
    <3>2. QED
      BY <2>1, <3>1, SleepsAddUp DEF ScheduleInvariant, Types
  <2>4. OverdueFollowsNode'
    BY <1>1, <1>2, <2>1, <2>3, ScheduleAssumption
    DEF ScheduleInvariant, Types, OverdueFollowsNode
  <2>5. QED
    BY <1>2, <2>2, <2>4 DEF ScheduleInvariant
<1>6. QED
  BY <1>3, <1>4, <1>5 DEF GetTransaction, Goto

LEMMA WakeKeeps ==
    ScheduleInvariant
    /\ (FailRun \/ FinishRow \/ RetryRow \/ WakeInHub \/ WakeInMasterWait)
        => ScheduleInvariant'
<1> SUFFICES ASSUME ScheduleInvariant,
                    FailRun \/ FinishRow \/ RetryRow \/ WakeInHub \/ WakeInMasterWait
             PROVE  ScheduleInvariant'
  OBVIOUS
<1>1. NoTime /\ UNCHANGED <<run_count, last_run_at>> /\ asleep' \in {0, asleep}
      /\ wait_count' \in {wait_count, wait_count + 1}
      /\ \/ node' \in {"end", "get_transaction", "route", "execution_init"} /\ asleep' = 0
         \/ node = "working" /\ UNCHANGED <<node, asleep, wait_count>>
  BY DEF FailRun, FinishRow, RetryRow, WakeInHub, WakeInMasterWait, Goto
<1>2. Types'
  BY <1>1, NoTimeKeepsClock, ScheduleAssumption DEF ScheduleInvariant, Types, Busy, Sleeping
<1>3. OverdueFollowsNode'
  <2>1. CASE node' # "get_transaction"
    BY <1>1, <2>1, NoTimeKeepsClock DEF ScheduleInvariant, OverdueFollowsNode
  <2>2. CASE node' = "get_transaction"
    <3>1. /\ UNCHANGED wait_count
          /\ node = "working" \/ (node = "transition_hub" /\ asleep = 0)
      BY <2>2 DEF FailRun, FinishRow, RetryRow, WakeInHub, WakeInMasterWait, Goto
    <3>2. Slept(wait_count)' = Slept(wait_count) /\ Slept(wait_count) \in Nat
      BY <3>1, SleepsAddUp DEF ScheduleInvariant, Types, Slept
    <3>3. QED
      BY <1>1, <2>2, <3>1, <3>2, NoTimeKeepsClock, ScheduleAssumption
      DEF ScheduleInvariant, Types, OverdueFollowsNode
  <2>3. QED
    BY <2>1, <2>2
<1>4. QED
  BY <1>1, <1>2, <1>3, NoTimeKeepsClock DEF ScheduleInvariant

(* The inductive invariant of the schedule.                                *)
THEOREM ScheduleInvariantHolds == Spec => []ScheduleInvariant
<1>1. ScheduleInvariant /\ [Next]_scheduleVars => ScheduleInvariant'
  <2> SUFFICES ASSUME ScheduleInvariant, [Next]_scheduleVars
               PROVE  ScheduleInvariant'
    OBVIOUS
  <2>1. CASE UNCHANGED scheduleVars
    BY <2>1
    DEF scheduleVars, ghostVars, ScheduleInvariant, Types, ClockAddsUp, OverdueFollowsNode,
        Overdue, Slept, LongestSleep
  <2>2. QED
    BY <2>1, TickKeeps, SetClockKeeps, ExecutionInitKeeps, RouteKeeps, CompleteRunKeeps,
       GetTransactionKeeps, WakeKeeps DEF Next
<1>2. QED
  BY InitEstablishesSchedule, <1>1, PTL DEF Spec

(* A due run is begun within the longest sleep, however long the bot runs. *)
THEOREM DueRunsAreInTime == Spec => []DueRunIsInTime
<1>1. ScheduleInvariant => DueRunIsInTime
  BY SleepsAddUp
  DEF ScheduleInvariant, Types, OverdueFollowsNode, Overdue, DueRunIsInTime
<1>2. QED
  BY ScheduleInvariantHolds, <1>1, PTL

(* Two runs are an interval apart, less what the clock was set forward.    *)
THEOREM RunsStaySpaced == Spec => RunsAreSpaced
<1>1. ASSUME ScheduleInvariant, [Next]_scheduleVars
      PROVE  [node # "creating" /\ node' = "creating" /\ run_count > 0
                 => interval # 0 /\ since >= interval - forward]_scheduleVars
  <2> SUFFICES ASSUME node # "creating", node' = "creating", run_count > 0
               PROVE  interval # 0 /\ since >= interval - forward
    OBVIOUS
  <2>1. IsDue
    BY <1>1
    DEF Next, Tick, SetClock, ExecutionInit, Route, StartRun, CompleteRun, FailRun,
        GetTransaction, WaitForRows, FinishRow, RetryRow, WakeInHub, WakeInMasterWait, Goto, Sleep, scheduleVars
  <2>2. QED
    BY <1>1, <2>1 DEF ScheduleInvariant, Types, ClockAddsUp, IsDue
<1>2. QED
  BY ScheduleInvariantHolds, <1>1, PTL DEF Spec, RunsAreSpaced

(* The rows a due run waits for are rows of one batch: the count of the    *)
(* session covers them, and is zero again wherever the clock is looked at. *)
LateFollowsCount ==
    /\ session_batch_count \in Nat /\ overdue \in Nat
    /\ BatchCount # 0 =>
          /\ node \in {"route", "creator", "creating", "master_queue_wait"} =>
                session_batch_count = 0
          /\ node \in {"get_transaction", "transition_hub"} =>
                overdue <= session_batch_count /\ session_batch_count < BatchCount
          /\ node = "working" =>
                overdue <= session_batch_count + 1 /\ session_batch_count < BatchCount
          /\ overdue <= BatchCount

(* One step per action: only fetching, finishing and retrying a row and    *)
(* the looks at the clock touch the count or the ghost.                    *)
LEMMA LateRowsStep ==
    ASSUME LateFollowsCount, [Next]_scheduleVars
    PROVE  LateFollowsCount'
<1> USE ScheduleAssumption DEF LateFollowsCount, Goto
<1>1. CASE UNCHANGED scheduleVars
  BY <1>1 DEF scheduleVars, rowVars
<1>2. CASE Tick \/ SetClock
  BY <1>2 DEF Tick, SetClock, rowVars
<1>3. CASE ExecutionInit
  BY <1>3 DEF ExecutionInit
<1>4. CASE Route \/ StartRun
  BY <1>4 DEF Route, StartRun, LookAtClock, Sleep
<1>5. CASE CompleteRun \/ FailRun
  BY <1>5 DEF CompleteRun, FailRun, rowVars
<1>6. CASE GetTransaction
  BY <1>6 DEF GetTransaction, WaitForRows, Sleep
<1>7. CASE FinishRow
  BY <1>7 DEF FinishRow, SessionBatchComplete
<1>8. CASE RetryRow
  BY <1>8 DEF RetryRow, rowVars
<1>9. CASE WakeInHub \/ WakeInMasterWait
  BY <1>9 DEF WakeInHub, WakeInMasterWait, rowVars
<1>10. QED
  BY <1>1, <1>2, <1>3, <1>4, <1>5, <1>6, <1>7, <1>8, <1>9 DEF Next

(* A due run waits for no more rows than a batch has, retries aside.       *)
THEOREM LateRowsStayLimited == Spec => []LateRowsAreLimited
<1>1. Init => LateFollowsCount
  BY ScheduleAssumption DEF Init, LateFollowsCount
<1>2. LateFollowsCount => LateRowsAreLimited
  BY DEF LateFollowsCount, LateRowsAreLimited
<1>3. QED
  BY <1>1, <1>2, LateRowsStep, PTL DEF Spec
=============================================================================
