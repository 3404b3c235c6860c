----------------------------- MODULE MasterQueue -----------------------------
(***************************************************************************)
(* create_master_queue of one or several master bots, statement by         *)
(* statement: inputs are inserted and committed one by one, then every     *)
(* input without a status gets its queue set, one row of tbl_queue per     *)
(* application and the mark on the input, in one transaction.  Statements  *)
(* fail, connections are lost at any moment, answers to a commit are lost, *)
(* processes die.  The database is MySQL: it drops what a lost connection  *)
(* had not committed, holds a lock on every row of tbl_input a transaction *)
(* has written, and rejects a second Input_Identifier.                     *)
(*                                                                         *)
(* Rows the load rejects before it reaches the database are left out.  An  *)
(* operator named _Faulty is a slip of the definition that follows it.     *)
(***************************************************************************)
EXTENDS Integers, Sequences, FiniteSets

CONSTANTS
    Inputs,      \* Input_Identifiers of the configured source
    AppList,     \* _extract_distinct_process_applications: Application IDs
    Masters,     \* processes with masterbot set
    NoInput,     \* no input is being worked on
    MaxFaults    \* bound: failed statements, lost connections, deaths

ASSUME MasterAssumption ==
    /\ NoInput \notin Inputs
    /\ Len(AppList) \in Nat \ {0}
    /\ \A j, k \in 1..Len(AppList) : AppList[j] = AppList[k] => j = k
    /\ MaxFaults \in Nat

VARIABLES
    input,       \* committed tbl_input: "absent", "new" (Status blank), "queued"
    rows,        \* committed tbl_queue: how many rows an input has per application
    pc,          \* where every master is
    conn,        \* its connection: "up", or "lost" and not yet noticed
    inTx,        \* the driver's cached in_transaction
    tx,          \* what its open transaction has written
    todo,        \* inputs of the current loop still to be handled
    cur,         \* the input being handled
    at,          \* index in AppList of the next queue row of cur
    summary,     \* inputs of queue_creation_summary: selected, queued, failed
    created,     \* ghost: inputs whose queue set this run has committed
    faults

dbVars == <<input, rows>>
connVars == <<conn, inTx, tx>>
loopVars == <<todo, cur, at, summary, created>>
masterVars == <<input, rows, pc, conn, inTx, tx, todo, cur, at, summary, created, faults>>

Apps == {AppList[j] : j \in 1..Len(AppList)}
NoChanges == [loads |-> {}, rows |-> {}, marks |-> {}]
NoSummary == [selected |-> {}, queued |-> {}, failed |-> {}]
Places == {"start", "load", "load_commit", "load_rollback",
           "set", "set_commit", "set_rollback", "done", "failed", "dead"}

Init ==
    /\ input = [i \in Inputs |-> "absent"]
    /\ rows = [p \in Inputs \X Apps |-> 0]
    /\ pc = [m \in Masters |-> "start"]
    /\ conn = [m \in Masters |-> "up"]
    /\ inTx = [m \in Masters |-> FALSE]
    /\ tx = [m \in Masters |-> NoChanges]
    /\ todo = [m \in Masters |-> Inputs]
    /\ cur = [m \in Masters |-> NoInput]
    /\ at = [m \in Masters |-> 1]
    /\ summary = [m \in Masters |-> NoSummary]
    /\ created = [m \in Masters |-> {}]
    /\ faults = 0
-----------------------------------------------------------------------------
(* ensure_database_connection before a cursor is made: a lost connection   *)
(* is replaced only outside a transaction.                                 *)
MayExecute_Faulty(m) == TRUE
MayExecute(m) == conn[m] = "up" \/ ~ inTx[m]

(* A statement that succeeds, adding to the open transaction.              *)
Execute(m, changes) ==
    /\ MayExecute(m)
    /\ conn' = [conn EXCEPT ![m] = "up"]
    /\ inTx' = [inTx EXCEPT ![m] = TRUE]
    /\ tx' = [tx EXCEPT ![m] = [loads |-> @.loads \cup changes.loads,
                                rows |-> @.rows \cup changes.rows,
                                marks |-> @.marks \cup changes.marks]]

(* The connection of a master is lost: the server rolls back, the driver   *)
(* still has its cached flag.                                              *)
Lose(m) ==
    /\ conn' = [conn EXCEPT ![m] = "lost"]
    /\ tx' = [tx EXCEPT ![m] = NoChanges]
    /\ UNCHANGED inTx

(* A statement that raises: the guard refuses it, or it fails by itself,   *)
(* with the connection or without.                                         *)
Raise(m) ==
    \/ ~ MayExecute(m) /\ UNCHANGED <<connVars, faults>>
    \/ /\ faults < MaxFaults /\ faults' = faults + 1
       /\ MayExecute(m)
       /\ \/ Lose(m)
          \/ conn' = [conn EXCEPT ![m] = "up"] /\ UNCHANGED <<inTx, tx>>

(* Another transaction has written row i of tbl_input.                     *)
IsLocked(m, i) == \E n \in Masters \ {m} : i \in tx[n].loads \cup tx[n].marks

Goto(m, label) == pc' = [pc EXCEPT ![m] = label]

(* What the database holds once the transaction of a master is committed.  *)
ApplyCommit(m) ==
    /\ input' = [i \in Inputs |-> IF i \in tx[m].marks THEN "queued"
                                  ELSE IF i \in tx[m].loads THEN "new" ELSE input[i]]
    /\ rows' = [p \in Inputs \X Apps |-> rows[p] + IF p \in tx[m].rows THEN 1 ELSE 0]
    /\ created' = [created EXCEPT ![m] = @ \cup tx[m].marks]

(* connection.commit(), which no guard precedes.                           *)
CommitSucceeds(m) ==
    /\ conn[m] = "up"
    /\ ApplyCommit(m)
    /\ inTx' = [inTx EXCEPT ![m] = FALSE]
    /\ tx' = [tx EXCEPT ![m] = NoChanges]
    /\ UNCHANGED conn

CommitRaises(m) ==
    \/ /\ conn[m] = "lost"
       /\ UNCHANGED <<dbVars, connVars, created, faults>>
    \/ /\ conn[m] = "up"
       /\ faults < MaxFaults /\ faults' = faults + 1
       /\ \/ ApplyCommit(m) /\ Lose(m)
          \/ UNCHANGED <<dbVars, created>> /\ Lose(m)
          \/ UNCHANGED <<dbVars, created, connVars>>
-----------------------------------------------------------------------------
(* What create_master_queue reads before it loads: the applications and    *)
(* the columns of tbl_input.  The read transaction stays open.             *)
PrepareRun(m) ==
    /\ pc[m] = "start"
    /\ \/ Execute(m, NoChanges) /\ Goto(m, "load") /\ UNCHANGED faults
       \/ Raise(m) /\ Goto(m, "failed")
    /\ UNCHANGED <<dbVars, loopVars>>

InsertInput_Faulty(m) ==
    /\ pc[m] = "load"
    /\ \E i \in todo[m] :
          /\ ~ IsLocked(m, i)
          /\ cur' = [cur EXCEPT ![m] = i]
          /\ \/ /\ input[i] = "absent"
                /\ Execute(m, [NoChanges EXCEPT !.loads = {i}])
                /\ Goto(m, "load_commit")
             \/ /\ input[i] # "absent"
                /\ Execute(m, NoChanges)
                /\ Goto(m, "failed")
    /\ UNCHANGED <<dbVars, todo, at, summary, created, faults>>

(* _insert_input_dataframe: one INSERT, a duplicate if the identifier is   *)
(* there already.                                                          *)
InsertInput(m) ==
    /\ pc[m] = "load"
    /\ \E i \in todo[m] :
          /\ ~ IsLocked(m, i)
          /\ cur' = [cur EXCEPT ![m] = i]
          /\ \/ /\ input[i] = "absent"
                /\ Execute(m, [NoChanges EXCEPT !.loads = {i}])
                /\ Goto(m, "load_commit")
             \/ /\ input[i] # "absent"
                /\ Execute(m, NoChanges)
                /\ Goto(m, "load_rollback")
    /\ UNCHANGED <<dbVars, todo, at, summary, created, faults>>

InsertRaises(m) ==
    /\ pc[m] = "load"
    /\ \E i \in todo[m] : cur' = [cur EXCEPT ![m] = i]
    /\ Raise(m)
    /\ Goto(m, "load_rollback")
    /\ UNCHANGED <<dbVars, todo, at, summary, created>>

CommitInput(m) ==
    /\ pc[m] = "load_commit"
    /\ \/ /\ CommitSucceeds(m)
          /\ todo' = [todo EXCEPT ![m] = @ \ {cur[m]}]
          /\ Goto(m, "load")
          /\ UNCHANGED faults
       \/ /\ CommitRaises(m)
          /\ Goto(m, "load_rollback")
          /\ UNCHANGED todo
    /\ UNCHANGED <<cur, at, summary>>

(* connection.rollback() of an except branch: on a lost connection it      *)
(* raises as well, out of the loop and out of create_master_queue's try.   *)
RollBack(m) ==
    /\ conn[m] = "up"
    /\ inTx' = [inTx EXCEPT ![m] = FALSE]
    /\ tx' = [tx EXCEPT ![m] = NoChanges]
    /\ UNCHANGED conn

RollBackInput(m) ==
    /\ pc[m] = "load_rollback"
    /\ \/ /\ RollBack(m)
          /\ todo' = [todo EXCEPT ![m] = @ \ {cur[m]}]
          /\ Goto(m, "load")
       \/ /\ conn[m] = "lost"
          /\ Goto(m, "failed")
          /\ UNCHANGED <<connVars, todo>>
    /\ UNCHANGED <<dbVars, cur, at, summary, created, faults>>

IsEligible(i) == input[i] = "new"

(* _select_eligible_inputs: read, materialise, end the read transaction.   *)
SelectInputs(m) ==
    /\ pc[m] = "load" /\ todo[m] = {}
    /\ MayExecute(m)
    /\ conn' = [conn EXCEPT ![m] = "up"]
    /\ inTx' = [inTx EXCEPT ![m] = FALSE]
    /\ LET eligible == {i \in Inputs : IsEligible(i)}
       IN  /\ todo' = [todo EXCEPT ![m] = eligible]
           /\ summary' = [summary EXCEPT ![m] = [NoSummary EXCEPT !.selected = eligible]]
    /\ at' = [at EXCEPT ![m] = 1]
    /\ Goto(m, "set")
    /\ UNCHANGED <<dbVars, tx, cur, created, faults>>

SelectRaises(m) ==
    /\ pc[m] = "load" /\ todo[m] = {}
    /\ Raise(m)
    /\ Goto(m, "failed")
    /\ UNCHANGED <<dbVars, loopVars>>
-----------------------------------------------------------------------------
(* _create_queue_set_for_input: the rows of tbl_queue, application by      *)
(* application.  Inputs come in the order of their IDs, which is the order *)
(* in which the masters happened to insert them: any order.                *)
InsertQueueRow(m) ==
    /\ pc[m] = "set" /\ at[m] <= Len(AppList)
    /\ \E i \in todo[m] :
          /\ at[m] = 1 \/ i = cur[m]
          /\ cur' = [cur EXCEPT ![m] = i]
          /\ Execute(m, [NoChanges EXCEPT !.rows = {<<i, AppList[at[m]]>>}])
    /\ at' = [at EXCEPT ![m] = @ + 1]
    /\ UNCHANGED <<dbVars, pc, todo, summary, created, faults>>

MarkQueueCreated_Faulty(m) ==
    /\ pc[m] = "set" /\ at[m] > Len(AppList)
    /\ ~ IsLocked(m, cur[m])
    /\ Execute(m, [NoChanges EXCEPT !.marks = {cur[m]}])
    /\ Goto(m, "set_commit")
    /\ UNCHANGED <<dbVars, loopVars, faults>>

(* mark_input_queue_created waits for the row lock and updates the input   *)
(* only if its Status is still blank; another row count is an error.       *)
MarkQueueCreated(m) ==
    /\ pc[m] = "set" /\ at[m] > Len(AppList)
    /\ ~ IsLocked(m, cur[m])
    /\ \/ /\ IsEligible(cur[m])
          /\ Execute(m, [NoChanges EXCEPT !.marks = {cur[m]}])
          /\ Goto(m, "set_commit")
       \/ /\ ~ IsEligible(cur[m])
          /\ Execute(m, NoChanges)
          /\ Goto(m, "set_rollback")
    /\ UNCHANGED <<dbVars, loopVars, faults>>

QueueSetRaises(m) ==
    /\ pc[m] = "set" /\ todo[m] # {}
    /\ \E i \in todo[m] :
          /\ at[m] = 1 \/ i = cur[m]
          /\ cur' = [cur EXCEPT ![m] = i]
    /\ Raise(m)
    /\ Goto(m, "set_rollback")
    /\ UNCHANGED <<dbVars, todo, at, summary, created>>

Handled_Faulty(m, key) ==
    /\ summary' = [summary EXCEPT ![m][key] = @ \cup {cur[m]}]
    /\ todo' = [todo EXCEPT ![m] = @ \ {cur[m]}]
    /\ UNCHANGED at
    /\ Goto(m, "set")

(* The loop of _create_queues_for_eligible_inputs goes on to another input.*)
Handled(m, key) ==
    /\ summary' = [summary EXCEPT ![m][key] = @ \cup {cur[m]}]
    /\ todo' = [todo EXCEPT ![m] = @ \ {cur[m]}]
    /\ at' = [at EXCEPT ![m] = 1]
    /\ Goto(m, "set")

CommitQueueSet_Faulty(m) ==
    /\ pc[m] = "set_commit"
    /\ \/ CommitSucceeds(m) /\ UNCHANGED faults
       \/ CommitRaises(m)
    /\ Handled(m, "queued")
    /\ UNCHANGED cur

CommitQueueSet(m) ==
    /\ pc[m] = "set_commit"
    /\ \/ /\ CommitSucceeds(m)
          /\ Handled(m, "queued")
          /\ UNCHANGED faults
       \/ /\ CommitRaises(m)
          /\ Goto(m, "set_rollback")
          /\ UNCHANGED <<todo, at, summary>>
    /\ UNCHANGED cur

RollBackQueueSet(m) ==
    /\ pc[m] = "set_rollback"
    /\ \/ /\ RollBack(m)
          /\ Handled(m, "failed")
       \/ /\ conn[m] = "lost"
          /\ Goto(m, "failed")
          /\ UNCHANGED <<connVars, todo, at, summary>>
    /\ UNCHANGED <<dbVars, cur, created, faults>>

(* The summaries are stored and the run is recorded.                       *)
FinishRun(m) ==
    /\ pc[m] = "set" /\ todo[m] = {}
    /\ Goto(m, "done")
    /\ UNCHANGED <<dbVars, connVars, loopVars, faults>>

(* The next run of a periodic master, or of a process that was started     *)
(* again after a failed run or a death; a new process has a new connection.*)
StartRun(m) ==
    /\ pc[m] \in {"done", "failed", "dead"}
    /\ Goto(m, "start")
    /\ IF pc[m] = "done"
       THEN UNCHANGED connVars
       ELSE /\ conn' = [conn EXCEPT ![m] = "up"]
            /\ inTx' = [inTx EXCEPT ![m] = FALSE]
            /\ tx' = [tx EXCEPT ![m] = NoChanges]
    /\ todo' = [todo EXCEPT ![m] = Inputs]
    /\ cur' = [cur EXCEPT ![m] = NoInput]
    /\ at' = [at EXCEPT ![m] = 1]
    /\ summary' = [summary EXCEPT ![m] = NoSummary]
    /\ created' = [created EXCEPT ![m] = {}]
    /\ UNCHANGED <<dbVars, faults>>
-----------------------------------------------------------------------------
(* The server closes a connection, unnoticed until it is used.             *)
Disconnect(m) ==
    /\ conn[m] = "up" /\ pc[m] # "dead"
    /\ faults < MaxFaults /\ faults' = faults + 1
    /\ Lose(m)
    /\ UNCHANGED <<dbVars, pc, loopVars>>

Die(m) ==
    /\ pc[m] # "dead"
    /\ faults < MaxFaults /\ faults' = faults + 1
    /\ Lose(m)
    /\ Goto(m, "dead")
    /\ UNCHANGED <<dbVars, loopVars>>

MasterStep(m) ==
    \/ PrepareRun(m)
    \/ InsertInput(m) \/ InsertRaises(m) \/ CommitInput(m) \/ RollBackInput(m)
    \/ SelectInputs(m) \/ SelectRaises(m)
    \/ InsertQueueRow(m) \/ MarkQueueCreated(m) \/ QueueSetRaises(m)
    \/ CommitQueueSet(m) \/ RollBackQueueSet(m) \/ FinishRun(m)
    \/ StartRun(m)

Next == \E m \in Masters : MasterStep(m) \/ Disconnect(m) \/ Die(m)

Spec == Init /\ [][Next]_masterVars
FairSpec == Spec /\ \A m \in Masters : WF_masterVars(MasterStep(m))
-----------------------------------------------------------------------------
(* Every variable keeps its type, and a queue set that has been begun is   *)
(* that of an input still to be handled.                                   *)
TypeOK ==
    /\ input \in [Inputs -> {"absent", "new", "queued"}]
    /\ rows \in [Inputs \X Apps -> Nat]
    /\ pc \in [Masters -> Places]
    /\ conn \in [Masters -> {"up", "lost"}]
    /\ inTx \in [Masters -> BOOLEAN]
    /\ tx \in [Masters -> [loads : SUBSET Inputs, rows : SUBSET (Inputs \X Apps),
                           marks : SUBSET Inputs]]
    /\ todo \in [Masters -> SUBSET Inputs]
    /\ cur \in [Masters -> Inputs \cup {NoInput}]
    /\ at \in [Masters -> 1..(Len(AppList) + 1)]
    /\ summary \in [Masters -> [selected : SUBSET Inputs, queued : SUBSET Inputs,
                                failed : SUBSET Inputs]]
    /\ created \in [Masters -> SUBSET Inputs]
    /\ faults \in Nat
    /\ \A m \in Masters : pc[m] = "set" /\ at[m] > 1 => cur[m] \in todo[m]

(* Orqflow_Requirement.md section 9.2: an input has its complete queue set *)
(* and its mark, or neither, and has it once, whichever statements fail,   *)
(* connections are lost, answers to a commit go missing or masters race.   *)
QueueSetsAreComplete ==
    \A i \in Inputs, a \in Apps : rows[<<i, a>>] = IF input[i] = "queued" THEN 1 ELSE 0

(* However statements of several masters interleave and fail, the tables   *)
(* change only as QueueSets says: an input loaded once, its queue set and  *)
(* its mark in one step, and never taken back.                             *)
Sets == INSTANCE QueueSets
ImplementsQueueSets == Sets!SetsSpec

(* The summary a completed run stores is what it did: what it reports as   *)
(* queued it has committed, what it reports as failed it has not, and it   *)
(* has handled everything it selected.                                     *)
SummaryIsTrue ==
    \A m \in Masters : pc[m] = "done" =>
        /\ summary[m].queued = created[m]
        /\ summary[m].failed \cap created[m] = {}
        /\ summary[m].queued \cup summary[m].failed = summary[m].selected

(* Runs that are repeated bring every input of the source into the queue:  *)
(* no fault leaves one behind for good, no two masters block each other.   *)
EveryInputIsQueued == \A i \in Inputs : <>(input[i] = "queued")

(* docs/excel_master_queue_plan.md:126: "If any queue insert or the input  *)
(* update fails, roll back that input's complete queue set, leave it       *)
(* eligible for retry, record the failure, and continue with later         *)
(* inputs": a failing input does not end the run.                          *)
QueueSetFailureIsRecorded ==
    \A m \in Masters : pc[m] = "failed" /\ summary[m].selected # {}
        => cur[m] \in summary[m].failed
=============================================================================
