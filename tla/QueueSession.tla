---------------------------- MODULE QueueSession -----------------------------
(***************************************************************************)
(* The bots of BotFleet with the database connection each of them has for  *)
(* its whole life, statement by statement: fetch_next selects, and either  *)
(* ends the read with a commit or updates and commits; _mark_final updates *)
(* and commits; has_eligible_transactions selects and commits.  Before     *)
(* each statement ensure_database_connection validates the connection,     *)
(* for both backends.  Any statement, commit or connection may fail, a     *)
(* commit may be applied although it raises, and no failure is answered:   *)
(* the process comes to its end, through the node END or uncaught.         *)
(*                                                                         *)
(* What an UPDATE has written is visible to the others, and to BotFleet,   *)
(* with its commit; until then it holds a lock on the row in MySQL, on the *)
(* whole file in SQLite.                                                   *)
(***************************************************************************)
EXTENDS Integers

CONSTANTS
    Rows, AppOf, Bots, AppsOf, NoRow, NoBot    \* as in BotFleet

ASSUME SessionAssumption ==
    /\ Rows \subseteq Nat
    /\ NoRow \notin Rows
    /\ NoBot \notin Bots

VARIABLES
    backend,     \* queue_database.type of the project: "mysql" or "sqlite"
    status,      \* committed Processing_Status
    botName,     \* committed Bot_Name
    pc,          \* where every bot is in its handling of a row
    txn,         \* the row it has selected or holds
    raised,      \* an exception has been raised: the process only ends
    conn,        \* its connection: "none", "up", or "lost" and not yet noticed
    inTx,        \* in_transaction of its connection
    pending      \* the status its open transaction has written, or "none"

tableVars == <<status, botName>>
connVars == <<conn, inTx, pending>>
sessionVars == <<backend, status, botName, pc, txn, raised, conn, inTx, pending>>

FinalStatuses == {"success", "skipped", "failed"}
Statuses == {"absent", "eligible", "in_progress"} \cup FinalStatuses
Places == {"idle", "empty", "selected", "claimed", "working", "finished",
           "look", "looked", "waiting", "down"}

(* For BotFleet an UPDATE takes place when it is committed.                *)
FleetPlace(place) ==
    CASE place \in {"selected", "claimed"} -> "selected"
      [] place \in {"working", "finished"} -> "working"
      [] place = "down"                    -> "down"
      [] OTHER                             -> "idle"
Fleet == INSTANCE BotFleet WITH pc <- [b \in Bots |-> FleetPlace(pc[b])]

Init ==
    /\ backend \in {"mysql", "sqlite"}
    /\ status = [r \in Rows |-> "absent"]
    /\ botName = [r \in Rows |-> NoBot]
    /\ pc = [b \in Bots |-> "idle"]
    /\ txn = [b \in Bots |-> NoRow]
    /\ raised = [b \in Bots |-> FALSE]
    /\ conn = [b \in Bots |-> "up"]
    /\ inTx = [b \in Bots |-> FALSE]
    /\ pending = [b \in Bots |-> "none"]
-----------------------------------------------------------------------------
(* ensure_database_connection: MySQL replaces a lost connection outside a  *)
(* transaction, SQLite never opens its file again.                         *)
MayExecute(b) == conn[b] = "up" \/ (backend = "mysql" /\ ~ inTx[b])

(* MySQL opens a transaction for a read as well, Python's sqlite3 for a    *)
(* change only.                                                            *)
OpensTransaction(change) == backend = "mysql" \/ change # "none"

(* A statement that succeeds.                                              *)
Execute(b, change) ==
    /\ ~ raised[b]
    /\ MayExecute(b)
    /\ conn' = [conn EXCEPT ![b] = "up"]
    /\ inTx' = [inTx EXCEPT ![b] = @ \/ OpensTransaction(change)]
    /\ pending' = [pending EXCEPT ![b] = change]

(* The connection is gone, and with it what was not committed; the driver  *)
(* still has its cached flag.                                              *)
Lose(b) ==
    /\ conn' = [conn EXCEPT ![b] = "lost"]
    /\ pending' = [pending EXCEPT ![b] = "none"]
    /\ UNCHANGED inTx

(* A statement that raises: the guard refuses it, the reconnect fails, it  *)
(* waits for a lock too long or fails by itself.                           *)
Raise(b) ==
    /\ ~ raised[b]
    /\ raised' = [raised EXCEPT ![b] = TRUE]
    /\ Lose(b) \/ UNCHANGED connVars

(* What another transaction has written and not committed.                 *)
IsLocked(b) ==
    \E c \in Bots \ {b} : pending[c] # "none" /\ (backend = "mysql" => txn[c] = txn[b])

(* connection.commit(), which no guard precedes.                           *)
Commit(b) ==
    /\ ~ raised[b]
    /\ conn[b] = "up"
    /\ inTx' = [inTx EXCEPT ![b] = FALSE]
    /\ pending' = [pending EXCEPT ![b] = "none"]
    /\ UNCHANGED <<raised, conn>>

(* It has been applied, but its answer has not come back.                  *)
CommitUnanswered(b) ==
    /\ ~ raised[b]
    /\ conn[b] = "up"
    /\ raised' = [raised EXCEPT ![b] = TRUE]
    /\ Lose(b)
-----------------------------------------------------------------------------
Goto(b, place) == pc' = [pc EXCEPT ![b] = place]

(* Any statement or commit of a bot raises, with nothing applied.          *)
StatementRaises(b) ==
    /\ pc[b] \in {"idle", "empty", "selected", "claimed", "working", "finished",
                  "look", "looked"}
    /\ Raise(b)
    /\ UNCHANGED <<tableVars, pc, txn>>

(* fetch_next: the SELECT finds a row or none.                             *)
SelectNext(b) ==
    /\ pc[b] = "idle"
    /\ \E app \in AppsOf[b] :
          \/ \E r \in Rows : /\ Fleet!IsNext(r, app)
                             /\ txn' = [txn EXCEPT ![b] = r]
                             /\ Goto(b, "selected")
          \/ /\ \A r \in Rows : AppOf[r] = app => ~ Fleet!Fetchable(r)
             /\ Goto(b, "empty")
             /\ UNCHANGED txn
    /\ Execute(b, "none")
    /\ UNCHANGED <<tableVars, raised>>

CommitEmpty_Faulty(b) ==
    /\ pc[b] = "empty" /\ ~ raised[b]
    /\ Goto(b, "look")
    /\ UNCHANGED <<tableVars, connVars, txn, raised>>

(* Nothing to do: the read ends before the bot may wait.                   *)
CommitEmpty(b) ==
    /\ pc[b] = "empty"
    /\ Commit(b)
    /\ Goto(b, "look")
    /\ UNCHANGED <<tableVars, txn>>

UpdateInProgress(b) ==
    /\ pc[b] = "selected"
    /\ ~ IsLocked(b)
    /\ Execute(b, "in_progress")
    /\ Goto(b, "claimed")
    /\ UNCHANGED <<tableVars, txn, raised>>

Claimed(b) ==
    /\ status' = [status EXCEPT ![txn[b]] = pending[b]]
    /\ botName' = [botName EXCEPT ![txn[b]] = b]
    /\ Goto(b, "working")
    /\ UNCHANGED txn

CommitClaim(b) ==
    /\ pc[b] = "claimed"
    /\ Commit(b) \/ CommitUnanswered(b)
    /\ Claimed(b)

(* Login, processing and retries take as long as they take; then the row   *)
(* is marked final.                                                        *)
UpdateFinal(b) ==
    /\ pc[b] = "working"
    /\ ~ IsLocked(b)
    /\ \E outcome \in FinalStatuses : Execute(b, outcome)
    /\ Goto(b, "finished")
    /\ UNCHANGED <<tableVars, txn, raised>>

CommitFinal_Faulty(b) ==
    /\ pc[b] = "finished"
    /\ \/ Commit(b) /\ status' = [status EXCEPT ![txn[b]] = pending[b]]
       \/ ~ raised[b] /\ Lose(b) /\ UNCHANGED <<status, raised>>
    /\ txn' = [txn EXCEPT ![b] = NoRow]
    /\ Goto(b, "idle")
    /\ UNCHANGED botName

CommitFinal_FaultyHeld(b) ==
    /\ pc[b] = "finished"
    /\ Commit(b) \/ CommitUnanswered(b)
    /\ status' = [status EXCEPT ![txn[b]] = pending[b]]
    /\ Goto(b, "idle")
    /\ UNCHANGED <<botName, txn>>

CommitFinal(b) ==
    /\ pc[b] = "finished"
    /\ Commit(b) \/ CommitUnanswered(b)
    /\ status' = [status EXCEPT ![txn[b]] = pending[b]]
    /\ txn' = [txn EXCEPT ![b] = NoRow]
    /\ Goto(b, "idle")
    /\ UNCHANGED botName

(* has_eligible_transactions: the hub's question after an empty fetch, and *)
(* the router's after the hub's, after a final mark that completes the     *)
(* session, or after a wait.                                               *)
Look(b) ==
    /\ pc[b] \in {"idle", "look"}
    /\ Execute(b, "none")
    /\ Goto(b, "looked")
    /\ UNCHANGED <<tableVars, txn, raised>>

(* What the answer leads to is Scheduler's subject: another fetch, the     *)
(* router's question after the hub's, a sleep, or the end.                 *)
CommitLook(b) ==
    /\ pc[b] = "looked"
    /\ Commit(b)
    /\ \E place \in {"idle", "look", "waiting"} : Goto(b, place)
    /\ UNCHANGED <<tableVars, txn>>

Wake(b) ==
    /\ pc[b] = "waiting"
    /\ Goto(b, "idle")
    /\ UNCHANGED <<tableVars, connVars, txn, raised>>

(* A process ends: it has nothing left to do, has raised, or is killed.    *)
(* Its connection is closed, by END or by the system, without a commit.    *)
ProcessEnds(b) ==
    /\ pc[b] # "down"
    /\ Goto(b, "down")
    /\ txn' = [txn EXCEPT ![b] = NoRow]
    /\ raised' = [raised EXCEPT ![b] = FALSE]
    /\ conn' = [conn EXCEPT ![b] = "none"]
    /\ inTx' = [inTx EXCEPT ![b] = FALSE]
    /\ pending' = [pending EXCEPT ![b] = "none"]
    /\ UNCHANGED tableVars

(* initialize_queue_db_adapter has no connection yet and makes one; where  *)
(* that fails the run ends at once, as if it had not been started.         *)
ProcessStarts(b) ==
    /\ pc[b] = "down"
    /\ Goto(b, "idle")
    /\ conn' = [conn EXCEPT ![b] = "up"]
    /\ UNCHANGED <<tableVars, txn, raised, inTx, pending>>

(* The server closes a connection, or a hook the handle of a file.         *)
Disconnect(b) ==
    /\ conn[b] = "up"
    /\ Lose(b)
    /\ UNCHANGED <<tableVars, pc, txn, raised>>

(* A master commits rows of tbl_queue.                                     *)
RowsArrive ==
    /\ backend = "sqlite" => \A b \in Bots : pending[b] = "none"
    /\ \E new \in SUBSET {r \in Rows : status[r] = "absent"} :
          status' = [r \in Rows |-> IF r \in new THEN "eligible" ELSE status[r]]
    /\ UNCHANGED <<botName, pc, txn, raised, connVars>>

Step(b) ==
    \/ StatementRaises(b)
    \/ SelectNext(b) \/ CommitEmpty(b)
    \/ UpdateInProgress(b) \/ CommitClaim(b)
    \/ UpdateFinal(b) \/ CommitFinal(b)
    \/ Look(b) \/ CommitLook(b) \/ Wake(b)
    \/ ProcessEnds(b) \/ ProcessStarts(b) \/ Disconnect(b)

Next ==
    /\ RowsArrive \/ \E b \in Bots : Step(b)
    /\ UNCHANGED backend

Spec == Init /\ [][Next]_sessionVars
-----------------------------------------------------------------------------
(* Every variable keeps its type, and a bot has a row exactly when it has  *)
(* selected or claimed one.                                                *)
TypeOK ==
    /\ backend \in {"mysql", "sqlite"}
    /\ status \in [Rows -> Statuses]
    /\ botName \in [Rows -> Bots \cup {NoBot}]
    /\ pc \in [Bots -> Places]
    /\ txn \in [Bots -> Rows \cup {NoRow}]
    /\ raised \in [Bots -> BOOLEAN]
    /\ conn \in [Bots -> {"none", "up", "lost"}]
    /\ inTx \in [Bots -> BOOLEAN]
    /\ pending \in [Bots -> {"none", "in_progress"} \cup FinalStatuses]
    /\ \A b \in Bots : txn[b] # NoRow <=> pc[b] \in {"selected", "claimed", "working",
                                                     "finished"}

(* docs/database_connections.md: reads end before the scheduler can wait.  *)
(* A bot that works, waits or is between two rows has no transaction open, *)
(* whatever failed before: its next SELECT sees what is committed by then, *)
(* no lock outlives its commit, and the guard may replace a connection     *)
(* that got lost during the long call.                                     *)
NothingOpenBetweenStatements ==
    \A b \in Bots : pc[b] \in {"idle", "look", "waiting", "working"} /\ ~ raised[b]
        => ~ inTx[b] /\ pending[b] = "none"

(* With all that may happen to statements, commits and connections, the    *)
(* bots do to the table what BotFleet says they do: a commit that is       *)
(* applied without an answer is a claim, or a final mark, of a bot that    *)
(* dies next.                                                              *)
ImplementsFleet == Fleet!Spec
=============================================================================
