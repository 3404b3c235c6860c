------------------------------ MODULE BotFleet -------------------------------
(***************************************************************************)
(* Several bot processes of one project on the same tbl_queue.  Each bot   *)
(* works as Scheduler describes; here only what it does to the queue is    *)
(* kept, at the grain at which bots can interleave: the SELECT of          *)
(* fetch_next, then the UPDATE with its COMMIT, then the UPDATE with its   *)
(* COMMIT of _mark_final.  An UPDATE and the COMMIT behind it are one      *)
(* action, since the row lock and read-committed data hide what is between.*)
(* Master bots add rows, a bot may die anywhere and be started again.      *)
(* QueueSession is the same with the bot's connection.  Operators named    *)
(* _Faulty are slips of the definitions that follow them, as in Scheduler. *)
(***************************************************************************)
EXTENDS Integers

CONSTANTS
    Rows,        \* IDs of the rows of tbl_queue
    AppOf,       \* Application_Details of every row
    Bots,        \* bot processes, one per machine configuration
    AppsOf,      \* the applications in the KeySteps of every bot
    NoRow,       \* no row selected or held
    NoBot        \* Bot_Name is NULL

ASSUME FleetAssumption ==
    /\ Rows \subseteq Nat
    /\ NoRow \notin Rows
    /\ NoBot \notin Bots

VARIABLES
    status,      \* Processing_Status, "absent" before the row is created
    botName,     \* Bot_Name
    pc,          \* where every bot is in its handling of a row
    txn          \* the row it has selected or holds

fleetVars == <<status, botName, pc, txn>>

FinalStatuses == {"success", "skipped", "failed"}
Statuses == {"absent", "eligible", "in_progress"} \cup FinalStatuses

(* Bot_Name takes no part in the selection.                                *)
Fetchable_Faulty(r) == status[r] = "eligible"
Fetchable_FaultyFailed(r) == status[r] \in {"in_progress", "eligible", "failed"}
Fetchable(r) == status[r] \in {"in_progress", "eligible"}

Precedes(r, s) ==
    \/ status[r] = "in_progress" /\ status[s] = "eligible"
    \/ status[r] = status[s] /\ r <= s

IsNext_Faulty(r, app) ==
    /\ Fetchable(r)
    /\ \A s \in Rows : Fetchable(s) => Precedes(r, s)
IsNext(r, app) ==
    /\ Fetchable(r) /\ AppOf[r] = app
    /\ \A s \in Rows : Fetchable(s) /\ AppOf[s] = app => Precedes(r, s)
-----------------------------------------------------------------------------
Init ==
    /\ status = [r \in Rows |-> "absent"]
    /\ botName = [r \in Rows |-> NoBot]
    /\ pc = [b \in Bots |-> "idle"]
    /\ txn = [b \in Bots |-> NoRow]

(* A master commits rows, in any order: IDs are given out at the INSERT.   *)
RowsArrive ==
    /\ \E new \in SUBSET {r \in Rows : status[r] = "absent"} :
          status' = [r \in Rows |-> IF r \in new THEN "eligible" ELSE status[r]]
    /\ UNCHANGED <<botName, pc, txn>>

(* The row and its status are read; nothing is locked.                     *)
SelectNext(b) ==
    /\ pc[b] = "idle"
    /\ \E app \in AppsOf[b], r \in Rows :
          /\ IsNext(r, app)
          /\ txn' = [txn EXCEPT ![b] = r]
    /\ pc' = [pc EXCEPT ![b] = "selected"]
    /\ UNCHANGED <<status, botName>>

(* mark_transaction_in_progress filters by ID alone: whatever has become   *)
(* of the row since it was selected, it is In Processing now.              *)
MarkInProgress(b) ==
    /\ pc[b] = "selected"
    /\ status' = [status EXCEPT ![txn[b]] = "in_progress"]
    /\ botName' = [botName EXCEPT ![txn[b]] = b]
    /\ pc' = [pc EXCEPT ![b] = "working"]
    /\ UNCHANGED txn

MarkFinal_Faulty(b) ==
    /\ pc[b] = "working"
    /\ \E outcome \in FinalStatuses :
          status' = [status EXCEPT ![txn[b]] = outcome]
    /\ pc' = [pc EXCEPT ![b] = "idle"]
    /\ UNCHANGED <<botName, txn>>

(* Login, processing and retries happen while the bot is working; then the *)
(* row is marked final, by ID alone again.                                 *)
MarkFinal(b) ==
    /\ pc[b] = "working"
    /\ \E outcome \in FinalStatuses :
          status' = [status EXCEPT ![txn[b]] = outcome]
    /\ txn' = [txn EXCEPT ![b] = NoRow]
    /\ pc' = [pc EXCEPT ![b] = "idle"]
    /\ UNCHANGED botName

BotDies(b) ==
    /\ pc[b] # "down"
    /\ pc' = [pc EXCEPT ![b] = "down"]
    /\ txn' = [txn EXCEPT ![b] = NoRow]
    /\ UNCHANGED <<status, botName>>

BotStarts(b) ==
    /\ pc[b] = "down"
    /\ pc' = [pc EXCEPT ![b] = "idle"]
    /\ UNCHANGED <<status, botName, txn>>

Step(b) == SelectNext(b) \/ MarkInProgress(b) \/ MarkFinal(b)

Next == RowsArrive \/ \E b \in Bots : Step(b) \/ BotDies(b) \/ BotStarts(b)

Spec == Init /\ [][Next]_fleetVars
FairSpec == Spec /\ \A b \in Bots : WF_fleetVars(Step(b))
-----------------------------------------------------------------------------
(* Every variable keeps its type, and a bot has a row exactly when it has  *)
(* selected or claimed one.                                                *)
TypeOK ==
    /\ status \in [Rows -> Statuses]
    /\ botName \in [Rows -> Bots \cup {NoBot}]
    /\ pc \in [Bots -> {"idle", "selected", "working", "down"}]
    /\ txn \in [Bots -> Rows \cup {NoRow}]
    /\ \A b \in Bots : txn[b] # NoRow <=> pc[b] \in {"selected", "working"}

ServedBy(r) == {b \in Bots : AppOf[r] \in AppsOf[b]}
HasSoleBot(r) == \A b, c \in ServedBy(r) : b = c

(* An application that only one bot serves is safe in a fleet: the row a   *)
(* bot is working on is In Processing under that bot's name, and no other  *)
(* bot has it, however bots die and come back.                             *)
SoleBotWorksAlone ==
    \A r \in Rows, b \in Bots :
        HasSoleBot(r) /\ txn[b] = r
            => /\ \A c \in Bots : txn[c] = r => c = b
               /\ pc[b] = "working" => status[r] = "in_progress" /\ botName[r] = b

(* There a final row stays as it is.                                       *)
SoleBotFinalStays ==
    [][\A r \in Rows : HasSoleBot(r) /\ status[r] \in FinalStatuses
            => status'[r] = status[r] /\ botName'[r] = botName[r]]_fleetVars

(* The bot of r has a row that another bot has as well.                    *)
HandedOver(r) ==
    \E b \in ServedBy(r), c \in Bots : b # c /\ txn[b] # NoRow /\ txn[c] = txn[b]

(* A row that one bot serves is brought to a final status once that bot no *)
(* longer dies, unless bots that share another application with it take    *)
(* its rows for ever.  They may: two bots hand an older row back and forth,*)
(* each selecting it again before the other one marks it final, and what   *)
(* is behind it waits, rows of an application of its own included, since   *)
(* neither the lookup nor the mark asks who has the row                    *)
(* (mysql_queue_queries.sql:74-81, 100).  Orqflow_Requirement.md:887 asks  *)
(* to prevent double work and promises no row its turn.  A bot that shares *)
(* no application serves all its rows.                                     *)
SoleBotRowsAreHandled ==
    \A r \in Rows : HasSoleBot(r) =>
        \/ []<>HandedOver(r)
        \/ status[r] \in {"eligible", "in_progress"}
              ~> (status[r] \in FinalStatuses \/ \A b \in ServedBy(r) : pc[b] = "down")

(* The rows that only bot b serves, with the row it works on.              *)
Own(b) == {r \in Rows : HasSoleBot(r) /\ b \in ServedBy(r)}
Life(b) == INSTANCE TransactionLifecycle WITH
    Rows <- Own(b),
    status <- [r \in Own(b) |-> status[r]],
    held <- IF pc[b] = "working" /\ txn[b] \in Own(b) THEN txn[b] ELSE NoRow

(* fetch_next and _mark_final of a bot among others: to its own rows it    *)
(* does what TransactionLifecycle promises, with nothing from the others.  *)
SoleBotsImplementLifecycle ==
    /\ \A b \in Bots : Life(b)!LifecycleInit
    /\ [][\A b \in Bots : [Life(b)!LifecycleNext]_(Life(b)!lifecycleVars)]_fleetVars
=============================================================================
