------------------------ MODULE TransactionLifecycle ------------------------
(***************************************************************************)
(* What the framework promises about the rows of tbl_queue, whatever the   *)
(* scheduler does in between: a row is created once, is claimed while the  *)
(* bot holds nothing else, becomes final only while it is the row the bot  *)
(* holds, and is never touched again once final.  The lifecycle is the one *)
(* of Orqflow_Requirement.md section 9.2,                                  *)
(*     <eligible> -> In Processing -> <success / skipped / failed>,        *)
(* where a row that was left In Processing by an interrupted run may be    *)
(* claimed again.                                                          *)
(***************************************************************************)
CONSTANTS
    Rows,      \* rows of tbl_queue, identified by their ID
    NoRow      \* the value None of runtime_config["txn"]

VARIABLES
    status,    \* Processing_Status of every row
    held       \* the row the bot is working on, or NoRow

lifecycleVars == <<status, held>>

FinalStates == {"success", "skipped", "failed"}

LifecycleInit ==
    /\ status = [r \in Rows |-> "absent"]
    /\ held = NoRow

(* Rows are created together, each of them once.                           *)
Create ==
    /\ \E new \in SUBSET {r \in Rows : status[r] = "absent"} :
          status' = [r \in Rows |-> IF r \in new THEN "eligible" ELSE status[r]]
    /\ UNCHANGED held

(* The bot takes a row that is eligible, or In Processing and abandoned.   *)
Claim(r) ==
    /\ held = NoRow
    /\ status[r] \in {"eligible", "in_progress"}
    /\ status' = [status EXCEPT ![r] = "in_progress"]
    /\ held' \in {r, NoRow}

Finalise(outcome) ==
    /\ held # NoRow
    /\ status[held] = "in_progress"
    /\ status' = [status EXCEPT ![held] = outcome]
    /\ held' = NoRow

(* The bot stops, or is stopped, while it holds a row: the row stays as it *)
(* is and the next run finds it.                                           *)
Abandon ==
    /\ held' = NoRow
    /\ UNCHANGED status

LifecycleNext ==
    \/ Create
    \/ \E r \in Rows : Claim(r)
    \/ \E outcome \in FinalStates : Finalise(outcome)
    \/ Abandon

LifecycleSpec == LifecycleInit /\ [][LifecycleNext]_lifecycleVars
=============================================================================
