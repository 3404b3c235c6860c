----------------------------- MODULE QueueSets -------------------------------
(***************************************************************************)
(* What create_master_queue promises about tbl_input and tbl_queue: an     *)
(* input of the source is loaded once and, later, gets one row of          *)
(* tbl_queue per application together with its mark, all at once and for   *)
(* good (Orqflow_Requirement.md section 9.2).                              *)
(***************************************************************************)
CONSTANTS
    Inputs,      \* Input_Identifiers of the configured source
    Apps         \* Application IDs of the process

VARIABLES
    input,       \* "absent", "new" (Status blank) or "queued"
    rows         \* how many rows of tbl_queue an input has per application

setVars == <<input, rows>>

SetsInit ==
    /\ input = [i \in Inputs |-> "absent"]
    /\ rows = [p \in Inputs \X Apps |-> 0]

Load(i) ==
    /\ input[i] = "absent"
    /\ input' = [input EXCEPT ![i] = "new"]
    /\ UNCHANGED rows

CreateSet(i) ==
    /\ input[i] = "new"
    /\ input' = [input EXCEPT ![i] = "queued"]
    /\ rows' = [p \in Inputs \X Apps |-> IF p[1] = i THEN 1 ELSE rows[p]]

SetsNext == \E i \in Inputs : Load(i) \/ CreateSet(i)

SetsSpec == SetsInit /\ [][SetsNext]_setVars
=============================================================================
