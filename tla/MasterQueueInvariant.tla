------------------------ MODULE MasterQueueInvariant -------------------------
(***************************************************************************)
(* The inductive invariant behind QueueSetsAreComplete: what an open       *)
(* transaction may hold at every point of the loops, and that no two of    *)
(* them have written the same input.                                       *)
(***************************************************************************)
EXTENDS MasterQueue

Written(m) == tx[m].loads \cup tx[m].marks

(* The rows of a queue set that are there before application number k.     *)
RowsBefore(i, k) == {<<i, AppList[j]>> : j \in 1..(k - 1)}

(* A lost connection, or a driver that sees no transaction, has nothing    *)
(* pending; a loop starts with nothing pending.                            *)
Settled(m) ==
    conn[m] = "lost" \/ ~ inTx[m] \/ pc[m] \in {"start", "load", "done", "failed", "dead"}
        => tx[m] = NoChanges
NothingPending == \A m \in Masters : Settled(m)

(* Loading writes inputs only; creating queue sets writes the rows of the  *)
(* set in hand, and the mark on its input last.                            *)
Placed(m) ==
    /\ pc[m] \in {"load_commit", "load_rollback"} => tx[m].rows = {} /\ tx[m].marks = {}
    /\ pc[m] \in {"set", "set_commit", "set_rollback"} => tx[m].loads = {}
    /\ pc[m] = "set" => tx[m].marks = {}
    /\ pc[m] = "set" /\ at[m] > 1 => inTx[m]
    /\ pc[m] = "set" /\ conn[m] = "up" => tx[m].rows = RowsBefore(cur[m], at[m])
    /\ pc[m] \in {"set_commit", "set_rollback"} => cur[m] \in Inputs
    /\ pc[m] = "set_commit" /\ conn[m] = "up" =>
          /\ tx[m].marks = {cur[m]}
          /\ tx[m].rows = {cur[m]} \X Apps
PendingFollowsPlace == \A m \in Masters : Placed(m)

(* What a transaction has written is still as it found it, and no other    *)
(* transaction has written it too.                                         *)
WritesAreExclusive ==
    \A m \in Masters :
        /\ \A i \in tx[m].loads : input[i] = "absent"
        /\ \A i \in tx[m].marks : input[i] = "new"
        /\ \A n \in Masters \ {m} : Written(m) \cap Written(n) = {}

(* The conjunction is inductive.                                           *)
QueueInvariant ==
    /\ TypeOK
    /\ NothingPending
    /\ PendingFollowsPlace
    /\ WritesAreExclusive
    /\ QueueSetsAreComplete

(* A load is committed input by input.                                     *)
Loading(m) ==
    pc[m] = "load_commit" /\ conn[m] = "up" =>
        cur[m] \in Inputs /\ tx[m].loads = {cur[m]}

(* What the summary says is so while a queue set is in hand, up to a       *)
(* commit without an answer, after which the run ends in the rollback.     *)
Accounted(m) ==
    /\ pc[m] \in {"start", "load", "load_commit", "load_rollback"} => created[m] = {}
    /\ pc[m] \in {"set_commit", "set_rollback"} => cur[m] \in todo[m]
    /\ pc[m] \in {"set", "set_commit"} \/ (pc[m] = "set_rollback" /\ conn[m] = "up") =>
          /\ summary[m].queued = created[m]
          /\ summary[m].failed \cap created[m] = {}
          /\ todo[m] \cap (summary[m].queued \cup summary[m].failed) = {}
          /\ todo[m] \cup summary[m].queued \cup summary[m].failed = summary[m].selected

(* Inductive together with QueueInvariant.                                 *)
RunInvariant ==
    /\ \A m \in Masters : Loading(m) /\ Accounted(m)
    /\ SummaryIsTrue
=============================================================================
