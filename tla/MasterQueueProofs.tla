-------------------------- MODULE MasterQueueProofs --------------------------
(***************************************************************************)
(* QueueInvariant holds of every behaviour of any number of masters, over  *)
(* any inputs and applications: queue sets are complete and created once.  *)
(* The last parts show that the summaries are true, and map every step to  *)
(* QueueSets.                                                              *)
(***************************************************************************)
EXTENDS MasterQueueInvariant, TLAPS

Transactions == [loads : SUBSET Inputs, rows : SUBSET (Inputs \X Apps),
                 marks : SUBSET Inputs]

(* Nothing another master has or does changes.                             *)
OthersKeep(m) ==
    \A n \in Masters \ {m} :
        /\ pc'[n] = pc[n] /\ conn'[n] = conn[n] /\ inTx'[n] = inTx[n] /\ tx'[n] = tx[n]
        /\ todo'[n] = todo[n] /\ cur'[n] = cur[n] /\ at'[n] = at[n]

Summaries == [selected : SUBSET Inputs, queued : SUBSET Inputs, failed : SUBSET Inputs]

(* One entry of a summary replaced by other inputs.                        *)
LEMMA SummaryType ==
    ASSUME NEW r \in Summaries, NEW k \in {"queued", "failed"}, NEW s \in SUBSET Inputs
    PROVE  [r EXCEPT ![k] = s] \in Summaries
<1>1. [r EXCEPT !["queued"] = s] \in Summaries /\ [r EXCEPT !["failed"] = s] \in Summaries
  BY DEF Summaries
<1>2. QED
  BY <1>1

(* The loop goes on to another input, from its first application.          *)
LEMMA HandledMoves ==
    ASSUME NEW m, NEW k, Handled(m, k)
    PROVE  /\ pc' = [pc EXCEPT ![m] = "set"]
           /\ todo' = [todo EXCEPT ![m] = @ \ {cur[m]}]
           /\ at' = [at EXCEPT ![m] = 1]
BY DEF Handled, Goto

(* The summary of the master that goes on to another input.                *)
LEMMA HandledSummaryType ==
    ASSUME TypeOK, NEW m \in Masters, NEW k \in {"queued", "failed"}, cur[m] \in Inputs,
           Handled(m, k)
    PROVE  summary' \in [Masters -> Summaries]
<1>1. summary \in [Masters -> Summaries]
  BY DEF TypeOK, Summaries
<1>2. summary[m] \in Summaries /\ summary[m][k] \cup {cur[m]} \in SUBSET Inputs
  BY <1>1 DEF Summaries
<1> DEFINE updated == [summary[m] EXCEPT ![k] = summary[m][k] \cup {cur[m]}]
<1>3. updated \in Summaries
  BY <1>2, SummaryType
<1>4. summary' = [summary EXCEPT ![m] = updated]
  BY DEF Handled
<1>5. QED
  BY <1>1, <1>3, <1>4

(* The empty transaction, and a statement's changes added to another one.  *)
LEMMA NoChangesType == NoChanges \in Transactions
BY DEF NoChanges, Transactions

(* A statement reaches the database only over a connection that holds what *)
(* the transaction has written, and adds its own changes.                  *)
LEMMA ExecuteAdds ==
    ASSUME TypeOK, NEW m \in Masters, NEW changes \in Transactions, Execute(m, changes)
    PROVE  /\ conn' \in [Masters -> {"up", "lost"}]
           /\ inTx' \in [Masters -> BOOLEAN]
           /\ tx' \in [Masters -> Transactions]
           /\ conn'[m] = "up" /\ inTx'[m] = TRUE
           /\ conn[m] = "up" \/ inTx[m] = FALSE
           /\ tx'[m].loads = tx[m].loads \cup changes.loads
           /\ tx'[m].rows = tx[m].rows \cup changes.rows
           /\ tx'[m].marks = tx[m].marks \cup changes.marks
           /\ \A n \in Masters \ {m} :
                 conn'[n] = conn[n] /\ inTx'[n] = inTx[n] /\ tx'[n] = tx[n]
<1>1. tx \in [Masters -> Transactions] /\ conn \in [Masters -> {"up", "lost"}]
      /\ inTx \in [Masters -> BOOLEAN]
  BY DEF TypeOK, Transactions
<1> DEFINE added == [loads |-> tx[m].loads \cup changes.loads,
                     rows |-> tx[m].rows \cup changes.rows,
                     marks |-> tx[m].marks \cup changes.marks]
<1>2. added \in Transactions
  BY <1>1 DEF Transactions
<1>3. tx' = [tx EXCEPT ![m] = added]
  BY DEF Execute
<1>4. /\ tx'[m] = added
      /\ tx' \in [Masters -> Transactions]
      /\ \A n \in Masters \ {m} : tx'[n] = tx[n]
  BY <1>1, <1>2, <1>3
<1>5. QED
  BY <1>1, <1>4 DEF Execute, MayExecute

LEMMA LoseDrops ==
    ASSUME TypeOK, NEW m \in Masters, Lose(m)
    PROVE  /\ conn' \in [Masters -> {"up", "lost"}]
           /\ inTx' \in [Masters -> BOOLEAN]
           /\ tx' \in [Masters -> Transactions]
           /\ conn'[m] = "lost" /\ tx'[m] = NoChanges /\ inTx'[m] = inTx[m]
           /\ \A n \in Masters \ {m} :
                 conn'[n] = conn[n] /\ inTx'[n] = inTx[n] /\ tx'[n] = tx[n]
<1>1. tx \in [Masters -> Transactions] /\ conn \in [Masters -> {"up", "lost"}]
      /\ inTx \in [Masters -> BOOLEAN]
  BY DEF TypeOK, Transactions
<1>2. QED
  BY <1>1, NoChangesType DEF Lose

(* A statement that raises leaves the transaction as it was, or lost.      *)
LEMMA RaiseKeepsOrDrops ==
    ASSUME TypeOK, NothingPending, NEW m \in Masters, Raise(m)
    PROVE  /\ conn' \in [Masters -> {"up", "lost"}]
           /\ inTx' \in [Masters -> BOOLEAN]
           /\ tx' \in [Masters -> Transactions]
           /\ faults' \in Nat
           /\ tx'[m] \in {tx[m], NoChanges}
           /\ conn'[m] = "lost" \/ inTx'[m] = FALSE => tx'[m] = NoChanges
           /\ \A n \in Masters \ {m} :
                 conn'[n] = conn[n] /\ inTx'[n] = inTx[n] /\ tx'[n] = tx[n]
<1>1. tx \in [Masters -> Transactions] /\ conn \in [Masters -> {"up", "lost"}]
      /\ inTx \in [Masters -> BOOLEAN] /\ faults \in Nat
  BY DEF TypeOK, Transactions
<1>2. conn[m] = "lost" \/ inTx[m] = FALSE => tx[m] = NoChanges
  BY DEF NothingPending, Settled
<1>3. CASE ~ MayExecute(m) /\ UNCHANGED <<connVars, faults>>
  BY <1>1, <1>2, <1>3 DEF connVars
<1>4. CASE faults' = faults + 1 /\ Lose(m)
  BY <1>1, <1>4, LoseDrops
<1>5. CASE /\ faults' = faults + 1
           /\ conn' = [conn EXCEPT ![m] = "up"] /\ UNCHANGED <<inTx, tx>>
  BY <1>1, <1>2, <1>5
<1>6. QED
  BY <1>3, <1>4, <1>5 DEF Raise

(* A step of one master that commits nothing keeps the invariant if its    *)
(* own transaction still fits its place and has written no input that      *)
(* another one has written.                                                *)
LEMMA UncommittedStep ==
    ASSUME QueueInvariant, NEW m \in Masters, OthersKeep(m), UNCHANGED dbVars,
           TypeOK', Settled(m)', Placed(m)',
           \A i \in tx'[m].loads : input[i] = "absent",
           \A i \in tx'[m].marks : input[i] = "new",
           \A i \in Written(m)' : i \in Written(m) \/ ~ IsLocked(m, i)
    PROVE  QueueInvariant'
<1> USE DEF QueueInvariant
<1>1. input' = input /\ rows' = rows
  BY DEF dbVars
<1>2. NothingPending'
  <2>1. ASSUME NEW n \in Masters, n # m
        PROVE  Settled(n)'
    BY <2>1 DEF NothingPending, Settled, OthersKeep
  <2>2. QED
    BY <2>1 DEF NothingPending
<1>3. PendingFollowsPlace'
  <2>1. ASSUME NEW n \in Masters, n # m
        PROVE  Placed(n)'
    BY <2>1 DEF PendingFollowsPlace, Placed, OthersKeep, RowsBefore
  <2>2. QED
    BY <2>1 DEF PendingFollowsPlace
<1>4. WritesAreExclusive'
  <2>1. \A n \in Masters \ {m} : tx'[n] = tx[n]
    BY DEF OthersKeep
  <2>2. \A n \in Masters \ {m} : Written(n)' = Written(n)
    BY <2>1 DEF Written
  <2>3. \A n \in Masters \ {m} : Written(m)' \cap Written(n) = {}
    BY DEF WritesAreExclusive, IsLocked, Written
  <2>4. \A n, k \in Masters : n # k => Written(n)' \cap Written(k)' = {}
    BY <2>2, <2>3 DEF WritesAreExclusive
  <2>5. \A n \in Masters : /\ \A i \in tx'[n].loads : input'[i] = "absent"
                           /\ \A i \in tx'[n].marks : input'[i] = "new"
    BY <1>1, <2>1 DEF WritesAreExclusive
  <2>6. QED
    BY <2>4, <2>5 DEF WritesAreExclusive
<1>5. QueueSetsAreComplete'
  BY <1>1 DEF QueueSetsAreComplete
<1>6. QED
  BY <1>2, <1>3, <1>4, <1>5

(* Committing is atomic: what is committed is the loading of inputs, or    *)
(* one whole queue set with its mark, on an input that had none.           *)
LEMMA CommittedStep ==
    ASSUME QueueInvariant, NEW m \in Masters, OthersKeep(m),
           pc[m] \in {"load_commit", "set_commit"}, conn[m] = "up", ApplyCommit(m),
           tx'[m] = NoChanges, TypeOK', Placed(m)'
    PROVE  QueueInvariant'
<1> USE DEF QueueInvariant
<1>1. /\ input \in [Inputs -> {"absent", "new", "queued"}]
      /\ rows \in [Inputs \X Apps -> Nat]
      /\ tx[m].loads \subseteq Inputs /\ tx[m].marks \subseteq Inputs
  BY DEF TypeOK
<1>2. \/ tx[m].rows = {} /\ tx[m].marks = {}
      \/ /\ cur[m] \in Inputs
         /\ tx[m].loads = {} /\ tx[m].marks = {cur[m]}
         /\ tx[m].rows = {cur[m]} \X Apps
  BY DEF PendingFollowsPlace, Placed
<1>3. \A i \in Inputs : input'[i] = IF i \in tx[m].marks THEN "queued"
                                    ELSE IF i \in tx[m].loads THEN "new" ELSE input[i]
  BY DEF ApplyCommit
<1>4. NothingPending'
  <2>1. ASSUME NEW n \in Masters, n # m
        PROVE  Settled(n)'
    BY <2>1 DEF NothingPending, Settled, OthersKeep
  <2>2. QED
    BY <2>1 DEF NothingPending, Settled
<1>5. PendingFollowsPlace'
  <2>1. ASSUME NEW n \in Masters, n # m
        PROVE  Placed(n)'
    BY <2>1 DEF PendingFollowsPlace, Placed, OthersKeep, RowsBefore
  <2>2. QED
    BY <2>1 DEF PendingFollowsPlace
<1>6. WritesAreExclusive'
  <2>1. \A n \in Masters \ {m} : tx'[n] = tx[n] /\ Written(n)' = Written(n)
    BY DEF OthersKeep, Written
  <2>2. Written(m)' = {} /\ tx'[m].loads = {} /\ tx'[m].marks = {}
    BY DEF Written, NoChanges
  <2>3. ASSUME NEW n \in Masters \ {m}, NEW i \in Written(n)
        PROVE  input'[i] = input[i]
    <3>1. i \in Inputs /\ i \notin Written(m)
      BY DEF WritesAreExclusive, Written, TypeOK
    <3>2. QED
      BY <1>3, <3>1 DEF Written
  <2>4. ASSUME NEW n \in Masters
        PROVE  /\ \A i \in tx'[n].loads : input'[i] = "absent"
               /\ \A i \in tx'[n].marks : input'[i] = "new"
    BY <2>1, <2>2, <2>3 DEF WritesAreExclusive, Written
  <2>5. \A n, k \in Masters : n # k => Written(n)' \cap Written(k)' = {}
    BY <2>1, <2>2 DEF WritesAreExclusive
  <2>6. QED
    BY <2>4, <2>5 DEF WritesAreExclusive
<1>7. QueueSetsAreComplete'
  <2> SUFFICES ASSUME NEW i \in Inputs, NEW a \in Apps
               PROVE  rows'[<<i, a>>] = IF input'[i] = "queued" THEN 1 ELSE 0
    BY DEF QueueSetsAreComplete
  <2>1. rows[<<i, a>>] = IF input[i] = "queued" THEN 1 ELSE 0
    BY DEF QueueSetsAreComplete
  <2>2. rows'[<<i, a>>] = rows[<<i, a>>] + IF <<i, a>> \in tx[m].rows THEN 1 ELSE 0
    BY DEF ApplyCommit
  <2>3. CASE i \in tx[m].marks
    <3>1. input[i] = "new" /\ <<i, a>> \in tx[m].rows
      BY <1>2, <2>3 DEF WritesAreExclusive
    <3>2. QED
      BY <1>3, <2>1, <2>2, <2>3, <3>1
  <2>4. CASE i \notin tx[m].marks
    <3>1. <<i, a>> \notin tx[m].rows
      BY <1>2, <2>4
    <3>2. input'[i] = "queued" <=> input[i] = "queued"
      BY <1>3, <2>4 DEF WritesAreExclusive
    <3>3. QED
      BY <2>1, <2>2, <3>1, <3>2
  <2>5. QED
    BY <2>3, <2>4
<1>8. QED
  BY <1>4, <1>5, <1>6, <1>7

(* A master starts with nothing written and an empty queue.                *)
LEMMA QueueInitEstablishes == Init => QueueInvariant
<1> SUFFICES ASSUME Init PROVE QueueInvariant
  OBVIOUS
<1>1. TypeOK
  BY MasterAssumption, NoChangesType DEF Init, TypeOK, Transactions, NoSummary, Places
<1>2. NothingPending /\ PendingFollowsPlace /\ WritesAreExclusive
  BY DEF Init, NothingPending, Settled, PendingFollowsPlace, Placed, WritesAreExclusive,
         Written, NoChanges
<1>3. QueueSetsAreComplete
  BY DEF Init, QueueSetsAreComplete
<1>4. QED
  BY <1>1, <1>2, <1>3 DEF QueueInvariant

(* What is read before the loading writes nothing.                         *)
LEMMA PrepareRunKeeps ==
    ASSUME QueueInvariant, NEW m \in Masters, PrepareRun(m)
    PROVE  QueueInvariant'
<1> USE DEF QueueInvariant
<1>1. /\ pc[m] = "start"
      /\ pc' = [pc EXCEPT ![m] = "load"] \/ pc' = [pc EXCEPT ![m] = "failed"]
      /\ UNCHANGED <<input, rows, todo, cur, at, summary, created>>
      /\ (Execute(m, NoChanges) /\ UNCHANGED faults) \/ Raise(m)
  BY DEF PrepareRun, Goto, dbVars, loopVars
<1>2. tx[m] = NoChanges
  BY <1>1 DEF NothingPending, Settled
<1>3. /\ conn' \in [Masters -> {"up", "lost"}]
      /\ inTx' \in [Masters -> BOOLEAN]
      /\ tx' \in [Masters -> Transactions]
      /\ faults' \in Nat
      /\ tx'[m].loads = {} /\ tx'[m].rows = {} /\ tx'[m].marks = {}
      /\ \A n \in Masters \ {m} :
            conn'[n] = conn[n] /\ inTx'[n] = inTx[n] /\ tx'[n] = tx[n]
  <2>1. NoChanges.loads = {} /\ NoChanges.rows = {} /\ NoChanges.marks = {}
    BY DEF NoChanges
  <2> HIDE DEF NoChanges
  <2>2. CASE Execute(m, NoChanges) /\ UNCHANGED faults
    <3>1. /\ tx'[m].loads = tx[m].loads \cup NoChanges.loads
          /\ tx'[m].rows = tx[m].rows \cup NoChanges.rows
          /\ tx'[m].marks = tx[m].marks \cup NoChanges.marks
      BY <2>2, ExecuteAdds, NoChangesType
    <3>2. tx'[m].loads = {} /\ tx'[m].rows = {} /\ tx'[m].marks = {}
      BY <1>2, <2>1, <3>1
    <3>3. faults' \in Nat
      BY <2>2 DEF TypeOK
    <3>4. QED
      BY <2>2, <3>2, <3>3, ExecuteAdds, NoChangesType
  <2>3. CASE Raise(m)
    BY <1>2, <2>1, <2>3, RaiseKeepsOrDrops
  <2>4. QED
    BY <1>1, <2>2, <2>3
<1>4. /\ pc' \in [Masters -> Places]
      /\ pc'[m] \in {"load", "failed"}
      /\ \A n \in Masters \ {m} : pc'[n] = pc[n]
  BY <1>1 DEF TypeOK, Places
<1>5. TypeOK'
  <2>1. \A n \in Masters : pc'[n] = "set" => pc[n] = "set"
    BY <1>4
  <2>2. QED
    BY <1>1, <1>3, <1>4, <2>1 DEF TypeOK, Transactions
<1>6. OthersKeep(m)
  BY <1>1, <1>3, <1>4 DEF OthersKeep
<1>7. tx'[m] = NoChanges
  BY <1>3 DEF Transactions, NoChanges
<1>8. Settled(m)' /\ Placed(m)'
  BY <1>4, <1>7 DEF Settled, Placed
<1>9. UNCHANGED dbVars
  BY <1>1 DEF dbVars
<1>10. QED
  BY <1>3, <1>5, <1>6, <1>8, <1>9, UncommittedStep DEF Written

(* Loading writes one input that no other transaction has written.         *)
LEMMA InsertInputKeeps ==
    ASSUME QueueInvariant, NEW m \in Masters, InsertInput(m)
    PROVE  QueueInvariant'
<1> USE DEF QueueInvariant
<1>1. PICK i \in todo[m] :
        /\ ~ IsLocked(m, i)
        /\ cur' = [cur EXCEPT ![m] = i]
        /\ \/ /\ input[i] = "absent"
              /\ Execute(m, [NoChanges EXCEPT !.loads = {i}])
              /\ Goto(m, "load_commit")
           \/ /\ input[i] # "absent"
              /\ Execute(m, NoChanges)
              /\ Goto(m, "load_rollback")
  BY DEF InsertInput
<1>2. /\ pc[m] = "load" /\ i \in Inputs
      /\ UNCHANGED <<dbVars, todo, at, summary, created, faults>>
      /\ tx[m] = NoChanges
  BY DEF InsertInput, TypeOK, NothingPending, Settled
<1> DEFINE load == [NoChanges EXCEPT !.loads = {i}]
<1>3. load \in Transactions /\ load.loads = {i} /\ load.rows = {} /\ load.marks = {}
  BY <1>2 DEF NoChanges, Transactions
<1>4. NoChanges.loads = {} /\ NoChanges.rows = {} /\ NoChanges.marks = {}
  BY DEF NoChanges
<1>5. /\ conn' \in [Masters -> {"up", "lost"}]
      /\ inTx' \in [Masters -> BOOLEAN]
      /\ tx' \in [Masters -> Transactions]
      /\ conn'[m] = "up" /\ inTx'[m] = TRUE
      /\ tx'[m].rows = {} /\ tx'[m].marks = {}
      /\ tx'[m].loads \subseteq {i}
      /\ tx'[m].loads # {} => input[i] = "absent"
      /\ pc' = [pc EXCEPT ![m] = "load_commit"] \/ pc' = [pc EXCEPT ![m] = "load_rollback"]
      /\ \A n \in Masters \ {m} :
            conn'[n] = conn[n] /\ inTx'[n] = inTx[n] /\ tx'[n] = tx[n]
  <2> HIDE DEF load
  <2>1. CASE input[i] = "absent" /\ Execute(m, load) /\ Goto(m, "load_commit")
    BY <1>2, <1>3, <1>4, <2>1, ExecuteAdds DEF Goto
  <2>2. CASE Execute(m, NoChanges) /\ Goto(m, "load_rollback")
    <3> HIDE DEF NoChanges
    <3>1. /\ tx'[m].loads = tx[m].loads \cup NoChanges.loads
          /\ tx'[m].rows = tx[m].rows \cup NoChanges.rows
          /\ tx'[m].marks = tx[m].marks \cup NoChanges.marks
      BY <2>2, ExecuteAdds, NoChangesType
    <3>2. tx'[m].loads = {} /\ tx'[m].rows = {} /\ tx'[m].marks = {}
      BY <1>2, <1>4, <3>1
    <3>3. QED
      BY <2>2, <3>2, ExecuteAdds, NoChangesType DEF Goto
  <2>3. QED
    BY <1>1, <2>1, <2>2 DEF load
<1>6. TypeOK'
  BY <1>1, <1>2, <1>5 DEF TypeOK, Transactions, Places, dbVars
<1>7. OthersKeep(m)
  BY <1>1, <1>2, <1>5 DEF OthersKeep, TypeOK
<1>8. Settled(m)' /\ Placed(m)'
  BY <1>5 DEF Settled, Placed, TypeOK
<1>9. QED
  BY <1>1, <1>2, <1>5, <1>6, <1>7, <1>8, UncommittedStep DEF Written

(* A statement of a loop that raises sends its master to the rollback, or  *)
(* out of the run, with the transaction it had or none.                    *)
LEMMA RaisesKeep ==
    ASSUME QueueInvariant, NEW m \in Masters,
           InsertRaises(m) \/ SelectRaises(m) \/ QueueSetRaises(m)
    PROVE  QueueInvariant'
<1> USE DEF QueueInvariant
<1>1. /\ Raise(m)
      /\ \/ pc[m] = "load" /\ pc' = [pc EXCEPT ![m] = "load_rollback"]
         \/ pc[m] = "load" /\ pc' = [pc EXCEPT ![m] = "failed"]
         \/ pc[m] = "set" /\ pc' = [pc EXCEPT ![m] = "set_rollback"]
      /\ cur' = cur \/ \E i \in todo[m] : cur' = [cur EXCEPT ![m] = i]
      /\ UNCHANGED <<dbVars, todo, at, summary, created>>
  BY DEF InsertRaises, SelectRaises, QueueSetRaises, Goto, loopVars
<1>2. /\ conn' \in [Masters -> {"up", "lost"}]
      /\ inTx' \in [Masters -> BOOLEAN]
      /\ tx' \in [Masters -> Transactions]
      /\ faults' \in Nat
      /\ tx'[m] \in {tx[m], NoChanges}
      /\ conn'[m] = "lost" \/ inTx'[m] = FALSE => tx'[m] = NoChanges
      /\ \A n \in Masters \ {m} :
            conn'[n] = conn[n] /\ inTx'[n] = inTx[n] /\ tx'[n] = tx[n]
  BY <1>1, RaiseKeepsOrDrops
<1>3. TypeOK'
  <2>1. cur' \in [Masters -> Inputs \cup {NoInput}]
    <3>1. cur \in [Masters -> Inputs \cup {NoInput}] /\ todo[m] \subseteq Inputs
      BY DEF TypeOK
    <3>2. ASSUME NEW i \in todo[m], cur' = [cur EXCEPT ![m] = i]
          PROVE  cur' \in [Masters -> Inputs \cup {NoInput}]
      BY <3>1, <3>2
    <3>3. QED
      BY <1>1, <3>1, <3>2
  <2>2. pc'[m] # "set"
    BY <1>1 DEF TypeOK
  <2>5. \A n \in Masters \ {m} : pc'[n] = pc[n] /\ cur'[n] = cur[n]
    BY <1>1 DEF TypeOK
  <2>3. pc' \in [Masters -> Places]
    BY <1>1 DEF TypeOK, Places
  <2>4. QED
    BY <1>1, <1>2, <2>1, <2>2, <2>3, <2>5 DEF TypeOK, Transactions, dbVars
<1>4. OthersKeep(m)
  BY <1>1, <1>2 DEF OthersKeep, TypeOK
<1>5. pc[m] = "load" => tx'[m] = NoChanges
  BY <1>2 DEF NothingPending, Settled
<1>9. pc[m] = "set" => cur'[m] \in Inputs
  BY <1>1 DEF InsertRaises, SelectRaises, QueueSetRaises, TypeOK
<1>6. Settled(m)' /\ Placed(m)'
  BY <1>1, <1>2, <1>5, <1>9 DEF Settled, PendingFollowsPlace, Placed, TypeOK, NoChanges
<1>7. /\ \A i \in tx'[m].loads : input[i] = "absent"
      /\ \A i \in tx'[m].marks : input[i] = "new"
      /\ \A i \in Written(m)' : i \in Written(m)
  BY <1>2 DEF WritesAreExclusive, Written, NoChanges
<1>8. QED
  BY <1>1, <1>3, <1>4, <1>6, <1>7, UncommittedStep

(* What one commit does: the whole transaction and then none, or nothing.  *)
LEMMA CommitIsAtomic ==
    ASSUME QueueInvariant, NEW m \in Masters, CommitSucceeds(m) \/ CommitRaises(m)
    PROVE  /\ conn' \in [Masters -> {"up", "lost"}]
           /\ inTx' \in [Masters -> BOOLEAN]
           /\ tx' \in [Masters -> Transactions]
           /\ conn'[m] = "lost" \/ inTx'[m] = FALSE => tx'[m] = NoChanges
           /\ \/ conn[m] = "up" /\ ApplyCommit(m) /\ tx'[m] = NoChanges
              \/ UNCHANGED <<dbVars, created>> /\ tx'[m] \in {tx[m], NoChanges}
           /\ \A n \in Masters \ {m} :
                 conn'[n] = conn[n] /\ inTx'[n] = inTx[n] /\ tx'[n] = tx[n]
<1> USE DEF QueueInvariant
<1>1. /\ tx \in [Masters -> Transactions]
      /\ conn \in [Masters -> {"up", "lost"}] /\ inTx \in [Masters -> BOOLEAN]
  BY DEF TypeOK, Transactions
<1>2. conn[m] = "lost" \/ inTx[m] = FALSE => tx[m] = NoChanges
  BY DEF NothingPending, Settled
<1>3. CASE CommitSucceeds(m)
  BY <1>1, <1>3, NoChangesType DEF CommitSucceeds
<1>4. CASE UNCHANGED <<dbVars, connVars, created>>
  BY <1>1, <1>2, <1>4 DEF connVars
<1>5. CASE Lose(m) /\ ((ApplyCommit(m) /\ conn[m] = "up") \/ UNCHANGED <<dbVars, created>>)
  BY <1>5, LoseDrops
<1>6. QED
  BY <1>3, <1>4, <1>5 DEF CommitRaises, connVars

LEMMA ApplyCommitType ==
    ASSUME TypeOK, NEW m \in Masters, ApplyCommit(m)
    PROVE  /\ input' \in [Inputs -> {"absent", "new", "queued"}]
           /\ rows' \in [Inputs \X Apps -> Nat]
           /\ created' \in [Masters -> SUBSET Inputs]
BY DEF ApplyCommit, TypeOK

(* A commit that goes through, or raises, is that of a whole transaction   *)
(* or of nothing.                                                          *)
LEMMA CommitsKeep ==
    ASSUME QueueInvariant, NEW m \in Masters, CommitInput(m) \/ CommitQueueSet(m)
    PROVE  QueueInvariant'
<1> USE DEF QueueInvariant
<1>1. /\ CommitSucceeds(m) \/ CommitRaises(m)
      /\ faults' \in Nat
      /\ cur' = cur
      /\ \/ /\ pc[m] = "load_commit"
            /\ \/ pc' = [pc EXCEPT ![m] = "load"] /\ CommitSucceeds(m)
               \/ pc' = [pc EXCEPT ![m] = "load_rollback"]
            /\ todo' = [todo EXCEPT ![m] = @ \ {cur[m]}] \/ todo' = todo
            /\ at' = at /\ summary' = summary
         \/ /\ pc[m] = "set_commit" /\ pc' = [pc EXCEPT ![m] = "set"] /\ CommitSucceeds(m)
            /\ todo' = [todo EXCEPT ![m] = @ \ {cur[m]}]
            /\ at' = [at EXCEPT ![m] = 1]
            /\ Handled(m, "queued")
         \/ /\ pc[m] = "set_commit" /\ pc' = [pc EXCEPT ![m] = "set_rollback"]
            /\ UNCHANGED <<todo, at, summary>>
  BY DEF CommitInput, CommitQueueSet, CommitRaises, Handled, Goto, TypeOK
<1>2. /\ conn' \in [Masters -> {"up", "lost"}]
      /\ inTx' \in [Masters -> BOOLEAN]
      /\ tx' \in [Masters -> Transactions]
      /\ conn'[m] = "lost" \/ inTx'[m] = FALSE => tx'[m] = NoChanges
      /\ \/ conn[m] = "up" /\ ApplyCommit(m) /\ tx'[m] = NoChanges
         \/ UNCHANGED <<dbVars, created>> /\ tx'[m] \in {tx[m], NoChanges}
      /\ \A n \in Masters \ {m} :
            conn'[n] = conn[n] /\ inTx'[n] = inTx[n] /\ tx'[n] = tx[n]
  BY <1>1, CommitIsAtomic
<1>3. CommitSucceeds(m) => tx'[m] = NoChanges
  BY DEF CommitSucceeds, TypeOK
<1>4. OthersKeep(m)
  BY <1>1, <1>2 DEF OthersKeep, TypeOK
<1>5. TypeOK'
  <2>1. /\ input' \in [Inputs -> {"absent", "new", "queued"}]
        /\ rows' \in [Inputs \X Apps -> Nat]
        /\ created' \in [Masters -> SUBSET Inputs]
    BY <1>2, ApplyCommitType DEF dbVars, TypeOK
  <2>2. /\ pc' \in [Masters -> Places]
        /\ cur' \in [Masters -> Inputs \cup {NoInput}]
    BY <1>1 DEF TypeOK, Places
  <2>7. todo' \in [Masters -> SUBSET Inputs]
    BY <1>1 DEF TypeOK
  <2>8. at' \in [Masters -> 1..(Len(AppList) + 1)]
    <3>1. 1 \in 1..(Len(AppList) + 1) /\ at \in [Masters -> 1..(Len(AppList) + 1)]
      BY MasterAssumption DEF TypeOK
    <3>2. QED
      BY <1>1, <3>1
  <2>3. summary' \in [Masters -> Summaries]
    <3>1. CASE summary' = summary
      BY <3>1 DEF TypeOK, Summaries
    <3>2. CASE pc[m] = "set_commit" /\ Handled(m, "queued")
      <4>1. cur[m] \in Inputs
        BY <3>2 DEF PendingFollowsPlace, Placed
      <4>2. QED
        BY <3>2, <4>1, HandledSummaryType
    <3>3. QED
      BY <1>1, <3>1, <3>2
  <2>4. \A n \in Masters \ {m} : pc'[n] = "set" /\ at'[n] > 1 => cur'[n] \in todo'[n]
    BY <1>4 DEF OthersKeep, TypeOK
  <2>5. pc'[m] = "set" => at'[m] = 1
    BY <1>1 DEF TypeOK
  <2>6. QED
    BY <1>1, <1>2, <2>1, <2>2, <2>3, <2>4, <2>5, <2>7, <2>8 DEF TypeOK, Transactions, Summaries
<1>6. Placed(m)'
  <2>1. Placed(m)
    BY DEF PendingFollowsPlace
  <2>2. pc'[m] \in {"load", "load_rollback", "set_rollback", "set"}
        /\ (pc'[m] = "set" => at'[m] = 1 /\ tx'[m] = NoChanges)
    BY <1>1, <1>3 DEF TypeOK
  <2>3. pc'[m] = "load_rollback" => tx'[m].rows = {} /\ tx'[m].marks = {}
    BY <1>1, <1>2, <2>1 DEF Placed, NoChanges, TypeOK
  <2>4. pc'[m] = "set_rollback" => tx'[m].loads = {}
    BY <1>1, <1>2, <2>1 DEF Placed, NoChanges, TypeOK
  <2>5. cur'[m] \in Inputs \/ pc[m] = "load_commit"
    BY <1>1, <2>1 DEF Placed
  <2>6. pc'[m] = "set_rollback" => cur'[m] \in Inputs
    BY <1>1, <2>5 DEF TypeOK
  <2>7. QED
    BY <2>2, <2>3, <2>4, <2>6 DEF Placed, RowsBefore, NoChanges
<1>7. CASE conn[m] = "up" /\ ApplyCommit(m) /\ tx'[m] = NoChanges
  <2>1. pc[m] \in {"load_commit", "set_commit"}
    BY <1>1
  <2>2. QED
    BY <1>4, <1>5, <1>6, <1>7, <2>1, CommittedStep
<1>8. CASE UNCHANGED <<dbVars, created>> /\ tx'[m] \in {tx[m], NoChanges}
  <2>1. Settled(m)'
    BY <1>1, <1>2, <1>3 DEF Settled, TypeOK
  <2>2. /\ \A i \in tx'[m].loads : input[i] = "absent"
        /\ \A i \in tx'[m].marks : input[i] = "new"
        /\ \A i \in Written(m)' : i \in Written(m)
    BY <1>8 DEF WritesAreExclusive, Written, NoChanges
  <2>3. QED
    BY <1>4, <1>5, <1>6, <1>8, <2>1, <2>2, UncommittedStep
<1>9. QED
  BY <1>2, <1>7, <1>8

(* A rollback leaves nothing pending, whether it goes through or raises on *)
(* a connection that is lost.                                              *)
LEMMA RollBacksKeep ==
    ASSUME QueueInvariant, NEW m \in Masters, RollBackInput(m) \/ RollBackQueueSet(m)
    PROVE  QueueInvariant'
<1> USE DEF QueueInvariant
<1>1. /\ UNCHANGED <<dbVars, cur, created, faults>>
      /\ RollBack(m) \/ (conn[m] = "lost" /\ UNCHANGED connVars)
      /\ \/ /\ pc[m] = "load_rollback"
            /\ pc' = [pc EXCEPT ![m] = "load"] \/ pc' = [pc EXCEPT ![m] = "failed"]
            /\ todo' = [todo EXCEPT ![m] = @ \ {cur[m]}] \/ todo' = todo
            /\ UNCHANGED <<at, summary>>
         \/ /\ pc[m] = "set_rollback" /\ pc' = [pc EXCEPT ![m] = "set"]
            /\ todo' = [todo EXCEPT ![m] = @ \ {cur[m]}]
            /\ at' = [at EXCEPT ![m] = 1]
            /\ Handled(m, "failed")
         \/ /\ pc[m] = "set_rollback" /\ pc' = [pc EXCEPT ![m] = "failed"]
            /\ UNCHANGED <<todo, at, summary>>
  <2>1. Handled(m, "failed") => /\ pc' = [pc EXCEPT ![m] = "set"]
                                /\ todo' = [todo EXCEPT ![m] = @ \ {cur[m]}]
                                /\ at' = [at EXCEPT ![m] = 1]
    BY HandledMoves
  <2>2. CASE RollBackInput(m)
    BY <2>2 DEF RollBackInput, Goto, connVars, dbVars
  <2>3. CASE RollBackQueueSet(m)
    BY <2>1, <2>3 DEF RollBackQueueSet, Goto, connVars, dbVars
  <2>4. QED
    BY <2>2, <2>3
<1>2. /\ conn' \in [Masters -> {"up", "lost"}]
      /\ inTx' \in [Masters -> BOOLEAN]
      /\ tx' \in [Masters -> Transactions]
      /\ tx'[m] = NoChanges
      /\ \A n \in Masters \ {m} :
            conn'[n] = conn[n] /\ inTx'[n] = inTx[n] /\ tx'[n] = tx[n]
  <2>1. /\ tx \in [Masters -> Transactions]
        /\ conn \in [Masters -> {"up", "lost"}] /\ inTx \in [Masters -> BOOLEAN]
    BY DEF TypeOK, Transactions
  <2>2. CASE RollBack(m)
    BY <2>1, <2>2, NoChangesType DEF RollBack
  <2>3. CASE conn[m] = "lost" /\ UNCHANGED connVars
    BY <2>1, <2>3 DEF connVars, NothingPending, Settled
  <2>4. QED
    BY <1>1, <2>2, <2>3
<1>3. OthersKeep(m)
  BY <1>1, <1>2 DEF OthersKeep, TypeOK
<1>4. TypeOK'
  <2>1. /\ pc' \in [Masters -> Places]
        /\ UNCHANGED <<input, rows, cur, created, faults>>
    BY <1>1 DEF TypeOK, Places, dbVars
  <2>2. todo' \in [Masters -> SUBSET Inputs]
    BY <1>1 DEF TypeOK
  <2>3. at' \in [Masters -> 1..(Len(AppList) + 1)]
    <3>1. 1 \in 1..(Len(AppList) + 1) /\ at \in [Masters -> 1..(Len(AppList) + 1)]
      BY MasterAssumption DEF TypeOK
    <3>2. QED
      BY <1>1, <3>1
  <2>4. summary' \in [Masters -> Summaries]
    <3>1. CASE summary' = summary
      BY <3>1 DEF TypeOK, Summaries
    <3>2. CASE pc[m] = "set_rollback" /\ Handled(m, "failed")
      <4>1. cur[m] \in Inputs
        BY <3>2 DEF PendingFollowsPlace, Placed
      <4>2. QED
        BY <3>2, <4>1, HandledSummaryType
    <3>3. QED
      BY <1>1, <3>1, <3>2
  <2>5. \A n \in Masters \ {m} : pc'[n] = "set" /\ at'[n] > 1 => cur'[n] \in todo'[n]
    BY <1>3 DEF OthersKeep, TypeOK
  <2>6. pc'[m] = "set" => at'[m] = 1
    BY <1>1 DEF TypeOK
  <2>7. QED
    BY <1>2, <2>1, <2>2, <2>3, <2>4, <2>5, <2>6 DEF TypeOK, Transactions, Summaries
<1>5. pc'[m] \in {"load", "failed", "set"} /\ (pc'[m] = "set" => at'[m] = 1)
  BY <1>1 DEF TypeOK
<1>6. Settled(m)' /\ Placed(m)'
  BY <1>2, <1>5 DEF Settled, Placed, RowsBefore, NoChanges
<1>7. QED
  BY <1>1, <1>2, <1>3, <1>4, <1>6, UncommittedStep DEF Written, NoChanges

(* Steps that reach another loop, another run or the end have nothing      *)
(* pending before and after.                                               *)
LEMMA SelectInputsKeeps ==
    ASSUME QueueInvariant, NEW m \in Masters, SelectInputs(m)
    PROVE  QueueInvariant'
<1> USE DEF QueueInvariant
<1> DEFINE eligible == {i \in Inputs : IsEligible(i)}
<1>1. /\ pc[m] = "load" /\ pc' = [pc EXCEPT ![m] = "set"]
      /\ conn' = [conn EXCEPT ![m] = "up"] /\ inTx' = [inTx EXCEPT ![m] = FALSE]
      /\ todo' = [todo EXCEPT ![m] = eligible]
      /\ summary' = [summary EXCEPT ![m] = [NoSummary EXCEPT !.selected = eligible]]
      /\ at' = [at EXCEPT ![m] = 1]
      /\ UNCHANGED <<dbVars, tx, cur, created, faults>>
  BY DEF SelectInputs, Goto
<1>2. eligible \subseteq Inputs
  OBVIOUS
<1> HIDE DEF eligible
<1>3. tx'[m] = NoChanges
  BY <1>1 DEF NothingPending, Settled
<1>4. OthersKeep(m)
  BY <1>1 DEF OthersKeep, TypeOK
<1>5. TypeOK'
  <2>1. /\ pc' \in [Masters -> Places]
        /\ UNCHANGED <<input, rows, tx, cur, created, faults>>
        /\ conn' \in [Masters -> {"up", "lost"}] /\ inTx' \in [Masters -> BOOLEAN]
    BY <1>1 DEF TypeOK, Places, dbVars
  <2>2. todo' \in [Masters -> SUBSET Inputs]
    BY <1>1, <1>2 DEF TypeOK
  <2>3. at' \in [Masters -> 1..(Len(AppList) + 1)]
    <3>1. 1 \in 1..(Len(AppList) + 1) /\ at \in [Masters -> 1..(Len(AppList) + 1)]
      BY MasterAssumption DEF TypeOK
    <3>2. QED
      BY <1>1, <3>1
  <2>4. summary' \in [Masters -> Summaries]
    <3>1. [NoSummary EXCEPT !.selected = eligible] \in Summaries
      BY <1>2 DEF NoSummary, Summaries
    <3>2. summary \in [Masters -> Summaries]
      BY DEF TypeOK, Summaries
    <3>3. QED
      BY <1>1, <3>1, <3>2
  <2>5. \A n \in Masters \ {m} : pc'[n] = "set" /\ at'[n] > 1 => cur'[n] \in todo'[n]
    BY <1>4 DEF OthersKeep, TypeOK
  <2>6. at'[m] = 1
    BY <1>1 DEF TypeOK
  <2>7. QED
    BY <2>1, <2>2, <2>3, <2>4, <2>5, <2>6 DEF TypeOK, Summaries
<1>6. pc'[m] = "set" /\ at'[m] = 1
  BY <1>1 DEF TypeOK
<1>7. Settled(m)' /\ Placed(m)'
  BY <1>3, <1>6 DEF Settled, Placed, RowsBefore, NoChanges
<1>8. QED
  BY <1>1, <1>3, <1>4, <1>5, <1>7, UncommittedStep DEF Written, NoChanges

(* A row of a queue set follows the rows before it, over the connection    *)
(* that wrote those.                                                       *)
LEMMA InsertQueueRowKeeps ==
    ASSUME QueueInvariant, NEW m \in Masters, InsertQueueRow(m)
    PROVE  QueueInvariant'
<1> USE DEF QueueInvariant
<1>1. PICK i \in todo[m] :
        /\ at[m] = 1 \/ i = cur[m]
        /\ cur' = [cur EXCEPT ![m] = i]
        /\ Execute(m, [NoChanges EXCEPT !.rows = {<<i, AppList[at[m]]>>}])
  BY DEF InsertQueueRow
<1>2. /\ pc[m] = "set" /\ at[m] <= Len(AppList)
      /\ at' = [at EXCEPT ![m] = @ + 1]
      /\ UNCHANGED <<dbVars, pc, todo, summary, created, faults>>
  BY DEF InsertQueueRow
<1>3. /\ i \in Inputs /\ Len(AppList) \in Nat
      /\ at[m] \in 1..Len(AppList) /\ at[m] + 1 \in 1..(Len(AppList) + 1)
  BY <1>2, MasterAssumption DEF TypeOK
<1> DEFINE row == [NoChanges EXCEPT !.rows = {<<i, AppList[at[m]]>>}]
<1>4. /\ row \in Transactions
      /\ row.loads = {} /\ row.marks = {} /\ row.rows = {<<i, AppList[at[m]]>>}
  BY <1>3 DEF NoChanges, Transactions, Apps
<1>5. Execute(m, row)
  BY <1>1
<1> HIDE DEF row
<1>6. /\ conn' \in [Masters -> {"up", "lost"}]
      /\ inTx' \in [Masters -> BOOLEAN]
      /\ tx' \in [Masters -> Transactions]
      /\ conn'[m] = "up" /\ inTx'[m] = TRUE
      /\ conn[m] = "up" \/ inTx[m] = FALSE
      /\ tx'[m].loads = tx[m].loads \cup row.loads
      /\ tx'[m].rows = tx[m].rows \cup row.rows
      /\ tx'[m].marks = tx[m].marks \cup row.marks
      /\ \A n \in Masters \ {m} :
            conn'[n] = conn[n] /\ inTx'[n] = inTx[n] /\ tx'[n] = tx[n]
  BY <1>4, <1>5, ExecuteAdds
<1>7. tx[m].loads = {} /\ tx[m].marks = {} /\ tx[m].rows = RowsBefore(i, at[m])
  <2>1. tx[m].loads = {} /\ tx[m].marks = {} /\ (at[m] > 1 => inTx[m])
        /\ (conn[m] = "up" => tx[m].rows = RowsBefore(cur[m], at[m]))
    BY <1>2 DEF PendingFollowsPlace, Placed
  <2>2. CASE at[m] = 1
    <3>1. RowsBefore(i, at[m]) = {} /\ RowsBefore(cur[m], at[m]) = {}
      BY <2>2 DEF RowsBefore
    <3>2. conn[m] # "up" => tx[m].rows = {}
      BY DEF NothingPending, Settled, NoChanges, TypeOK
    <3>3. QED
      BY <2>1, <3>1, <3>2
  <2>3. CASE at[m] # 1
    <3>1. i = cur[m] /\ inTx[m]
      BY <1>1, <1>3, <2>1, <2>3
    <3>2. QED
      BY <1>6, <2>1, <3>1
  <2>4. QED
    BY <2>2, <2>3
<1>8. tx'[m].loads = {} /\ tx'[m].marks = {} /\ tx'[m].rows = RowsBefore(i, at[m] + 1)
  <2>1. RowsBefore(i, at[m] + 1) = RowsBefore(i, at[m]) \cup {<<i, AppList[at[m]]>>}
    <3>1. 1..(at[m] + 1 - 1) = 1..(at[m] - 1) \cup {at[m]}
      BY <1>3
    <3>2. QED
      BY <3>1 DEF RowsBefore
  <2>2. QED
    BY <1>4, <1>6, <1>7, <2>1
<1>9. cur'[m] = i /\ at'[m] = at[m] + 1 /\ pc'[m] = "set" /\ todo'[m] = todo[m]
  BY <1>1, <1>2 DEF TypeOK
<1>10. OthersKeep(m)
  BY <1>1, <1>2, <1>6 DEF OthersKeep, TypeOK
<1>11. TypeOK'
  <2>1. cur' \in [Masters -> Inputs \cup {NoInput}]
    BY <1>1, <1>3 DEF TypeOK
  <2>2. at' \in [Masters -> 1..(Len(AppList) + 1)]
    BY <1>2, <1>3 DEF TypeOK
  <2>3. \A n \in Masters \ {m} : pc'[n] = "set" /\ at'[n] > 1 => cur'[n] \in todo'[n]
    BY <1>10 DEF OthersKeep, TypeOK
  <2>4. cur'[m] \in todo'[m]
    BY <1>9
  <2>5. QED
    BY <1>2, <1>6, <2>1, <2>2, <2>3, <2>4 DEF TypeOK, Transactions, dbVars
<1>12. Settled(m)' /\ Placed(m)'
  <2>1. tx'[m].rows = RowsBefore(cur'[m], at'[m])
    BY <1>8, <1>9
  <2>2. RowsBefore(cur[m], at[m])' = RowsBefore(cur'[m], at'[m])
    BY DEF RowsBefore
  <2>3. QED
    BY <1>6, <1>8, <1>9, <2>1, <2>2 DEF Settled, Placed
<1>13. QED
  BY <1>2, <1>8, <1>10, <1>11, <1>12, UncommittedStep DEF Written

(* The mark is written on an input that no other transaction has written,  *)
(* after the rows of all applications.                                     *)
LEMMA MarkQueueCreatedKeeps ==
    ASSUME QueueInvariant, NEW m \in Masters, MarkQueueCreated(m)
    PROVE  QueueInvariant'
<1> USE DEF QueueInvariant
<1>1. /\ pc[m] = "set" /\ at[m] > Len(AppList) /\ ~ IsLocked(m, cur[m])
      /\ UNCHANGED <<dbVars, loopVars, faults>>
      /\ \/ /\ input[cur[m]] = "new"
            /\ Execute(m, [NoChanges EXCEPT !.marks = {cur[m]}])
            /\ pc' = [pc EXCEPT ![m] = "set_commit"]
         \/ /\ Execute(m, NoChanges)
            /\ pc' = [pc EXCEPT ![m] = "set_rollback"]
  BY DEF MarkQueueCreated, IsEligible, Goto
<1>2. /\ at[m] = Len(AppList) + 1 /\ at[m] > 1
      /\ cur[m] \in Inputs
  BY <1>1, MasterAssumption DEF TypeOK
<1> DEFINE mark == [NoChanges EXCEPT !.marks = {cur[m]}]
<1>3. /\ mark \in Transactions
      /\ mark.loads = {} /\ mark.rows = {} /\ mark.marks = {cur[m]}
      /\ NoChanges.loads = {} /\ NoChanges.rows = {} /\ NoChanges.marks = {}
  BY <1>2 DEF NoChanges, Transactions
<1>4. \/ /\ input[cur[m]] = "new" /\ Execute(m, mark)
         /\ pc' = [pc EXCEPT ![m] = "set_commit"]
      \/ /\ Execute(m, NoChanges)
         /\ pc' = [pc EXCEPT ![m] = "set_rollback"]
  BY <1>1
<1> HIDE DEF mark, NoChanges
<1>5. /\ conn' \in [Masters -> {"up", "lost"}]
      /\ inTx' \in [Masters -> BOOLEAN]
      /\ tx' \in [Masters -> Transactions]
      /\ conn'[m] = "up" /\ inTx'[m] = TRUE
      /\ conn[m] = "up" \/ inTx[m] = FALSE
      /\ \A n \in Masters \ {m} :
            conn'[n] = conn[n] /\ inTx'[n] = inTx[n] /\ tx'[n] = tx[n]
  BY <1>3, <1>4, ExecuteAdds, NoChangesType
<1>6. /\ tx[m].loads = {} /\ tx[m].marks = {} /\ tx[m].rows = {cur[m]} \X Apps
  <2>1. tx[m].loads = {} /\ tx[m].marks = {} /\ inTx[m]
        /\ (conn[m] = "up" => tx[m].rows = RowsBefore(cur[m], at[m]))
    BY <1>1, <1>2 DEF PendingFollowsPlace, Placed
  <2>2. tx[m].rows = {<<cur[m], AppList[j]>> : j \in 1..(at[m] - 1)}
    BY <1>5, <2>1 DEF RowsBefore
  <2>3. 1..(at[m] - 1) = 1..Len(AppList)
    BY <1>2, MasterAssumption
  <2>4. {<<cur[m], AppList[j]>> : j \in 1..Len(AppList)} = {cur[m]} \X Apps
    BY DEF Apps
  <2>5. QED
    BY <2>1, <2>2, <2>3, <2>4
<1>7. /\ tx'[m].loads = {} /\ tx'[m].rows = {cur[m]} \X Apps
      /\ \/ input[cur[m]] = "new" /\ tx'[m].marks = {cur[m]} /\ pc'[m] = "set_commit"
         \/ tx'[m].marks = {} /\ pc'[m] = "set_rollback"
  <2>1. pc \in [Masters -> Places]
    BY DEF TypeOK
  <2>2. CASE /\ input[cur[m]] = "new" /\ Execute(m, mark)
             /\ pc' = [pc EXCEPT ![m] = "set_commit"]
    <3>1. /\ tx'[m].loads = tx[m].loads \cup mark.loads
          /\ tx'[m].rows = tx[m].rows \cup mark.rows
          /\ tx'[m].marks = tx[m].marks \cup mark.marks
      BY <1>3, <2>2, ExecuteAdds
    <3>2. QED
      BY <1>3, <1>6, <2>1, <2>2, <3>1
  <2>3. CASE Execute(m, NoChanges) /\ pc' = [pc EXCEPT ![m] = "set_rollback"]
    <3>1. /\ tx'[m].loads = tx[m].loads \cup NoChanges.loads
          /\ tx'[m].rows = tx[m].rows \cup NoChanges.rows
          /\ tx'[m].marks = tx[m].marks \cup NoChanges.marks
      BY <2>3, ExecuteAdds, NoChangesType
    <3>2. QED
      BY <1>3, <1>6, <2>1, <2>3, <3>1
  <2>4. QED
    BY <1>4, <2>2, <2>3
<1>8. OthersKeep(m)
  BY <1>1, <1>5 DEF OthersKeep, TypeOK, loopVars
<1>9. TypeOK'
  <2>1. /\ pc' \in [Masters -> Places]
        /\ UNCHANGED <<input, rows, todo, cur, at, summary, created, faults>>
    BY <1>1 DEF TypeOK, Places, dbVars, loopVars
  <2>2. \A n \in Masters : pc'[n] = "set" => pc[n] = "set"
    BY <1>7, <1>8 DEF OthersKeep
  <2>3. QED
    BY <1>5, <2>1, <2>2 DEF TypeOK, Transactions
<1>10. Settled(m)' /\ Placed(m)'
  BY <1>1, <1>2, <1>5, <1>7 DEF Settled, Placed, loopVars
<1>11. QED
  BY <1>1, <1>7, <1>8, <1>9, <1>10, UncommittedStep DEF Written

(* A run ends with nothing pending, as the loop has no set in hand.        *)
LEMMA FinishRunKeeps ==
    ASSUME QueueInvariant, NEW m \in Masters, FinishRun(m)
    PROVE  QueueInvariant'
<1> USE DEF QueueInvariant
<1>1. /\ pc[m] = "set" /\ todo[m] = {} /\ pc' = [pc EXCEPT ![m] = "done"]
      /\ UNCHANGED <<dbVars, connVars, loopVars, faults>>
  BY DEF FinishRun, Goto
<1>2. at[m] = 1
  <2>1. at[m] \in 1..(Len(AppList) + 1) /\ ~ (at[m] > 1)
    BY <1>1 DEF TypeOK
  <2>2. QED
    BY <2>1, MasterAssumption
<1>3. tx[m] = NoChanges
  <2>1. CASE conn[m] = "up"
    <3>1. tx[m].loads = {} /\ tx[m].marks = {} /\ tx[m].rows = RowsBefore(cur[m], 1)
      BY <1>1, <1>2, <2>1 DEF PendingFollowsPlace, Placed
    <3>2. RowsBefore(cur[m], 1) = {}
      BY DEF RowsBefore
    <3>3. tx[m] \in Transactions
      BY DEF TypeOK, Transactions
    <3>4. QED
      BY <3>1, <3>2, <3>3 DEF Transactions, NoChanges
  <2>2. CASE conn[m] # "up"
    BY <2>2 DEF NothingPending, Settled, TypeOK
  <2>3. QED
    BY <2>1, <2>2
<1>4. UNCHANGED <<input, rows, conn, inTx, tx, todo, cur, at, summary, created, faults>>
  BY <1>1 DEF dbVars, connVars, loopVars
<1>5. /\ pc' \in [Masters -> Places]
      /\ pc'[m] = "done"
      /\ \A n \in Masters \ {m} : pc'[n] = pc[n]
  BY <1>1 DEF TypeOK, Places
<1>6. TypeOK'
  <2>1. \A n \in Masters : pc'[n] = "set" => pc[n] = "set"
    BY <1>5
  <2>2. QED
    BY <1>4, <1>5, <2>1 DEF TypeOK
<1>7. OthersKeep(m)
  BY <1>4, <1>5 DEF OthersKeep
<1>8. Settled(m)' /\ Placed(m)'
  BY <1>3, <1>4, <1>5 DEF Settled, Placed
<1>9. QED
  BY <1>1, <1>3, <1>4, <1>6, <1>7, <1>8, UncommittedStep DEF Written, NoChanges

(* The next run starts with nothing pending: the transaction of a run that *)
(* failed or died with its process is gone with its connection.            *)
LEMMA StartRunKeeps ==
    ASSUME QueueInvariant, NEW m \in Masters, StartRun(m)
    PROVE  QueueInvariant'
<1> USE DEF QueueInvariant
<1>1. /\ pc[m] \in {"done", "failed", "dead"} /\ pc' = [pc EXCEPT ![m] = "start"]
      /\ \/ UNCHANGED connVars
         \/ /\ conn' = [conn EXCEPT ![m] = "up"]
            /\ inTx' = [inTx EXCEPT ![m] = FALSE]
            /\ tx' = [tx EXCEPT ![m] = NoChanges]
      /\ todo' = [todo EXCEPT ![m] = Inputs]
      /\ cur' = [cur EXCEPT ![m] = NoInput]
      /\ at' = [at EXCEPT ![m] = 1]
      /\ summary' = [summary EXCEPT ![m] = NoSummary]
      /\ created' = [created EXCEPT ![m] = {}]
      /\ UNCHANGED <<dbVars, faults>>
  BY DEF StartRun, Goto
<1>2. /\ tx \in [Masters -> Transactions]
      /\ conn \in [Masters -> {"up", "lost"}] /\ inTx \in [Masters -> BOOLEAN]
      /\ tx[m] = NoChanges
  BY <1>1 DEF TypeOK, Transactions, NothingPending, Settled
<1>3. /\ conn' \in [Masters -> {"up", "lost"}]
      /\ inTx' \in [Masters -> BOOLEAN]
      /\ tx' \in [Masters -> Transactions]
      /\ tx'[m] = NoChanges
      /\ \A n \in Masters \ {m} :
            conn'[n] = conn[n] /\ inTx'[n] = inTx[n] /\ tx'[n] = tx[n]
  BY <1>1, <1>2, NoChangesType DEF connVars
<1>4. OthersKeep(m)
  BY <1>1, <1>3 DEF OthersKeep, TypeOK
<1>5. TypeOK'
  <2>1. /\ pc' \in [Masters -> Places]
        /\ UNCHANGED <<input, rows, faults>>
    BY <1>1 DEF TypeOK, Places, dbVars
  <2>2. /\ todo' \in [Masters -> SUBSET Inputs]
        /\ cur' \in [Masters -> Inputs \cup {NoInput}]
        /\ created' \in [Masters -> SUBSET Inputs]
    BY <1>1 DEF TypeOK
  <2>3. at' \in [Masters -> 1..(Len(AppList) + 1)]
    <3>1. 1 \in 1..(Len(AppList) + 1) /\ at \in [Masters -> 1..(Len(AppList) + 1)]
      BY MasterAssumption DEF TypeOK
    <3>2. QED
      BY <1>1, <3>1
  <2>4. summary' \in [Masters -> Summaries]
    <3>1. NoSummary \in Summaries
      BY DEF NoSummary, Summaries
    <3>2. summary \in [Masters -> Summaries]
      BY DEF TypeOK, Summaries
    <3>3. QED
      BY <1>1, <3>1, <3>2
  <2>5. \A n \in Masters \ {m} : pc'[n] = "set" /\ at'[n] > 1 => cur'[n] \in todo'[n]
    BY <1>4 DEF OthersKeep, TypeOK
  <2>6. at'[m] = 1
    BY <1>1 DEF TypeOK
  <2>7. QED
    BY <1>3, <2>1, <2>2, <2>3, <2>4, <2>5, <2>6 DEF TypeOK, Summaries, Transactions
<1>6. pc'[m] = "start"
  BY <1>1 DEF TypeOK
<1>7. Settled(m)' /\ Placed(m)'
  BY <1>3, <1>6 DEF Settled, Placed
<1>8. QED
  BY <1>1, <1>3, <1>4, <1>5, <1>7, UncommittedStep DEF Written, NoChanges

(* The server drops what a connection that is lost had not committed.      *)
LEMMA LossKeeps ==
    ASSUME QueueInvariant, NEW m \in Masters, Disconnect(m) \/ Die(m)
    PROVE  QueueInvariant'
<1> USE DEF QueueInvariant
<1>1. /\ Lose(m) /\ faults' = faults + 1
      /\ pc' = pc \/ pc' = [pc EXCEPT ![m] = "dead"]
      /\ UNCHANGED <<input, rows, todo, cur, at, summary, created>>
  BY DEF Disconnect, Die, Goto, dbVars, loopVars
<1>2. /\ conn' \in [Masters -> {"up", "lost"}]
      /\ inTx' \in [Masters -> BOOLEAN]
      /\ tx' \in [Masters -> Transactions]
      /\ conn'[m] = "lost" /\ tx'[m] = NoChanges /\ inTx'[m] = inTx[m]
      /\ \A n \in Masters \ {m} :
            conn'[n] = conn[n] /\ inTx'[n] = inTx[n] /\ tx'[n] = tx[n]
  BY <1>1, LoseDrops
<1>3. /\ pc' \in [Masters -> Places]
      /\ pc'[m] \in {pc[m], "dead"}
      /\ \A n \in Masters \ {m} : pc'[n] = pc[n]
  BY <1>1 DEF TypeOK, Places
<1>4. TypeOK'
  <2>1. \A n \in Masters : pc'[n] = "set" => pc[n] = "set"
    BY <1>3
  <2>2. faults' \in Nat
    BY <1>1 DEF TypeOK
  <2>3. QED
    BY <1>1, <1>2, <1>3, <2>1, <2>2 DEF TypeOK, Transactions
<1>5. OthersKeep(m)
  BY <1>1, <1>2, <1>3 DEF OthersKeep
<1>6. Settled(m)' /\ Placed(m)'
  <2>1. Placed(m)
    BY DEF PendingFollowsPlace
  <2>2. QED
    BY <1>1, <1>2, <1>3, <2>1 DEF Settled, Placed, NoChanges
<1>7. UNCHANGED dbVars
  BY <1>1 DEF dbVars
<1>8. QED
  BY <1>2, <1>4, <1>5, <1>6, <1>7, UncommittedStep DEF Written, NoChanges

(* Every step of every master keeps the invariant.                         *)
LEMMA QueueNextKeeps == QueueInvariant /\ [Next]_masterVars => QueueInvariant'
<1> SUFFICES ASSUME QueueInvariant, [Next]_masterVars
             PROVE  QueueInvariant'
  OBVIOUS
<1>1. ASSUME NEW m \in Masters, MasterStep(m) \/ Disconnect(m) \/ Die(m)
      PROVE  QueueInvariant'
  BY <1>1, PrepareRunKeeps, InsertInputKeeps, RaisesKeep, CommitsKeep, RollBacksKeep, SelectInputsKeeps,
     InsertQueueRowKeeps, MarkQueueCreatedKeeps, FinishRunKeeps, StartRunKeeps, LossKeeps
     DEF MasterStep
<1>2. CASE UNCHANGED masterVars
  <2>1. UNCHANGED <<input, rows, pc, conn, inTx, tx, todo, cur, at, summary, created, faults>>
    BY <1>2 DEF masterVars
  <2>2. TypeOK'
    BY <2>1 DEF QueueInvariant, TypeOK
  <2>3. NothingPending' /\ PendingFollowsPlace' /\ WritesAreExclusive'
    BY <2>1 DEF QueueInvariant, NothingPending, Settled, PendingFollowsPlace, Placed,
                RowsBefore, WritesAreExclusive, Written
  <2>4. QueueSetsAreComplete'
    BY <2>1 DEF QueueInvariant, QueueSetsAreComplete
  <2>5. QED
    BY <2>2, <2>3, <2>4 DEF QueueInvariant
<1>3. QED
  BY <1>1, <1>2 DEF Next
-----------------------------------------------------------------------------
(* For any inputs, applications and number of masters, whatever fails.     *)
THEOREM QueueInvariantHolds == Spec => []QueueInvariant
<1>1. QED
  BY QueueInitEstablishes, QueueNextKeeps, PTL DEF Spec

(* Every variable keeps its type, and a queue set that has been begun is   *)
(* that of an input its loop has still to handle.                          *)
THEOREM QueueTypesHold == Spec => []TypeOK
<1>1. QueueInvariant => TypeOK
  BY DEF QueueInvariant
<1>2. QED
  BY <1>1, QueueInvariantHolds, PTL

(* Orqflow_Requirement.md section 9.2: an input has its complete queue set *)
(* and its mark, or neither, and never twice, whichever statements fail,   *)
(* connections are lost, commits go unanswered, processes die or masters   *)
(* race for the same inputs.                                               *)
THEOREM QueueSetsStayComplete == Spec => []QueueSetsAreComplete
<1>1. QueueInvariant => QueueSetsAreComplete
  BY DEF QueueInvariant
<1>2. QED
  BY <1>1, QueueInvariantHolds, PTL
-----------------------------------------------------------------------------
(***************************************************************************)
(* The masters implement QueueSets, and the summary of a completed run is  *)
(* true, for any inputs, applications and number of masters.               *)
(***************************************************************************)

(* The variables of one master.                                            *)
Same(n) ==
    /\ pc'[n] = pc[n] /\ conn'[n] = conn[n] /\ tx'[n] = tx[n] /\ todo'[n] = todo[n]
    /\ cur'[n] = cur[n] /\ summary'[n] = summary[n] /\ created'[n] = created[n]

(* A step of a master leaves the others alone.                             *)
LEMMA LoopsStay ==
    ASSUME TypeOK, NEW m \in Masters, NEW n \in Masters \ {m},
           \/ MasterStep(m) \/ Disconnect(m) \/ Die(m)
    PROVE  Same(n)
<1> USE DEF TypeOK, Same, dbVars, loopVars, connVars, Goto
<1>1. ASSUME NEW changes, Execute(m, changes)
      PROVE  conn'[n] = conn[n] /\ tx'[n] = tx[n]
  BY <1>1 DEF Execute
<1>2. Raise(m) \/ Lose(m) => conn'[n] = conn[n] /\ tx'[n] = tx[n]
  BY DEF Raise, Lose
<1>3. CommitSucceeds(m) \/ CommitRaises(m)
        => conn'[n] = conn[n] /\ tx'[n] = tx[n] /\ created'[n] = created[n]
  BY DEF CommitSucceeds, CommitRaises, ApplyCommit, Lose
<1>4. RollBack(m) => conn'[n] = conn[n] /\ tx'[n] = tx[n]
  BY DEF RollBack
<1>5. ASSUME NEW key, Handled(m, key)
      PROVE  summary'[n] = summary[n] /\ todo'[n] = todo[n] /\ pc'[n] = pc[n]
  BY <1>5 DEF Handled
<1>6. CASE PrepareRun(m)
  BY <1>1, <1>2, <1>6 DEF PrepareRun
<1>7. CASE InsertInput(m)
  BY <1>1, <1>7 DEF InsertInput
<1>8. CASE InsertRaises(m) \/ SelectRaises(m) \/ QueueSetRaises(m)
  BY <1>2, <1>8 DEF InsertRaises, SelectRaises, QueueSetRaises
<1>9. CASE CommitInput(m)
  BY <1>3, <1>9 DEF CommitInput
<1>10. CASE RollBackInput(m)
  BY <1>4, <1>10 DEF RollBackInput
<1>11. CASE SelectInputs(m)
  BY <1>11 DEF SelectInputs
<1>12. CASE InsertQueueRow(m)
  BY <1>1, <1>12 DEF InsertQueueRow
<1>13. CASE MarkQueueCreated(m)
  BY <1>1, <1>13 DEF MarkQueueCreated
<1>14. CASE CommitQueueSet(m)
  BY <1>3, <1>5, <1>14 DEF CommitQueueSet
<1>15. CASE RollBackQueueSet(m)
  BY <1>4, <1>5, <1>15 DEF RollBackQueueSet
<1>16. CASE FinishRun(m) \/ StartRun(m)
  BY <1>16 DEF FinishRun, StartRun
<1>17. CASE Disconnect(m) \/ Die(m)
  BY <1>2, <1>17 DEF Disconnect, Die
<1>18. QED
  BY <1>6, <1>7, <1>8, <1>9, <1>10, <1>11, <1>12, <1>13, <1>14, <1>15, <1>16, <1>17
  DEF MasterStep

TrueSummary(m) ==
    pc[m] = "done" =>
        /\ summary[m].queued = created[m]
        /\ summary[m].failed \cap created[m] = {}
        /\ summary[m].queued \cup summary[m].failed = summary[m].selected

Own(m) == Loading(m) /\ Accounted(m) /\ TrueSummary(m)

(* Before the selection nothing has been created.                          *)
LEMMA LoadAccounts ==
    ASSUME QueueInvariant, RunInvariant, NEW m \in Masters,
           \/ PrepareRun(m) \/ InsertInput(m) \/ InsertRaises(m) \/ RollBackInput(m)
           \/ SelectInputs(m) \/ SelectRaises(m) \/ StartRun(m)
    PROVE  Own(m)'
<1> USE DEF QueueInvariant
<1>1. Accounted(m) /\ pc \in [Masters -> Places] /\ created \in [Masters -> SUBSET Inputs]
  BY DEF RunInvariant, TypeOK
<1>2. CASE PrepareRun(m) \/ RollBackInput(m) \/ SelectRaises(m)
  <2>1. pc'[m] \in {"load", "failed"} /\ created'[m] = {}
    BY <1>1, <1>2 DEF PrepareRun, RollBackInput, SelectRaises, Goto, loopVars, Accounted
  <2>2. QED
    BY <2>1 DEF Own, Loading, Accounted, TrueSummary
<1>3. CASE InsertRaises(m)
  <2>1. pc'[m] = "load_rollback" /\ created'[m] = {}
    BY <1>1, <1>3 DEF InsertRaises, Goto, Accounted
  <2>2. QED
    BY <2>1 DEF Own, Loading, Accounted, TrueSummary
<1>4. CASE StartRun(m)
  <2>1. pc'[m] = "start" /\ created'[m] = {}
    BY <1>1, <1>4 DEF StartRun, Goto
  <2>2. QED
    BY <2>1 DEF Own, Loading, Accounted, TrueSummary
<1>5. CASE InsertInput(m)
  <2>1. PICK i \in todo[m] :
          /\ cur' = [cur EXCEPT ![m] = i]
          /\ \/ /\ Execute(m, [NoChanges EXCEPT !.loads = {i}])
                /\ Goto(m, "load_commit")
             \/ Goto(m, "load_rollback")
    BY <1>5 DEF InsertInput
  <2>2. /\ i \in Inputs /\ cur'[m] = i /\ created'[m] = {}
        /\ pc'[m] \in {"load_commit", "load_rollback"}
    BY <1>1, <1>5, <2>1 DEF InsertInput, Goto, Accounted, TypeOK
  <2>3. ASSUME pc'[m] = "load_commit"
        PROVE  tx'[m].loads = {i}
    <3>1. Execute(m, [NoChanges EXCEPT !.loads = {i}])
      BY <1>1, <2>1, <2>3 DEF Goto
    <3>2. [NoChanges EXCEPT !.loads = {i}] \in Transactions
      BY <2>2 DEF NoChanges, Transactions
    <3>3. tx[m] = NoChanges
      BY <1>5 DEF InsertInput, NothingPending, Settled
    <3>4. tx'[m].loads = tx[m].loads \cup [NoChanges EXCEPT !.loads = {i}].loads
      BY <3>1, <3>2, ExecuteAdds
    <3>5. QED
      BY <3>3, <3>4 DEF NoChanges
  <2>4. QED
    BY <2>2, <2>3 DEF Own, Loading, Accounted, TrueSummary
<1>6. CASE SelectInputs(m)
  <2>1. /\ pc'[m] = "set" /\ created'[m] = {}
        /\ summary'[m] = [NoSummary EXCEPT !.selected = todo'[m]]
    BY <1>1, <1>6 DEF SelectInputs, Goto, Accounted, TypeOK
  <2>2. QED
    BY <2>1 DEF Own, Loading, Accounted, TrueSummary, NoSummary
<1>7. QED
  BY <1>2, <1>3, <1>4, <1>5, <1>6

LEMMA CommitInputAccounts ==
    ASSUME QueueInvariant, RunInvariant, NEW m \in Masters, CommitInput(m)
    PROVE  Own(m)'
<1> USE DEF QueueInvariant
<1>1. pc[m] = "load_commit" /\ created[m] = {} /\ pc'[m] \in {"load", "load_rollback"}
  BY DEF RunInvariant, TypeOK, CommitInput, Accounted, Goto
<1>2. created'[m] = {}
  <2>1. tx[m].marks = {}
    BY <1>1 DEF PendingFollowsPlace, Placed
  <2>2. ApplyCommit(m) \/ UNCHANGED created
    BY CommitIsAtomic DEF CommitInput
  <2>3. QED
    BY <1>1, <2>1, <2>2 DEF ApplyCommit, TypeOK
<1>3. QED
  BY <1>1, <1>2 DEF Own, Loading, Accounted, TrueSummary

(* The statements of a queue set change no summary.                        *)
LEMMA SetStatementsAccount ==
    ASSUME QueueInvariant, RunInvariant, NEW m \in Masters,
           \/ InsertQueueRow(m) \/ MarkQueueCreated(m) \/ QueueSetRaises(m) \/ FinishRun(m)
           \/ Disconnect(m) \/ Die(m)
    PROVE  Own(m)'
<1> USE DEF QueueInvariant
<1>1. /\ Accounted(m) /\ Loading(m) /\ TrueSummary(m)
      /\ pc \in [Masters -> Places] /\ cur \in [Masters -> Inputs \cup {NoInput}]
      /\ conn \in [Masters -> {"up", "lost"}]
  BY DEF RunInvariant, SummaryIsTrue, TrueSummary, TypeOK
<1>2. UNCHANGED <<todo, summary, created>>
  BY DEF InsertQueueRow, MarkQueueCreated, QueueSetRaises, FinishRun, Disconnect, Die, loopVars
<1>3. CASE InsertQueueRow(m)
  BY <1>1, <1>2, <1>3 DEF InsertQueueRow, Own, Loading, Accounted, TrueSummary
<1>4. CASE MarkQueueCreated(m)
  <2>1. 1 \in Nat /\ Len(AppList) \in Nat \ {0} /\ at[m] \in Nat /\ at[m] > Len(AppList)
    BY <1>4, MasterAssumption DEF MarkQueueCreated, TypeOK
  <2>2. pc[m] = "set" /\ at[m] > 1
    BY <1>4, <2>1 DEF MarkQueueCreated
  <2>3. cur[m] \in todo[m]
    BY <2>2 DEF TypeOK
  <2>4. pc'[m] \in {"set_commit", "set_rollback"} /\ cur'[m] = cur[m]
    BY <1>1, <1>4 DEF MarkQueueCreated, Goto, loopVars
  <2>5. QED
    BY <1>1, <1>2, <2>2, <2>3, <2>4 DEF Own, Loading, Accounted, TrueSummary
<1>5. CASE QueueSetRaises(m)
  <2>1. pc[m] = "set" /\ pc'[m] = "set_rollback" /\ cur'[m] \in todo[m]
    BY <1>1, <1>5 DEF QueueSetRaises, Goto
  <2>2. QED
    BY <1>1, <1>2, <2>1 DEF Own, Loading, Accounted, TrueSummary
<1>6. CASE FinishRun(m)
  <2>1. pc[m] = "set" /\ todo[m] = {} /\ pc'[m] = "done"
    BY <1>1, <1>6 DEF FinishRun, Goto
  <2>2. QED
    BY <1>1, <1>2, <2>1 DEF Own, Loading, Accounted, TrueSummary
<1>7. CASE Disconnect(m) \/ Die(m)
  <2>1. pc'[m] \in {pc[m], "dead"} /\ cur'[m] = cur[m] /\ conn'[m] = "lost"
    BY <1>1, <1>7 DEF Disconnect, Die, Goto, Lose, loopVars
  <2>2. QED
    BY <1>1, <1>2, <2>1 DEF Own, Loading, Accounted, TrueSummary
<1>8. QED
  BY <1>3, <1>4, <1>5, <1>6, <1>7

(* What the loop books for an input, and what it leaves to be handled.     *)
LEMMA HandledBooks ==
    ASSUME TypeOK, NEW m \in Masters, NEW key \in {"queued", "failed"}, Handled(m, key)
    PROVE  /\ pc'[m] = "set" /\ todo'[m] = todo[m] \ {cur[m]}
           /\ summary'[m].selected = summary[m].selected
           /\ summary'[m].queued = summary[m].queued \cup (IF key = "queued" THEN {cur[m]} ELSE {})
           /\ summary'[m].failed = summary[m].failed \cup (IF key = "failed" THEN {cur[m]} ELSE {})
<1>1. pc'[m] = "set" /\ todo'[m] = todo[m] \ {cur[m]}
  BY HandledMoves DEF TypeOK
<1>2. summary \in [Masters -> Summaries] /\ summary[m] \in Summaries
  BY DEF TypeOK, Summaries
<1>3. summary'[m] = [summary[m] EXCEPT ![key] = summary[m][key] \cup {cur[m]}]
  BY <1>2 DEF Handled
<1>4. CASE key = "queued"
  BY <1>1, <1>2, <1>3, <1>4 DEF Summaries
<1>5. CASE key = "failed"
  BY <1>1, <1>2, <1>3, <1>5 DEF Summaries
<1>6. QED
  BY <1>4, <1>5

(* A queue set is booked as what has become of it.                         *)
LEMMA SetEndsAccount ==
    ASSUME QueueInvariant, RunInvariant, NEW m \in Masters,
           CommitQueueSet(m) \/ RollBackQueueSet(m)
    PROVE  Own(m)'
<1> USE DEF QueueInvariant
<1>1. /\ Accounted(m)
      /\ pc \in [Masters -> Places] /\ conn \in [Masters -> {"up", "lost"}]
      /\ created \in [Masters -> SUBSET Inputs]
  BY DEF RunInvariant, TypeOK
<1>2. CASE CommitQueueSet(m) /\ CommitSucceeds(m) /\ Handled(m, "queued")
  <2>1. pc[m] = "set_commit" /\ conn[m] = "up" /\ ApplyCommit(m)
    BY <1>2 DEF CommitQueueSet, CommitSucceeds
  <2>2. created'[m] = created[m] \cup {cur[m]}
    BY <1>1, <2>1 DEF PendingFollowsPlace, Placed, ApplyCommit
  <2>3. QED
    BY <1>1, <1>2, <2>1, <2>2, HandledBooks DEF Own, Loading, Accounted, TrueSummary
<1>3. CASE CommitQueueSet(m) /\ CommitRaises(m) /\ Goto(m, "set_rollback")
  <2>1. /\ pc[m] = "set_commit" /\ pc'[m] = "set_rollback"
        /\ UNCHANGED <<cur, todo, at, summary>>
    BY <1>1, <1>3 DEF CommitQueueSet, Goto, Handled
  <2>2. conn'[m] = "up" => UNCHANGED created
    BY <1>1, <1>3 DEF CommitRaises, Lose
  <2>3. QED
    BY <1>1, <2>1, <2>2 DEF Own, Loading, Accounted, TrueSummary
<1>4. CASE RollBackQueueSet(m) /\ RollBack(m) /\ Handled(m, "failed")
  <2>1. pc[m] = "set_rollback" /\ conn[m] = "up" /\ UNCHANGED created
    BY <1>4 DEF RollBackQueueSet, RollBack
  <2>2. QED
    BY <1>1, <1>4, <2>1, HandledBooks DEF Own, Loading, Accounted, TrueSummary
<1>5. CASE RollBackQueueSet(m) /\ Goto(m, "failed")
  <2>1. pc'[m] = "failed"
    BY <1>1, <1>5 DEF Goto
  <2>2. QED
    BY <2>1 DEF Own, Loading, Accounted, TrueSummary
<1>6. QED
  BY <1>2, <1>3, <1>4, <1>5 DEF CommitQueueSet, RollBackQueueSet

LEMMA RunInvariantKept ==
    QueueInvariant /\ RunInvariant /\ [Next]_masterVars => RunInvariant'
<1> SUFFICES ASSUME QueueInvariant, RunInvariant, [Next]_masterVars
             PROVE  RunInvariant'
  OBVIOUS
<1>1. CASE UNCHANGED masterVars
  BY <1>1 DEF masterVars, RunInvariant, SummaryIsTrue, Loading, Accounted
<1>2. ASSUME NEW m \in Masters, MasterStep(m) \/ Disconnect(m) \/ Die(m)
      PROVE  RunInvariant'
  <2>1. Own(m)'
    BY <1>2, LoadAccounts, CommitInputAccounts, SetStatementsAccount, SetEndsAccount
    DEF MasterStep
  <2>2. ASSUME NEW n \in Masters \ {m}
        PROVE  Own(n)'
    <3>1. Same(n)
      BY <1>2, LoopsStay DEF QueueInvariant
    <3>2. Own(n)
      BY DEF Own, RunInvariant, SummaryIsTrue, TrueSummary
    <3>3. QED
      BY <3>1, <3>2 DEF Same, Own, Loading, Accounted, TrueSummary
  <2>3. \A n \in Masters : Own(n)'
    BY <2>1, <2>2
  <2>4. QED
    BY <2>3 DEF Own, RunInvariant, SummaryIsTrue, TrueSummary
<1>3. QED
  BY <1>1, <1>2 DEF Next

LEMMA InitEstablishesRun == Init => RunInvariant
  BY DEF Init, RunInvariant, SummaryIsTrue, Loading, Accounted

(* The summary that a completed run stores: what it reports as queued it   *)
(* has committed, what it reports as failed it has not, and it has handled *)
(* all it selected, whatever failed in between.                            *)
THEOREM SummaryStaysTrue == Spec => []SummaryIsTrue
<1>1. QueueInvariant /\ RunInvariant /\ [Next]_masterVars => RunInvariant'
  BY RunInvariantKept
<1>2. RunInvariant => SummaryIsTrue
  BY DEF RunInvariant
<1>3. QED
  BY <1>1, <1>2, InitEstablishesRun, QueueInvariantHolds, PTL DEF Spec
-----------------------------------------------------------------------------
(* The tables change in commits only.                                      *)
LEMMA OnlyCommitsShow ==
    ASSUME NEW m \in Masters, MasterStep(m) \/ Disconnect(m) \/ Die(m),
           ~ CommitInput(m), ~ CommitQueueSet(m)
    PROVE  UNCHANGED <<input, rows>>
  BY DEF MasterStep, PrepareRun, InsertInput, InsertRaises, RollBackInput, SelectInputs,
         SelectRaises, InsertQueueRow, MarkQueueCreated, QueueSetRaises, RollBackQueueSet,
         FinishRun, StartRun, Disconnect, Die, dbVars

(* A commit loads the one input, or creates the one queue set, in hand.    *)
LEMMA CommitShowsOne ==
    ASSUME QueueInvariant, RunInvariant, NEW m \in Masters, CommitInput(m) \/ CommitQueueSet(m)
    PROVE  [Sets!SetsNext]_(Sets!setVars)
<1> USE DEF QueueInvariant
<1>1. /\ input \in [Inputs -> {"absent", "new", "queued"}]
      /\ rows \in [Inputs \X Apps -> Nat]
      /\ tx \in [Masters -> Transactions]
  BY DEF TypeOK, Transactions
<1>2. \/ conn[m] = "up" /\ ApplyCommit(m)
      \/ UNCHANGED dbVars
  BY CommitIsAtomic DEF CommitInput, CommitQueueSet
<1>3. CASE UNCHANGED dbVars
  BY <1>3 DEF dbVars, Sets!setVars
<1>4. CASE CommitInput(m) /\ conn[m] = "up" /\ ApplyCommit(m)
  <2>1. /\ cur[m] \in Inputs /\ tx[m].loads = {cur[m]}
        /\ tx[m].rows = {} /\ tx[m].marks = {}
    BY <1>4 DEF CommitInput, RunInvariant, Loading, PendingFollowsPlace, Placed
  <2>2. input[cur[m]] = "absent"
    BY <2>1 DEF WritesAreExclusive
  <2>3. input' = [input EXCEPT ![cur[m]] = "new"]
    BY <1>1, <1>4, <2>1 DEF ApplyCommit
  <2>4. rows' = rows
    <3>1. \A p \in Inputs \X Apps : rows[p] + 0 = rows[p]
      BY <1>1
    <3>2. rows' = [p \in Inputs \X Apps |-> rows[p]]
      BY <1>4, <2>1, <3>1 DEF ApplyCommit
    <3>3. QED
      BY <1>1, <3>2
  <2>5. QED
    BY <2>1, <2>2, <2>3, <2>4 DEF Sets!SetsNext, Sets!Load
<1>5. CASE CommitQueueSet(m) /\ conn[m] = "up" /\ ApplyCommit(m)
  <2>1. /\ cur[m] \in Inputs /\ tx[m].loads = {}
        /\ tx[m].rows = {cur[m]} \X Apps /\ tx[m].marks = {cur[m]}
    BY <1>5 DEF CommitQueueSet, PendingFollowsPlace, Placed
  <2>2. input[cur[m]] = "new"
    BY <2>1 DEF WritesAreExclusive
  <2>3. input' = [input EXCEPT ![cur[m]] = "queued"]
    BY <1>1, <1>5, <2>1 DEF ApplyCommit
  <2>4. rows' = [p \in Inputs \X Apps |-> IF p[1] = cur[m] THEN 1 ELSE rows[p]]
    <3>1. \A p \in Inputs \X Apps :
             rows[p] + (IF p \in tx[m].rows THEN 1 ELSE 0)
               = IF p[1] = cur[m] THEN 1 ELSE rows[p]
      <4>1. TAKE p \in Inputs \X Apps
      <4>2. PICK i \in Inputs, a \in Apps : p = <<i, a>>
        OBVIOUS
      <4>3. CASE i = cur[m]
        <5>1. rows[p] = 0 /\ p \in tx[m].rows
          BY <2>1, <2>2, <4>2, <4>3 DEF QueueSetsAreComplete
        <5>2. QED
          BY <4>2, <4>3, <5>1
      <4>4. CASE i # cur[m]
        <5>1. p \notin tx[m].rows /\ rows[p] \in Nat
          BY <1>1, <2>1, <4>2, <4>4
        <5>2. QED
          BY <4>2, <4>4, <5>1
      <4>5. QED
        BY <4>3, <4>4
    <3>2. rows' = [p \in Inputs \X Apps |-> rows[p] + IF p \in tx[m].rows THEN 1 ELSE 0]
      BY <1>5 DEF ApplyCommit
    <3>3. QED
      BY <3>1, <3>2
  <2>5. QED
    BY <2>1, <2>2, <2>3, <2>4 DEF Sets!SetsNext, Sets!CreateSet
<1>6. QED
  BY <1>2, <1>3, <1>4, <1>5

(* Orqflow_Requirement.md section 9.2: to whoever reads the tables, an     *)
(* input is loaded once and gets its whole queue set once, in one step,    *)
(* and that is all that ever changes.                                      *)
THEOREM MastersImplementQueueSets == Spec => ImplementsQueueSets
<1>1. Init => Sets!SetsInit
  BY DEF Init, Sets!SetsInit
<1>2. QueueInvariant /\ RunInvariant /\ [Next]_masterVars => [Sets!SetsNext]_(Sets!setVars)
  <2> SUFFICES ASSUME QueueInvariant, RunInvariant, [Next]_masterVars
               PROVE  [Sets!SetsNext]_(Sets!setVars)
    OBVIOUS
  <2>1. CASE UNCHANGED masterVars
    BY <2>1 DEF masterVars, Sets!setVars
  <2>2. ASSUME NEW m \in Masters, MasterStep(m) \/ Disconnect(m) \/ Die(m)
        PROVE  [Sets!SetsNext]_(Sets!setVars)
    BY <2>2, OnlyCommitsShow, CommitShowsOne DEF Sets!setVars
  <2>3. QED
    BY <2>1, <2>2 DEF Next
<1>3. QueueInvariant /\ RunInvariant /\ [Next]_masterVars => RunInvariant'
  BY RunInvariantKept
<1>4. QED
  BY <1>1, <1>2, <1>3, InitEstablishesRun, QueueInvariantHolds, PTL
  DEF Spec, ImplementsQueueSets, Sets!SetsSpec
=============================================================================
