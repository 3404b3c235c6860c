-------------------------- MODULE QueueSessionProofs --------------------------
(***************************************************************************)
(* For any number of bots and rows, on either backend: no transaction is   *)
(* open between the statements of a row, and the bots implement BotFleet;  *)
(* so what is proved of BotFleet's bots holds of their statements.         *)
(***************************************************************************)
EXTENDS QueueSession, TLAPS

(* What a connection may have open at every place, while it is there and   *)
(* no exception is on its way.                                             *)
Quiet == {"idle", "look", "waiting", "working"}
PendingFollowsPlace ==
    \A b \in Bots :
        /\ pending[b] # "none" => pc[b] \in {"claimed", "finished"}
        /\ ~ raised[b] /\ pc[b] \in Quiet \cup {"down"} => ~ inTx[b]
        /\ conn[b] = "up" /\ ~ raised[b] =>
              /\ pc[b] = "claimed" => pending[b] = "in_progress"
              /\ pc[b] = "finished" => pending[b] \in FinalStatuses
        /\ pc[b] = "down" => ~ raised[b]

SessionInvariant == TypeOK /\ PendingFollowsPlace

(* A bot's own step leaves the others where they are.                      *)
OthersStay(b) ==
    \A c \in Bots \ {b} :
        /\ pc'[c] = pc[c] /\ raised'[c] = raised[c]
        /\ conn'[c] = conn[c] /\ inTx'[c] = inTx[c] /\ pending'[c] = pending[c]

LEMMA InitEstablishesSession == Init => SessionInvariant
  BY SessionAssumption
  DEF Init, SessionInvariant, TypeOK, PendingFollowsPlace, Statuses, FinalStatuses, Places, Quiet

(* One bot's part of the invariant is enough to show after its own step.   *)
LEMMA OwnPart ==
    ASSUME SessionInvariant, NEW b \in Bots, OthersStay(b), TypeOK',
           /\ pending'[b] # "none" => pc'[b] \in {"claimed", "finished"}
           /\ ~ raised'[b] /\ pc'[b] \in Quiet \cup {"down"} => ~ inTx'[b]
           /\ conn'[b] = "up" /\ ~ raised'[b] =>
                 /\ pc'[b] = "claimed" => pending'[b] = "in_progress"
                 /\ pc'[b] = "finished" => pending'[b] \in FinalStatuses
           /\ pc'[b] = "down" => ~ raised'[b]
    PROVE  SessionInvariant'
  BY DEF SessionInvariant, PendingFollowsPlace, OthersStay

LEMMA StatementKeeps ==
    ASSUME SessionInvariant, NEW b \in Bots, UNCHANGED backend,
           SelectNext(b) \/ UpdateInProgress(b) \/ UpdateFinal(b) \/ Look(b)
    PROVE  SessionInvariant'
<1>1. PICK change \in {"none", "in_progress"} \cup FinalStatuses :
         /\ Execute(b, change)
         /\ SelectNext(b) \/ Look(b) => change = "none"
         /\ UpdateInProgress(b) => change = "in_progress"
         /\ UpdateFinal(b) => change \in FinalStatuses
  BY DEF SelectNext, UpdateInProgress, UpdateFinal, Look, SessionInvariant, TypeOK
<1>2. PICK place \in {"selected", "empty", "claimed", "finished", "looked"} :
         /\ Goto(b, place)
         /\ SelectNext(b) => place \in {"selected", "empty"}
         /\ UpdateInProgress(b) => place = "claimed"
         /\ UpdateFinal(b) => place = "finished"
         /\ Look(b) => place = "looked"
  BY DEF SelectNext, UpdateInProgress, UpdateFinal, Look, Goto, SessionInvariant, TypeOK
<1>3. UNCHANGED <<status, botName, raised>> /\ ~ raised[b]
  BY <1>1 DEF SelectNext, UpdateInProgress, UpdateFinal, Look, Execute, tableVars
<1>4. /\ pc' = [pc EXCEPT ![b] = place]
      /\ conn' = [conn EXCEPT ![b] = "up"]
      /\ inTx' = [inTx EXCEPT ![b] = @ \/ OpensTransaction(change)]
      /\ pending' = [pending EXCEPT ![b] = change]
  BY <1>1, <1>2 DEF Execute, Goto
<1>5. OthersStay(b) /\ pc'[b] = place /\ pending'[b] = change
  BY <1>3, <1>4 DEF OthersStay, SessionInvariant, TypeOK
<1>6. /\ txn' \in [Bots -> Rows \cup {NoRow}]
      /\ \A c \in Bots : txn'[c] # NoRow <=> pc'[c] \in {"selected", "claimed", "working", "finished"}
  <2>1. /\ txn \in [Bots -> Rows \cup {NoRow}]
        /\ \A c \in Bots : txn[c] # NoRow <=> pc[c] \in {"selected", "claimed", "working", "finished"}
        /\ pc \in [Bots -> Places]
    BY DEF SessionInvariant, TypeOK
  <2>2. CASE UpdateInProgress(b) \/ UpdateFinal(b) \/ Look(b)
    <3>1. txn' = txn
      BY <2>2 DEF UpdateInProgress, UpdateFinal, Look
    <3>2. txn[b] # NoRow <=> place \in {"claimed", "finished"}
      BY <1>2, <2>1, <2>2 DEF UpdateInProgress, UpdateFinal, Look
    <3>3. place \in {"claimed", "finished", "looked"}
      BY <1>2, <2>2
    <3>4. QED
      BY <1>4, <2>1, <3>1, <3>2, <3>3
  <2>3. CASE SelectNext(b)
    <3>1. PICK app \in AppsOf[b] :
            \/ \E r \in Rows : txn' = [txn EXCEPT ![b] = r] /\ Goto(b, "selected")
            \/ txn' = txn /\ Goto(b, "empty")
      BY <2>3 DEF SelectNext
    <3>2. CASE txn' = txn /\ Goto(b, "empty")
      <4>1. pc' = [pc EXCEPT ![b] = "empty"] /\ pc[b] = "idle"
        BY <2>3, <3>2 DEF Goto, SelectNext
      <4>2. QED
        BY <2>1, <3>2, <4>1
    <3>3. CASE \E r \in Rows : txn' = [txn EXCEPT ![b] = r] /\ Goto(b, "selected")
      <4>1. PICK r \in Rows : txn' = [txn EXCEPT ![b] = r]
        BY <3>3
      <4>2. pc' = [pc EXCEPT ![b] = "selected"]
        BY <3>3 DEF Goto
      <4>3. r # NoRow
        BY SessionAssumption
      <4>4. QED
        BY <2>1, <4>1, <4>2, <4>3
    <3>4. QED
      BY <3>1, <3>2, <3>3
  <2>4. QED
    BY <2>2, <2>3
<1>7. inTx' \in [Bots -> BOOLEAN]
  BY <1>4 DEF SessionInvariant, TypeOK
<1>8. TypeOK'
  BY <1>3, <1>4, <1>6, <1>7 DEF SessionInvariant, TypeOK, Places
<1>9. QED
  BY <1>1, <1>2, <1>5, <1>8, OwnPart, SessionAssumption DEF Quiet, FinalStatuses

LEMMA CommitKeeps ==
    ASSUME SessionInvariant, NEW b \in Bots, UNCHANGED backend,
           CommitEmpty(b) \/ CommitClaim(b) \/ CommitFinal(b) \/ CommitLook(b)
    PROVE  SessionInvariant'
<1>1. PICK place \in Quiet : Goto(b, place)
  BY DEF CommitEmpty, CommitClaim, CommitFinal, CommitLook, Claimed, Quiet
<1>2. pc' = [pc EXCEPT ![b] = place] /\ pc'[b] = place
  BY <1>1 DEF Goto, SessionInvariant, TypeOK
<1>3. Commit(b) \/ CommitUnanswered(b)
  BY DEF CommitEmpty, CommitClaim, CommitFinal, CommitLook
<1>4. OthersStay(b)
  BY <1>2, <1>3 DEF OthersStay, Commit, CommitUnanswered, Lose, SessionInvariant, TypeOK
<1>5. /\ pending'[b] = "none"
      /\ raised'[b] \/ ~ inTx'[b]
      /\ conn' \in [Bots -> {"none", "up", "lost"}]
      /\ raised' \in [Bots -> BOOLEAN] /\ inTx' \in [Bots -> BOOLEAN]
      /\ pending' \in [Bots -> {"none", "in_progress"} \cup FinalStatuses]
  BY <1>3 DEF Commit, CommitUnanswered, Lose, SessionInvariant, TypeOK
<1>6. status' \in [Rows -> Statuses] /\ botName' \in [Rows -> Bots \cup {NoBot}]
  <2>1. pc[b] = "claimed" => pending[b] = "in_progress"
    BY <1>3 DEF SessionInvariant, PendingFollowsPlace, Commit, CommitUnanswered
  <2>2. pc[b] = "finished" => pending[b] \in FinalStatuses
    BY <1>3 DEF SessionInvariant, PendingFollowsPlace, Commit, CommitUnanswered
  <2>3. QED
    BY <2>1, <2>2
    DEF CommitEmpty, CommitClaim, CommitFinal, CommitLook, Claimed, tableVars,
        SessionInvariant, TypeOK, Statuses
<1>7. /\ txn' \in [Bots -> Rows \cup {NoRow}]
      /\ \A c \in Bots : txn'[c] # NoRow <=> pc'[c] \in {"selected", "claimed", "working", "finished"}
  BY <1>2, SessionAssumption
  DEF CommitEmpty, CommitClaim, CommitFinal, CommitLook, Claimed, Goto,
      SessionInvariant, TypeOK
<1>8. TypeOK'
  BY <1>2, <1>5, <1>6, <1>7 DEF SessionInvariant, TypeOK, Places, Quiet
<1>9. QED
  BY <1>2, <1>4, <1>5, <1>8, OwnPart DEF Quiet

LEMMA RaiseKeeps ==
    ASSUME SessionInvariant, NEW b \in Bots, UNCHANGED backend, StatementRaises(b) \/ Disconnect(b)
    PROVE  SessionInvariant'
<1>1. UNCHANGED <<tableVars, pc, txn>> /\ pc[b] \in Places
  BY DEF StatementRaises, Disconnect, SessionInvariant, TypeOK
<1>2. /\ OthersStay(b)
      /\ pending'[b] \in {pending[b], "none"}
      /\ raised'[b] \/ (raised'[b] = raised[b] /\ conn'[b] = "lost" /\ inTx'[b] = inTx[b])
      /\ raised'[b] => raised[b] \/ pc[b] # "down"
  BY DEF StatementRaises, Disconnect, Raise, Lose, connVars, OthersStay, SessionInvariant, TypeOK
<1>3. TypeOK'
  BY <1>1 DEF StatementRaises, Disconnect, Raise, Lose, connVars, tableVars,
              SessionInvariant, TypeOK
<1>4. QED
  BY <1>1, <1>2, <1>3, OwnPart DEF SessionInvariant, PendingFollowsPlace

LEMMA ProcessKeeps ==
    ASSUME SessionInvariant, NEW b \in Bots, UNCHANGED backend,
           ProcessEnds(b) \/ ProcessStarts(b) \/ Wake(b)
    PROVE  SessionInvariant'
<1>1. /\ OthersStay(b) /\ UNCHANGED tableVars
      /\ pc'[b] \in {"down", "idle"}
      /\ pending'[b] = "none" /\ (~ raised'[b] => ~ inTx'[b])
      /\ pc'[b] = "down" => ~ raised'[b]
  BY DEF ProcessEnds, ProcessStarts, Wake, Goto, connVars, OthersStay,
         SessionInvariant, TypeOK, PendingFollowsPlace, Quiet
<1>2. TypeOK'
  BY SessionAssumption
  DEF ProcessEnds, ProcessStarts, Wake, Goto, connVars, tableVars,
      SessionInvariant, TypeOK, Places
<1>3. QED
  BY <1>1, <1>2, OwnPart

LEMMA RowsArriveKeeps ==
    SessionInvariant /\ RowsArrive /\ UNCHANGED backend => SessionInvariant'
<1> SUFFICES ASSUME SessionInvariant, RowsArrive, UNCHANGED backend
             PROVE  SessionInvariant'
  OBVIOUS
<1>1. status' \in [Rows -> Statuses]
  BY DEF RowsArrive, SessionInvariant, TypeOK, Statuses
<1>2. QED
  BY <1>1 DEF RowsArrive, connVars, SessionInvariant, TypeOK, PendingFollowsPlace

LEMMA StepKeepsSession == SessionInvariant /\ [Next]_sessionVars => SessionInvariant'
<1> SUFFICES ASSUME SessionInvariant, [Next]_sessionVars
             PROVE  SessionInvariant'
  OBVIOUS
<1>1. CASE UNCHANGED sessionVars
  BY <1>1 DEF sessionVars, SessionInvariant, TypeOK, PendingFollowsPlace
<1>2. CASE RowsArrive /\ UNCHANGED backend
  BY <1>2, RowsArriveKeeps
<1>3. ASSUME NEW b \in Bots, Step(b), UNCHANGED backend
      PROVE  SessionInvariant'
  BY <1>3, StatementKeeps, CommitKeeps, RaiseKeeps, ProcessKeeps DEF Step
<1>4. QED
  BY <1>1, <1>2, <1>3 DEF Next

(* The inductive invariant holds in every reachable state.                 *)
THEOREM SessionInvariantHolds == Spec => []SessionInvariant
<1>1. Init => SessionInvariant
  BY InitEstablishesSession
<1>2. SessionInvariant /\ [Next]_sessionVars => SessionInvariant'
  BY StepKeepsSession
<1>3. QED
  BY <1>1, <1>2, PTL DEF Spec

(* Every variable keeps its type.                                          *)
THEOREM SessionIsTyped == Spec => []TypeOK
<1>1. SessionInvariant => TypeOK
  BY DEF SessionInvariant
<1>2. QED
  BY <1>1, SessionInvariantHolds, PTL

(* docs/database_connections.md: nothing is open while a bot works, waits  *)
(* or goes on to another row, on either backend.                           *)
THEOREM NothingStaysOpen == Spec => []NothingOpenBetweenStatements
<1>1. SessionInvariant => NothingOpenBetweenStatements
  BY DEF SessionInvariant, PendingFollowsPlace, NothingOpenBetweenStatements, Quiet
<1>2. QED
  BY <1>1, SessionInvariantHolds, PTL
-----------------------------------------------------------------------------
(* What BotFleet sees of where the bots are.                               *)
FleetPc == [b \in Bots |-> FleetPlace(pc[b])]

(* A bot that moves is the only one that moves, for BotFleet as well.      *)
LEMMA PlaceMoves ==
    ASSUME SessionInvariant, NEW b \in Bots, NEW place, Goto(b, place)
    PROVE  FleetPc' = [FleetPc EXCEPT ![b] = FleetPlace(place)]
<1>1. /\ pc' = [pc EXCEPT ![b] = place]
      /\ \A c \in Bots : pc'[c] = IF c = b THEN place ELSE pc[c]
  BY DEF Goto, SessionInvariant, TypeOK
<1>2. FleetPc' = [c \in Bots |-> FleetPlace(pc'[c])]
  BY DEF FleetPc, FleetPlace
<1>3. FleetPc' = [c \in Bots |-> IF c = b THEN FleetPlace(place) ELSE FleetPlace(pc[c])]
  BY <1>1, <1>2
<1>4. QED
  BY <1>3 DEF FleetPc

(* A move within one of BotFleet's places is none.                         *)
LEMMA MoveWithin ==
    ASSUME SessionInvariant, NEW b \in Bots, NEW place, Goto(b, place),
           FleetPlace(place) = FleetPlace(pc[b])
    PROVE  FleetPc' = FleetPc
  BY PlaceMoves DEF FleetPc

(* The steps that are none of BotFleet's: reads that lead to no row, an    *)
(* UPDATE before its commit, failures, and the loss of a connection.       *)
LEMMA UnseenSteps ==
    ASSUME SessionInvariant, NEW b \in Bots,
           \/ StatementRaises(b) \/ CommitEmpty(b) \/ UpdateInProgress(b) \/ UpdateFinal(b)
           \/ Look(b) \/ CommitLook(b) \/ Wake(b) \/ Disconnect(b)
    PROVE  UNCHANGED <<tableVars, FleetPc, txn>>
<1>1. UNCHANGED <<tableVars, txn>>
  BY DEF StatementRaises, CommitEmpty, UpdateInProgress, UpdateFinal, Look, CommitLook, Wake,
         Disconnect, tableVars
<1>2. CASE StatementRaises(b) \/ Disconnect(b)
  BY <1>1, <1>2 DEF StatementRaises, Disconnect, FleetPc
<1>3. CASE CommitEmpty(b) \/ Look(b) \/ CommitLook(b) \/ Wake(b)
  <2>1. PICK place \in {"idle", "look", "looked", "waiting"} : Goto(b, place)
    BY <1>3 DEF CommitEmpty, Look, CommitLook, Wake
  <2>2. FleetPlace(place) = FleetPlace(pc[b])
    BY <1>3, <2>1 DEF CommitEmpty, Look, CommitLook, Wake, FleetPlace
  <2>3. QED
    BY <1>1, <2>1, <2>2, MoveWithin
<1>4. CASE UpdateInProgress(b)
  BY <1>1, <1>4, MoveWithin DEF UpdateInProgress, FleetPlace
<1>5. CASE UpdateFinal(b)
  BY <1>1, <1>5, MoveWithin DEF UpdateFinal, FleetPlace
<1>6. QED
  BY <1>2, <1>3, <1>4, <1>5

LEMMA SelectionIsFleets ==
    ASSUME SessionInvariant, NEW b \in Bots, SelectNext(b)
    PROVE  Fleet!SelectNext(b) \/ UNCHANGED <<tableVars, FleetPc, txn>>
<1>1. UNCHANGED tableVars /\ pc[b] = "idle"
  BY DEF SelectNext
<1>2. CASE Goto(b, "empty") /\ UNCHANGED txn
  BY <1>1, <1>2, MoveWithin DEF FleetPlace
<1>3. CASE \E app \in AppsOf[b], r \in Rows :
              /\ Fleet!IsNext(r, app)
              /\ txn' = [txn EXCEPT ![b] = r]
              /\ Goto(b, "selected")
  <2>1. FleetPc[b] = "idle" /\ FleetPlace("selected") = "selected"
    BY <1>1 DEF FleetPc, FleetPlace
  <2>2. FleetPc' = [FleetPc EXCEPT ![b] = "selected"]
    BY <1>3, <2>1, PlaceMoves
  <2>3. QED
    BY <1>1, <1>3, <2>1, <2>2 DEF Fleet!SelectNext, FleetPc, tableVars
<1>4. QED
  BY <1>2, <1>3 DEF SelectNext

(* A claim, answered or not, is BotFleet's claim.                          *)
LEMMA ClaimIsFleets ==
    ASSUME SessionInvariant, NEW b \in Bots, CommitClaim(b)
    PROVE  Fleet!MarkInProgress(b)
<1>1. pc[b] = "claimed" /\ pending[b] = "in_progress"
  BY DEF CommitClaim, Commit, CommitUnanswered, SessionInvariant, PendingFollowsPlace
<1>2. FleetPc[b] = "selected" /\ FleetPlace("working") = "working"
  BY <1>1 DEF FleetPc, FleetPlace
<1>3. FleetPc' = [FleetPc EXCEPT ![b] = "working"]
  BY <1>2, PlaceMoves DEF CommitClaim, Claimed
<1>4. QED
  BY <1>1, <1>2, <1>3 DEF CommitClaim, Claimed, Fleet!MarkInProgress, FleetPc

(* A final mark, answered or not, is BotFleet's final mark.                *)
LEMMA FinalMarkIsFleets ==
    ASSUME SessionInvariant, NEW b \in Bots, CommitFinal(b)
    PROVE  Fleet!MarkFinal(b)
<1>1. pc[b] = "finished" /\ pending[b] \in FinalStatuses
  BY DEF CommitFinal, Commit, CommitUnanswered, SessionInvariant, PendingFollowsPlace
<1>2. FleetPc[b] = "working" /\ FleetPlace("idle") = "idle"
  BY <1>1 DEF FleetPc, FleetPlace
<1>3. FleetPc' = [FleetPc EXCEPT ![b] = "idle"]
  BY <1>2, PlaceMoves DEF CommitFinal
<1>4. QED
  BY <1>1, <1>2, <1>3
  DEF CommitFinal, Fleet!MarkFinal, FleetPc, FinalStatuses, Fleet!FinalStatuses

LEMMA ProcessIsFleets ==
    ASSUME SessionInvariant, NEW b \in Bots
    PROVE  /\ ProcessEnds(b) => Fleet!BotDies(b)
           /\ ProcessStarts(b) => Fleet!BotStarts(b)
<1>1. FleetPlace("down") = "down" /\ FleetPlace("idle") = "idle"
  BY DEF FleetPlace
<1>2. ASSUME ProcessEnds(b)
      PROVE  Fleet!BotDies(b)
  <2>1. FleetPc[b] # "down"
    BY <1>2 DEF ProcessEnds, FleetPc, FleetPlace
  <2>2. FleetPc' = [FleetPc EXCEPT ![b] = "down"]
    BY <1>1, <1>2, PlaceMoves DEF ProcessEnds
  <2>3. QED
    BY <1>2, <2>1, <2>2 DEF ProcessEnds, Fleet!BotDies, FleetPc, tableVars
<1>3. ASSUME ProcessStarts(b)
      PROVE  Fleet!BotStarts(b)
  <2>1. FleetPc[b] = "down"
    BY <1>1, <1>3 DEF ProcessStarts, FleetPc
  <2>2. FleetPc' = [FleetPc EXCEPT ![b] = "idle"]
    BY <1>1, <1>3, PlaceMoves DEF ProcessStarts
  <2>3. QED
    BY <1>3, <2>1, <2>2 DEF ProcessStarts, Fleet!BotStarts, FleetPc, tableVars
<1>4. QED
  BY <1>2, <1>3

LEMMA StepImplementsFleet ==
    SessionInvariant /\ [Next]_sessionVars => [Fleet!Next]_(Fleet!fleetVars)
<1> SUFFICES ASSUME SessionInvariant, [Next]_sessionVars
             PROVE  [Fleet!Next]_(Fleet!fleetVars)
  OBVIOUS
<1>1. CASE UNCHANGED sessionVars
  BY <1>1 DEF sessionVars, Fleet!fleetVars
<1>2. CASE RowsArrive
  BY <1>2 DEF RowsArrive, Fleet!Next, Fleet!RowsArrive
<1>3. ASSUME NEW b \in Bots, Step(b)
      PROVE  [Fleet!Next]_(Fleet!fleetVars)
  <2>1. \/ Fleet!Step(b) \/ Fleet!BotDies(b) \/ Fleet!BotStarts(b)
        \/ UNCHANGED <<tableVars, FleetPc, txn>>
    BY <1>3, UnseenSteps, SelectionIsFleets, ClaimIsFleets, FinalMarkIsFleets, ProcessIsFleets
    DEF Step, Fleet!Step
  <2>2. QED
    BY <2>1 DEF Fleet!Next, Fleet!fleetVars, FleetPc, tableVars
<1>4. QED
  BY <1>1, <1>2, <1>3 DEF Next

(* Whatever happens to statements, commits and connections, what the bots  *)
(* do to tbl_queue is what BotFleet says: everything proved of BotFleet    *)
(* holds of the statements of queue_db.py.                                 *)
THEOREM SessionsImplementFleet == Spec => ImplementsFleet
<1>1. Init => Fleet!Init
  BY DEF Init, Fleet!Init, FleetPlace
<1>2. SessionInvariant /\ [Next]_sessionVars => [Fleet!Next]_(Fleet!fleetVars)
  BY StepImplementsFleet
<1>3. QED
  BY <1>1, <1>2, SessionInvariantHolds, PTL DEF Spec, ImplementsFleet, Fleet!Spec
-----------------------------------------------------------------------------
(* The theorems about BotFleet, said of the fleet in which every bot is     *)
(* where its statements have brought it.                                   *)
Facts == INSTANCE BotFleetProofs WITH pc <- [b \in Bots |-> FleetPlace(pc[b])]

LEMMA SessionsAreFleet == Spec => Facts!Spec
<1>1. Fleet!Init => Facts!Init
  BY DEF Fleet!Init, Facts!Init
<1>2. [Fleet!Next]_(Fleet!fleetVars) => [Facts!Next]_(Facts!fleetVars)
  BY DEF Fleet!Next, Facts!Next, Fleet!fleetVars, Facts!fleetVars,
    Fleet!RowsArrive, Facts!RowsArrive, Fleet!Step, Facts!Step,
    Fleet!BotDies, Facts!BotDies, Fleet!BotStarts, Facts!BotStarts,
    Fleet!SelectNext, Facts!SelectNext, Fleet!MarkInProgress, Facts!MarkInProgress,
    Fleet!MarkFinal, Facts!MarkFinal, Fleet!IsNext, Facts!IsNext,
    Fleet!Fetchable, Facts!Fetchable, Fleet!Precedes, Facts!Precedes,
    Fleet!FinalStatuses, Facts!FinalStatuses
<1>3. QED
  BY <1>1, <1>2, SessionsImplementFleet, PTL DEF Fleet!Spec, Facts!Spec, ImplementsFleet

LEMMA SameSoleBots == \A r \in Rows : Facts!HasSoleBot(r) <=> Fleet!HasSoleBot(r)
  BY DEF Facts!HasSoleBot, Fleet!HasSoleBot, Facts!ServedBy, Fleet!ServedBy

LEMMA SameOwnRows == \A b \in Bots : Facts!Own(b) = Fleet!Own(b)
  BY SameSoleBots DEF Facts!Own, Fleet!Own, Facts!ServedBy, Fleet!ServedBy

(* Statement by statement, with lost connections and unanswered commits: a *)
(* bot alone on an application works on its rows undisturbed.              *)
THEOREM SessionsWorkAlone == Spec => []Fleet!SoleBotWorksAlone
<1>1. Facts!SoleBotWorksAlone => Fleet!SoleBotWorksAlone
  BY SameSoleBots DEF Facts!SoleBotWorksAlone, Fleet!SoleBotWorksAlone
<1>2. Facts!Spec => []Facts!SoleBotWorksAlone
  BY Facts!SoleBotStaysAlone, SessionAssumption, PTL
<1>3. QED
  BY <1>1, <1>2, SessionsAreFleet, PTL

(* There a row that is final stays final, whatever is sent, lost or sent   *)
(* again.                                                                  *)
THEOREM SessionsKeepFinalRows == Spec => Fleet!SoleBotFinalStays
<1> DEFINE Kept == \A r \in Rows : Facts!HasSoleBot(r) /\ status[r] \in Facts!FinalStatuses
                      => status'[r] = status[r] /\ botName'[r] = botName[r]
           KeptByFleet == \A r \in Rows :
                            Fleet!HasSoleBot(r) /\ status[r] \in Fleet!FinalStatuses
                      => status'[r] = status[r] /\ botName'[r] = botName[r]
<1>1. [Kept]_(Facts!fleetVars) => [KeptByFleet]_(Fleet!fleetVars)
  BY SameSoleBots
  DEF Facts!FinalStatuses, Fleet!FinalStatuses, Facts!fleetVars, Fleet!fleetVars
<1>2. Facts!Spec => Facts!SoleBotFinalStays
  BY Facts!SoleBotFinalRowsStay, SessionAssumption, PTL
<1>3. QED
  BY <1>1, <1>2, SessionsAreFleet, PTL DEF Facts!SoleBotFinalStays, Fleet!SoleBotFinalStays

LEMMA SameLifecycleStep ==
    ASSUME NEW b \in Bots, Facts!Own(b) = Fleet!Own(b), Facts!Own(b)' = Fleet!Own(b)'
    PROVE  Facts!Life(b)!LifecycleNext => Fleet!Life(b)!LifecycleNext
<1>1. Facts!Life(b)!Create => Fleet!Life(b)!Create
  BY DEF Facts!Life!Create, Fleet!Life!Create
<1>2. Facts!Life(b)!Abandon => Fleet!Life(b)!Abandon
  BY DEF Facts!Life!Abandon, Fleet!Life!Abandon
<1>3. ASSUME NEW r \in Facts!Own(b)
      PROVE  Facts!Life(b)!Claim(r) => Fleet!Life(b)!Claim(r)
  BY DEF Facts!Life!Claim, Fleet!Life!Claim
<1>4. ASSUME NEW outcome
      PROVE  Facts!Life(b)!Finalise(outcome) => Fleet!Life(b)!Finalise(outcome)
  BY DEF Facts!Life!Finalise, Fleet!Life!Finalise
<1>5. QED
  BY <1>1, <1>2, <1>3, <1>4
  DEF Facts!Life!LifecycleNext, Fleet!Life!LifecycleNext,
    Facts!Life!FinalStates, Fleet!Life!FinalStates

(* Statements implement transactions, and these the lifecycle: the rows    *)
(* that one bot serves are claimed and finalised, statement by statement,  *)
(* as TransactionLifecycle promises.                                       *)
THEOREM SessionsKeepLifecycle == Spec => Fleet!SoleBotsImplementLifecycle
<1> DEFINE Steps == \A b \in Bots :
               [Facts!Life(b)!LifecycleNext]_(Facts!Life(b)!lifecycleVars)
           FleetSteps == \A b \in Bots :
               [Fleet!Life(b)!LifecycleNext]_(Fleet!Life(b)!lifecycleVars)
<1>1. \A b \in Bots : Facts!Own(b) = Fleet!Own(b) /\ Facts!Own(b)' = Fleet!Own(b)'
  BY SameOwnRows DEF Facts!Own, Fleet!Own, Facts!HasSoleBot, Fleet!HasSoleBot,
    Facts!ServedBy, Fleet!ServedBy
<1>2. (\A b \in Bots : Facts!Life(b)!LifecycleInit)
        => \A b \in Bots : Fleet!Life(b)!LifecycleInit
  BY <1>1 DEF Facts!Life!LifecycleInit, Fleet!Life!LifecycleInit
<1>3. ASSUME NEW b \in Bots
      PROVE  Facts!Life(b)!LifecycleNext => Fleet!Life(b)!LifecycleNext
  BY <1>1, SameLifecycleStep
<1>4. ASSUME NEW b \in Bots
      PROVE  UNCHANGED Facts!Life(b)!lifecycleVars => UNCHANGED Fleet!Life(b)!lifecycleVars
  BY <1>1 DEF Facts!Life!lifecycleVars, Fleet!Life!lifecycleVars
<1>5. Steps => FleetSteps
  BY <1>3, <1>4
<1>6. [Steps]_(Facts!fleetVars) => [FleetSteps]_(Fleet!fleetVars)
  BY <1>5 DEF Facts!fleetVars, Fleet!fleetVars
<1>7. Facts!Spec => Facts!SoleBotsImplementLifecycle
  BY Facts!SoleBotsKeepLifecycle, SessionAssumption, PTL
<1>8. QED
  BY <1>2, <1>6, <1>7, SessionsAreFleet, PTL
  DEF Facts!SoleBotsImplementLifecycle, Fleet!SoleBotsImplementLifecycle
=============================================================================
