---------------------------- MODULE BotFleetProofs ----------------------------
(***************************************************************************)
(* An application served by one bot is safe in a fleet of any size: the    *)
(* bot selects only rows of its own applications, so every row of the      *)
(* application is written by that bot alone, and the bot writes a row only *)
(* between selecting it and marking it final.                              *)
(***************************************************************************)
EXTENDS BotFleet, TLAPS

(* A bot has rows of its own applications only, and one that a sole bot    *)
(* has is there and not final yet.                                         *)
RowsAreOwn ==
    \A r \in Rows, b \in Bots :
        txn[b] = r => /\ b \in ServedBy(r)
                      /\ HasSoleBot(r) => status[r] \in {"eligible", "in_progress"}

FleetInvariant == TypeOK /\ SoleBotWorksAlone /\ RowsAreOwn

LEMMA InitEstablishesFleet == Init => FleetInvariant
  BY FleetAssumption
  DEF Init, FleetInvariant, TypeOK, SoleBotWorksAlone, RowsAreOwn, Statuses, FinalStatuses

(* The bot that has a row with a sole bot is the only one that has it.     *)
LEMMA SoleBotIsOnly ==
    ASSUME FleetInvariant, NEW b \in Bots, NEW c \in Bots, NEW r \in Rows,
           HasSoleBot(r), txn[b] = r, c \in ServedBy(r)
    PROVE  c = b
  BY DEF FleetInvariant, RowsAreOwn, HasSoleBot

LEMMA RowsArriveKeeps == FleetInvariant /\ RowsArrive => FleetInvariant'
<1> SUFFICES ASSUME FleetInvariant, RowsArrive
             PROVE  FleetInvariant'
  OBVIOUS
<1>1. /\ UNCHANGED <<botName, pc, txn>>
      /\ status' \in [Rows -> Statuses]
      /\ \A r \in Rows : \/ status'[r] = status[r]
                         \/ status[r] = "absent" /\ status'[r] = "eligible"
  BY DEF RowsArrive, FleetInvariant, TypeOK, Statuses
<1>2. TypeOK'
  BY <1>1 DEF FleetInvariant, TypeOK
<1>3. RowsAreOwn' /\ SoleBotWorksAlone'
  BY <1>1 DEF FleetInvariant, RowsAreOwn, SoleBotWorksAlone, HasSoleBot, ServedBy
<1>4. QED
  BY <1>2, <1>3 DEF FleetInvariant

LEMMA SelectNextKeeps ==
    ASSUME FleetInvariant, NEW b \in Bots, SelectNext(b)
    PROVE  FleetInvariant'
<1>1. PICK app \in AppsOf[b], r \in Rows : IsNext(r, app) /\ txn' = [txn EXCEPT ![b] = r]
  BY DEF SelectNext
<1>2. /\ pc[b] = "idle" /\ pc' = [pc EXCEPT ![b] = "selected"]
      /\ UNCHANGED <<status, botName>>
      /\ b \in ServedBy(r) /\ status[r] \in {"eligible", "in_progress"}
  BY <1>1 DEF SelectNext, IsNext, Fetchable, ServedBy
<1>3. TypeOK'
  BY <1>1, <1>2, FleetAssumption DEF FleetInvariant, TypeOK
<1>4. \A c \in Bots : c # b => txn'[c] = txn[c] /\ pc'[c] = pc[c]
  BY <1>1, <1>2 DEF FleetInvariant, TypeOK
<1>5. txn'[b] = r /\ pc'[b] = "selected"
  BY <1>1, <1>2 DEF FleetInvariant, TypeOK
<1>6. RowsAreOwn'
  BY <1>2, <1>4, <1>5 DEF FleetInvariant, RowsAreOwn, HasSoleBot, ServedBy
<1>7. SoleBotWorksAlone'
  <2>1. ASSUME NEW q \in Rows, NEW c \in Bots, HasSoleBot(q), txn'[c] = q,
               NEW d \in Bots, txn'[d] = q
        PROVE  d = c
    BY <1>6, <2>1 DEF RowsAreOwn, HasSoleBot, ServedBy
  <2>2. ASSUME NEW q \in Rows, NEW c \in Bots, HasSoleBot(q), txn'[c] = q,
               pc'[c] = "working"
        PROVE  status'[q] = "in_progress" /\ botName'[q] = c
    BY <1>2, <1>4, <1>5, <2>2 DEF FleetInvariant, SoleBotWorksAlone
  <2>3. QED
    BY <2>1, <2>2 DEF SoleBotWorksAlone, HasSoleBot, ServedBy
<1>8. QED
  BY <1>3, <1>6, <1>7 DEF FleetInvariant

LEMMA MarkInProgressKeeps ==
    ASSUME FleetInvariant, NEW b \in Bots, MarkInProgress(b)
    PROVE  FleetInvariant'
<1>1. /\ pc[b] = "selected"
      /\ status' = [status EXCEPT ![txn[b]] = "in_progress"]
      /\ botName' = [botName EXCEPT ![txn[b]] = b]
      /\ pc' = [pc EXCEPT ![b] = "working"]
      /\ UNCHANGED txn
      /\ txn[b] \in Rows
  BY DEF MarkInProgress, FleetInvariant, TypeOK
<1>2. TypeOK'
  BY <1>1 DEF FleetInvariant, TypeOK, Statuses
<1>3. \A r \in Rows : IF r = txn[b] THEN status'[r] = "in_progress" /\ botName'[r] = b
                                   ELSE status'[r] = status[r] /\ botName'[r] = botName[r]
  BY <1>1 DEF FleetInvariant, TypeOK
<1>4. RowsAreOwn'
  BY <1>1, <1>3 DEF FleetInvariant, RowsAreOwn, HasSoleBot, ServedBy, FinalStatuses
<1>5. SoleBotWorksAlone'
  <2>1. \A c \in Bots : c # b => pc'[c] = pc[c]
    BY <1>1 DEF FleetInvariant, TypeOK
  <2>2. QED
    BY <1>1, <1>3, <2>1 DEF FleetInvariant, SoleBotWorksAlone, HasSoleBot, ServedBy
<1>6. QED
  BY <1>2, <1>4, <1>5 DEF FleetInvariant

LEMMA MarkFinalKeeps ==
    ASSUME FleetInvariant, NEW b \in Bots, MarkFinal(b)
    PROVE  FleetInvariant'
<1>1. PICK outcome \in FinalStatuses : status' = [status EXCEPT ![txn[b]] = outcome]
  BY DEF MarkFinal
<1>2. /\ pc[b] = "working"
      /\ txn' = [txn EXCEPT ![b] = NoRow]
      /\ pc' = [pc EXCEPT ![b] = "idle"]
      /\ UNCHANGED botName
      /\ txn[b] \in Rows /\ NoRow \notin Rows
  BY FleetAssumption DEF MarkFinal, FleetInvariant, TypeOK
<1>3. TypeOK'
  BY <1>1, <1>2 DEF FleetInvariant, TypeOK, Statuses
<1>4. /\ \A r \in Rows : r # txn[b] => status'[r] = status[r]
      /\ \A c \in Bots : c # b => txn'[c] = txn[c] /\ pc'[c] = pc[c]
      /\ txn'[b] = NoRow
  BY <1>1, <1>2 DEF FleetInvariant, TypeOK
<1>5. ASSUME NEW c \in Bots, c # b, HasSoleBot(txn[b])
      PROVE  txn[c] # txn[b]
  BY <1>2, <1>5 DEF FleetInvariant, SoleBotWorksAlone
<1>6. RowsAreOwn'
  BY <1>2, <1>4, <1>5 DEF FleetInvariant, RowsAreOwn, HasSoleBot, ServedBy
<1>7. SoleBotWorksAlone'
  BY <1>2, <1>4, <1>5 DEF FleetInvariant, SoleBotWorksAlone, HasSoleBot, ServedBy
<1>8. QED
  BY <1>3, <1>6, <1>7 DEF FleetInvariant

LEMMA DownKeeps ==
    ASSUME FleetInvariant, NEW b \in Bots, BotDies(b) \/ BotStarts(b)
    PROVE  FleetInvariant'
<1>1. UNCHANGED <<status, botName>>
  BY DEF BotDies, BotStarts
<1>2. \A c \in Bots : /\ pc'[c] = pc[c] \/ pc'[c] \in {"down", "idle"}
                      /\ txn'[c] = txn[c] \/ txn'[c] = NoRow
  BY DEF BotDies, BotStarts, FleetInvariant, TypeOK
<1>3. TypeOK'
  BY FleetAssumption DEF BotDies, BotStarts, FleetInvariant, TypeOK
<1>4. RowsAreOwn' /\ SoleBotWorksAlone'
  BY <1>1, <1>2, FleetAssumption
  DEF FleetInvariant, RowsAreOwn, SoleBotWorksAlone, HasSoleBot, ServedBy
<1>5. QED
  BY <1>3, <1>4 DEF FleetInvariant

LEMMA StepKeepsFleet == FleetInvariant /\ [Next]_fleetVars => FleetInvariant'
<1> SUFFICES ASSUME FleetInvariant, [Next]_fleetVars
             PROVE  FleetInvariant'
  OBVIOUS
<1>1. CASE UNCHANGED fleetVars
  BY <1>1 DEF fleetVars, FleetInvariant, TypeOK, RowsAreOwn, SoleBotWorksAlone,
              HasSoleBot, ServedBy
<1>2. ASSUME NEW b \in Bots, Step(b) \/ BotDies(b) \/ BotStarts(b)
      PROVE  FleetInvariant'
  BY <1>2, SelectNextKeeps, MarkInProgressKeeps, MarkFinalKeeps, DownKeeps DEF Step
<1>3. QED
  BY <1>1, <1>2, RowsArriveKeeps DEF Next

(* The inductive invariant holds in every reachable state of every fleet.  *)
THEOREM FleetInvariantHolds == Spec => []FleetInvariant
<1>1. Init => FleetInvariant
  BY InitEstablishesFleet
<1>2. FleetInvariant /\ [Next]_fleetVars => FleetInvariant'
  BY StepKeepsFleet
<1>3. QED
  BY <1>1, <1>2, PTL DEF Spec

(* Every variable keeps its type, and a bot has a row exactly when it has  *)
(* selected or claimed one.                                                *)
THEOREM FleetIsTyped == Spec => []TypeOK
<1>1. FleetInvariant => TypeOK
  BY DEF FleetInvariant
<1>2. QED
  BY <1>1, FleetInvariantHolds, PTL

(* fetch_next and _mark_final: a bot alone on an application works on its  *)
(* rows undisturbed, whatever the other bots do and whoever dies.          *)
THEOREM SoleBotStaysAlone == Spec => []SoleBotWorksAlone
<1>1. FleetInvariant => SoleBotWorksAlone
  BY DEF FleetInvariant
<1>2. QED
  BY <1>1, FleetInvariantHolds, PTL

(* There a final row is never claimed, renamed or finalised again, though  *)
(* both UPDATEs filter by ID alone.                                        *)
THEOREM SoleBotFinalRowsStay == Spec => SoleBotFinalStays
<1> DEFINE Stays == \A r \in Rows : HasSoleBot(r) /\ status[r] \in FinalStatuses
                        => status'[r] = status[r] /\ botName'[r] = botName[r]
<1>1. FleetInvariant /\ [Next]_fleetVars => [Stays]_fleetVars
  <2> SUFFICES ASSUME FleetInvariant, Next,
                      NEW r \in Rows, HasSoleBot(r), status[r] \in FinalStatuses
               PROVE  status'[r] = status[r] /\ botName'[r] = botName[r]
    OBVIOUS
  <2>1. \A b \in Bots : txn[b] # r
    BY DEF FleetInvariant, RowsAreOwn, FinalStatuses
  <2>2. CASE RowsArrive
    BY <2>2 DEF RowsArrive, FinalStatuses
  <2>3. ASSUME NEW b \in Bots, Step(b) \/ BotDies(b) \/ BotStarts(b)
        PROVE  status'[r] = status[r] /\ botName'[r] = botName[r]
    BY <2>1, <2>3 DEF Step, SelectNext, MarkInProgress, MarkFinal, BotDies, BotStarts,
                FleetInvariant, TypeOK
  <2>4. QED
    BY <2>2, <2>3 DEF Next
<1>2. QED
  BY <1>1, FleetInvariantHolds, PTL DEF Spec, SoleBotFinalStays
-----------------------------------------------------------------------------
(* What a step of the fleet is to the own rows of bot b.                   *)
LEMMA OwnRowsAreRows == \A b \in Bots : Own(b) \subseteq Rows
  BY DEF Own

LEMMA ArrivalCreates ==
    ASSUME NEW b \in Bots, FleetInvariant, RowsArrive
    PROVE  Life(b)!Create
<1>1. PICK new \in SUBSET {r \in Rows : status[r] = "absent"} :
         status' = [r \in Rows |-> IF r \in new THEN "eligible" ELSE status[r]]
  BY DEF RowsArrive
<1>2. UNCHANGED <<pc, txn>> /\ Own(b) \subseteq Rows
  BY OwnRowsAreRows DEF RowsArrive
<1> DEFINE mine == new \cap Own(b)
<1>3. mine \in SUBSET {r \in Own(b) : [q \in Own(b) |-> status[q]][r] = "absent"}
  BY <1>1, <1>2
<1>4. [r \in Own(b) |-> status'[r]]
        = [r \in Own(b) |-> IF r \in mine THEN "eligible"
                                          ELSE [q \in Own(b) |-> status[q]][r]]
  BY <1>1, <1>2
<1>5. QED
  BY <1>2, <1>3, <1>4 DEF Life!Create

(* The bot's own claim and final mark, and everything the others do.       *)
LEMMA ClaimClaims ==
    ASSUME NEW b \in Bots, FleetInvariant, MarkInProgress(b), txn[b] \in Own(b)
    PROVE  \E r \in Own(b) : Life(b)!Claim(r)
<1>1. PICK r \in Own(b) : r = txn[b]
  OBVIOUS
<1>2. /\ pc[b] = "selected" /\ pc'[b] = "working" /\ UNCHANGED txn
      /\ status' = [status EXCEPT ![r] = "in_progress"]
      /\ r \in Rows /\ status[r] \in {"eligible", "in_progress"}
  BY <1>1 DEF MarkInProgress, FleetInvariant, TypeOK, RowsAreOwn, Own
<1>3. [q \in Own(b) |-> status'[q]]
        = [[q \in Own(b) |-> status[q]] EXCEPT ![r] = "in_progress"]
  BY <1>2, OwnRowsAreRows DEF FleetInvariant, TypeOK
<1>4. Life(b)!Claim(r)
  BY <1>1, <1>2, <1>3 DEF Life!Claim
<1>5. QED
  BY <1>4

LEMMA FinalMarkFinalises ==
    ASSUME NEW b \in Bots, FleetInvariant, MarkFinal(b), txn[b] \in Own(b)
    PROVE  \E outcome \in FinalStatuses : Life(b)!Finalise(outcome)
<1>1. PICK outcome \in FinalStatuses : status' = [status EXCEPT ![txn[b]] = outcome]
  BY DEF MarkFinal
<1>2. /\ pc[b] = "working" /\ pc'[b] = "idle" /\ txn[b] \in Rows /\ txn[b] # NoRow
      /\ status[txn[b]] = "in_progress"
  BY FleetAssumption DEF MarkFinal, FleetInvariant, TypeOK, SoleBotWorksAlone, Own
<1>3. [r \in Own(b) |-> status'[r]]
        = [[r \in Own(b) |-> status[r]] EXCEPT ![txn[b]] = outcome]
  BY <1>1, <1>2, OwnRowsAreRows DEF FleetInvariant, TypeOK
<1>4. QED
  BY <1>1, <1>2, <1>3 DEF Life!Finalise

LEMMA OthersStutter ==
    ASSUME NEW b \in Bots, NEW c \in Bots, FleetInvariant,
           MarkInProgress(c) \/ MarkFinal(c), txn[c] \notin Own(b)
    PROVE  UNCHANGED Life(b)!lifecycleVars
<1>1. /\ \A r \in Own(b) : status'[r] = status[r]
      /\ c # b => pc'[b] = pc[b] /\ txn'[b] = txn[b]
      /\ txn'[c] \in {txn[c], NoRow}
  BY OwnRowsAreRows DEF MarkInProgress, MarkFinal, FleetInvariant, TypeOK
<1>2. [r \in Own(b) |-> status'[r]] = [r \in Own(b) |-> status[r]]
  BY <1>1
<1>3. NoRow \notin Own(b)
  BY FleetAssumption, OwnRowsAreRows
<1>4. QED
  BY <1>1, <1>2, <1>3 DEF Life!lifecycleVars

LEMMA SelectionStutters ==
    ASSUME NEW b \in Bots, NEW c \in Bots, FleetInvariant, SelectNext(c) \/ BotStarts(c)
    PROVE  UNCHANGED Life(b)!lifecycleVars
<1>1. /\ UNCHANGED status
      /\ c # b => pc'[b] = pc[b] /\ txn'[b] = txn[b]
      /\ pc[c] # "working" /\ pc'[c] # "working"
  BY DEF SelectNext, BotStarts, FleetInvariant, TypeOK
<1>2. QED
  BY <1>1 DEF Life!lifecycleVars

LEMMA DeathAbandons ==
    ASSUME NEW b \in Bots, NEW c \in Bots, FleetInvariant, BotDies(c)
    PROVE  Life(b)!Abandon \/ UNCHANGED Life(b)!lifecycleVars
<1>1. /\ UNCHANGED status /\ pc'[c] = "down"
      /\ c # b => pc'[b] = pc[b] /\ txn'[b] = txn[b]
  BY DEF BotDies, FleetInvariant, TypeOK
<1>2. QED
  BY <1>1 DEF Life!Abandon, Life!lifecycleVars

(* A row of its own that another bot has would be one of the other bot's.  *)
LEMMA OwnRowIsBots ==
    ASSUME NEW b \in Bots, NEW c \in Bots, FleetInvariant, txn[c] \in Own(b)
    PROVE  c = b
  BY DEF FleetInvariant, RowsAreOwn, Own, HasSoleBot

LEMMA StepImplementsLifecycle ==
    ASSUME NEW b \in Bots, FleetInvariant, [Next]_fleetVars
    PROVE  [Life(b)!LifecycleNext]_(Life(b)!lifecycleVars)
<1>1. CASE UNCHANGED fleetVars
  BY <1>1 DEF fleetVars, Life!lifecycleVars
<1>2. CASE RowsArrive
  BY <1>2, ArrivalCreates DEF Life!LifecycleNext
<1>3. ASSUME NEW c \in Bots, Step(c) \/ BotDies(c) \/ BotStarts(c)
      PROVE  [Life(b)!LifecycleNext]_(Life(b)!lifecycleVars)
  <2>1. CASE SelectNext(c) \/ BotStarts(c)
    BY <2>1, SelectionStutters
  <2>2. CASE BotDies(c)
    BY <2>2, DeathAbandons DEF Life!LifecycleNext
  <2>3. CASE (MarkInProgress(c) \/ MarkFinal(c)) /\ txn[c] \notin Own(b)
    BY <2>3, OthersStutter
  <2>4. CASE MarkInProgress(c) /\ txn[c] \in Own(b)
    <3>1. c = b
      BY <2>4, OwnRowIsBots
    <3>2. \E r \in Own(b) : Life(b)!Claim(r)
      BY <2>4, <3>1, ClaimClaims
    <3>3. QED
      BY <3>2 DEF Life!LifecycleNext
  <2>5. CASE MarkFinal(c) /\ txn[c] \in Own(b)
    BY <2>5, OwnRowIsBots, FinalMarkFinalises
    DEF Life!LifecycleNext, Life!FinalStates, FinalStatuses
  <2>6. QED
    BY <1>3, <2>1, <2>2, <2>3, <2>4, <2>5 DEF Step
<1>4. QED
  BY <1>1, <1>2, <1>3 DEF Next

(* Every bot of a fleet does to the rows that it alone serves what         *)
(* TransactionLifecycle promises, whatever the others do.                  *)
THEOREM SoleBotsKeepLifecycle == Spec => SoleBotsImplementLifecycle
<1>1. Init => \A b \in Bots : Life(b)!LifecycleInit
  BY OwnRowsAreRows DEF Init, Life!LifecycleInit
<1>2. FleetInvariant /\ [Next]_fleetVars
        => [\A b \in Bots : [Life(b)!LifecycleNext]_(Life(b)!lifecycleVars)]_fleetVars
  BY StepImplementsLifecycle
<1>3. QED
  BY <1>1, <1>2, FleetInvariantHolds, PTL DEF Spec, SoleBotsImplementLifecycle
=============================================================================
