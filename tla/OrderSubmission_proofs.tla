----------------------- MODULE OrderSubmission_proofs -----------------------
(***************************************************************************)
(* Theorems about OrderSubmission and their proofs.                        *)
(***************************************************************************)
EXTENDS OrderSubmission, TLAPS

\* Program points of a thread that works on no row, and of one that has
\* saved the ENTRY row of its bracket.
Free == {"idle", "expire", "list", "row"}
HoldsBracket ==
  {"save_tp", "save_sl", "save_trade", "link"} \cup Placing \cup Marking \cup {"fail"}

JobsKnown == \A p \in Activator : pc[p] \notin Free => job[p] \in Consensus

LocksHeld == \A p \in Activator : pc[p] \in Inside => lock[Tk(p)] = p

OwnersKnown == \A u \in Uid : Saved(u) => owner[u] \in Consensus

BracketsSaved ==
  \A p \in Activator :
    pc[p] \in HoldsBracket =>
      /\ bracket[p] \in Uid
      /\ Saved(bracket[p])
      /\ owner[bracket[p]] = job[p]

RowsSaved ==
  \A p \in Activator :
    /\ pc[p] \in HoldsBracket \ {"save_tp"} =>
         orders[bracket[p]]["TAKE_PROFIT"] # "NONE"
    /\ pc[p] \in HoldsBracket \ {"save_tp", "save_sl"} =>
         orders[bracket[p]]["STOP_LOSS"] # "NONE"
    /\ pc[p] \in HoldsBracket \ {"save_tp", "save_sl", "save_trade"} =>
         trades[bracket[p]] # "NONE"

\* What a synchroniser is about to write is a status the exchange gave.
FoundIsReal ==
  \A s \in Syncer :
    syncPc[s] = "apply" =>
      /\ found[s].uid \in Uid
      /\ found[s].status \notin {"NONE", "QUEUED"}
      /\ exchange[found[s].uid] # "None"
      /\ Reached(found[s].uid, found[s].status)

\* Between its check and its insert a thread's ticker has no QUEUED entry.
Checked ==
  "read_error" \notin Faults =>
    \A p \in Activator, u \in Uid :
      (pc[p] \in {"check_limit", "quote", "save_entry"} /\ Entry(u) = "QUEUED")
        => Symbol(u) # Tk(p)

\* An accepted reply, a thread that records one, and a thread that reports
\* one, tell of an order the exchange has.
AcceptedIsReal == \A u \in Uid : wire[u] = "accepted" => exchange[u] # "None"

MarkingIsReal ==
  \A p \in Activator : pc[p] \in Marking => exchange[bracket[p]] # "None"

ReportedIsReal ==
  \A p \in Activator :
    pc[p] = "mark_submitted" => \E u \in Uid : owner[u] = job[p] /\ exchange[u] # "None"

NoReadErrorSafe == "read_error" \notin Faults => OneQueuedPerTicker

IInv ==
  /\ TypeOK
  /\ JobsKnown /\ LocksHeld /\ OwnersKnown
  /\ BracketsSaved /\ RowsSaved /\ SavedBeforePlaced
  /\ FoundIsReal /\ LocalNeverAhead
  /\ AcceptedIsReal /\ MarkingIsReal /\ ReportedIsReal /\ SubmittedIsReal
  /\ Checked /\ NoReadErrorSafe

USE DEF Role, OrderState, OrderStatus, ExchangeStatus, TradeStatus, Polled,
        Outside, Inside, Checking, Saving, Placing, Marking
-----------------------------------------------------------------------------
(***************************************************************************)
(* Frames: what the steps of each actor leave alone.                       *)
(***************************************************************************)
KeepsThreads ==
  \/ ExchangeStep \/ ExpiryTask \/ Clock \/ UNCHANGED vars
  \/ \E s \in Syncer : SyncStep(s)

\* The steps that are not a thread's leave the threads alone.
LEMMA ThreadsFrame ==
  ASSUME KeepsThreads
  PROVE  UNCHANGED threads
  BY DEF KeepsThreads, ExchangeStep, ExchangeAccepts, ExchangeRefuses, OrderMoves,
     PositionCloses, ExpiryTask, ExpireQueuedOrders, ExpireStuckSubmitted,
     ExpireFilledOrders, Clock, ConsensusAges, BracketAges, SyncStep, SyncSnapshot,
     SyncFinds, SyncSkips, SyncApply, SyncPositions, SyncCloseTrades, vars

KeepsRemote ==
  \/ Call \/ PendingTaskStep \/ ExpiryTask \/ Clock \/ UNCHANGED vars
  \/ \E s \in Syncer : SyncStep(s)
  \/ \E p \in Activator : \/ ReadPendingRow(p) \/ MarkConsensusSubmitted(p)
                          \/ MarkConsensusSkipped(p) \/ AcquireLock(p) \/ Precheck(p)
                          \/ CheckTicker(p) \/ CheckLimit(p) \/ CheckReadsNothing(p)
                          \/ QuoteAndSize(p) \/ SaveEntry(p) \/ SaveChild(p)
                          \/ SaveTrade(p) \/ LinkConsensus(p) \/ FailBracket(p)
                          \/ MarkEntry(p) \/ MarkTakeProfit(p) \/ MarkStopLoss(p)
                          \/ WriteError(p)

\* Only the placement, the exchange and a crash change the exchange's side.
LEMMA RemoteFrame ==
  ASSUME KeepsRemote
  PROVE  UNCHANGED remote
  BY DEF KeepsRemote, ReadPendingRow, MarkConsensusSubmitted, MarkConsensusSkipped,
     AcquireLock, Precheck, CheckTicker, CheckLimit, CheckReadsNothing, QuoteAndSize,
     SaveEntry, SaveChild, SaveTrade, LinkConsensus, FailBracket, MarkEntry,
     MarkTakeProfit, MarkStopLoss, WriteError, Call, StartPendingTask,
     StartActivation, StartManual, PendingTaskStep, ExpireStalePending,
     ListCandidates, FinishPendingTask, ProcessCandidate, ExpiryTask,
     ExpireQueuedOrders, ExpireStuckSubmitted, ExpireFilledOrders, Clock,
     ConsensusAges, BracketAges, SyncStep, SyncSnapshot, SyncFinds, SyncSkips,
     SyncApply, SyncPositions, SyncCloseTrades, vars

KeepsExchange ==
  \/ Call \/ PendingTaskStep \/ ExpiryTask \/ Clock \/ Crash \/ UNCHANGED vars
  \/ \E p \in Activator : ThreadStep(p)
  \/ \E s \in Syncer : SyncStep(s)
  \/ \E u \in Uid : ExchangeRefuses(u)
  \/ \E t \in Ticker : PositionCloses(t)

\* Only the exchange itself changes the status of an order there.
LEMMA ExchangeFrame ==
  ASSUME KeepsExchange
  PROVE  UNCHANGED exchange
  BY RemoteFrame DEF KeepsExchange, KeepsRemote, remote, ThreadStep, SendPlacement,
     ReceiveReply, PlacementTimeout, ExchangeRefuses, PositionCloses, Crash

KeepsOrders ==
  \/ Call \/ PendingTaskStep \/ ExchangeStep \/ Clock \/ Crash \/ UNCHANGED vars
  \/ \E s \in Syncer : SyncSnapshot(s) \/ SyncPositions(s)
  \/ \E s \in Syncer, u \in Uid : SyncFinds(s, u) \/ SyncSkips(s, u)
  \/ \E p \in Activator : \/ ReadPendingRow(p) \/ MarkConsensusSubmitted(p)
                          \/ MarkConsensusSkipped(p) \/ AcquireLock(p) \/ Precheck(p)
                          \/ CheckTicker(p) \/ CheckLimit(p) \/ CheckReadsNothing(p)
                          \/ QuoteAndSize(p) \/ LinkConsensus(p) \/ SendPlacement(p)
                          \/ ReceiveReply(p) \/ PlacementTimeout(p) \/ WriteError(p)

\* Which steps write neither the orders nor the trades table.
LEMMA OrdersFrame ==
  ASSUME KeepsOrders
  PROVE  UNCHANGED <<orders, owner, trades>>
  BY DEF KeepsOrders, ReadPendingRow, MarkConsensusSubmitted, MarkConsensusSkipped,
     AcquireLock, Precheck, CheckTicker, CheckLimit, CheckReadsNothing, QuoteAndSize,
     LinkConsensus, SendPlacement, ReceiveReply, PlacementTimeout, WriteError, Call,
     StartPendingTask, StartActivation, StartManual, PendingTaskStep,
     ExpireStalePending, ListCandidates, FinishPendingTask, ProcessCandidate,
     ExchangeStep, ExchangeAccepts, ExchangeRefuses, OrderMoves, PositionCloses,
     Clock, ConsensusAges, BracketAges, Crash, SyncSnapshot, SyncPositions, SyncFinds,
     SyncSkips, tables, vars

KeepsSync ==
  \/ Call \/ PendingTaskStep \/ ExchangeStep \/ ExpiryTask \/ UNCHANGED vars
  \/ \E p \in Activator : ThreadStep(p)

\* The synchronisers' state and the clocks are their own.
LEMMA SyncFrame ==
  ASSUME KeepsSync
  PROVE  UNCHANGED <<syncVars, clocks, crashes>>
  BY DEF KeepsSync, ThreadStep, ReadPendingRow, MarkConsensusSubmitted,
     MarkConsensusSkipped, AcquireLock, Precheck, CheckTicker, CheckLimit,
     CheckReadsNothing, QuoteAndSize, SaveEntry, SaveChild, SaveTrade, LinkConsensus,
     SendPlacement, ReceiveReply, PlacementTimeout, FailBracket, MarkEntry,
     MarkTakeProfit, MarkStopLoss, WriteError, Call, StartPendingTask,
     StartActivation, StartManual, PendingTaskStep, ExpireStalePending,
     ListCandidates, FinishPendingTask, ProcessCandidate, ExchangeStep,
     ExchangeAccepts, ExchangeRefuses, OrderMoves, PositionCloses, ExpiryTask,
     ExpireQueuedOrders, ExpireStuckSubmitted, ExpireFilledOrders, vars

-----------------------------------------------------------------------------
(***************************************************************************)
(* The invariant is inductive: one lemma for each of its conjuncts.        *)
(***************************************************************************)

\* Locks and program counters keep their types.
LEMMA ThreadsTypeStep ==
  ASSUME TypeOK, [Next]_vars
  PROVE  ThreadsType'
<1> USE ConstantsAssumption DEF TypeOK, ThreadsType
<1>1. ASSUME NEW p \in Activator, ReadPendingRow(p) PROVE ThreadsType'
  BY <1>1 DEF ReadPendingRow, Goto, Return, Home, AfterPermanentRefusal
<1>2. ASSUME NEW p \in Activator, MarkConsensusSubmitted(p) PROVE ThreadsType'
  BY <1>2 DEF MarkConsensusSubmitted, Goto, Return, Home, AfterPermanentRefusal
<1>3. ASSUME NEW p \in Activator, MarkConsensusSkipped(p) PROVE ThreadsType'
  BY <1>3 DEF MarkConsensusSkipped, Goto, Return, Home, AfterPermanentRefusal
<1>4. ASSUME NEW p \in Activator, AcquireLock(p) PROVE ThreadsType'
  BY <1>4 DEF AcquireLock, Goto, Return, Home, AfterPermanentRefusal
<1>5. ASSUME NEW p \in Activator, Precheck(p) PROVE ThreadsType'
  BY <1>5 DEF Precheck, Goto, Return, Home, AfterPermanentRefusal
<1>6. ASSUME NEW p \in Activator, CheckTicker(p) PROVE ThreadsType'
  BY <1>6 DEF CheckTicker, Goto, Return, Home, AfterPermanentRefusal
<1>7. ASSUME NEW p \in Activator, CheckLimit(p) PROVE ThreadsType'
  BY <1>7 DEF CheckLimit, Goto, Return, Home, AfterPermanentRefusal
<1>8. ASSUME NEW p \in Activator, CheckReadsNothing(p) PROVE ThreadsType'
  BY <1>8 DEF CheckReadsNothing, Goto, Return, Home, AfterPermanentRefusal
<1>9. ASSUME NEW p \in Activator, QuoteAndSize(p) PROVE ThreadsType'
  BY <1>9 DEF QuoteAndSize, Goto, Return, Home, AfterPermanentRefusal
<1>10. ASSUME NEW p \in Activator, SaveEntry(p) PROVE ThreadsType'
  BY <1>10 DEF SaveEntry, Goto, Return, Home, AfterPermanentRefusal
<1>11. ASSUME NEW p \in Activator, SaveChild(p) PROVE ThreadsType'
  BY <1>11 DEF SaveChild, Goto, Return, Home, AfterPermanentRefusal
<1>12. ASSUME NEW p \in Activator, SaveTrade(p) PROVE ThreadsType'
  BY <1>12 DEF SaveTrade, Goto, Return, Home, AfterPermanentRefusal
<1>13. ASSUME NEW p \in Activator, LinkConsensus(p) PROVE ThreadsType'
  BY <1>13 DEF LinkConsensus, Goto, Return, Home, AfterPermanentRefusal
<1>14. ASSUME NEW p \in Activator, SendPlacement(p) PROVE ThreadsType'
  BY <1>14 DEF SendPlacement, Goto, Return, Home, AfterPermanentRefusal
<1>15. ASSUME NEW p \in Activator, ReceiveReply(p) PROVE ThreadsType'
  BY <1>15 DEF ReceiveReply, Goto, Return, Home, AfterPermanentRefusal
<1>16. ASSUME NEW p \in Activator, PlacementTimeout(p) PROVE ThreadsType'
  BY <1>16 DEF PlacementTimeout, Goto, Return, Home, AfterPermanentRefusal
<1>17. ASSUME NEW p \in Activator, FailBracket(p) PROVE ThreadsType'
  BY <1>17 DEF FailBracket, Goto, Return, Home, AfterPermanentRefusal
<1>18. ASSUME NEW p \in Activator, MarkEntry(p) PROVE ThreadsType'
  BY <1>18 DEF MarkEntry, Goto, Return, Home, AfterPermanentRefusal
<1>19. ASSUME NEW p \in Activator, MarkTakeProfit(p) PROVE ThreadsType'
  BY <1>19 DEF MarkTakeProfit, Goto, Return, Home, AfterPermanentRefusal
<1>20. ASSUME NEW p \in Activator, MarkStopLoss(p) PROVE ThreadsType'
  BY <1>20 DEF MarkStopLoss, Goto, Return, Home, AfterPermanentRefusal
<1>21. ASSUME NEW p \in Activator, WriteError(p) PROVE ThreadsType'
  BY <1>21 DEF WriteError, Goto, Return, Home, AfterPermanentRefusal
<1>22. ASSUME StartPendingTask PROVE ThreadsType'
  BY <1>22 DEF StartPendingTask, Goto, Activator
<1>23. ASSUME ExpireStalePending PROVE ThreadsType'
  BY <1>23 DEF ExpireStalePending, Goto, Activator
<1>24. ASSUME ListCandidates PROVE ThreadsType'
  BY <1>24 DEF ListCandidates, Goto, Activator
<1>25. ASSUME FinishPendingTask PROVE ThreadsType'
  BY <1>25 DEF FinishPendingTask, Goto, Activator
<1>26. ASSUME NEW c \in Consensus, ProcessCandidate(c) PROVE ThreadsType'
  BY <1>26 DEF ProcessCandidate, Take, Activator
<1>27. ASSUME NEW p \in Activator, NEW c \in Consensus, StartActivation(p,
              c) \/ StartManual(p, c)
       PROVE  ThreadsType'
  BY <1>27 DEF StartActivation, StartManual, Take
<1>28. ASSUME Crash PROVE ThreadsType'
  BY <1>28 DEF Crash
<1>29. ASSUME KeepsThreads PROVE ThreadsType'
  BY <1>29, ThreadsFrame DEF threads
<1> QED
  BY <1>1, <1>2, <1>3, <1>4, <1>5, <1>6, <1>7, <1>8, <1>9, <1>10, <1>11, <1>12, <1>13,
     <1>14, <1>15, <1>16, <1>17, <1>18, <1>19, <1>20, <1>21, <1>22, <1>23, <1>24,
     <1>25, <1>26, <1>27, <1>28, <1>29 DEF Next, Call, ThreadStep, PendingTaskStep,
     KeepsThreads

\* The tables keep their types.
LEMMA TablesTypeStep ==
  ASSUME TypeOK, FoundIsReal, BracketsSaved, [Next]_vars
  PROVE  TablesType'
<1> USE ConstantsAssumption DEF TypeOK, TablesType
<1>1. ASSUME NEW p \in Activator, MarkConsensusSubmitted(p) PROVE TablesType'
  BY <1>1 DEF MarkConsensusSubmitted
<1>2. ASSUME NEW p \in Activator, MarkConsensusSkipped(p) PROVE TablesType'
  BY <1>2 DEF MarkConsensusSkipped
<1>3. ASSUME NEW p \in Activator, SaveEntry(p) PROVE TablesType'
  BY <1>3 DEF SaveEntry, ThreadsType
<1>4. ASSUME NEW p \in Activator, SaveTrade(p) PROVE TablesType'
  BY <1>4 DEF SaveTrade
<1>5. ASSUME NEW p \in Activator, FailBracket(p) PROVE TablesType'
  BY <1>5 DEF FailBracket
<1>6. ASSUME NEW p \in Activator, MarkEntry(p) PROVE TablesType'
  BY <1>6 DEF MarkEntry, ThreadsType, BracketsSaved, HoldsBracket
<1>7. ASSUME NEW p \in Activator, MarkTakeProfit(p) PROVE TablesType'
  BY <1>7 DEF MarkTakeProfit
<1>8. ASSUME NEW p \in Activator, MarkStopLoss(p) PROVE TablesType'
  BY <1>8 DEF MarkStopLoss
<1>9. ASSUME NEW p \in Activator, SaveChild(p) PROVE TablesType'
  <2>1. ASSUME NEW r \in Role, orders' = [orders EXCEPT ![bracket[p]][r] = "QUEUED"]
        PROVE  orders' \in [Uid -> [Role -> OrderStatus]]
    BY <2>1
  <2> QED
    BY <1>9, <2>1 DEF SaveChild
<1>10. ASSUME NEW p \in Activator, LinkConsensus(p) PROVE TablesType'
  <2>1. bracket[p] \in Uid
    BY <1>10 DEF LinkConsensus, BracketsSaved, HoldsBracket
  <2>2. consensus' \in [Consensus -> [state : OrderState, trade : Uid \cup {NoUid}]]
    BY <1>10, <2>1 DEF LinkConsensus
  <2> QED
    BY <1>10, <2>2 DEF LinkConsensus
<1>11. ASSUME ExpireStalePending PROVE TablesType'
  BY <1>11 DEF ExpireStalePending, Pending
<1>12. ASSUME NEW s \in Syncer, SyncApply(s) PROVE TablesType'
  BY <1>12 DEF SyncApply, SyncType
<1>13. ASSUME NEW s \in Syncer, SyncCloseTrades(s) PROVE TablesType'
  BY <1>13 DEF SyncCloseTrades
<1>14. ASSUME ExpireQueuedOrders PROVE TablesType'
  BY <1>14 DEF ExpireQueuedOrders, Retire
<1>15. ASSUME ExpireStuckSubmitted PROVE TablesType'
  BY <1>15 DEF ExpireStuckSubmitted, Retire
<1>16. ASSUME ExpireFilledOrders PROVE TablesType'
  BY <1>16 DEF ExpireFilledOrders, Retire
<1>17. ASSUME NEW p \in Activator,
             ReadPendingRow(p) \/ AcquireLock(p) \/ Precheck(p) \/ CheckTicker(p)
             \/ CheckLimit(p) \/ CheckReadsNothing(p) \/ QuoteAndSize(p)
             \/ SendPlacement(p) \/ ReceiveReply(p) \/ PlacementTimeout(p)
             \/ WriteError(p)
      PROVE  UNCHANGED tables
  BY <1>17 DEF ReadPendingRow, AcquireLock, Precheck, CheckTicker, CheckLimit,
     CheckReadsNothing, QuoteAndSize, SendPlacement, ReceiveReply, PlacementTimeout,
     WriteError
<1>18. ASSUME \/ Call \/ ListCandidates \/ FinishPendingTask
             \/ \E c \in Consensus : ProcessCandidate(c)
      PROVE  UNCHANGED tables
  BY <1>18 DEF Call, StartPendingTask, StartActivation, StartManual, ListCandidates,
     FinishPendingTask, ProcessCandidate
<1>19. ASSUME NEW s \in Syncer,
             \/ SyncSnapshot(s) \/ SyncPositions(s)
             \/ \E u \in Uid : SyncFinds(s, u) \/ SyncSkips(s, u)
      PROVE  UNCHANGED tables
  BY <1>19 DEF SyncSnapshot, SyncPositions, SyncFinds, SyncSkips
<1>20. ASSUME ExchangeStep \/ Clock \/ Crash \/ UNCHANGED vars
      PROVE  UNCHANGED tables
  BY <1>20 DEF ExchangeStep, ExchangeAccepts, ExchangeRefuses, OrderMoves,
     PositionCloses, Clock, ConsensusAges, BracketAges, Crash, vars
<1> QED
  BY <1>1, <1>2, <1>3, <1>4, <1>5, <1>6, <1>7, <1>8, <1>9, <1>10, <1>11, <1>12, <1>13,
     <1>14, <1>15, <1>16, <1>17, <1>18, <1>19, <1>20 DEF Next, ThreadStep,
     PendingTaskStep, SyncStep, ExpiryTask, tables

\* The exchange keeps its types; a position is one of a known ticker because
\* an order the exchange knows has an owner.
LEMMA RemoteTypeStep ==
  ASSUME TypeOK, SavedBeforePlaced, OwnersKnown, [Next]_vars
  PROVE  RemoteType'
<1> USE ConstantsAssumption DEF TypeOK, RemoteType
<1>1. ASSUME NEW p \in Activator, SendPlacement(p) PROVE RemoteType'
  BY <1>1 DEF SendPlacement
<1>2. ASSUME NEW p \in Activator, ReceiveReply(p) PROVE RemoteType'
  BY <1>2 DEF ReceiveReply
<1>3. ASSUME NEW p \in Activator, PlacementTimeout(p) PROVE RemoteType'
  BY <1>3 DEF PlacementTimeout
<1>4. ASSUME NEW u \in Uid, ExchangeAccepts(u) PROVE RemoteType'
  BY <1>4 DEF ExchangeAccepts, Reply
<1>5. ASSUME NEW u \in Uid, ExchangeRefuses(u) PROVE RemoteType'
  BY <1>5 DEF ExchangeRefuses, Reply
<1>6. ASSUME NEW u \in Uid, OrderMoves(u) PROVE RemoteType'
  BY <1>6 DEF OrderMoves, ExchangeMoves, SavedBeforePlaced, OwnersKnown, Saved, Entry,
     Symbol
<1>7. ASSUME NEW t \in Ticker, PositionCloses(t) PROVE RemoteType'
  BY <1>7 DEF PositionCloses
<1>8. ASSUME Crash PROVE RemoteType'
  BY <1>8 DEF Crash
<1>9. ASSUME KeepsRemote PROVE RemoteType'
  BY <1>9, RemoteFrame DEF remote
<1> QED
  BY <1>1, <1>2, <1>3, <1>4, <1>5, <1>6, <1>7, <1>8, <1>9 DEF Next, ThreadStep,
     ExchangeStep, remote, KeepsRemote

\* The six statuses of the map, each of a status of its own.
LEMMA MapKnown ==
  ASSUME NEW x \in ExchangeStatus, x # "None"
  PROVE  /\ MapStatus(x) \in {"SUBMITTED", "PARTIALLY_FILLED", "FILLED_ENTRY", "CANCELLED",
                              "REJECTED", "PENDING_CANCEL"}
         /\ MapStatus(x) = "PARTIALLY_FILLED" => x = "PartiallyFilled"
         /\ MapStatus(x) = "FILLED_ENTRY" => x = "Filled"
         /\ MapStatus(x) = "CANCELLED" => x = "Cancelled"
         /\ MapStatus(x) = "REJECTED" => x = "Rejected"
         /\ MapStatus(x) = "PENDING_CANCEL" => x = "PendingCancel"
BY DEF MapStatus, ExchangeStatus

\* The synchronisers and the clocks keep their types.
LEMMA SyncTypeStep ==
  ASSUME TypeOK, [Next]_vars
  PROVE  SyncType' /\ ClocksType'
<1> USE ConstantsAssumption DEF TypeOK, SyncType, ClocksType, syncVars, clocks
<1>1. ASSUME NEW s \in Syncer, SyncSnapshot(s) PROVE SyncType' /\ ClocksType'
  BY <1>1 DEF SyncSnapshot
<1>2. ASSUME NEW s \in Syncer, SyncApply(s) PROVE SyncType' /\ ClocksType'
  BY <1>2 DEF SyncApply
<1>3. ASSUME NEW s \in Syncer, SyncPositions(s) PROVE SyncType' /\ ClocksType'
  BY <1>3 DEF SyncPositions
<1>4. ASSUME NEW s \in Syncer, SyncCloseTrades(s) PROVE SyncType' /\ ClocksType'
  BY <1>4 DEF SyncCloseTrades
<1>5. ASSUME NEW s \in Syncer, NEW u \in Uid, SyncFinds(s, u)
      PROVE  SyncType' /\ ClocksType'
  <2>1. exchange[u] \in ExchangeStatus /\ exchange[u] # "None"
    BY <1>5 DEF SyncFinds, RemoteType
  <2>2. MapStatus(exchange[u]) \in OrderStatus
    BY <2>1, MapKnown DEF OrderStatus
  <2> QED
    BY <1>5, <2>2 DEF SyncFinds
<1>6. ASSUME NEW s \in Syncer, NEW u \in Uid, SyncSkips(s, u)
      PROVE  SyncType' /\ ClocksType'
  BY <1>6 DEF SyncSkips
<1>7. ASSUME NEW c \in Consensus, ConsensusAges(c) PROVE SyncType' /\ ClocksType'
  BY <1>7 DEF ConsensusAges
<1>8. ASSUME NEW u \in Uid, BracketAges(u) PROVE SyncType' /\ ClocksType'
  BY <1>8 DEF BracketAges
<1>9. ASSUME Crash PROVE SyncType' /\ ClocksType'
  BY <1>9 DEF Crash
<1>10. ASSUME KeepsSync PROVE SyncType' /\ ClocksType'
  BY <1>10, SyncFrame
<1> QED
  BY <1>1, <1>2, <1>3, <1>4, <1>5, <1>6, <1>7, <1>8, <1>9, <1>10 DEF Next, SyncStep,
     Clock, KeepsSync

\* What is on disk stays there: no row is deleted and no owner rewritten.
RowsKept ==
  /\ \A u \in Uid : Saved(u) => owner'[u] = owner[u]
  /\ \A u \in Uid, r \in Role : orders[u][r] # "NONE" => orders'[u][r] # "NONE"
  /\ \A u \in Uid : trades[u] # "NONE" => trades'[u] # "NONE"

\* No statement deletes a row or resets it, and an owner is written once.
LEMMA RowsStep ==
  ASSUME TypeOK, FoundIsReal, [Next]_vars
  PROVE  RowsKept
<1> USE ConstantsAssumption DEF RowsKept, TypeOK, TablesType, Saved, Entry
<1>1. ASSUME NEW p \in Activator, SaveEntry(p) PROVE RowsKept
  BY <1>1 DEF SaveEntry
<1>2. ASSUME NEW p \in Activator, SaveTrade(p) PROVE RowsKept
  BY <1>2 DEF SaveTrade
<1>3. ASSUME NEW p \in Activator, FailBracket(p) PROVE RowsKept
  BY <1>3 DEF FailBracket
<1>4. ASSUME NEW p \in Activator, MarkEntry(p) PROVE RowsKept
  BY <1>4 DEF MarkEntry
<1>5. ASSUME NEW p \in Activator, MarkTakeProfit(p) PROVE RowsKept
  BY <1>5 DEF MarkTakeProfit
<1>6. ASSUME NEW p \in Activator, MarkStopLoss(p) PROVE RowsKept
  BY <1>6 DEF MarkStopLoss
<1>7. ASSUME NEW p \in Activator, SaveChild(p) PROVE RowsKept
  <2>1. ASSUME NEW r \in Role, orders' = [orders EXCEPT ![bracket[p]][r] = "QUEUED"]
        PROVE  \A u \in Uid, q \in Role : orders[u][q] # "NONE" => orders'[u][q] # "NONE"
    BY <2>1
  <2> QED
    BY <1>7, <2>1 DEF SaveChild
<1>8. ASSUME NEW s \in Syncer, SyncApply(s) PROVE RowsKept
  BY <1>8 DEF SyncApply, FoundIsReal
<1>9. ASSUME NEW s \in Syncer, SyncCloseTrades(s) PROVE RowsKept
  BY <1>9 DEF SyncCloseTrades
<1>10. ASSUME ExpireQueuedOrders PROVE RowsKept
  BY <1>10 DEF ExpireQueuedOrders, Retire
<1>11. ASSUME ExpireStuckSubmitted PROVE RowsKept
  BY <1>11 DEF ExpireStuckSubmitted, Retire
<1>12. ASSUME ExpireFilledOrders PROVE RowsKept
  BY <1>12 DEF ExpireFilledOrders, Retire
<1>13. ASSUME KeepsOrders PROVE RowsKept
  BY <1>13, OrdersFrame
<1> QED
  BY <1>1, <1>2, <1>3, <1>4, <1>5, <1>6, <1>7, <1>8, <1>9, <1>10, <1>11, <1>12, <1>13
     DEF Next, ThreadStep, SyncStep, ExpiryTask, KeepsOrders

\* The exchange goes forward: what was true of an order there stays true.
ExchangeKept ==
  \A u \in Uid :
    exchange[u] # "None" =>
      /\ exchange'[u] # "None"
      /\ \A x \in OrderStatus : Reached(u, x) => Reached(u, x)'

\* The exchange only moves an order forward.
LEMMA ExchangeKeptStep ==
  ASSUME TypeOK, [Next]_vars
  PROVE  ExchangeKept
<1> USE ConstantsAssumption DEF TypeOK, RemoteType, ExchangeKept, Reached
<1>1. ASSUME NEW v \in Uid, OrderMoves(v) PROVE ExchangeKept
  BY <1>1 DEF OrderMoves, ExchangeMoves
<1>2. ASSUME NEW u \in Uid, ExchangeAccepts(u) PROVE ExchangeKept
  BY <1>2 DEF ExchangeAccepts
<1>3. ASSUME KeepsExchange PROVE ExchangeKept
  BY <1>3, ExchangeFrame
<1> QED
  BY <1>1, <1>2, <1>3 DEF Next, ExchangeStep, KeepsExchange

\* A thread inside a call knows its consensus row.
LEMMA JobsStep ==
  ASSUME TypeOK, JobsKnown, [Next]_vars
  PROVE  JobsKnown'
<1> USE ConstantsAssumption DEF TypeOK, ThreadsType, JobsKnown, Free
<1>1. ASSUME NEW p \in Activator, ReadPendingRow(p) PROVE JobsKnown'
  BY <1>1 DEF ReadPendingRow, Goto, Return, Home, AfterPermanentRefusal
<1>2. ASSUME NEW p \in Activator, MarkConsensusSubmitted(p) PROVE JobsKnown'
  BY <1>2 DEF MarkConsensusSubmitted, Goto, Return, Home, AfterPermanentRefusal
<1>3. ASSUME NEW p \in Activator, MarkConsensusSkipped(p) PROVE JobsKnown'
  BY <1>3 DEF MarkConsensusSkipped, Goto, Return, Home, AfterPermanentRefusal
<1>4. ASSUME NEW p \in Activator, AcquireLock(p) PROVE JobsKnown'
  BY <1>4 DEF AcquireLock, Goto, Return, Home, AfterPermanentRefusal
<1>5. ASSUME NEW p \in Activator, Precheck(p) PROVE JobsKnown'
  BY <1>5 DEF Precheck, Goto, Return, Home, AfterPermanentRefusal
<1>6. ASSUME NEW p \in Activator, CheckTicker(p) PROVE JobsKnown'
  BY <1>6 DEF CheckTicker, Goto, Return, Home, AfterPermanentRefusal
<1>7. ASSUME NEW p \in Activator, CheckLimit(p) PROVE JobsKnown'
  BY <1>7 DEF CheckLimit, Goto, Return, Home, AfterPermanentRefusal
<1>8. ASSUME NEW p \in Activator, CheckReadsNothing(p) PROVE JobsKnown'
  BY <1>8 DEF CheckReadsNothing, Goto, Return, Home, AfterPermanentRefusal
<1>9. ASSUME NEW p \in Activator, QuoteAndSize(p) PROVE JobsKnown'
  BY <1>9 DEF QuoteAndSize, Goto, Return, Home, AfterPermanentRefusal
<1>10. ASSUME NEW p \in Activator, SaveEntry(p) PROVE JobsKnown'
  BY <1>10 DEF SaveEntry, Goto, Return, Home, AfterPermanentRefusal
<1>11. ASSUME NEW p \in Activator, SaveChild(p) PROVE JobsKnown'
  BY <1>11 DEF SaveChild, Goto, Return, Home, AfterPermanentRefusal
<1>12. ASSUME NEW p \in Activator, SaveTrade(p) PROVE JobsKnown'
  BY <1>12 DEF SaveTrade, Goto, Return, Home, AfterPermanentRefusal
<1>13. ASSUME NEW p \in Activator, LinkConsensus(p) PROVE JobsKnown'
  BY <1>13 DEF LinkConsensus, Goto, Return, Home, AfterPermanentRefusal
<1>14. ASSUME NEW p \in Activator, SendPlacement(p) PROVE JobsKnown'
  BY <1>14 DEF SendPlacement, Goto, Return, Home, AfterPermanentRefusal
<1>15. ASSUME NEW p \in Activator, ReceiveReply(p) PROVE JobsKnown'
  BY <1>15 DEF ReceiveReply, Goto, Return, Home, AfterPermanentRefusal
<1>16. ASSUME NEW p \in Activator, PlacementTimeout(p) PROVE JobsKnown'
  BY <1>16 DEF PlacementTimeout, Goto, Return, Home, AfterPermanentRefusal
<1>17. ASSUME NEW p \in Activator, FailBracket(p) PROVE JobsKnown'
  BY <1>17 DEF FailBracket, Goto, Return, Home, AfterPermanentRefusal
<1>18. ASSUME NEW p \in Activator, MarkEntry(p) PROVE JobsKnown'
  BY <1>18 DEF MarkEntry, Goto, Return, Home, AfterPermanentRefusal
<1>19. ASSUME NEW p \in Activator, MarkTakeProfit(p) PROVE JobsKnown'
  BY <1>19 DEF MarkTakeProfit, Goto, Return, Home, AfterPermanentRefusal
<1>20. ASSUME NEW p \in Activator, MarkStopLoss(p) PROVE JobsKnown'
  BY <1>20 DEF MarkStopLoss, Goto, Return, Home, AfterPermanentRefusal
<1>21. ASSUME NEW p \in Activator, WriteError(p) PROVE JobsKnown'
  BY <1>21 DEF WriteError, Goto, Return, Home, AfterPermanentRefusal
<1>22. ASSUME StartPendingTask PROVE JobsKnown'
  BY <1>22 DEF StartPendingTask, Goto, Activator
<1>23. ASSUME ExpireStalePending PROVE JobsKnown'
  BY <1>23 DEF ExpireStalePending, Goto, Activator
<1>24. ASSUME ListCandidates PROVE JobsKnown'
  BY <1>24 DEF ListCandidates, Goto, Activator
<1>25. ASSUME FinishPendingTask PROVE JobsKnown'
  BY <1>25 DEF FinishPendingTask, Goto, Activator
<1>26. ASSUME NEW c \in Consensus, ProcessCandidate(c) PROVE JobsKnown'
  BY <1>26 DEF ProcessCandidate, Take, Activator
<1>27. ASSUME NEW p \in Activator, NEW c \in Consensus, StartActivation(p,
              c) \/ StartManual(p, c)
       PROVE  JobsKnown'
  BY <1>27 DEF StartActivation, StartManual, Take
<1>28. ASSUME Crash PROVE JobsKnown'
  BY <1>28 DEF Crash
<1>29. ASSUME KeepsThreads PROVE JobsKnown'
  BY <1>29, ThreadsFrame DEF threads
<1> QED
  BY <1>1, <1>2, <1>3, <1>4, <1>5, <1>6, <1>7, <1>8, <1>9, <1>10, <1>11, <1>12, <1>13,
     <1>14, <1>15, <1>16, <1>17, <1>18, <1>19, <1>20, <1>21, <1>22, <1>23, <1>24,
     <1>25, <1>26, <1>27, <1>28, <1>29 DEF Next, Call, ThreadStep, PendingTaskStep,
     KeepsThreads

\* A thread inside submit_signal holds the lock of its ticker.
LEMMA LocksStep ==
  ASSUME TypeOK, JobsKnown, LocksHeld, [Next]_vars
  PROVE  LocksHeld'
<1> USE ConstantsAssumption DEF TypeOK, ThreadsType, JobsKnown, LocksHeld, Free, Tk
<1>1. ASSUME NEW p \in Activator, ReadPendingRow(p) PROVE LocksHeld'
  BY <1>1 DEF ReadPendingRow, Goto, Return, Home, AfterPermanentRefusal
<1>2. ASSUME NEW p \in Activator, MarkConsensusSubmitted(p) PROVE LocksHeld'
  BY <1>2 DEF MarkConsensusSubmitted, Goto, Return, Home, AfterPermanentRefusal
<1>3. ASSUME NEW p \in Activator, MarkConsensusSkipped(p) PROVE LocksHeld'
  BY <1>3 DEF MarkConsensusSkipped, Goto, Return, Home, AfterPermanentRefusal
<1>4. ASSUME NEW p \in Activator, AcquireLock(p) PROVE LocksHeld'
  BY <1>4 DEF AcquireLock, Goto, Return, Home, AfterPermanentRefusal
<1>5. ASSUME NEW p \in Activator, Precheck(p) PROVE LocksHeld'
  BY <1>5 DEF Precheck, Goto, Return, Home, AfterPermanentRefusal
<1>6. ASSUME NEW p \in Activator, CheckTicker(p) PROVE LocksHeld'
  BY <1>6 DEF CheckTicker, Goto, Return, Home, AfterPermanentRefusal
<1>7. ASSUME NEW p \in Activator, CheckLimit(p) PROVE LocksHeld'
  BY <1>7 DEF CheckLimit, Goto, Return, Home, AfterPermanentRefusal
<1>8. ASSUME NEW p \in Activator, CheckReadsNothing(p) PROVE LocksHeld'
  BY <1>8 DEF CheckReadsNothing, Goto, Return, Home, AfterPermanentRefusal
<1>9. ASSUME NEW p \in Activator, QuoteAndSize(p) PROVE LocksHeld'
  BY <1>9 DEF QuoteAndSize, Goto, Return, Home, AfterPermanentRefusal
<1>10. ASSUME NEW p \in Activator, SaveEntry(p) PROVE LocksHeld'
  BY <1>10 DEF SaveEntry, Goto, Return, Home, AfterPermanentRefusal
<1>11. ASSUME NEW p \in Activator, SaveChild(p) PROVE LocksHeld'
  BY <1>11 DEF SaveChild, Goto, Return, Home, AfterPermanentRefusal
<1>12. ASSUME NEW p \in Activator, SaveTrade(p) PROVE LocksHeld'
  BY <1>12 DEF SaveTrade, Goto, Return, Home, AfterPermanentRefusal
<1>13. ASSUME NEW p \in Activator, LinkConsensus(p) PROVE LocksHeld'
  BY <1>13 DEF LinkConsensus, Goto, Return, Home, AfterPermanentRefusal
<1>14. ASSUME NEW p \in Activator, SendPlacement(p) PROVE LocksHeld'
  BY <1>14 DEF SendPlacement, Goto, Return, Home, AfterPermanentRefusal
<1>15. ASSUME NEW p \in Activator, ReceiveReply(p) PROVE LocksHeld'
  BY <1>15 DEF ReceiveReply, Goto, Return, Home, AfterPermanentRefusal
<1>16. ASSUME NEW p \in Activator, PlacementTimeout(p) PROVE LocksHeld'
  BY <1>16 DEF PlacementTimeout, Goto, Return, Home, AfterPermanentRefusal
<1>17. ASSUME NEW p \in Activator, FailBracket(p) PROVE LocksHeld'
  BY <1>17 DEF FailBracket, Goto, Return, Home, AfterPermanentRefusal
<1>18. ASSUME NEW p \in Activator, MarkEntry(p) PROVE LocksHeld'
  BY <1>18 DEF MarkEntry, Goto, Return, Home, AfterPermanentRefusal
<1>19. ASSUME NEW p \in Activator, MarkTakeProfit(p) PROVE LocksHeld'
  BY <1>19 DEF MarkTakeProfit, Goto, Return, Home, AfterPermanentRefusal
<1>20. ASSUME NEW p \in Activator, MarkStopLoss(p) PROVE LocksHeld'
  BY <1>20 DEF MarkStopLoss, Goto, Return, Home, AfterPermanentRefusal
<1>21. ASSUME NEW p \in Activator, WriteError(p) PROVE LocksHeld'
  BY <1>21 DEF WriteError, Goto, Return, Home, AfterPermanentRefusal
<1>22. ASSUME StartPendingTask PROVE LocksHeld'
  BY <1>22 DEF StartPendingTask, Goto, Activator
<1>23. ASSUME ExpireStalePending PROVE LocksHeld'
  BY <1>23 DEF ExpireStalePending, Goto, Activator
<1>24. ASSUME ListCandidates PROVE LocksHeld'
  BY <1>24 DEF ListCandidates, Goto, Activator
<1>25. ASSUME FinishPendingTask PROVE LocksHeld'
  BY <1>25 DEF FinishPendingTask, Goto, Activator
<1>26. ASSUME NEW c \in Consensus, ProcessCandidate(c) PROVE LocksHeld'
  BY <1>26 DEF ProcessCandidate, Take, Activator
<1>27. ASSUME NEW p \in Activator, NEW c \in Consensus, StartActivation(p,
              c) \/ StartManual(p, c)
       PROVE  LocksHeld'
  BY <1>27 DEF StartActivation, StartManual, Take
<1>28. ASSUME Crash PROVE LocksHeld'
  BY <1>28 DEF Crash
<1>29. ASSUME KeepsThreads PROVE LocksHeld'
  BY <1>29, ThreadsFrame DEF threads
<1> QED
  BY <1>1, <1>2, <1>3, <1>4, <1>5, <1>6, <1>7, <1>8, <1>9, <1>10, <1>11, <1>12, <1>13,
     <1>14, <1>15, <1>16, <1>17, <1>18, <1>19, <1>20, <1>21, <1>22, <1>23, <1>24,
     <1>25, <1>26, <1>27, <1>28, <1>29 DEF Next, Call, ThreadStep, PendingTaskStep,
     KeepsThreads

\* Every saved bracket has a consensus row.
LEMMA OwnersStep ==
  ASSUME TypeOK, FoundIsReal, JobsKnown, BracketsSaved, SavedBeforePlaced, OwnersKnown,
         [Next]_vars
  PROVE  OwnersKnown'
<1> USE ConstantsAssumption DEF TypeOK, TablesType, ThreadsType, JobsKnown, Free,
        OwnersKnown, Saved, Entry
<1>1. ASSUME NEW p \in Activator, SaveEntry(p) PROVE OwnersKnown'
  BY <1>1 DEF SaveEntry
<1>2. ASSUME NEW p \in Activator, SaveTrade(p) PROVE OwnersKnown'
  BY <1>2 DEF SaveTrade, BracketsSaved, HoldsBracket
<1>3. ASSUME NEW p \in Activator, FailBracket(p) PROVE OwnersKnown'
  BY <1>3 DEF FailBracket, BracketsSaved, HoldsBracket
<1>4. ASSUME NEW p \in Activator, MarkEntry(p) PROVE OwnersKnown'
  BY <1>4 DEF MarkEntry, BracketsSaved, HoldsBracket
<1>5. ASSUME NEW p \in Activator, MarkTakeProfit(p) PROVE OwnersKnown'
  BY <1>5 DEF MarkTakeProfit, BracketsSaved, HoldsBracket
<1>6. ASSUME NEW p \in Activator, MarkStopLoss(p) PROVE OwnersKnown'
  BY <1>6 DEF MarkStopLoss, BracketsSaved, HoldsBracket
<1>7. ASSUME NEW p \in Activator, SaveChild(p) PROVE OwnersKnown'
  <2>1. ASSUME NEW r \in Role \ {"ENTRY"},
               orders' = [orders EXCEPT ![bracket[p]][r] = "QUEUED"]
        PROVE  \A u \in Uid : orders'[u]["ENTRY"] = orders[u]["ENTRY"]
    BY <2>1
  <2> QED
    BY <1>7, <2>1 DEF SaveChild
<1>8. ASSUME NEW s \in Syncer, SyncApply(s) PROVE OwnersKnown'
  BY <1>8 DEF SyncApply, FoundIsReal, SavedBeforePlaced
<1>9. ASSUME ExpireQueuedOrders PROVE OwnersKnown'
  BY <1>9 DEF ExpireQueuedOrders, Retire
<1>10. ASSUME ExpireStuckSubmitted PROVE OwnersKnown'
  BY <1>10 DEF ExpireStuckSubmitted, Retire
<1>11. ASSUME ExpireFilledOrders PROVE OwnersKnown'
  BY <1>11 DEF ExpireFilledOrders, Retire
<1>12. ASSUME NEW s \in Syncer, SyncCloseTrades(s) PROVE OwnersKnown'
  BY <1>12 DEF SyncCloseTrades
<1>13. ASSUME KeepsOrders PROVE OwnersKnown'
  BY <1>13, OrdersFrame
<1> QED
  BY <1>1, <1>2, <1>3, <1>4, <1>5, <1>6, <1>7, <1>8, <1>9, <1>10, <1>11, <1>12, <1>13
     DEF Next, ThreadStep, SyncStep, ExpiryTask, KeepsOrders

\* From the first insert on, the thread's bracket is on disk and its own.
LEMMA BracketsStep ==
  ASSUME TypeOK, JobsKnown, BracketsSaved, RowsKept, [Next]_vars
  PROVE  BracketsSaved'
<1> USE ConstantsAssumption DEF TypeOK, TablesType, ThreadsType, JobsKnown, Free,
        BracketsSaved, HoldsBracket, RowsKept, Saved, Entry
<1>1. ASSUME NEW p \in Activator, ReadPendingRow(p) PROVE BracketsSaved'
  BY <1>1 DEF ReadPendingRow, Goto, Return, Home, AfterPermanentRefusal
<1>2. ASSUME NEW p \in Activator, MarkConsensusSubmitted(p) PROVE BracketsSaved'
  BY <1>2 DEF MarkConsensusSubmitted, Goto, Return, Home, AfterPermanentRefusal
<1>3. ASSUME NEW p \in Activator, MarkConsensusSkipped(p) PROVE BracketsSaved'
  BY <1>3 DEF MarkConsensusSkipped, Goto, Return, Home, AfterPermanentRefusal
<1>4. ASSUME NEW p \in Activator, AcquireLock(p) PROVE BracketsSaved'
  BY <1>4 DEF AcquireLock, Goto, Return, Home, AfterPermanentRefusal
<1>5. ASSUME NEW p \in Activator, Precheck(p) PROVE BracketsSaved'
  BY <1>5 DEF Precheck, Goto, Return, Home, AfterPermanentRefusal
<1>6. ASSUME NEW p \in Activator, CheckTicker(p) PROVE BracketsSaved'
  BY <1>6 DEF CheckTicker, Goto, Return, Home, AfterPermanentRefusal
<1>7. ASSUME NEW p \in Activator, CheckLimit(p) PROVE BracketsSaved'
  BY <1>7 DEF CheckLimit, Goto, Return, Home, AfterPermanentRefusal
<1>8. ASSUME NEW p \in Activator, CheckReadsNothing(p) PROVE BracketsSaved'
  BY <1>8 DEF CheckReadsNothing, Goto, Return, Home, AfterPermanentRefusal
<1>9. ASSUME NEW p \in Activator, QuoteAndSize(p) PROVE BracketsSaved'
  BY <1>9 DEF QuoteAndSize, Goto, Return, Home, AfterPermanentRefusal
<1>10. ASSUME NEW p \in Activator, SaveEntry(p) PROVE BracketsSaved'
  BY <1>10 DEF SaveEntry, Goto, Return, Home, AfterPermanentRefusal
<1>11. ASSUME NEW p \in Activator, SaveChild(p) PROVE BracketsSaved'
  BY <1>11 DEF SaveChild, Goto, Return, Home, AfterPermanentRefusal
<1>12. ASSUME NEW p \in Activator, SaveTrade(p) PROVE BracketsSaved'
  BY <1>12 DEF SaveTrade, Goto, Return, Home, AfterPermanentRefusal
<1>13. ASSUME NEW p \in Activator, LinkConsensus(p) PROVE BracketsSaved'
  BY <1>13 DEF LinkConsensus, Goto, Return, Home, AfterPermanentRefusal
<1>14. ASSUME NEW p \in Activator, SendPlacement(p) PROVE BracketsSaved'
  BY <1>14 DEF SendPlacement, Goto, Return, Home, AfterPermanentRefusal
<1>15. ASSUME NEW p \in Activator, ReceiveReply(p) PROVE BracketsSaved'
  BY <1>15 DEF ReceiveReply, Goto, Return, Home, AfterPermanentRefusal
<1>16. ASSUME NEW p \in Activator, PlacementTimeout(p) PROVE BracketsSaved'
  BY <1>16 DEF PlacementTimeout, Goto, Return, Home, AfterPermanentRefusal
<1>17. ASSUME NEW p \in Activator, FailBracket(p) PROVE BracketsSaved'
  BY <1>17 DEF FailBracket, Goto, Return, Home, AfterPermanentRefusal
<1>18. ASSUME NEW p \in Activator, MarkEntry(p) PROVE BracketsSaved'
  BY <1>18 DEF MarkEntry, Goto, Return, Home, AfterPermanentRefusal
<1>19. ASSUME NEW p \in Activator, MarkTakeProfit(p) PROVE BracketsSaved'
  BY <1>19 DEF MarkTakeProfit, Goto, Return, Home, AfterPermanentRefusal
<1>20. ASSUME NEW p \in Activator, MarkStopLoss(p) PROVE BracketsSaved'
  BY <1>20 DEF MarkStopLoss, Goto, Return, Home, AfterPermanentRefusal
<1>21. ASSUME NEW p \in Activator, WriteError(p) PROVE BracketsSaved'
  BY <1>21 DEF WriteError, Goto, Return, Home, AfterPermanentRefusal
<1>22. ASSUME StartPendingTask PROVE BracketsSaved'
  BY <1>22 DEF StartPendingTask, Goto, Activator
<1>23. ASSUME ExpireStalePending PROVE BracketsSaved'
  BY <1>23 DEF ExpireStalePending, Goto, Activator
<1>24. ASSUME ListCandidates PROVE BracketsSaved'
  BY <1>24 DEF ListCandidates, Goto, Activator
<1>25. ASSUME FinishPendingTask PROVE BracketsSaved'
  BY <1>25 DEF FinishPendingTask, Goto, Activator
<1>26. ASSUME NEW c \in Consensus, ProcessCandidate(c) PROVE BracketsSaved'
  BY <1>26 DEF ProcessCandidate, Take, Activator
<1>27. ASSUME NEW p \in Activator, NEW c \in Consensus, StartActivation(p,
              c) \/ StartManual(p, c)
       PROVE  BracketsSaved'
  BY <1>27 DEF StartActivation, StartManual, Take
<1>28. ASSUME Crash PROVE BracketsSaved'
  BY <1>28 DEF Crash
<1>29. ASSUME KeepsThreads PROVE BracketsSaved'
  BY <1>29, ThreadsFrame DEF threads
<1> QED
  BY <1>1, <1>2, <1>3, <1>4, <1>5, <1>6, <1>7, <1>8, <1>9, <1>10, <1>11, <1>12, <1>13,
     <1>14, <1>15, <1>16, <1>17, <1>18, <1>19, <1>20, <1>21, <1>22, <1>23, <1>24,
     <1>25, <1>26, <1>27, <1>28, <1>29 DEF Next, Call, ThreadStep, PendingTaskStep,
     KeepsThreads

\* The rows of a bracket are inserted in order, each before the next point.
LEMMA RowsSavedStep ==
  ASSUME TypeOK, BracketsSaved, RowsSaved, RowsKept, [Next]_vars
  PROVE  RowsSaved'
<1> USE ConstantsAssumption DEF TypeOK, TablesType, ThreadsType, BracketsSaved,
        RowsSaved, HoldsBracket, RowsKept, Saved, Entry
<1>1. ASSUME NEW p \in Activator, ReadPendingRow(p) PROVE RowsSaved'
  BY <1>1 DEF ReadPendingRow, Goto, Return, Home, AfterPermanentRefusal
<1>2. ASSUME NEW p \in Activator, MarkConsensusSubmitted(p) PROVE RowsSaved'
  BY <1>2 DEF MarkConsensusSubmitted, Goto, Return, Home, AfterPermanentRefusal
<1>3. ASSUME NEW p \in Activator, MarkConsensusSkipped(p) PROVE RowsSaved'
  BY <1>3 DEF MarkConsensusSkipped, Goto, Return, Home, AfterPermanentRefusal
<1>4. ASSUME NEW p \in Activator, AcquireLock(p) PROVE RowsSaved'
  BY <1>4 DEF AcquireLock, Goto, Return, Home, AfterPermanentRefusal
<1>5. ASSUME NEW p \in Activator, Precheck(p) PROVE RowsSaved'
  BY <1>5 DEF Precheck, Goto, Return, Home, AfterPermanentRefusal
<1>6. ASSUME NEW p \in Activator, CheckTicker(p) PROVE RowsSaved'
  BY <1>6 DEF CheckTicker, Goto, Return, Home, AfterPermanentRefusal
<1>7. ASSUME NEW p \in Activator, CheckLimit(p) PROVE RowsSaved'
  BY <1>7 DEF CheckLimit, Goto, Return, Home, AfterPermanentRefusal
<1>8. ASSUME NEW p \in Activator, CheckReadsNothing(p) PROVE RowsSaved'
  BY <1>8 DEF CheckReadsNothing, Goto, Return, Home, AfterPermanentRefusal
<1>9. ASSUME NEW p \in Activator, QuoteAndSize(p) PROVE RowsSaved'
  BY <1>9 DEF QuoteAndSize, Goto, Return, Home, AfterPermanentRefusal
<1>10. ASSUME NEW p \in Activator, SaveEntry(p) PROVE RowsSaved'
  BY <1>10 DEF SaveEntry, Goto, Return, Home, AfterPermanentRefusal
<1>11. ASSUME NEW p \in Activator, SaveChild(p) PROVE RowsSaved'
  BY <1>11 DEF SaveChild, Goto, Return, Home, AfterPermanentRefusal
<1>12. ASSUME NEW p \in Activator, SaveTrade(p) PROVE RowsSaved'
  BY <1>12 DEF SaveTrade, Goto, Return, Home, AfterPermanentRefusal
<1>13. ASSUME NEW p \in Activator, LinkConsensus(p) PROVE RowsSaved'
  BY <1>13 DEF LinkConsensus, Goto, Return, Home, AfterPermanentRefusal
<1>14. ASSUME NEW p \in Activator, SendPlacement(p) PROVE RowsSaved'
  BY <1>14 DEF SendPlacement, Goto, Return, Home, AfterPermanentRefusal
<1>15. ASSUME NEW p \in Activator, ReceiveReply(p) PROVE RowsSaved'
  BY <1>15 DEF ReceiveReply, Goto, Return, Home, AfterPermanentRefusal
<1>16. ASSUME NEW p \in Activator, PlacementTimeout(p) PROVE RowsSaved'
  BY <1>16 DEF PlacementTimeout, Goto, Return, Home, AfterPermanentRefusal
<1>17. ASSUME NEW p \in Activator, FailBracket(p) PROVE RowsSaved'
  BY <1>17 DEF FailBracket, Goto, Return, Home, AfterPermanentRefusal
<1>18. ASSUME NEW p \in Activator, MarkEntry(p) PROVE RowsSaved'
  BY <1>18 DEF MarkEntry, Goto, Return, Home, AfterPermanentRefusal
<1>19. ASSUME NEW p \in Activator, MarkTakeProfit(p) PROVE RowsSaved'
  BY <1>19 DEF MarkTakeProfit, Goto, Return, Home, AfterPermanentRefusal
<1>20. ASSUME NEW p \in Activator, MarkStopLoss(p) PROVE RowsSaved'
  BY <1>20 DEF MarkStopLoss, Goto, Return, Home, AfterPermanentRefusal
<1>21. ASSUME NEW p \in Activator, WriteError(p) PROVE RowsSaved'
  BY <1>21 DEF WriteError, Goto, Return, Home, AfterPermanentRefusal
<1>22. ASSUME StartPendingTask PROVE RowsSaved'
  BY <1>22 DEF StartPendingTask, Goto, Activator
<1>23. ASSUME ExpireStalePending PROVE RowsSaved'
  BY <1>23 DEF ExpireStalePending, Goto, Activator
<1>24. ASSUME ListCandidates PROVE RowsSaved'
  BY <1>24 DEF ListCandidates, Goto, Activator
<1>25. ASSUME FinishPendingTask PROVE RowsSaved'
  BY <1>25 DEF FinishPendingTask, Goto, Activator
<1>26. ASSUME NEW c \in Consensus, ProcessCandidate(c) PROVE RowsSaved'
  BY <1>26 DEF ProcessCandidate, Take, Activator
<1>27. ASSUME NEW p \in Activator, NEW c \in Consensus, StartActivation(p,
              c) \/ StartManual(p, c)
       PROVE  RowsSaved'
  BY <1>27 DEF StartActivation, StartManual, Take
<1>28. ASSUME Crash PROVE RowsSaved'
  BY <1>28 DEF Crash
<1>29. ASSUME KeepsThreads PROVE RowsSaved'
  BY <1>29, ThreadsFrame DEF threads
<1> QED
  BY <1>1, <1>2, <1>3, <1>4, <1>5, <1>6, <1>7, <1>8, <1>9, <1>10, <1>11, <1>12, <1>13,
     <1>14, <1>15, <1>16, <1>17, <1>18, <1>19, <1>20, <1>21, <1>22, <1>23, <1>24,
     <1>25, <1>26, <1>27, <1>28, <1>29 DEF Next, Call, ThreadStep, PendingTaskStep,
     KeepsThreads

\* A placement is sent only after all four rows are on disk, and they stay
\* there.
LEMMA PlacedStep ==
  ASSUME TypeOK, BracketsSaved, RowsSaved, RowsKept, SavedBeforePlaced, [Next]_vars
  PROVE  SavedBeforePlaced'
<1> USE ConstantsAssumption DEF TypeOK, RemoteType, ThreadsType, BracketsSaved,
        RowsSaved, HoldsBracket, RowsKept, SavedBeforePlaced, Saved, Entry
<1>1. ASSUME NEW p \in Activator, SendPlacement(p) PROVE SavedBeforePlaced'
  BY <1>1 DEF SendPlacement
<1>2. ASSUME NEW p \in Activator, ReceiveReply(p) PROVE SavedBeforePlaced'
  BY <1>2 DEF ReceiveReply
<1>3. ASSUME NEW p \in Activator, PlacementTimeout(p) PROVE SavedBeforePlaced'
  BY <1>3 DEF PlacementTimeout
<1>4. ASSUME NEW u \in Uid, ExchangeAccepts(u) \/ ExchangeRefuses(u)
      PROVE  SavedBeforePlaced'
  BY <1>4 DEF ExchangeAccepts, ExchangeRefuses, Reply
<1>5. ASSUME NEW u \in Uid, OrderMoves(u) PROVE SavedBeforePlaced'
  BY <1>5 DEF OrderMoves, ExchangeMoves
<1>6. ASSUME NEW t \in Ticker, PositionCloses(t) PROVE SavedBeforePlaced'
  BY <1>6 DEF PositionCloses
<1>7. ASSUME Crash PROVE SavedBeforePlaced'
  BY <1>7 DEF Crash
<1>8. ASSUME KeepsRemote PROVE SavedBeforePlaced'
  BY <1>8, RemoteFrame DEF remote
<1> QED
  BY <1>1, <1>2, <1>3, <1>4, <1>5, <1>6, <1>7, <1>8 DEF Next, ThreadStep,
     ExchangeStep, remote, KeepsRemote

\* What a synchroniser has found stays true until it writes it, however late.
LEMMA FoundStep ==
  ASSUME TypeOK, FoundIsReal, ExchangeKept, [Next]_vars
  PROVE  FoundIsReal'
<1> USE ConstantsAssumption DEF TypeOK, RemoteType, SyncType, FoundIsReal,
        ExchangeKept
<1>1. ASSUME NEW s \in Syncer, NEW u \in Uid, SyncFinds(s, u) PROVE FoundIsReal'
  <2>1. exchange[u] \in ExchangeStatus /\ exchange[u] # "None"
    BY <1>1 DEF SyncFinds
  <2>2. /\ MapStatus(exchange[u]) \notin {"NONE", "QUEUED"}
        /\ Reached(u, MapStatus(exchange[u]))
    BY <2>1, MapKnown DEF Reached
  <2> QED
    BY <1>1, <2>1, <2>2 DEF SyncFinds, Reached, remote
<1>2. ASSUME NEW s \in Syncer, SyncSnapshot(s) PROVE FoundIsReal'
  BY <1>2 DEF SyncSnapshot, remote, Reached
<1>3. ASSUME NEW s \in Syncer, SyncApply(s) PROVE FoundIsReal'
  BY <1>3 DEF SyncApply, remote, Reached
<1>4. ASSUME NEW s \in Syncer, SyncPositions(s) PROVE FoundIsReal'
  BY <1>4 DEF SyncPositions, remote, Reached
<1>5. ASSUME NEW s \in Syncer, SyncCloseTrades(s) PROVE FoundIsReal'
  BY <1>5 DEF SyncCloseTrades, remote, Reached
<1>6. ASSUME NEW s \in Syncer, NEW u \in Uid, SyncSkips(s, u) PROVE FoundIsReal'
  BY <1>6 DEF SyncSkips, remote, Reached
<1>7. ASSUME Crash PROVE FoundIsReal'
  BY <1>7 DEF Crash
<1>8. ASSUME Clock PROVE FoundIsReal'
  BY <1>8 DEF Clock, ConsensusAges, BracketAges, syncVars
<1>9. ASSUME KeepsSync PROVE FoundIsReal'
  BY <1>9, SyncFrame DEF syncVars
<1> QED
  BY <1>1, <1>2, <1>3, <1>4, <1>5, <1>6, <1>7, <1>8, <1>9 DEF Next, SyncStep,
     syncVars, KeepsSync

\* A local status is written from what the exchange has reached, and the
\* exchange only moves forward.
LEMMA LocalStep ==
  ASSUME TypeOK, FoundIsReal, MarkingIsReal, BracketsSaved, LocalNeverAhead,
         ExchangeKept, [Next]_vars
  PROVE  LocalNeverAhead'
<1> USE ConstantsAssumption DEF TypeOK, TablesType, RemoteType, ThreadsType,
        LocalNeverAhead, Entry
<1>1. ASSUME NEW p \in Activator, SaveEntry(p) PROVE LocalNeverAhead'
  BY <1>1 DEF SaveEntry, tables, remote, Reached
<1>2. ASSUME NEW p \in Activator, FailBracket(p) PROVE LocalNeverAhead'
  BY <1>2 DEF FailBracket, tables, remote, Reached
<1>3. ASSUME NEW p \in Activator, MarkEntry(p) PROVE LocalNeverAhead'
  BY <1>3 DEF MarkEntry, MarkingIsReal, tables, remote, Reached
<1>4. ASSUME NEW p \in Activator, SaveChild(p) \/ MarkTakeProfit(p) \/ MarkStopLoss(p)
      PROVE LocalNeverAhead'
  <2>1. ASSUME NEW r \in Role \ {"ENTRY"}, NEW x \in OrderStatus,
               orders' = [orders EXCEPT ![bracket[p]][r] = x]
        PROVE  \A u \in Uid : orders'[u]["ENTRY"] = orders[u]["ENTRY"]
    BY <2>1
  <2> QED
    BY <1>4, <2>1 DEF SaveChild, MarkTakeProfit, MarkStopLoss, remote, Reached
<1>5. ASSUME NEW s \in Syncer, SyncApply(s) PROVE LocalNeverAhead'
  BY <1>5 DEF SyncApply, FoundIsReal, tables, remote, Reached
<1>6. ASSUME ExpireQueuedOrders PROVE LocalNeverAhead'
  BY <1>6 DEF ExpireQueuedOrders, Retire, tables, remote, Reached
<1>7. ASSUME ExpireStuckSubmitted PROVE LocalNeverAhead'
  BY <1>7 DEF ExpireStuckSubmitted, Retire, tables, remote, Reached
<1>8. ASSUME ExpireFilledOrders PROVE LocalNeverAhead'
  BY <1>8 DEF ExpireFilledOrders, Retire, tables, remote, Reached
<1>9. ASSUME NEW u \in Uid, ExchangeAccepts(u) PROVE LocalNeverAhead'
  BY <1>9 DEF ExchangeAccepts, tables, remote, Reached
<1>10. ASSUME NEW u \in Uid, OrderMoves(u) PROVE LocalNeverAhead'
  BY <1>10 DEF OrderMoves, ExchangeMoves, tables, remote, Reached
<1>11. ASSUME UNCHANGED <<orders, exchange>> PROVE LocalNeverAhead'
  BY <1>11 DEF Reached
<1>12. ASSUME KeepsOrders, KeepsExchange PROVE LocalNeverAhead'
  BY <1>12, <1>11, OrdersFrame, ExchangeFrame
<1>13. ASSUME NEW p \in Activator, SaveTrade(p) PROVE LocalNeverAhead'
  BY <1>13, <1>11 DEF SaveTrade, remote
<1>14. ASSUME NEW s \in Syncer, SyncCloseTrades(s) PROVE LocalNeverAhead'
  BY <1>14, <1>11 DEF SyncCloseTrades, remote
<1> HIDE DEF LocalNeverAhead, TypeOK
<1> QED
  BY <1>1, <1>2, <1>3, <1>4, <1>5, <1>6, <1>7, <1>8, <1>9, <1>10, <1>11, <1>12, <1>13,
     <1>14 DEF Next, ThreadStep, SyncStep, ExpiryTask, ExchangeStep, KeepsOrders,
     KeepsExchange

\* An accepted reply comes from an order the exchange has.
LEMMA AcceptedStep ==
  ASSUME TypeOK, ExchangeKept, AcceptedIsReal, [Next]_vars
  PROVE  AcceptedIsReal'
<1> USE ConstantsAssumption DEF TypeOK, RemoteType, ExchangeKept, AcceptedIsReal
<1>1. ASSUME NEW p \in Activator, SendPlacement(p) PROVE AcceptedIsReal'
  BY <1>1 DEF SendPlacement
<1>2. ASSUME NEW p \in Activator, ReceiveReply(p) PROVE AcceptedIsReal'
  BY <1>2 DEF ReceiveReply
<1>3. ASSUME NEW p \in Activator, PlacementTimeout(p) PROVE AcceptedIsReal'
  BY <1>3 DEF PlacementTimeout
<1>4. ASSUME NEW u \in Uid, ExchangeAccepts(u) \/ ExchangeRefuses(u)
      PROVE  AcceptedIsReal'
  BY <1>4 DEF ExchangeAccepts, ExchangeRefuses, Reply
<1>5. ASSUME NEW u \in Uid, OrderMoves(u) PROVE AcceptedIsReal'
  BY <1>5 DEF OrderMoves
<1>6. ASSUME NEW t \in Ticker, PositionCloses(t) PROVE AcceptedIsReal'
  BY <1>6 DEF PositionCloses
<1>7. ASSUME Crash PROVE AcceptedIsReal'
  BY <1>7 DEF Crash
<1>8. ASSUME KeepsRemote PROVE AcceptedIsReal'
  BY <1>8, RemoteFrame DEF remote
<1> QED
  BY <1>1, <1>2, <1>3, <1>4, <1>5, <1>6, <1>7, <1>8 DEF Next, ThreadStep,
     ExchangeStep, remote, KeepsRemote

\* A thread records a placement only after an accepted reply.
LEMMA MarkingStep ==
  ASSUME TypeOK, BracketsSaved, AcceptedIsReal, MarkingIsReal, ExchangeKept,
         [Next]_vars
  PROVE  MarkingIsReal'
<1> USE ConstantsAssumption DEF TypeOK, RemoteType, ThreadsType, BracketsSaved,
        HoldsBracket, MarkingIsReal, ExchangeKept
<1>1. ASSUME NEW p \in Activator, ReadPendingRow(p) PROVE MarkingIsReal'
  BY <1>1 DEF ReadPendingRow, Goto, Return, Home, AfterPermanentRefusal
<1>2. ASSUME NEW p \in Activator, MarkConsensusSubmitted(p) PROVE MarkingIsReal'
  BY <1>2 DEF MarkConsensusSubmitted, Goto, Return, Home, AfterPermanentRefusal
<1>3. ASSUME NEW p \in Activator, MarkConsensusSkipped(p) PROVE MarkingIsReal'
  BY <1>3 DEF MarkConsensusSkipped, Goto, Return, Home, AfterPermanentRefusal
<1>4. ASSUME NEW p \in Activator, AcquireLock(p) PROVE MarkingIsReal'
  BY <1>4 DEF AcquireLock, Goto, Return, Home, AfterPermanentRefusal
<1>5. ASSUME NEW p \in Activator, Precheck(p) PROVE MarkingIsReal'
  BY <1>5 DEF Precheck, Goto, Return, Home, AfterPermanentRefusal
<1>6. ASSUME NEW p \in Activator, CheckTicker(p) PROVE MarkingIsReal'
  BY <1>6 DEF CheckTicker, Goto, Return, Home, AfterPermanentRefusal
<1>7. ASSUME NEW p \in Activator, CheckLimit(p) PROVE MarkingIsReal'
  BY <1>7 DEF CheckLimit, Goto, Return, Home, AfterPermanentRefusal
<1>8. ASSUME NEW p \in Activator, CheckReadsNothing(p) PROVE MarkingIsReal'
  BY <1>8 DEF CheckReadsNothing, Goto, Return, Home, AfterPermanentRefusal
<1>9. ASSUME NEW p \in Activator, QuoteAndSize(p) PROVE MarkingIsReal'
  BY <1>9 DEF QuoteAndSize, Goto, Return, Home, AfterPermanentRefusal
<1>10. ASSUME NEW p \in Activator, SaveEntry(p) PROVE MarkingIsReal'
  BY <1>10 DEF SaveEntry, Goto, Return, Home, AfterPermanentRefusal
<1>11. ASSUME NEW p \in Activator, SaveChild(p) PROVE MarkingIsReal'
  BY <1>11 DEF SaveChild, Goto, Return, Home, AfterPermanentRefusal
<1>12. ASSUME NEW p \in Activator, SaveTrade(p) PROVE MarkingIsReal'
  BY <1>12 DEF SaveTrade, Goto, Return, Home, AfterPermanentRefusal
<1>13. ASSUME NEW p \in Activator, LinkConsensus(p) PROVE MarkingIsReal'
  BY <1>13 DEF LinkConsensus, Goto, Return, Home, AfterPermanentRefusal
<1>14. ASSUME NEW p \in Activator, SendPlacement(p) PROVE MarkingIsReal'
  BY <1>14 DEF SendPlacement, Goto, Return, Home, AfterPermanentRefusal
<1>15. ASSUME NEW p \in Activator, ReceiveReply(p) PROVE MarkingIsReal'
  BY <1>15 DEF ReceiveReply, Goto, Return, Home, AfterPermanentRefusal, AcceptedIsReal
<1>16. ASSUME NEW p \in Activator, PlacementTimeout(p) PROVE MarkingIsReal'
  BY <1>16 DEF PlacementTimeout, Goto, Return, Home, AfterPermanentRefusal
<1>17. ASSUME NEW p \in Activator, FailBracket(p) PROVE MarkingIsReal'
  BY <1>17 DEF FailBracket, Goto, Return, Home, AfterPermanentRefusal
<1>18. ASSUME NEW p \in Activator, MarkEntry(p) PROVE MarkingIsReal'
  BY <1>18 DEF MarkEntry, Goto, Return, Home, AfterPermanentRefusal
<1>19. ASSUME NEW p \in Activator, MarkTakeProfit(p) PROVE MarkingIsReal'
  BY <1>19 DEF MarkTakeProfit, Goto, Return, Home, AfterPermanentRefusal
<1>20. ASSUME NEW p \in Activator, MarkStopLoss(p) PROVE MarkingIsReal'
  BY <1>20 DEF MarkStopLoss, Goto, Return, Home, AfterPermanentRefusal
<1>21. ASSUME NEW p \in Activator, WriteError(p) PROVE MarkingIsReal'
  BY <1>21 DEF WriteError, Goto, Return, Home, AfterPermanentRefusal
<1>22. ASSUME StartPendingTask PROVE MarkingIsReal'
  BY <1>22 DEF StartPendingTask, Goto, Activator
<1>23. ASSUME ExpireStalePending PROVE MarkingIsReal'
  BY <1>23 DEF ExpireStalePending, Goto, Activator
<1>24. ASSUME ListCandidates PROVE MarkingIsReal'
  BY <1>24 DEF ListCandidates, Goto, Activator
<1>25. ASSUME FinishPendingTask PROVE MarkingIsReal'
  BY <1>25 DEF FinishPendingTask, Goto, Activator
<1>26. ASSUME NEW c \in Consensus, ProcessCandidate(c) PROVE MarkingIsReal'
  BY <1>26 DEF ProcessCandidate, Take, Activator
<1>27. ASSUME NEW p \in Activator, NEW c \in Consensus, StartActivation(p,
              c) \/ StartManual(p, c)
       PROVE  MarkingIsReal'
  BY <1>27 DEF StartActivation, StartManual, Take
<1>28. ASSUME Crash PROVE MarkingIsReal'
  BY <1>28 DEF Crash
<1>29. ASSUME KeepsThreads PROVE MarkingIsReal'
  BY <1>29, ThreadsFrame DEF threads
<1> QED
  BY <1>1, <1>2, <1>3, <1>4, <1>5, <1>6, <1>7, <1>8, <1>9, <1>10, <1>11, <1>12, <1>13,
     <1>14, <1>15, <1>16, <1>17, <1>18, <1>19, <1>20, <1>21, <1>22, <1>23, <1>24,
     <1>25, <1>26, <1>27, <1>28, <1>29 DEF Next, Call, ThreadStep, PendingTaskStep,
     KeepsThreads

\* A thread reports a submission only after it recorded one.
LEMMA ReportedStep ==
  ASSUME TypeOK, BracketsSaved, SavedBeforePlaced, MarkingIsReal, ReportedIsReal,
         ExchangeKept, RowsKept, [Next]_vars
  PROVE  ReportedIsReal'
<1> USE ConstantsAssumption DEF TypeOK, TablesType, RemoteType, ThreadsType

<1>1. ASSUME NEW p \in Activator, NEW u \in Uid, owner[u] = job[p],
             exchange[u] # "None",
             job'[p] = job[p]
      PROVE  \E v \in Uid : owner'[v] = job'[p] /\ exchange'[v] # "None"
  BY <1>1 DEF RowsKept, ExchangeKept, SavedBeforePlaced, Saved, Entry
<1>2. ASSUME NEW p \in Activator, pc'[p] = "mark_submitted"
      PROVE  /\ job'[p] = job[p]
             /\ \E u \in Uid : owner[u] = job[p] /\ exchange[u] # "None"
  <2> USE <1>2 DEF ReportedIsReal
  <2>1. ASSUME NEW q \in Activator, ReadPendingRow(q)
        PROVE  pc[p] = "mark_submitted" /\ job'[p] = job[p]
    BY <2>1 DEF ReadPendingRow, Goto, Return, Home, AfterPermanentRefusal
  <2>2. ASSUME NEW q \in Activator, MarkConsensusSubmitted(q)
        PROVE  pc[p] = "mark_submitted" /\ job'[p] = job[p]
    BY <2>2 DEF MarkConsensusSubmitted, Goto, Return, Home, AfterPermanentRefusal
  <2>3. ASSUME NEW q \in Activator, MarkConsensusSkipped(q)
        PROVE  pc[p] = "mark_submitted" /\ job'[p] = job[p]
    BY <2>3 DEF MarkConsensusSkipped, Goto, Return, Home, AfterPermanentRefusal
  <2>4. ASSUME NEW q \in Activator, AcquireLock(q)
        PROVE  pc[p] = "mark_submitted" /\ job'[p] = job[p]
    BY <2>4 DEF AcquireLock, Goto, Return, Home, AfterPermanentRefusal
  <2>5. ASSUME NEW q \in Activator, Precheck(q)
        PROVE  pc[p] = "mark_submitted" /\ job'[p] = job[p]
    BY <2>5 DEF Precheck, Goto, Return, Home, AfterPermanentRefusal
  <2>6. ASSUME NEW q \in Activator, CheckTicker(q)
        PROVE  pc[p] = "mark_submitted" /\ job'[p] = job[p]
    BY <2>6 DEF CheckTicker, Goto, Return, Home, AfterPermanentRefusal
  <2>7. ASSUME NEW q \in Activator, CheckLimit(q)
        PROVE  pc[p] = "mark_submitted" /\ job'[p] = job[p]
    BY <2>7 DEF CheckLimit, Goto, Return, Home, AfterPermanentRefusal
  <2>8. ASSUME NEW q \in Activator, CheckReadsNothing(q)
        PROVE  pc[p] = "mark_submitted" /\ job'[p] = job[p]
    BY <2>8 DEF CheckReadsNothing, Goto, Return, Home, AfterPermanentRefusal
  <2>9. ASSUME NEW q \in Activator, QuoteAndSize(q)
        PROVE  pc[p] = "mark_submitted" /\ job'[p] = job[p]
    BY <2>9 DEF QuoteAndSize, Goto, Return, Home, AfterPermanentRefusal
  <2>10. ASSUME NEW q \in Activator, SaveEntry(q)
        PROVE  pc[p] = "mark_submitted" /\ job'[p] = job[p]
    BY <2>10 DEF SaveEntry, Goto, Return, Home, AfterPermanentRefusal
  <2>11. ASSUME NEW q \in Activator, SaveChild(q)
        PROVE  pc[p] = "mark_submitted" /\ job'[p] = job[p]
    BY <2>11 DEF SaveChild, Goto, Return, Home, AfterPermanentRefusal
  <2>12. ASSUME NEW q \in Activator, SaveTrade(q)
        PROVE  pc[p] = "mark_submitted" /\ job'[p] = job[p]
    BY <2>12 DEF SaveTrade, Goto, Return, Home, AfterPermanentRefusal
  <2>13. ASSUME NEW q \in Activator, LinkConsensus(q)
        PROVE  pc[p] = "mark_submitted" /\ job'[p] = job[p]
    BY <2>13 DEF LinkConsensus, Goto, Return, Home, AfterPermanentRefusal
  <2>14. ASSUME NEW q \in Activator, SendPlacement(q)
        PROVE  pc[p] = "mark_submitted" /\ job'[p] = job[p]
    BY <2>14 DEF SendPlacement, Goto, Return, Home, AfterPermanentRefusal
  <2>15. ASSUME NEW q \in Activator, ReceiveReply(q)
        PROVE  pc[p] = "mark_submitted" /\ job'[p] = job[p]
    BY <2>15 DEF ReceiveReply, Goto, Return, Home, AfterPermanentRefusal
  <2>16. ASSUME NEW q \in Activator, PlacementTimeout(q)
        PROVE  pc[p] = "mark_submitted" /\ job'[p] = job[p]
    BY <2>16 DEF PlacementTimeout, Goto, Return, Home, AfterPermanentRefusal
  <2>17. ASSUME NEW q \in Activator, FailBracket(q)
        PROVE  pc[p] = "mark_submitted" /\ job'[p] = job[p]
    BY <2>17 DEF FailBracket, Goto, Return, Home, AfterPermanentRefusal
  <2>18. ASSUME NEW q \in Activator, MarkEntry(q)
        PROVE  pc[p] = "mark_submitted" /\ job'[p] = job[p]
    BY <2>18 DEF MarkEntry, Goto, Return, Home, AfterPermanentRefusal
  <2>19. ASSUME NEW q \in Activator, MarkTakeProfit(q)
        PROVE  pc[p] = "mark_submitted" /\ job'[p] = job[p]
    BY <2>19 DEF MarkTakeProfit, Goto, Return, Home, AfterPermanentRefusal
  <2>20. ASSUME NEW q \in Activator, WriteError(q)
        PROVE  pc[p] = "mark_submitted" /\ job'[p] = job[p]
    BY <2>20 DEF WriteError, Goto, Return, Home, AfterPermanentRefusal
  <2>21. ASSUME StartPendingTask
        PROVE  pc[p] = "mark_submitted" /\ job'[p] = job[p]
    BY <2>21 DEF StartPendingTask, Goto, Activator
  <2>22. ASSUME ExpireStalePending
        PROVE  pc[p] = "mark_submitted" /\ job'[p] = job[p]
    BY <2>22 DEF ExpireStalePending, Goto, Activator
  <2>23. ASSUME ListCandidates
        PROVE  pc[p] = "mark_submitted" /\ job'[p] = job[p]
    BY <2>23 DEF ListCandidates, Goto, Activator
  <2>24. ASSUME FinishPendingTask
        PROVE  pc[p] = "mark_submitted" /\ job'[p] = job[p]
    BY <2>24 DEF FinishPendingTask, Goto, Activator
  <2>25. ASSUME NEW c \in Consensus, ProcessCandidate(c)
        PROVE  pc[p] = "mark_submitted" /\ job'[p] = job[p]
    BY <2>25 DEF ProcessCandidate, Take, Activator
  <2>26. ASSUME NEW q \in Activator, NEW c \in Consensus,
               StartActivation(q, c) \/ StartManual(q, c)
        PROVE  pc[p] = "mark_submitted" /\ job'[p] = job[p]
    BY <2>26 DEF StartActivation, StartManual, Take
  <2>27. ASSUME Crash
        PROVE  pc[p] = "mark_submitted" /\ job'[p] = job[p]
    BY <2>27 DEF Crash
  <2>28. ASSUME NEW q \in Activator, MarkStopLoss(q)
        PROVE  /\ job'[p] = job[p]
               /\ \E u \in Uid : owner[u] = job[p] /\ exchange[u] # "None"
    BY <2>28 DEF MarkStopLoss, Goto, Return, Home, AfterPermanentRefusal,
       BracketsSaved, HoldsBracket, MarkingIsReal
  <2>29. ASSUME KeepsThreads
        PROVE  pc[p] = "mark_submitted" /\ job'[p] = job[p]
    BY <2>29, ThreadsFrame DEF threads
  <2> QED
    BY <2>1, <2>2, <2>3, <2>4, <2>5, <2>6, <2>7, <2>8, <2>9, <2>10, <2>11, <2>12,
       <2>13, <2>14, <2>15, <2>16, <2>17, <2>18, <2>19, <2>20, <2>21, <2>22, <2>23,
       <2>24, <2>25, <2>26, <2>27, <2>28, <2>29 DEF Next, Call, ThreadStep,
       PendingTaskStep, KeepsThreads
<1> QED
  BY <1>1, <1>2 DEF ReportedIsReal

\* A consensus row becomes ORDER_SUBMITTED only from such a report.
LEMMA SubmittedStep ==
  ASSUME TypeOK, JobsKnown, SavedBeforePlaced, ReportedIsReal, SubmittedIsReal,
         ExchangeKept, RowsKept, [Next]_vars
  PROVE  SubmittedIsReal'
<1> USE ConstantsAssumption DEF TypeOK, TablesType, ThreadsType

<1>1. ASSUME NEW c \in Consensus, \E u \in Uid : owner[u] = c /\ exchange[u] # "None"
      PROVE  \E u \in Uid : owner'[u] = c /\ exchange'[u] # "None"
  BY <1>1 DEF RowsKept, ExchangeKept, SavedBeforePlaced, Saved, Entry

<1>2. ASSUME NEW p \in Activator, MarkConsensusSubmitted(p) PROVE SubmittedIsReal'
  BY <1>1, <1>2 DEF MarkConsensusSubmitted, ReportedIsReal, SubmittedIsReal,
     JobsKnown, Free
<1>3. ASSUME \A c \in Consensus :
               consensus'[c].state = "ORDER_SUBMITTED" => consensus[c].state = "ORDER_SUBMITTED"
      PROVE  SubmittedIsReal'
  BY <1>1, <1>3 DEF SubmittedIsReal
<1>4. ASSUME NEW p \in Activator, MarkConsensusSkipped(p) PROVE SubmittedIsReal'
  BY <1>3, <1>4 DEF MarkConsensusSkipped
<1>5. ASSUME NEW p \in Activator, LinkConsensus(p) PROVE SubmittedIsReal'
  BY <1>3, <1>5 DEF LinkConsensus
<1>6. ASSUME ExpireStalePending PROVE SubmittedIsReal'
  BY <1>3, <1>6 DEF ExpireStalePending
<1>7. ASSUME NEW p \in Activator,
             ReadPendingRow(p) \/ AcquireLock(p) \/ Precheck(p) \/ CheckTicker(p)
             \/ CheckLimit(p) \/ CheckReadsNothing(p) \/ QuoteAndSize(p)
             \/ SaveEntry(p) \/ SaveChild(p) \/ SaveTrade(p) \/ SendPlacement(p)
             \/ ReceiveReply(p) \/ PlacementTimeout(p) \/ FailBracket(p)
             \/ MarkEntry(p) \/ MarkTakeProfit(p) \/ MarkStopLoss(p) \/ WriteError(p)
      PROVE  UNCHANGED consensus
  BY <1>7 DEF ReadPendingRow, AcquireLock, Precheck, CheckTicker, CheckLimit,
     CheckReadsNothing, QuoteAndSize, SaveEntry, SaveChild, SaveTrade, SendPlacement,
     ReceiveReply, PlacementTimeout, FailBracket, MarkEntry, MarkTakeProfit,
     MarkStopLoss, WriteError, tables
<1>8. ASSUME \/ Call \/ ListCandidates \/ FinishPendingTask
             \/ \E c \in Consensus : ProcessCandidate(c)
             \/ ExchangeStep \/ ExpiryTask \/ Clock \/ Crash \/ UNCHANGED vars
             \/ \E s \in Syncer : SyncStep(s)
      PROVE  UNCHANGED consensus
  BY <1>8 DEF Call, StartPendingTask, StartActivation, StartManual, ListCandidates,
     FinishPendingTask, ProcessCandidate, ExchangeStep, ExchangeAccepts,
     ExchangeRefuses, OrderMoves, PositionCloses, ExpiryTask, ExpireQueuedOrders,
     ExpireStuckSubmitted, ExpireFilledOrders, Clock, ConsensusAges, BracketAges,
     Crash, SyncStep, SyncSnapshot, SyncFinds, SyncSkips, SyncApply, SyncPositions,
     SyncCloseTrades, vars, tables
<1> QED
  BY <1>1, <1>2, <1>3, <1>4, <1>5, <1>6, <1>7, <1>8 DEF Next, ThreadStep,
     PendingTaskStep

\* A step other than SaveEntry makes no entry QUEUED.
NoNewQueued == \A u \in Uid : Entry(u)' = "QUEUED" => Entry(u) = "QUEUED"

\* Only SaveEntry makes an entry QUEUED.
LEMMA QueuedStep ==
  ASSUME TypeOK, FoundIsReal, [Next]_vars
  PROVE  NoNewQueued \/ \E p \in Activator : SaveEntry(p)
<1> USE ConstantsAssumption DEF TypeOK, TablesType, Entry
<1>1. ASSUME NEW p \in Activator, FailBracket(p) PROVE NoNewQueued
  BY <1>1 DEF FailBracket, NoNewQueued
<1>2. ASSUME NEW p \in Activator, MarkEntry(p) PROVE NoNewQueued
  BY <1>2 DEF MarkEntry, NoNewQueued
<1>3. ASSUME NEW p \in Activator, SaveChild(p) \/ MarkTakeProfit(p) \/ MarkStopLoss(p)
      PROVE NoNewQueued
  <2>1. ASSUME NEW r \in Role \ {"ENTRY"}, NEW x \in OrderStatus,
               orders' = [orders EXCEPT ![bracket[p]][r] = x]
        PROVE  \A u \in Uid : orders'[u]["ENTRY"] = orders[u]["ENTRY"]
    BY <2>1
  <2> QED
    BY <1>3, <2>1 DEF SaveChild, MarkTakeProfit, MarkStopLoss, NoNewQueued
<1>4. ASSUME NEW s \in Syncer, SyncApply(s) PROVE NoNewQueued
  BY <1>4 DEF SyncApply, FoundIsReal, NoNewQueued
<1>5. ASSUME ExpireQueuedOrders PROVE NoNewQueued
  BY <1>5 DEF ExpireQueuedOrders, Retire, NoNewQueued
<1>6. ASSUME ExpireStuckSubmitted PROVE NoNewQueued
  BY <1>6 DEF ExpireStuckSubmitted, Retire, NoNewQueued
<1>7. ASSUME ExpireFilledOrders PROVE NoNewQueued
  BY <1>7 DEF ExpireFilledOrders, Retire, NoNewQueued
<1>8. ASSUME NEW p \in Activator, SaveTrade(p) PROVE NoNewQueued
  BY <1>8 DEF SaveTrade, NoNewQueued
<1>9. ASSUME NEW s \in Syncer, SyncCloseTrades(s) PROVE NoNewQueued
  BY <1>9 DEF SyncCloseTrades, NoNewQueued
<1>10. ASSUME KeepsOrders PROVE NoNewQueued
  BY <1>10, OrdersFrame DEF NoNewQueued
<1> QED
  BY <1>1, <1>2, <1>3, <1>4, <1>5, <1>6, <1>7, <1>8, <1>9, <1>10 DEF Next, ThreadStep,
     SyncStep, ExpiryTask, KeepsOrders

\* A thread comes to a point between the check and the insert with the check
\* passed, or was there before.
LEMMA CheckingStep ==
  ASSUME TypeOK, JobsKnown, [Next]_vars, "read_error" \notin Faults,
         NEW p \in Activator, pc'[p] \in {"check_limit", "quote", "save_entry"}
  PROVE  /\ job'[p] = job[p]
         /\ \/ pc[p] \in {"check_limit", "quote", "save_entry"}
            \/ pc[p] = "check_ticker" /\ ~HasOpenOrder(Tk(p))
<1> DEFINE Goal == /\ job'[p] = job[p]
                   /\ \/ pc[p] \in {"check_limit", "quote", "save_entry"}
                      \/ pc[p] = "check_ticker" /\ ~HasOpenOrder(Tk(p))
<1> USE ConstantsAssumption DEF TypeOK, ThreadsType
<1>1. ASSUME NEW q \in Activator, ReadPendingRow(q) PROVE Goal
  BY <1>1 DEF ReadPendingRow, Goto, Return, Home, AfterPermanentRefusal
<1>2. ASSUME NEW q \in Activator, MarkConsensusSubmitted(q) PROVE Goal
  BY <1>2 DEF MarkConsensusSubmitted, Goto, Return, Home, AfterPermanentRefusal
<1>3. ASSUME NEW q \in Activator, MarkConsensusSkipped(q) PROVE Goal
  BY <1>3 DEF MarkConsensusSkipped, Goto, Return, Home, AfterPermanentRefusal
<1>4. ASSUME NEW q \in Activator, AcquireLock(q) PROVE Goal
  BY <1>4 DEF AcquireLock, Goto, Return, Home, AfterPermanentRefusal
<1>5. ASSUME NEW q \in Activator, Precheck(q) PROVE Goal
  BY <1>5 DEF Precheck, Goto, Return, Home, AfterPermanentRefusal
<1>6. ASSUME NEW q \in Activator, CheckTicker(q) PROVE Goal
  BY <1>6 DEF CheckTicker, Goto, Return, Home, AfterPermanentRefusal
<1>7. ASSUME NEW q \in Activator, CheckLimit(q) PROVE Goal
  BY <1>7 DEF CheckLimit, Goto, Return, Home, AfterPermanentRefusal
<1>8. ASSUME NEW q \in Activator, CheckReadsNothing(q) PROVE Goal
  BY <1>8 DEF CheckReadsNothing, Goto, Return, Home, AfterPermanentRefusal
<1>9. ASSUME NEW q \in Activator, QuoteAndSize(q) PROVE Goal
  BY <1>9 DEF QuoteAndSize, Goto, Return, Home, AfterPermanentRefusal
<1>10. ASSUME NEW q \in Activator, SaveEntry(q) PROVE Goal
  BY <1>10 DEF SaveEntry, Goto, Return, Home, AfterPermanentRefusal
<1>11. ASSUME NEW q \in Activator, SaveChild(q) PROVE Goal
  BY <1>11 DEF SaveChild, Goto, Return, Home, AfterPermanentRefusal
<1>12. ASSUME NEW q \in Activator, SaveTrade(q) PROVE Goal
  BY <1>12 DEF SaveTrade, Goto, Return, Home, AfterPermanentRefusal
<1>13. ASSUME NEW q \in Activator, LinkConsensus(q) PROVE Goal
  BY <1>13 DEF LinkConsensus, Goto, Return, Home, AfterPermanentRefusal
<1>14. ASSUME NEW q \in Activator, SendPlacement(q) PROVE Goal
  BY <1>14 DEF SendPlacement, Goto, Return, Home, AfterPermanentRefusal
<1>15. ASSUME NEW q \in Activator, ReceiveReply(q) PROVE Goal
  BY <1>15 DEF ReceiveReply, Goto, Return, Home, AfterPermanentRefusal
<1>16. ASSUME NEW q \in Activator, PlacementTimeout(q) PROVE Goal
  BY <1>16 DEF PlacementTimeout, Goto, Return, Home, AfterPermanentRefusal
<1>17. ASSUME NEW q \in Activator, FailBracket(q) PROVE Goal
  BY <1>17 DEF FailBracket, Goto, Return, Home, AfterPermanentRefusal
<1>18. ASSUME NEW q \in Activator, MarkEntry(q) PROVE Goal
  BY <1>18 DEF MarkEntry, Goto, Return, Home, AfterPermanentRefusal
<1>19. ASSUME NEW q \in Activator, MarkTakeProfit(q) PROVE Goal
  BY <1>19 DEF MarkTakeProfit, Goto, Return, Home, AfterPermanentRefusal
<1>20. ASSUME NEW q \in Activator, MarkStopLoss(q) PROVE Goal
  BY <1>20 DEF MarkStopLoss, Goto, Return, Home, AfterPermanentRefusal
<1>21. ASSUME NEW q \in Activator, WriteError(q) PROVE Goal
  BY <1>21 DEF WriteError, Goto, Return, Home, AfterPermanentRefusal
<1>22. ASSUME StartPendingTask PROVE Goal
  BY <1>22 DEF StartPendingTask, Goto, Activator
<1>23. ASSUME ExpireStalePending PROVE Goal
  BY <1>23 DEF ExpireStalePending, Goto, Activator
<1>24. ASSUME ListCandidates PROVE Goal
  BY <1>24 DEF ListCandidates, Goto, Activator
<1>25. ASSUME FinishPendingTask PROVE Goal
  BY <1>25 DEF FinishPendingTask, Goto, Activator
<1>26. ASSUME NEW c \in Consensus, ProcessCandidate(c) PROVE Goal
  BY <1>26 DEF ProcessCandidate, Take, Activator
<1>27. ASSUME NEW q \in Activator, NEW c \in Consensus,
             StartActivation(q, c) \/ StartManual(q, c) PROVE Goal
  BY <1>27 DEF StartActivation, StartManual, Take
<1>28. ASSUME Crash PROVE Goal
  BY <1>28 DEF Crash
<1>29. ASSUME KeepsThreads PROVE Goal
  BY <1>29, ThreadsFrame DEF threads
<1> QED
  BY <1>1, <1>2, <1>3, <1>4, <1>5, <1>6, <1>7, <1>8, <1>9, <1>10, <1>11, <1>12, <1>13,
     <1>14, <1>15, <1>16, <1>17, <1>18, <1>19, <1>20, <1>21, <1>22, <1>23, <1>24,
     <1>25, <1>26, <1>27, <1>28, <1>29 DEF Next, Call, ThreadStep, PendingTaskStep,
     KeepsThreads

\* The check stays true up to the insert: whoever inserts for the ticker in
\* between would hold the same lock.
LEMMA CheckedStep ==
  ASSUME TypeOK, JobsKnown, OwnersKnown, LocksHeld, LocksHeld', FoundIsReal, RowsKept,
         Checked, [Next]_vars, "read_error" \notin Faults
  PROVE  Checked'
<1> SUFFICES ASSUME NEW p \in Activator, NEW u \in Uid,
                    pc'[p] \in {"check_limit", "quote", "save_entry"}, Entry(u)' = "QUEUED"
             PROVE  TickerOf[owner'[u]] # TickerOf[job'[p]]
  BY DEF Checked, Symbol, Tk
<1>1. CASE Entry(u) = "QUEUED"
  <2>1. owner'[u] = owner[u] /\ Saved(u)
    BY <1>1 DEF RowsKept, Saved
  <2>2. ~HasOpenOrder(Tk(p)) => Symbol(u) # Tk(p)
    BY <1>1, <2>1 DEF HasOpenOrder, CountsAsOpen
  <2>3. pc[p] \in {"check_limit", "quote", "save_entry"} => Symbol(u) # Tk(p)
    BY <1>1 DEF Checked
  <2>4. job'[p] = job[p] /\ Symbol(u) # Tk(p)
    BY <2>2, <2>3, CheckingStep
  <2> QED
    BY <2>1, <2>4 DEF Symbol, Tk
<1>2. CASE Entry(u) # "QUEUED"
  <2>1. PICK q \in Activator : SaveEntry(q)
    BY <1>2, QueuedStep DEF NoNewQueued
  <2>2. /\ pc[q] = "save_entry" /\ pc'[q] = "save_tp" /\ p # q
        /\ pc'[p] = pc[p] /\ job' = job /\ lock' = lock
    BY <2>1 DEF SaveEntry, Goto, TypeOK, ThreadsType
  <2>3. owner'[u] = job[q]
    BY <1>2, <2>1 DEF SaveEntry, Entry, TypeOK, TablesType
  <2>4. lock[TickerOf[job[p]]] = p /\ lock[TickerOf[job[q]]] = q
    BY <2>2 DEF LocksHeld, Tk
  <2> QED
    BY <2>2, <2>3, <2>4
<1> QED
  BY <1>1, <1>2

\* The insert is the only step that could make a second QUEUED entry, and it
\* comes after the check.
LEMMA OneQueuedStep ==
  ASSUME TypeOK, FoundIsReal, RowsKept, Checked, OneQueuedPerTicker, [Next]_vars,
         "read_error" \notin Faults
  PROVE  OneQueuedPerTicker'
<1> SUFFICES ASSUME NEW u \in Uid, NEW v \in Uid, u # v,
                    Entry(u)' = "QUEUED", Entry(v)' = "QUEUED"
             PROVE  TickerOf[owner'[u]] # TickerOf[owner'[v]]
  BY DEF OneQueuedPerTicker, Symbol
<1>1. CASE Entry(u) = "QUEUED" /\ Entry(v) = "QUEUED"
  BY <1>1 DEF RowsKept, Saved, OneQueuedPerTicker, Symbol
<1>2. ASSUME NEW q \in Activator, SaveEntry(q), NEW w \in Uid, NEW x \in Uid, w # x,
             Entry(w)' = "QUEUED", Entry(w) # "QUEUED", Entry(x)' = "QUEUED"
      PROVE  /\ owner'[w] = job[q]
             /\ Entry(x) = "QUEUED"
             /\ TickerOf[owner'[x]] # TickerOf[job[q]]
  <2>1. PICK b \in Uid : /\ ~Saved(b)
                         /\ orders' = [orders EXCEPT ![b]["ENTRY"] = "QUEUED"]
                         /\ owner' = [owner EXCEPT ![b] = job[q]]
    BY <1>2 DEF SaveEntry
  <2>2. w = b /\ Entry(x) = "QUEUED"
    BY <1>2, <2>1 DEF Entry, TypeOK, TablesType
  <2>3. owner'[w] = job[q] /\ owner'[x] = owner[x]
    BY <1>2, <2>1, <2>2 DEF TypeOK, TablesType
  <2>4. pc[q] = "save_entry"
    BY <1>2 DEF SaveEntry
  <2> QED
    BY <2>2, <2>3, <2>4 DEF Checked, Symbol, Tk
<1>3. CASE Entry(u) # "QUEUED" \/ Entry(v) # "QUEUED"
  <2>1. PICK q \in Activator : SaveEntry(q)
    BY <1>3, QueuedStep DEF NoNewQueued
  <2> QED
    BY <1>2, <1>3, <2>1
<1> QED
  BY <1>1, <1>3

-----------------------------------------------------------------------------
(* The theorems.                                                            *)

\* The invariant holds in the initial state.
LEMMA InitInv == Init => IInv
<1> SUFFICES ASSUME Init PROVE IInv
  OBVIOUS
<1> USE ConstantsAssumption DEF Init
<1>1. TypeOK
  BY DEF TypeOK, TablesType, RemoteType, ThreadsType, SyncType, ClocksType
<1>2. JobsKnown /\ LocksHeld /\ BracketsSaved /\ RowsSaved /\ MarkingIsReal /\ ReportedIsReal
  BY DEF JobsKnown, Free, LocksHeld, BracketsSaved, RowsSaved, HoldsBracket,
     MarkingIsReal, ReportedIsReal
<1>3. OwnersKnown /\ SavedBeforePlaced /\ FoundIsReal /\ AcceptedIsReal /\ SubmittedIsReal
  BY DEF OwnersKnown, Saved, Entry, SavedBeforePlaced, FoundIsReal, AcceptedIsReal,
     SubmittedIsReal
<1>4. LocalNeverAhead /\ Checked /\ NoReadErrorSafe
  BY DEF LocalNeverAhead, Reached, Entry, Checked, NoReadErrorSafe, OneQueuedPerTicker
<1> QED
  BY <1>1, <1>2, <1>3, <1>4 DEF IInv

\* Every step preserves the invariant.
LEMMA StepInv == IInv /\ [Next]_vars => IInv'
<1> SUFFICES ASSUME IInv, [Next]_vars PROVE IInv'
  OBVIOUS
<1> USE DEF IInv
<1>1. TypeOK'
  BY TablesTypeStep, RemoteTypeStep, ThreadsTypeStep, SyncTypeStep DEF TypeOK
<1>2. RowsKept /\ ExchangeKept
  BY RowsStep, ExchangeKeptStep
<1>3. JobsKnown' /\ LocksHeld' /\ OwnersKnown'
  BY JobsStep, LocksStep, OwnersStep
<1>4. BracketsSaved' /\ RowsSaved' /\ SavedBeforePlaced'
  BY <1>2, BracketsStep, RowsSavedStep, PlacedStep
<1>5. FoundIsReal' /\ LocalNeverAhead'
  BY <1>2, FoundStep, LocalStep
<1>6. AcceptedIsReal' /\ MarkingIsReal' /\ ReportedIsReal' /\ SubmittedIsReal'
  BY <1>2, AcceptedStep, MarkingStep, ReportedStep, SubmittedStep
<1>7. Checked'
  <2>1. CASE "read_error" \in Faults
    BY <2>1 DEF Checked
  <2>2. CASE "read_error" \notin Faults
    BY <1>2, <1>3, <2>2, CheckedStep
  <2> QED
    BY <2>1, <2>2
<1>8. NoReadErrorSafe'
  <2>1. CASE "read_error" \in Faults
    BY <2>1 DEF NoReadErrorSafe
  <2>2. CASE "read_error" \notin Faults
    BY <1>2, <2>2, OneQueuedStep DEF NoReadErrorSafe
  <2> QED
    BY <2>1, <2>2
<1> QED
  BY <1>1, <1>3, <1>4, <1>5, <1>6, <1>7, <1>8

\* The inductive invariant holds of every behaviour, for any number of
\* consensus rows, tickers, threads, synchronisers, crashes and whatever
\* faults.
THEOREM Invariance == Spec => []IInv
  BY InitInv, StepInv, PTL DEF Spec

\* Every variable keeps its type in every behaviour of the code.
THEOREM TypeCorrect == Spec => []TypeOK
<1>1. IInv => TypeOK
  BY DEF IInv
<1> QED
  BY Invariance, <1>1, PTL

\* submit_signal saves all four rows of a bracket before the exchange can
\* hear of it.
THEOREM Placement == Spec => []SavedBeforePlaced
<1>1. IInv => SavedBeforePlaced
  BY DEF IInv
<1> QED
  BY Invariance, <1>1, PTL

\* The status written by submitters, synchronisers and expiry tasks never
\* claims more than the exchange has reached.
THEOREM Tracking == Spec => []LocalNeverAhead
<1>1. IInv => LocalNeverAhead
  BY DEF IInv
<1> QED
  BY Invariance, <1>1, PTL

\* mark_order_submitted is only ever reached for an order the exchange has
\* accepted.
THEOREM Reporting == Spec => []SubmittedIsReal
<1>1. IInv => SubmittedIsReal
  BY DEF IInv
<1> QED
  BY Invariance, <1>1, PTL

\* If no read fails, the lock of submit_signal and its duplicate check never
\* let two QUEUED entries of one ticker coexist.
THEOREM Exclusion ==
  ASSUME "read_error" \notin Faults
  PROVE  Spec => []OneQueuedPerTicker
<1>1. IInv => OneQueuedPerTicker
  BY DEF IInv, NoReadErrorSafe
<1> QED
  BY Invariance, <1>1, PTL

-----------------------------------------------------------------------------
(* An order that is live is one the synchroniser still polls.               *)

\* Program points of a thread whose bracket has not been sent yet.
Unsent == {"save_tp", "save_sl", "save_trade", "link", "place"}

\* No reply is lost and no write fails.
NoLoss == Faults \cap {"lost_reply", "write_error"} = {}

\* No two threads work on one bracket.
OneBracket ==
  \A p, q \in Activator :
    pc[p] \in HoldsBracket /\ pc[q] \in HoldsBracket /\ bracket[p] = bracket[q] => p = q

\* A bracket somebody works on has not failed.
HeldNotFailed == \A p \in Activator : pc[p] \in HoldsBracket => Entry(bracket[p]) # "FAILED"

\* The exchange has not heard of a bracket before it is sent, nor while it is.
UnsentIsUnknown ==
  \A p \in Activator :
    pc[p] \in Unsent => exchange[bracket[p]] = "None" /\ wire[bracket[p]] = "idle"

SentIsUnknown == \A u \in Uid : wire[u] = "sent" => exchange[u] = "None"

\* If nothing is lost, what was refused, is failing or has failed the exchange
\* does not have and will not hear of again.
FailedIsUnknown ==
  NoLoss =>
    /\ \A u \in Uid : wire[u] = "refused" => exchange[u] = "None"
    /\ \A p \in Activator :
         pc[p] = "fail" => exchange[bracket[p]] = "None" /\ wire[bracket[p]] = "idle"
    /\ \A u \in Uid : Entry(u) = "FAILED" => exchange[u] = "None" /\ wire[u] = "idle"

\* A synchroniser writes neither of the statuses that are the program's own.
FoundIsMapped ==
  \A s \in Syncer : syncPc[s] = "apply" => found[s].status \notin {"EXPIRED", "FAILED"}

ExpiredIsAged == \A u \in Uid : Entry(u) = "EXPIRED" => u \in aged

TInv ==
  /\ IInv /\ OneBracket /\ HeldNotFailed /\ UnsentIsUnknown /\ SentIsUnknown
  /\ FailedIsUnknown /\ FoundIsMapped /\ ExpiredIsAged

\* How a thread comes to a point of Holds, by p's own step or not.
Comes(p) ==
  /\ pc'[p] \in HoldsBracket =>
       (pc[p] \in HoldsBracket /\ bracket'[p] = bracket[p]) \/ SaveEntry(p)
  /\ pc'[p] \in Unsent => pc[p] \in Unsent \/ SaveEntry(p)
  /\ pc'[p] = "fail" =>
       \/ pc[p] = "fail" \/ PlacementTimeout(p) \/ WriteError(p)
       \/ ReceiveReply(p) /\ wire[bracket[p]] = "refused"

\* A thread comes to hold a bracket by saving its entry, and to give it up by a
\* refusal, a timeout or a write that failed.
LEMMA ComesStep ==
  ASSUME TypeOK, [Next]_vars, NEW p \in Activator
  PROVE  Comes(p)
<1> USE ConstantsAssumption DEF TypeOK, ThreadsType, Comes, HoldsBracket, Unsent, Placing,
        Marking, Goto, Home
<1>1. ASSUME NEW q \in Activator, ReadPendingRow(q) \/ MarkConsensusSubmitted(q)
                                  \/ MarkConsensusSkipped(q) \/ AcquireLock(q)
      PROVE  Comes(p)
  BY <1>1 DEF ReadPendingRow, MarkConsensusSubmitted, MarkConsensusSkipped, AcquireLock
<1>2. ASSUME NEW q \in Activator, Precheck(q) \/ CheckTicker(q) \/ CheckLimit(q)
      PROVE  Comes(p)
  BY <1>2 DEF Precheck, CheckTicker, CheckLimit, Return, AfterPermanentRefusal
<1>3. ASSUME NEW q \in Activator, CheckReadsNothing(q) \/ QuoteAndSize(q)
      PROVE  Comes(p)
  BY <1>3 DEF CheckReadsNothing, QuoteAndSize, Return
<1>4. ASSUME NEW q \in Activator, SaveEntry(q) PROVE Comes(p)
  <2>1. CASE p = q
    BY <1>4, <2>1 DEF SaveEntry
  <2>2. CASE p # q
    BY <1>4, <2>2 DEF SaveEntry
  <2> QED
    BY <2>1, <2>2
<1>5. ASSUME NEW q \in Activator, SaveChild(q) \/ SaveTrade(q) \/ LinkConsensus(q)
      PROVE  Comes(p)
  BY <1>5 DEF SaveChild, SaveTrade, LinkConsensus
<1>6. ASSUME NEW q \in Activator, SendPlacement(q) PROVE Comes(p)
  BY <1>6 DEF SendPlacement
<1>7. ASSUME NEW q \in Activator, ReceiveReply(q) PROVE Comes(p)
  <2>1. CASE p = q
    <3>1. /\ pc[p] = "await" /\ wire[bracket[p]] \in {"accepted", "refused"}
          /\ pc'[p] = IF wire[bracket[p]] = "accepted" THEN "mark_entry" ELSE "fail"
          /\ bracket' = bracket
      BY <1>7, <2>1 DEF ReceiveReply
    <3> QED
      BY <1>7, <2>1, <3>1
  <2>2. CASE p # q
    BY <1>7, <2>2 DEF ReceiveReply
  <2> QED
    BY <2>1, <2>2
<1>8. ASSUME NEW q \in Activator, PlacementTimeout(q) PROVE Comes(p)
  <2>1. CASE p = q
    <3>1. pc[p] = "await" /\ pc'[p] = "fail" /\ bracket' = bracket
      BY <1>8, <2>1 DEF PlacementTimeout
    <3> QED
      BY <1>8, <2>1, <3>1
  <2>2. CASE p # q
    BY <1>8, <2>2 DEF PlacementTimeout
  <2> QED
    BY <2>1, <2>2
<1>9. ASSUME NEW q \in Activator, FailBracket(q) \/ MarkStopLoss(q) PROVE Comes(p)
  BY <1>9 DEF FailBracket, MarkStopLoss, Return
<1>10. ASSUME NEW q \in Activator, MarkEntry(q) \/ MarkTakeProfit(q) PROVE Comes(p)
  BY <1>10 DEF MarkEntry, MarkTakeProfit
<1>11. ASSUME NEW q \in Activator, WriteError(q) PROVE Comes(p)
  <2>1. CASE p = q
    <3>1. pc'[p] \notin HoldsBracket
          \/ (pc[p] \in Marking /\ pc'[p] = "fail" /\ bracket' = bracket)
      BY <1>11, <2>1 DEF WriteError, Return
    <3> QED
      BY <1>11, <2>1, <3>1
  <2>2. CASE p # q
    BY <1>11, <2>2 DEF WriteError, Return
  <2> QED
    BY <2>1, <2>2
<1>12. ASSUME Call \/ PendingTaskStep PROVE Comes(p)
  BY <1>12 DEF Call, StartPendingTask, StartActivation, StartManual, PendingTaskStep,
     ExpireStalePending, ListCandidates, FinishPendingTask, ProcessCandidate, Take
<1>13. ASSUME Crash PROVE Comes(p)
  BY <1>13 DEF Crash
<1>14. ASSUME KeepsThreads PROVE Comes(p)
  BY <1>14, ThreadsFrame DEF threads
<1> QED
  BY <1>1, <1>2, <1>3, <1>4, <1>5, <1>6, <1>7, <1>8, <1>9, <1>10, <1>11, <1>12, <1>13,
     <1>14 DEF Next, ThreadStep, KeepsThreads

\* What a step does to the request of a bracket and to its order.
Sends(u) ==
  /\ wire'[u] = "sent" =>
       /\ exchange'[u] = exchange[u]
       /\ wire[u] = "sent" \/ \E p \in Activator : SendPlacement(p) /\ bracket[p] = u
  /\ exchange'[u] # exchange[u] => exchange[u] # "None" \/ wire[u] = "sent"
  /\ wire[u] = "idle" /\ wire'[u] # "idle" =>
       \E p \in Activator : SendPlacement(p) /\ bracket[p] = u
  /\ NoLoss /\ wire'[u] = "refused" => wire[u] = "refused" \/ exchange'[u] = "None"

LEMMA SendsStep ==
  ASSUME TypeOK, SentIsUnknown, [Next]_vars, NEW u \in Uid
  PROVE  Sends(u)
<1> USE ConstantsAssumption DEF TypeOK, RemoteType, Sends
<1>1. ASSUME NEW p \in Activator, SendPlacement(p) PROVE Sends(u)
  <2>1. exchange' = exchange /\ wire' = [wire EXCEPT ![bracket[p]] = "sent"]
    BY <1>1 DEF SendPlacement
  <2>2. CASE bracket[p] = u
    BY <1>1, <2>1, <2>2
  <2>3. CASE bracket[p] # u
    BY <2>1, <2>3
  <2> QED
    BY <2>2, <2>3
<1>2. ASSUME NEW p \in Activator, ReceiveReply(p) \/ PlacementTimeout(p) PROVE Sends(u)
  BY <1>2 DEF ReceiveReply, PlacementTimeout
<1>3. ASSUME NEW v \in Uid, ExchangeAccepts(v) PROVE Sends(u)
  BY <1>3 DEF ExchangeAccepts, Reply, NoLoss
<1>4. ASSUME NEW v \in Uid, ExchangeRefuses(v) PROVE Sends(u)
  BY <1>4 DEF ExchangeRefuses, Reply, SentIsUnknown
<1>5. ASSUME NEW v \in Uid, OrderMoves(v) PROVE Sends(u)
  BY <1>5 DEF OrderMoves, ExchangeMoves, SentIsUnknown
<1>6. ASSUME NEW t \in Ticker, PositionCloses(t) PROVE Sends(u)
  BY <1>6 DEF PositionCloses
<1>7. ASSUME Crash PROVE Sends(u)
  BY <1>7 DEF Crash
<1>8. ASSUME KeepsRemote PROVE Sends(u)
  BY <1>8, RemoteFrame DEF remote
<1> QED
  BY <1>1, <1>2, <1>3, <1>4, <1>5, <1>6, <1>7, <1>8 DEF Next, ThreadStep, ExchangeStep,
     KeepsRemote

\* An entry fails by the thread that holds it, and expires by its age.
EntryMoves(u) ==
  /\ Entry(u)' = "FAILED" =>
       Entry(u) = "FAILED" \/ \E p \in Activator : FailBracket(p) /\ bracket[p] = u
  /\ Entry(u)' = "EXPIRED" => Entry(u) = "EXPIRED" \/ u \in aged

LEMMA EntryStep ==
  ASSUME TypeOK, FoundIsReal, FoundIsMapped, [Next]_vars, NEW u \in Uid
  PROVE  EntryMoves(u)
<1> USE ConstantsAssumption DEF TypeOK, TablesType, Entry, EntryMoves
<1>1. ASSUME NEW p \in Activator, FailBracket(p) PROVE EntryMoves(u)
  <2>1. orders' = [orders EXCEPT ![bracket[p]] = [r \in Role |-> "FAILED"]]
    BY <1>1 DEF FailBracket
  <2>2. CASE bracket[p] = u
    BY <1>1, <2>1, <2>2 DEF Role
  <2>3. CASE bracket[p] # u
    BY <2>1, <2>3
  <2> QED
    BY <2>2, <2>3
<1>2. ASSUME NEW p \in Activator, MarkEntry(p) \/ SaveEntry(p) PROVE EntryMoves(u)
  BY <1>2 DEF MarkEntry, SaveEntry
<1>3. ASSUME NEW p \in Activator, SaveChild(p) \/ MarkTakeProfit(p) \/ MarkStopLoss(p)
      PROVE EntryMoves(u)
  <2>1. ASSUME NEW r \in Role \ {"ENTRY"}, NEW x \in OrderStatus,
               orders' = [orders EXCEPT ![bracket[p]][r] = x]
        PROVE  orders'[u]["ENTRY"] = orders[u]["ENTRY"]
    BY <2>1
  <2> QED
    BY <1>3, <2>1 DEF SaveChild, MarkTakeProfit, MarkStopLoss
<1>4. ASSUME NEW s \in Syncer, SyncApply(s) PROVE EntryMoves(u)
  BY <1>4 DEF SyncApply, FoundIsReal, FoundIsMapped
<1>5. ASSUME ExpireQueuedOrders \/ ExpireFilledOrders PROVE EntryMoves(u)
  BY <1>5 DEF ExpireQueuedOrders, ExpireFilledOrders, Retire, Role
<1>6. ASSUME ExpireStuckSubmitted PROVE EntryMoves(u)
  BY <1>6 DEF ExpireStuckSubmitted, Role
<1>7. ASSUME NEW p \in Activator, SaveTrade(p) PROVE EntryMoves(u)
  BY <1>7 DEF SaveTrade
<1>8. ASSUME NEW s \in Syncer, SyncCloseTrades(s) PROVE EntryMoves(u)
  BY <1>8 DEF SyncCloseTrades
<1>9. ASSUME KeepsOrders PROVE EntryMoves(u)
  BY <1>9, OrdersFrame
<1> QED
  BY <1>1, <1>2, <1>3, <1>4, <1>5, <1>6, <1>7, <1>8, <1>9 DEF Next, ThreadStep,
     SyncStep, ExpiryTask, KeepsOrders

\* What grows old stays old, and a synchroniser finds what the exchange says.
LEMMA AgedStep == ASSUME [Next]_vars PROVE aged \subseteq aged'
<1>1. ASSUME Clock PROVE aged \subseteq aged'
  BY <1>1 DEF Clock, ConsensusAges, BracketAges
<1>2. ASSUME Crash PROVE aged \subseteq aged'
  BY <1>2 DEF Crash, clocks
<1>3. ASSUME NEW s \in Syncer, SyncStep(s) PROVE aged \subseteq aged'
  BY <1>3 DEF SyncStep, SyncSnapshot, SyncFinds, SyncSkips, SyncApply, SyncPositions,
     SyncCloseTrades, clocks
<1>4. ASSUME KeepsSync PROVE aged \subseteq aged'
  BY <1>4, SyncFrame DEF clocks
<1> QED
  BY <1>1, <1>2, <1>3, <1>4 DEF Next, KeepsSync

LEMMA MappedStep ==
  ASSUME TypeOK, FoundIsMapped, [Next]_vars
  PROVE  FoundIsMapped'
<1> USE ConstantsAssumption DEF TypeOK, RemoteType, SyncType, FoundIsMapped
<1>1. ASSUME NEW s \in Syncer, NEW u \in Uid, SyncFinds(s, u) PROVE FoundIsMapped'
  BY <1>1 DEF SyncFinds, MapStatus, ExchangeStatus
<1>2. ASSUME NEW s \in Syncer, SyncStep(s), \A u \in Uid : ~SyncFinds(s, u)
      PROVE  FoundIsMapped'
  BY <1>2 DEF SyncStep, SyncSnapshot, SyncSkips, SyncApply, SyncPositions, SyncCloseTrades
<1>3. ASSUME Crash PROVE FoundIsMapped'
  BY <1>3 DEF Crash
<1>4. ASSUME Clock PROVE FoundIsMapped'
  BY <1>4 DEF Clock, ConsensusAges, BracketAges, syncVars
<1>5. ASSUME KeepsSync PROVE FoundIsMapped'
  BY <1>5, SyncFrame DEF syncVars
<1> QED
  BY <1>1, <1>2, <1>3, <1>4, <1>5 DEF Next, KeepsSync

\* A step of the tracking invariant.
LEMMA OneBracketStep ==
  ASSUME IInv, OneBracket, [Next]_vars
  PROVE  OneBracket'
<1> SUFFICES ASSUME NEW p \in Activator, NEW q \in Activator, p # q,
                    pc'[p] \in HoldsBracket, pc'[q] \in HoldsBracket
             PROVE  bracket'[p] # bracket'[q]
  BY DEF OneBracket
<1>0. Comes(p) /\ Comes(q) /\ TypeOK /\ BracketsSaved
  BY ComesStep DEF IInv
<1>1. ASSUME NEW a \in Activator, NEW b \in Activator, a # b, SaveEntry(a),
             pc[b] \in HoldsBracket, bracket'[b] = bracket[b]
      PROVE  bracket'[a] # bracket'[b]
  <2>1. ~Saved(bracket'[a])
    BY <1>0, <1>1 DEF SaveEntry, TypeOK, ThreadsType
  <2>2. Saved(bracket[b])
    BY <1>0, <1>1 DEF BracketsSaved
  <2> QED
    BY <1>1, <2>1, <2>2
<1>2. ~(SaveEntry(p) /\ SaveEntry(q))
  BY <1>0 DEF SaveEntry, Goto, TypeOK, ThreadsType
<1> QED
  BY <1>0, <1>1, <1>2 DEF OneBracket, Comes

LEMMA HeldStep ==
  ASSUME IInv, OneBracket, HeldNotFailed, FoundIsMapped, [Next]_vars
  PROVE  HeldNotFailed'
<1> SUFFICES ASSUME NEW p \in Activator, pc'[p] \in HoldsBracket
             PROVE  Entry(bracket[p])' # "FAILED"
  BY DEF HeldNotFailed
<1>0. Comes(p) /\ TypeOK /\ FoundIsReal /\ BracketsSaved
  BY ComesStep DEF IInv
<1>1. CASE SaveEntry(p)
  BY <1>0, <1>1 DEF SaveEntry, Entry, TypeOK, TablesType, ThreadsType, Role
<1>2. CASE pc[p] \in HoldsBracket /\ bracket'[p] = bracket[p]
  <2>1. bracket[p] \in Uid /\ EntryMoves(bracket[p])
    BY <1>0, <1>2, EntryStep DEF BracketsSaved
  <2>2. Entry(bracket[p])' = orders'[bracket[p]]["ENTRY"]
    BY <1>2 DEF Entry
  <2>3. ASSUME NEW q \in Activator, FailBracket(q), bracket[q] = bracket[p] PROVE FALSE
    <3>1. q = p
      BY <1>2, <2>3 DEF FailBracket, OneBracket, HoldsBracket
    <3> QED
      BY <1>0, <2>3, <3>1
         DEF FailBracket, Return, Goto, Home, HoldsBracket, Placing, Marking, TypeOK, ThreadsType
  <2> QED
    BY <1>2, <2>1, <2>2, <2>3 DEF EntryMoves, HeldNotFailed, Entry
<1> QED
  BY <1>0, <1>1, <1>2 DEF Comes

LEMMA UnsentStep ==
  ASSUME IInv, OneBracket, UnsentIsUnknown, SentIsUnknown, [Next]_vars
  PROVE  UnsentIsUnknown' /\ SentIsUnknown'
<1>0. TypeOK /\ BracketsSaved /\ SavedBeforePlaced
  BY DEF IInv
<1>1. ASSUME NEW p \in Activator, pc'[p] \in Unsent
      PROVE  exchange'[bracket'[p]] = "None" /\ wire'[bracket'[p]] = "idle"
  <2>0. Comes(p)
    BY <1>0, ComesStep
  <2>1. CASE SaveEntry(p)
    <3>1. bracket'[p] \in Uid /\ ~Saved(bracket'[p])
      BY <1>0, <2>1 DEF SaveEntry, TypeOK, ThreadsType
    <3>2. exchange[bracket'[p]] = "None" /\ wire[bracket'[p]] = "idle"
      BY <3>1 DEF Saved, Entry, IInv, SavedBeforePlaced, Role
    <3> QED
      BY <2>1, <3>2 DEF SaveEntry, remote
  <2>2. CASE pc[p] \in Unsent /\ bracket'[p] = bracket[p]
    <3> DEFINE u == bracket[p]
    <3>1. u \in Uid /\ exchange[u] = "None" /\ wire[u] = "idle" /\ pc[p] \in HoldsBracket
      BY <1>0, <2>2 DEF BracketsSaved, UnsentIsUnknown, Unsent, HoldsBracket, Placing
    <3>2. Sends(u)
      BY <1>0, <3>1, SendsStep
    <3>3. ASSUME NEW q \in Activator, SendPlacement(q), bracket[q] = u PROVE FALSE
      <4>1. q = p
        BY <3>1, <3>3 DEF SendPlacement, OneBracket, HoldsBracket, Placing
      <4> QED
        BY <1>0, <1>1, <3>3, <4>1 DEF SendPlacement, Goto, Unsent, TypeOK, ThreadsType
    <3> QED
      BY <2>2, <3>1, <3>2, <3>3 DEF Sends
  <2> QED
    BY <1>1, <2>0, <2>1, <2>2 DEF Comes, Unsent, HoldsBracket, Placing
<1>2. ASSUME NEW u \in Uid, wire'[u] = "sent" PROVE exchange'[u] = "None"
  <2>1. Sends(u)
    BY <1>0, SendsStep
  <2>2. ASSUME NEW p \in Activator, SendPlacement(p), bracket[p] = u PROVE exchange[u] = "None"
    BY <2>2 DEF SendPlacement, UnsentIsUnknown, Unsent
  <2> QED
    BY <1>2, <2>1, <2>2 DEF Sends, SentIsUnknown
<1> QED
  BY <1>1, <1>2 DEF UnsentIsUnknown, SentIsUnknown

LEMMA FailedStep ==
  ASSUME TInv, [Next]_vars
  PROVE  FailedIsUnknown'
<1> SUFFICES ASSUME NoLoss
             PROVE  /\ \A u \in Uid : wire'[u] = "refused" => exchange'[u] = "None"
                    /\ \A p \in Activator : pc'[p] = "fail" =>
                         exchange'[bracket'[p]] = "None" /\ wire'[bracket'[p]] = "idle"
                    /\ \A u \in Uid : Entry(u)' = "FAILED" =>
                         exchange'[u] = "None" /\ wire'[u] = "idle"
  BY DEF FailedIsUnknown
<1>0. /\ TypeOK /\ BracketsSaved /\ SentIsUnknown /\ OneBracket /\ HeldNotFailed
      /\ FoundIsReal /\ FoundIsMapped
      /\ \A u \in Uid : wire[u] = "refused" => exchange[u] = "None"
      /\ \A p \in Activator :
           pc[p] = "fail" => exchange[bracket[p]] = "None" /\ wire[bracket[p]] = "idle"
      /\ \A u \in Uid : Entry(u) = "FAILED" => exchange[u] = "None" /\ wire[u] = "idle"
  BY DEF TInv, IInv, FailedIsUnknown
<1>1. ASSUME NEW u \in Uid, wire'[u] = "refused" PROVE exchange'[u] = "None"
  <2>1. Sends(u)
    BY <1>0, SendsStep
  <2> QED
    BY <1>0, <1>1, <2>1 DEF Sends
<1>2. ASSUME NEW u \in Uid, exchange[u] = "None", wire[u] = "idle",
             \A q \in Activator : pc[q] = "place" => bracket[q] # u
      PROVE  exchange'[u] = "None" /\ wire'[u] = "idle"
  <2>1. Sends(u)
    BY <1>0, SendsStep
  <2>2. \A q \in Activator : SendPlacement(q) => bracket[q] # u
    BY <1>2 DEF SendPlacement
  <2> QED
    BY <1>2, <2>1, <2>2 DEF Sends
<1>3. ASSUME NEW p \in Activator, pc'[p] = "fail"
      PROVE  exchange'[bracket'[p]] = "None" /\ wire'[bracket'[p]] = "idle"
  <2>0. Comes(p)
    BY <1>0, ComesStep
  <2>1. CASE pc[p] = "fail"
    <3>1. bracket'[p] = bracket[p]
      BY <1>3, <2>0, <2>1 DEF Comes, HoldsBracket, SaveEntry
    <3>2. \A q \in Activator : pc[q] = "place" => bracket[q] # bracket[p]
      BY <1>0, <2>1 DEF OneBracket, HoldsBracket, Placing
    <3>3. bracket[p] \in Uid
      BY <1>0, <2>1 DEF BracketsSaved, HoldsBracket
    <3> QED
      BY <1>0, <1>2, <2>1, <3>1, <3>2, <3>3
  <2>2. CASE ReceiveReply(p) /\ wire[bracket[p]] = "refused"
    <3>1. bracket[p] \in Uid
      BY <1>0, <2>2 DEF ReceiveReply, BracketsSaved, HoldsBracket, Placing
    <3> QED
      BY <1>0, <2>2, <3>1 DEF ReceiveReply, TypeOK, RemoteType
  <2>3. CASE PlacementTimeout(p) \/ WriteError(p)
    BY <2>3 DEF PlacementTimeout, WriteError, NoLoss
  <2> QED
    BY <1>3, <2>0, <2>1, <2>2, <2>3 DEF Comes
<1>4. ASSUME NEW u \in Uid, Entry(u)' = "FAILED"
      PROVE  exchange'[u] = "None" /\ wire'[u] = "idle"
  <2>0. EntryMoves(u)
    BY <1>0, EntryStep
  <2>1. CASE Entry(u) = "FAILED"
    <3>1. \A q \in Activator : pc[q] = "place" => bracket[q] # u
      BY <1>0, <2>1 DEF HeldNotFailed, HoldsBracket, Placing
    <3> QED
      BY <1>0, <1>2, <2>1, <3>1
  <2>2. ASSUME NEW p \in Activator, FailBracket(p), bracket[p] = u
        PROVE  exchange'[u] = "None" /\ wire'[u] = "idle"
    BY <1>0, <2>2 DEF FailBracket, remote
  <2> QED
    BY <1>4, <2>0, <2>1, <2>2 DEF EntryMoves
<1> QED
  BY <1>1, <1>3, <1>4

LEMMA TrackingInvariance == Spec => []TInv
<1>1. Init => TInv
  <2> SUFFICES ASSUME Init PROVE TInv
    OBVIOUS
  <2>1. IInv
    BY InitInv
  <2> QED
    BY <2>1 DEF Init, TInv, OneBracket, HeldNotFailed, UnsentIsUnknown, SentIsUnknown,
                FailedIsUnknown, FoundIsMapped, ExpiredIsAged, HoldsBracket, Placing, Marking,
                Unsent, Entry, Role
<1>2. TInv /\ [Next]_vars => TInv'
  <2> SUFFICES ASSUME TInv, [Next]_vars PROVE TInv'
    OBVIOUS
  <2>1. IInv'
    BY StepInv DEF TInv
  <2>2. /\ OneBracket' /\ HeldNotFailed' /\ UnsentIsUnknown' /\ SentIsUnknown'
        /\ FailedIsUnknown'
    BY OneBracketStep, HeldStep, UnsentStep, FailedStep DEF TInv
  <2>3. FoundIsMapped'
    BY MappedStep DEF TInv, IInv
  <2>4. ExpiredIsAged'
    <3>1. \A u \in Uid : EntryMoves(u)
      BY EntryStep DEF TInv, IInv
    <3> QED
      BY <3>1, AgedStep DEF TInv, ExpiredIsAged, EntryMoves
  <2> QED
    BY <2>1, <2>2, <2>3, <2>4 DEF TInv
<1> QED
  BY <1>1, <1>2, PTL DEF Spec

\* An order that is live on the exchange is one the synchroniser still polls,
\* whatever crashes: only a recorded failure, age and PENDING_CANCEL lose it.
THEOREM LiveOrdersAreTracked == Spec => []LiveIsTracked
<1>1. TInv => LiveIsTracked
  <2> SUFFICES ASSUME TInv, NEW u \in Uid, Live(u)
               PROVE  \/ Entry(u) \in Polled \cup {"STALE", "PENDING_CANCEL"}
                      \/ Entry(u) = "FAILED" /\ Faults \cap {"lost_reply", "write_error"} # {}
                      \/ u \in aged
    BY DEF LiveIsTracked
  <2>1. exchange[u] \notin {"None", "Filled", "Cancelled", "Rejected"}
    BY DEF Live
  <2>2. Entry(u) \in OrderStatus \ {"NONE"}
    BY <2>1 DEF TInv, IInv, SavedBeforePlaced, Entry, Role, TypeOK, TablesType
  <2>3. Entry(u) \notin {"FILLED_ENTRY", "ARCHIVED", "CANCELLED", "REJECTED"}
    BY <2>1 DEF TInv, IInv, LocalNeverAhead, Reached
  <2>4. Entry(u) = "FAILED" => Faults \cap {"lost_reply", "write_error"} # {}
    BY <2>1 DEF TInv, FailedIsUnknown, NoLoss
  <2>5. Entry(u) = "EXPIRED" => u \in aged
    BY DEF TInv, ExpiredIsAged
  <2> QED
    BY <2>2, <2>3, <2>4, <2>5 DEF OrderStatus, Polled
<1> QED
  BY <1>1, TrackingInvariance, PTL
=============================================================================
