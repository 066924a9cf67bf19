----------------------- MODULE ArchiveDispatcherProofs -----------------------
(***************************************************************************)
(* Proofs about ArchiveDispatcher, for every set of messages, config,      *)
(* schedule, threshold and batch size.                                     *)
(***************************************************************************)
EXTENDS ArchiveDispatcher, TLAPS

USE DEF queueVars, loopVars, breakerVars, signalVars, envVars

-----------------------------------------------------------------------------
(* Type correctness *)

LEMMA OneMoreType ==
  ASSUME NEW a \in 0..LastBackoff
  PROVE  OneMore(a) \in 0..LastBackoff
  BY LastBackoffAssumption DEF OneMore

LEMMA BackoffType ==
  ASSUME NEW a \in 0..LastBackoff
  PROVE  Backoff(a) \in Nat
  BY OneMoreType, BackoffAssumption DEF Backoff

\* What the store methods do to the types of the columns.
LEMMA DeleteType ==
  ASSUME QueueTypeOK, NEW S, Delete(S)
  PROVE  QueueTypeOK'
  BY LastBackoffAssumption DEF QueueTypeOK, Delete, Statuses

LEMMA MarkHoldType ==
  ASSUME QueueTypeOK, NEW S, MarkHold(S)
  PROVE  QueueTypeOK'
  BY OneMoreType DEF QueueTypeOK, MarkHold, Statuses

LEMMA RescheduleType ==
  ASSUME QueueTypeOK, NEW m \in Msgs, NEW d \in Int, Reschedule(m, d)
  PROVE  QueueTypeOK'
  BY OneMoreType DEF QueueTypeOK, Reschedule

LEMMA InsertType ==
  ASSUME QueueTypeOK, NEW m \in Msgs, NEW c \in Configs, Insert(m, c)
  PROVE  QueueTypeOK'
  BY LastBackoffAssumption DEF QueueTypeOK, Insert, Statuses

LEMMA RetryHeldRowsType ==
  ASSUME QueueTypeOK, RetryHeldRows
  PROVE  QueueTypeOK'
  BY LastBackoffAssumption DEF QueueTypeOK, RetryHeldRows, Statuses

LEMMA RewriteRowsType ==
  ASSUME QueueTypeOK, NEW c \in Configs, RewriteRows(c)
  PROVE  QueueTypeOK'
  BY LastBackoffAssumption DEF QueueTypeOK, RewriteRows

LEMMA RowsAgeType ==
  ASSUME QueueTypeOK, RowsAge
  PROVE  QueueTypeOK'
  BY DEF QueueTypeOK, RowsAge

\* The part of TypeOK that is not about the table.
LoopTypeOK ==
  /\ pc \in PCs /\ outcome \in Outcomes \cup {"none"}
  /\ DOMAIN batch \in SUBSET Msgs
  /\ batch = [m \in DOMAIN batch |-> batch[m]]
  /\ \A m \in DOMAIN batch : batch[m] \in Items

BreakerTypeOK ==
  /\ cbState \in {"closed", "open", "half-open"}
  /\ consecutiveFails \in 0..cbFailThreshold
  /\ cbPauseLevel \in 0..LastPause
  /\ openFor \in 0..cbPauseDurations[LastPause]

FlagTypeOK ==
  /\ stopping \in BOOLEAN
  /\ poll \in BOOLEAN /\ owed \in BOOLEAN /\ unseen \in BOOLEAN

RestTypeOK ==
  /\ cfg \in Configs /\ held \in SUBSET Configs
  /\ admin \in [Admins -> [at : AdminSteps, cfg : SUBSET Configs]]
  /\ accepted \in [Msgs -> SUBSET Configs]
  /\ disruptions \in 0..MaxDisruptions

LEMMA TypeParts ==
  TypeOK <=> QueueTypeOK /\ LoopTypeOK /\ BreakerTypeOK /\ FlagTypeOK /\ RestTypeOK
  BY DEF TypeOK, LoopTypeOK, BreakerTypeOK, FlagTypeOK, RestTypeOK

LEMMA TypeInit == Init => TypeOK
  <1> SUFFICES ASSUME Init PROVE TypeOK
    OBVIOUS
  <1>1. QueueTypeOK
    BY LastBackoffAssumption DEF Init, QueueInit, QueueTypeOK, Statuses
  <1>2. LoopTypeOK
    BY DEF Init, LoopTypeOK, NoItems, PCs
  <1>3. BreakerTypeOK
    BY PauseAssumption, ThresholdAssumption DEF Init, BreakerTypeOK
  <1>4. FlagTypeOK
    BY DEF Init, FlagTypeOK
  <1>5. RestTypeOK
    BY BoundsAssumption DEF Init, RestTypeOK, IdleAdmin, AdminSteps
  <1> QED BY <1>1, <1>2, <1>3, <1>4, <1>5, TypeParts

LEMMA QueueTypeStep ==
  ASSUME TypeOK, Next
  PROVE  QueueTypeOK'
  <1> USE TypeParts
  <1>u. UNCHANGED queueVars => QueueTypeOK'
    BY DEF QueueTypeOK, Configs
  <1>1. ASSUME NEW m \in Msgs, NEW c \in Configs, Enqueue(m, c) PROVE QueueTypeOK'
    BY <1>1, InsertType DEF Enqueue
  <1>2. ASSUME NEW m \in Msgs, HoldUndecryptable(m) PROVE QueueTypeOK'
    BY <1>2, <1>u, MarkHoldType DEF HoldUndecryptable
  <1>3. ASSUME NEW m \in Msgs, Settle(m) PROVE QueueTypeOK'
    <2>1. CASE UNCHANGED queueVars
      BY <2>1, <1>u
    <2>2. CASE SettleWrite(m)
      <3>1. CASE MarkDelivered(m)
        BY <3>1, DeleteType DEF MarkDelivered
      <3>2. CASE Reschedule(m, Backoff(batch[m].attempts))
        <4>1. batch[m].attempts \in 0..LastBackoff
          BY <1>3 DEF Settle, First, LoopTypeOK, Items
        <4>2. Backoff(batch[m].attempts) \in Int
          BY <4>1, BackoffType
        <4> QED BY <3>2, <4>2, RescheduleType
      <3>3. CASE MarkHold({m})
        BY <3>3, MarkHoldType
      <3> QED BY <2>2, <3>1, <3>2, <3>3 DEF SettleWrite
    <2> QED BY <1>3, <2>1, <2>2 DEF Settle
  <1>4. ASSUME NEW a \in Admins, Admin(a) PROVE QueueTypeOK'
    <2>1. CASE RewriteHeldDelivery(a)
      <3>1. CASE UNCHANGED queueVars
        BY <3>1, <1>u
      <3>2. ASSUME NEW c \in admin[a].cfg, RewriteRows(c) PROVE QueueTypeOK'
        <4>1. c \in Configs
          BY DEF RestTypeOK
        <4> QED BY <3>2, <4>1, RewriteRowsType
      <3> QED BY <2>1, <3>1, <3>2 DEF RewriteHeldDelivery
    <2>2. CASE RetryHeld(a)
      BY <2>2, <1>u, RetryHeldRowsType DEF RetryHeld
    <2> QED BY <1>4, <2>1, <2>2, <1>u DEF Admin, SaveConfig, RetryBegin, ResetCircuit
  <1>5. CASE ClearHeld
    BY <1>5, DeleteType DEF ClearHeld, ClearHeldRows
  <1>6. CASE Tick
    BY <1>6, RowsAgeType DEF Tick
  <1>7. CASE Signal \/ LoopPoll \/ LoopTick \/ LoopStop
    BY <1>7, <1>u DEF Signal, LoopPoll, LoopTick, LoopStop
  <1>7a. CASE DrainGate \/ DequeueDue \/ RowsRead \/ DequeueFails \/ DrainEnd
    BY <1>7a, <1>u DEF DrainGate, DequeueDue, RowsRead, DequeueFails, DrainEnd
  <1>8. ASSUME NEW m \in Msgs, SendAny(m) \/ Count(m) PROVE QueueTypeOK'
    BY <1>8, <1>u DEF SendAny, Send, Count
  <1>9. CASE SendTest \/ Stop \/ Crash \/ Exit \/ Start
    BY <1>9, <1>u DEF SendTest, Stop, Crash, Exit, LoseMemory, Start
  <1> QED BY <1>1, <1>2, <1>3, <1>4, <1>5, <1>6, <1>7, <1>7a, <1>8, <1>9 DEF Next, Loop

LEMMA LoopTypeStep ==
  ASSUME TypeOK, Next
  PROVE  LoopTypeOK'
  <1> USE TypeParts DEF PCs, Outcomes
  <1>u. UNCHANGED loopVars => LoopTypeOK'
    BY DEF LoopTypeOK
  <1>1. ASSUME NEW m \in Msgs, NEW c \in Configs, Enqueue(m, c) PROVE LoopTypeOK'
    BY <1>1, <1>u DEF Enqueue
  <1>2. CASE DequeueDue
    <2> DEFINE S == SelectDue(drainBatchSize)
    <2>1. S \subseteq Msgs
      BY DEF SelectDue, Due, Pending
    <2>2. batch' = [m \in S |->
                     [attempts |-> attempts[m], dest |-> dest[m], due |-> wait[m]]]
      BY <1>2 DEF DequeueDue
    <2>3. \A m \in S :
            [attempts |-> attempts[m], dest |-> dest[m], due |-> wait[m]] \in Items
      BY <2>1 DEF QueueTypeOK, Items
    <2>4. pc' = "decrypt" /\ outcome' = outcome
      BY <1>2 DEF DequeueDue
    <2> HIDE DEF S
    <2> QED BY <2>1, <2>2, <2>3, <2>4 DEF LoopTypeOK
  <1>2a. ASSUME NEW m \in Msgs, HoldUndecryptable(m) PROVE LoopTypeOK'
    <2>1. batch' = Rest(m) /\ pc' = pc /\ outcome' = outcome
      BY <1>2a DEF HoldUndecryptable
    <2> QED BY <2>1 DEF Rest, LoopTypeOK
  <1>3. ASSUME NEW m \in Msgs, SendAny(m) \/ Settle(m) PROVE LoopTypeOK'
    BY <1>3 DEF SendAny, Send, Settle, LoopTypeOK
  <1>4. ASSUME NEW m \in Msgs, Count(m) PROVE LoopTypeOK'
    <2>1. batch' = Rest(m) \/ batch' = NoItems
      BY <1>4 DEF Count
    <2>2. pc' \in PCs /\ outcome' = "none"
      BY <1>4 DEF Count
    <2> QED BY <2>1, <2>2 DEF Rest, NoItems, LoopTypeOK
  <1>5. ASSUME NEW a \in Admins, Admin(a) PROVE LoopTypeOK'
    BY <1>5, <1>u DEF Admin, SaveConfig, RetryBegin, RewriteHeldDelivery, RetryHeld, ResetCircuit
  <1>6. CASE Signal \/ ClearHeld \/ SendTest \/ Tick \/ Stop
    BY <1>6, <1>u DEF Signal, ClearHeld, SendTest, Tick, Stop
  <1>7. CASE LoopPoll \/ LoopTick \/ LoopStop \/ DrainGate \/ RowsRead \/ Start
    BY <1>7 DEF LoopPoll, LoopTick, LoopStop, DrainGate, RowsRead, Start, LoopTypeOK
  <1>8. CASE DequeueFails \/ DrainEnd \/ Crash \/ Exit
    BY <1>8 DEF DequeueFails, DrainEnd, Crash, Exit, LoseMemory, NoItems, LoopTypeOK
  <1> QED BY <1>1, <1>2, <1>2a, <1>3, <1>4, <1>5, <1>6, <1>7, <1>8 DEF Next, Loop

LEMMA BreakerTypeStep ==
  ASSUME TypeOK, Next
  PROVE  BreakerTypeOK'
  <1> USE TypeParts
  <1>u. UNCHANGED breakerVars => BreakerTypeOK'
    BY DEF BreakerTypeOK
  <1>0. 0 \in 0..cbFailThreshold /\ 0 \in 0..LastPause /\ 0 \in 0..cbPauseDurations[LastPause]
    BY ThresholdAssumption, PauseAssumption
  <1>1. ASSUME NEW m \in Msgs, Count(m) PROVE BreakerTypeOK'
    <2>1. OneMoreFail \in 0..cbFailThreshold
      BY ThresholdAssumption DEF OneMoreFail, BreakerTypeOK
    <2>2. CASE CountSuccess
      BY <2>2, <1>0 DEF CountSuccess, BreakerTypeOK
    <2>3. CASE CountFailure
      BY <2>3, <2>1 DEF CountFailure, BreakerTypeOK
    <2>4. CASE CountFailureOpens
      BY <2>4, <2>1, <1>0 DEF CountFailureOpens, BreakerTypeOK
    <2>5. CASE CountProbeFailure
      BY <2>5, <2>1, <1>0, PauseAssumption DEF CountProbeFailure, BreakerTypeOK
    <2> QED BY <1>1, <2>2, <2>3, <2>4, <2>5 DEF Count
  <1>2. CASE DrainGate
    BY <1>2, <1>0 DEF DrainGate, BreakerTypeOK
  <1>3. CASE Tick
    BY <1>3, PauseAssumption DEF Tick, BreakerTypeOK
  <1>4. CASE SendTest \/ Crash \/ Exit
    BY <1>4, <1>0 DEF SendTest, CloseCircuit, Crash, Exit, LoseMemory, BreakerTypeOK
  <1>5. ASSUME NEW a \in Admins, Admin(a) PROVE BreakerTypeOK'
    <2>1. CASE ResetCircuit(a)
      BY <2>1, <1>0 DEF ResetCircuit, CloseCircuit, BreakerTypeOK
    <2> QED BY <1>5, <2>1, <1>u DEF Admin, SaveConfig, RetryBegin, RewriteHeldDelivery, RetryHeld
  <1>6. ASSUME NEW m \in Msgs, HoldUndecryptable(m) \/ SendAny(m) \/ Settle(m)
        PROVE  BreakerTypeOK'
    BY <1>6, <1>u DEF HoldUndecryptable, SendAny, Send, Settle
  <1>7. ASSUME NEW m \in Msgs, NEW c \in Configs, Enqueue(m, c) PROVE BreakerTypeOK'
    BY <1>7, <1>u DEF Enqueue
  <1>8. CASE Signal \/ LoopPoll \/ LoopTick \/ LoopStop \/ DequeueDue \/ RowsRead
    BY <1>8, <1>u DEF Signal, LoopPoll, LoopTick, LoopStop, DequeueDue, RowsRead
  <1>9. CASE DequeueFails \/ DrainEnd \/ ClearHeld \/ Stop \/ Start
    BY <1>9, <1>u DEF DequeueFails, DrainEnd, ClearHeld, Stop, Start
  <1> QED BY <1>1, <1>2, <1>3, <1>4, <1>5, <1>6, <1>7, <1>8, <1>9 DEF Next, Loop

LEMMA FlagTypeStep ==
  ASSUME TypeOK, Next
  PROVE  FlagTypeOK'
  <1> USE TypeParts DEF FlagTypeOK
  <1>1. ASSUME NEW m \in Msgs, NEW c \in Configs, Enqueue(m, c) PROVE FlagTypeOK'
    BY <1>1 DEF Enqueue
  <1>2. CASE Signal
    BY <1>2 DEF Signal
  <1>3. CASE \/ LoopPoll \/ LoopTick \/ LoopStop \/ DrainGate
             \/ DequeueDue \/ RowsRead \/ DequeueFails \/ DrainEnd
    BY <1>3 DEF LoopPoll, LoopTick, LoopStop, DrainGate, DequeueDue, RowsRead, DequeueFails,
       DrainEnd
  <1>4. ASSUME NEW m \in Msgs, HoldUndecryptable(m) \/ SendAny(m) \/ Settle(m) \/ Count(m)
        PROVE  FlagTypeOK'
    BY <1>4 DEF HoldUndecryptable, SendAny, Send, Settle, Count
  <1>5. ASSUME NEW a \in Admins, Admin(a) PROVE FlagTypeOK'
    BY <1>5 DEF Admin, SaveConfig, RetryBegin, RewriteHeldDelivery, RetryHeld, ResetCircuit
  <1>6. CASE ClearHeld \/ SendTest \/ Tick \/ Stop \/ Crash \/ Exit \/ Start
    BY <1>6 DEF ClearHeld, SendTest, Tick, Stop, Crash, Exit, LoseMemory, Start
  <1> QED BY <1>1, <1>2, <1>3, <1>4, <1>5, <1>6 DEF Next, Loop

LEMMA RestTypeStep ==
  ASSUME TypeOK, Next
  PROVE  RestTypeOK'
  <1> USE TypeParts DEF RestTypeOK
  <1>d. Disrupt => disruptions' \in 0..MaxDisruptions
    BY BoundsAssumption DEF Disrupt
  <1>1. ASSUME NEW m \in Msgs, NEW c \in Configs, Enqueue(m, c) PROVE RestTypeOK'
    BY <1>1 DEF Enqueue
  <1>2. CASE \/ Signal \/ LoopPoll \/ LoopTick \/ LoopStop \/ DrainGate
             \/ DequeueDue \/ RowsRead \/ DrainEnd
    BY <1>2 DEF Signal, LoopPoll, LoopTick, LoopStop, DrainGate, DequeueDue, RowsRead, DrainEnd
  <1>3. CASE DequeueFails \/ ClearHeld \/ Stop
    BY <1>3, <1>d DEF DequeueFails, ClearHeld, Stop
  <1>4. ASSUME NEW m \in Msgs, SendAny(m) PROVE RestTypeOK'
    <2>1. batch[m].dest \in Configs
      BY <1>4 DEF SendAny, Send, First, LoopTypeOK, Items
    <2> QED BY <1>4, <2>1 DEF SendAny, Send
  <1>5. ASSUME NEW m \in Msgs, HoldUndecryptable(m) \/ Settle(m) PROVE RestTypeOK'
    BY <1>5, <1>d DEF HoldUndecryptable, Settle
  <1>6. ASSUME NEW m \in Msgs, Count(m) PROVE RestTypeOK'
    BY <1>6 DEF Count
  <1>7. ASSUME NEW a \in Admins, Admin(a) PROVE RestTypeOK'
    <2> USE DEF AdminSteps
    <2>1. ASSUME NEW c \in Configs, SaveConfig(a, c) PROVE RestTypeOK'
      BY <2>1, <1>d DEF SaveConfig
    <2>2. CASE RetryBegin(a)
      BY <2>2, <1>d DEF RetryBegin
    <2>3. CASE RewriteHeldDelivery(a)
      BY <2>3, <1>d DEF RewriteHeldDelivery, AdminStep
    <2>4. CASE RetryHeld(a)
      BY <2>4, <1>d DEF RetryHeld, AdminStep
    <2>5. CASE ResetCircuit(a)
      BY <2>5 DEF ResetCircuit, AdminStep
    <2> QED BY <1>7, <2>1, <2>2, <2>3, <2>4, <2>5 DEF Admin
  <1>8. CASE SendTest \/ Tick \/ Start
    BY <1>8 DEF SendTest, Tick, Start
  <1>9. CASE Crash \/ Exit
    BY <1>9, <1>d DEF Crash, Exit, LoseMemory, IdleAdmin, AdminSteps
  <1> QED BY <1>1, <1>2, <1>3, <1>4, <1>5, <1>6, <1>7, <1>8, <1>9 DEF Next, Loop

LEMMA TypeStep == TypeOK /\ [Next]_vars => TypeOK'
  <1>0. QueueTypeOK' /\ LoopTypeOK' /\ BreakerTypeOK' /\ FlagTypeOK' /\ RestTypeOK' => TypeOK'
    BY DEF TypeOK, LoopTypeOK, BreakerTypeOK, FlagTypeOK, RestTypeOK
  <1>1. TypeOK /\ Next => TypeOK'
    BY QueueTypeStep, LoopTypeStep, BreakerTypeStep, FlagTypeStep, RestTypeStep, <1>0
  <1>2. ASSUME TypeOK, UNCHANGED vars PROVE TypeOK'
    <2>1. QueueTypeOK' /\ LoopTypeOK' /\ BreakerTypeOK'
      BY <1>2, TypeParts DEF vars, QueueTypeOK, LoopTypeOK, BreakerTypeOK
    <2>2. FlagTypeOK' /\ RestTypeOK'
      BY <1>2, TypeParts DEF vars, FlagTypeOK, RestTypeOK
    <2> QED BY <2>1, <2>2, <1>0
  <1> QED BY <1>1, <1>2

\* The dispatcher's state keeps its types: in particular the pause level stays
\* an index of cbPauseDurations and every snapshot is of well-formed rows.
THEOREM TypeCorrect == Spec => []TypeOK
  BY TypeInit, TypeStep, PTL DEF Spec

-----------------------------------------------------------------------------
(* Safety.  BatchDue and OpenMeansNoDrain need to know when a batch exists,  *)
(* and the contract needs to know that an "accepted" outcome is about the    *)
(* item being settled; DrainShape and AcceptedIsTrue say so.                 *)

\* Only a drain between DequeueDue and its return has a batch, and only a send
\* that has been answered has an outcome.
DrainShape ==
  /\ pc \notin {"decrypt", "item", "settle", "count"} => batch = NoItems
  /\ pc \notin {"settle", "count"} => outcome = "none"

\* A send counted as delivered was taken by the receiver it was sent to.
AcceptedIsTrue ==
  outcome = "accepted" => \A m \in Msgs : First(m) => batch[m].dest \in accepted[m]

Inv == /\ TypeOK /\ DrainShape /\ BatchDue /\ OpenMeansNoDrain
       /\ BreakerCoherent /\ AcceptedIsTrue

\* The batch has one first item.
LEMMA FirstUnique ==
  ASSUME TypeOK, NEW m \in Msgs, NEW n \in Msgs, First(m), First(n)
  PROVE  m = n
  <1>1. m \in DOMAIN batch /\ n \in DOMAIN batch
    BY DEF First
  <1>2. batch[m].due \in Int /\ batch[n].due \in Int
    BY <1>1 DEF TypeOK, Items
  <1>3. m \in Nat /\ n \in Nat
    BY MsgsAssumption
  <1> QED BY <1>1, <1>2, <1>3 DEF First, Before

LEMMA DrainShapeStep ==
  ASSUME Inv, Next
  PROVE  DrainShape'
  <1> USE DEF Inv, DrainShape
  <1>1. ASSUME NEW m \in Msgs, NEW c \in Configs, Enqueue(m, c) PROVE DrainShape'
    BY <1>1 DEF Enqueue
  <1>2. CASE LoopPoll \/ LoopTick \/ LoopStop \/ DrainGate
    BY <1>2 DEF LoopPoll, LoopTick, LoopStop, DrainGate
  <1>3. CASE DequeueDue \/ RowsRead \/ DequeueFails \/ DrainEnd
    BY <1>3 DEF DequeueDue, RowsRead, DequeueFails, DrainEnd
  <1>4. ASSUME NEW m \in Msgs, HoldUndecryptable(m) \/ SendAny(m) \/ Settle(m) \/ Count(m)
        PROVE  DrainShape'
    BY <1>4 DEF HoldUndecryptable, SendAny, Send, Settle, Count
  <1>5. ASSUME NEW a \in Admins, Admin(a) PROVE DrainShape'
    BY <1>5 DEF Admin, SaveConfig, RetryBegin, RewriteHeldDelivery, RetryHeld, ResetCircuit
  <1>6. CASE Signal \/ ClearHeld \/ SendTest \/ Tick \/ Stop \/ Start
    BY <1>6 DEF Signal, ClearHeld, SendTest, Tick, Stop, Start
  <1>7. CASE Crash \/ Exit
    BY <1>7 DEF Crash, Exit, LoseMemory
  <1> QED BY <1>1, <1>2, <1>3, <1>4, <1>5, <1>6, <1>7 DEF Next, Loop

\* A step that leaves the batch alone and keeps due rows due keeps BatchDue.
LEMMA BatchDueKept ==
  ASSUME BatchDue, DOMAIN batch \subseteq Msgs, batch' = batch,
         pc = "count" => pc' = "count",
         \A m \in DOMAIN batch : m \in Due => m \in Due'
  PROVE  BatchDue'
  BY DEF BatchDue, First, Before

LEMMA BatchDueStep ==
  ASSUME Inv, Next
  PROVE  BatchDue'
  <1> USE DEF Inv
  <1>t. DOMAIN batch \subseteq Msgs
    BY DEF TypeOK
  <1>u. UNCHANGED <<status, wait>> => \A m \in Msgs : m \in Due => m \in Due'
    BY DEF Due, Pending
  <1>n. batch' = NoItems => BatchDue'
    BY DEF BatchDue, NoItems
  <1>1. ASSUME NEW m \in Msgs, NEW c \in Configs, Enqueue(m, c) PROVE BatchDue'
    <2>1. \A n \in Msgs : n \in Due => n \in Due'
      BY <1>1 DEF Enqueue, Insert, Due, Pending, TypeOK, QueueTypeOK
    <2> QED BY <1>1, <2>1, <1>t, BatchDueKept DEF Enqueue
  <1>2. CASE DequeueDue
    <2> DEFINE S == SelectDue(drainBatchSize)
    <2>1. DOMAIN batch' = S /\ UNCHANGED <<status, wait>>
      BY <1>2 DEF DequeueDue
    <2>2. \A m \in S : m \in Msgs /\ m \in Due
      BY DEF SelectDue, Due, Pending
    <2> QED BY <2>1, <2>2, <1>u DEF BatchDue
  <1>2a. ASSUME NEW m \in Msgs, HoldUndecryptable(m) PROVE BatchDue'
    <2>1. pc = "decrypt" /\ DOMAIN batch' = DOMAIN batch \ {m}
      BY <1>2a DEF HoldUndecryptable, Rest
    <2>2. ASSUME NEW n \in DOMAIN batch \ {m} PROVE n \in Due'
      <3>1. n \in Due /\ n \in Msgs
        BY <2>1, <1>t DEF BatchDue
      <3>2. status'[n] = status[n] /\ wait'[n] = wait[n]
        BY <1>2a, <3>1 DEF HoldUndecryptable, MarkHold
      <3> QED BY <3>1, <3>2 DEF Due, Pending
    <2> QED BY <2>1, <2>2 DEF BatchDue
  <1>3. ASSUME NEW m \in Msgs, SendAny(m) PROVE BatchDue'
    BY <1>3, <1>u, <1>t, BatchDueKept DEF SendAny, Send
  <1>4. ASSUME NEW m \in Msgs, Settle(m) PROVE BatchDue'
    <2>1. pc = "settle" /\ pc' = "count" /\ batch' = batch /\ First(m) /\ First(m)'
      BY <1>4 DEF Settle, First, Before
    <2>2. \A n \in DOMAIN batch : n \in Due
      BY <2>1 DEF BatchDue
    <2>3. ASSUME NEW n \in DOMAIN batch, n # m PROVE n \in Due'
      <3>1. n \in Due /\ n \in Msgs
        BY <2>2, <1>t
      <3>2. status'[n] = status[n] /\ wait'[n] = wait[n]
        <4>1. CASE UNCHANGED queueVars
          BY <4>1
        <4>2. CASE SettleWrite(m)
          BY <4>2, <2>3, <3>1 DEF SettleWrite, MarkDelivered, Delete, Reschedule, MarkHold,
             TypeOK, QueueTypeOK
        <4> QED BY <1>4, <4>1, <4>2 DEF Settle
      <3> QED BY <3>1, <3>2 DEF Due, Pending
    <2> QED BY <2>1, <2>3 DEF BatchDue
  <1>5. ASSUME NEW m \in Msgs, Count(m) PROVE BatchDue'
    <2>1. CASE batch' = Rest(m)
      <3>1. First(m) /\ UNCHANGED <<status, wait>>
        BY <1>5 DEF Count
      <3>2. DOMAIN batch' = DOMAIN batch \ {m}
        BY <2>1 DEF Rest
      <3>3. ASSUME NEW n \in DOMAIN batch \ {m} PROVE n \in Due
        <4>1. n \in Msgs /\ ~First(n)
          BY <1>t, <3>1, FirstUnique
        <4> QED BY <4>1 DEF BatchDue
      <3> QED BY <3>1, <3>2, <3>3, <1>u, <1>t DEF BatchDue
    <2> QED BY <1>5, <2>1, <1>n DEF Count
  <1>6. ASSUME NEW a \in Admins, Admin(a) PROVE BatchDue'
    <2>1. batch' = batch /\ pc' = pc
      BY <1>6 DEF Admin, SaveConfig, RetryBegin, RewriteHeldDelivery, RetryHeld, ResetCircuit
    <2>2. \A n \in Msgs : n \in Due => n \in Due'
      <3>1. CASE UNCHANGED <<status, wait>>
        BY <3>1, <1>u
      <3>2. ASSUME NEW c, RewriteRows(c) PROVE \A n \in Msgs : n \in Due => n \in Due'
        BY <3>2 DEF RewriteRows, Due, Pending
      <3>3. CASE RetryHeldRows
        BY <3>3 DEF RetryHeldRows, Due, Pending, Held
      <3> QED BY <1>6, <3>1, <3>2, <3>3 DEF Admin, SaveConfig, RetryBegin, RewriteHeldDelivery,
                 RetryHeld, ResetCircuit
    <2> QED BY <2>1, <2>2, <1>t, BatchDueKept
  <1>7. CASE ClearHeld
    <2>1. \A n \in Msgs : n \in Due => n \in Due'
      BY <1>7 DEF ClearHeld, ClearHeldRows, Delete, Due, Pending, Held, Rows
    <2> QED BY <1>7, <2>1, <1>t, BatchDueKept DEF ClearHeld
  <1>8. CASE Tick
    <2>1. \A n \in Msgs : n \in Due => n \in Due'
      BY <1>8 DEF Tick, RowsAge, Due, Pending, TypeOK, QueueTypeOK
    <2> QED BY <1>8, <2>1, <1>t, BatchDueKept DEF Tick
  <1>9. CASE Signal \/ RowsRead \/ SendTest \/ Stop
    BY <1>9, <1>u, <1>t, BatchDueKept DEF Signal, RowsRead, SendTest, Stop
  <1>10. CASE LoopPoll \/ LoopTick \/ LoopStop \/ DrainGate \/ Start
    BY <1>10, <1>n DEF LoopPoll, LoopTick, LoopStop, DrainGate, Start, DrainShape
  <1>11. CASE DequeueFails \/ DrainEnd \/ Crash \/ Exit
    BY <1>11, <1>n DEF DequeueFails, DrainEnd, Crash, Exit, LoseMemory
  <1> QED BY <1>1, <1>2, <1>2a, <1>3, <1>4, <1>5, <1>6, <1>7, <1>8, <1>9, <1>10, <1>11
           DEF Next, Loop

LEMMA OpenMeansNoDrainStep ==
  ASSUME Inv, Next
  PROVE  OpenMeansNoDrain'
  <1> USE DEF Inv, OpenMeansNoDrain
  <1>1. ASSUME NEW m \in Msgs, NEW c \in Configs, Enqueue(m, c) PROVE OpenMeansNoDrain'
    BY <1>1 DEF Enqueue
  <1>2. CASE LoopPoll \/ LoopTick \/ LoopStop \/ DrainGate
    BY <1>2 DEF LoopPoll, LoopTick, LoopStop, DrainGate
  <1>3. CASE DequeueDue \/ RowsRead \/ DequeueFails \/ DrainEnd
    BY <1>3 DEF DequeueDue, RowsRead, DequeueFails, DrainEnd
  <1>4. ASSUME NEW m \in Msgs, HoldUndecryptable(m) \/ SendAny(m) \/ Settle(m)
        PROVE  OpenMeansNoDrain'
    BY <1>4 DEF HoldUndecryptable, SendAny, Send, Settle
  <1>5. ASSUME NEW m \in Msgs, Count(m) PROVE OpenMeansNoDrain'
    <2>1. cbState # "open"
      BY <1>5 DEF Count
    <2> QED BY <1>5, <2>1 DEF Count, CountSuccess, CountFailure
  <1>6. ASSUME NEW a \in Admins, Admin(a) PROVE OpenMeansNoDrain'
    BY <1>6 DEF Admin, SaveConfig, RetryBegin, RewriteHeldDelivery, RetryHeld, ResetCircuit,
       CloseCircuit
  <1>7. CASE Signal \/ ClearHeld \/ SendTest \/ Tick \/ Stop \/ Start
    BY <1>7 DEF Signal, ClearHeld, SendTest, CloseCircuit, Tick, Stop, Start
  <1>8. CASE Crash \/ Exit
    BY <1>8 DEF Crash, Exit, LoseMemory
  <1> QED BY <1>1, <1>2, <1>3, <1>4, <1>5, <1>6, <1>7, <1>8 DEF Next, Loop

LEMMA BreakerCoherentStep ==
  ASSUME Inv, Next
  PROVE  BreakerCoherent'
  <1> USE ThresholdAssumption DEF Inv
  <1>t. consecutiveFails \in 0..cbFailThreshold
    BY DEF TypeOK
  <1>u. UNCHANGED <<cbState, consecutiveFails, cbPauseLevel>> => BreakerCoherent'
    BY DEF BreakerCoherent
  <1>c. CloseCircuit => BreakerCoherent'
    BY DEF CloseCircuit, BreakerCoherent
  <1>1. ASSUME NEW m \in Msgs, NEW c \in Configs, Enqueue(m, c) PROVE BreakerCoherent'
    BY <1>1, <1>u DEF Enqueue
  <1>2. CASE DrainGate
    BY <1>2, <1>u DEF DrainGate, BreakerCoherent
  <1>3. CASE \/ LoopPoll \/ LoopTick \/ LoopStop
             \/ DequeueDue \/ RowsRead \/ DequeueFails \/ DrainEnd
    BY <1>3, <1>u DEF LoopPoll, LoopTick, LoopStop, DequeueDue, RowsRead, DequeueFails, DrainEnd
  <1>4. ASSUME NEW m \in Msgs, HoldUndecryptable(m) \/ SendAny(m) \/ Settle(m)
        PROVE  BreakerCoherent'
    BY <1>4, <1>u DEF HoldUndecryptable, SendAny, Send, Settle
  <1>5. ASSUME NEW m \in Msgs, Count(m) PROVE BreakerCoherent'
    <2>1. cbState \in {"closed", "half-open"}
      BY <1>5 DEF Count, OpenMeansNoDrain, TypeOK
    <2>2. CASE CountSuccess
      BY <2>1, <2>2, <1>t DEF CountSuccess, BreakerCoherent
    <2>3. CASE CountFailure
      BY <2>1, <2>3, <1>t DEF CountFailure, OneMoreFail, BreakerCoherent
    <2>4. CASE CountProbeFailure
      BY <2>4, <1>t DEF CountProbeFailure, OneMoreFail, BreakerCoherent
    <2>5. CASE CountFailureOpens
      BY <2>5, <1>t DEF CountFailureOpens, OneMoreFail, BreakerCoherent
    <2> QED BY <1>5, <2>2, <2>3, <2>4, <2>5 DEF Count
  <1>6. ASSUME NEW a \in Admins, Admin(a) PROVE BreakerCoherent'
    BY <1>6, <1>u, <1>c DEF Admin, SaveConfig, RetryBegin, RewriteHeldDelivery, RetryHeld,
       ResetCircuit
  <1>7. CASE Signal \/ ClearHeld \/ SendTest \/ Tick \/ Stop \/ Start
    BY <1>7, <1>u, <1>c DEF Signal, ClearHeld, SendTest, Tick, Stop, Start
  <1>8. CASE Crash \/ Exit
    BY <1>8 DEF Crash, Exit, LoseMemory, BreakerCoherent
  <1> QED BY <1>1, <1>2, <1>3, <1>4, <1>5, <1>6, <1>7, <1>8 DEF Next, Loop

LEMMA AcceptedIsTrueStep ==
  ASSUME Inv, Next
  PROVE  AcceptedIsTrue'
  <1> USE DEF Inv
  <1>u. UNCHANGED <<batch, outcome, accepted>> => AcceptedIsTrue'
    BY DEF AcceptedIsTrue, First
  <1>n. outcome' = "none" => AcceptedIsTrue'
    BY DEF AcceptedIsTrue
  <1>1. ASSUME NEW m \in Msgs, NEW c \in Configs, Enqueue(m, c) PROVE AcceptedIsTrue'
    BY <1>1, <1>u DEF Enqueue
  <1>2. CASE LoopPoll \/ LoopTick \/ LoopStop \/ DrainGate \/ Start
    BY <1>2, <1>u DEF LoopPoll, LoopTick, LoopStop, DrainGate, Start
  <1>3. CASE DequeueDue \/ RowsRead \/ DequeueFails \/ DrainEnd
    BY <1>3, <1>n DEF DequeueDue, RowsRead, DequeueFails, DrainEnd, DrainShape
  <1>3a. ASSUME NEW m \in Msgs, HoldUndecryptable(m) PROVE AcceptedIsTrue'
    BY <1>3a, <1>n DEF HoldUndecryptable, DrainShape
  <1>4. ASSUME NEW m \in Msgs, SendAny(m) PROVE AcceptedIsTrue'
    <2>1. PICK o \in Outcomes, arrives \in BOOLEAN : Send(m, o, arrives)
      BY <1>4 DEF SendAny
    <2>2. First(m) /\ batch' = batch /\ outcome' = o
      BY <2>1 DEF Send
    <2>3. CASE o # "accepted"
      BY <2>2, <2>3 DEF AcceptedIsTrue
    <2>4. CASE o = "accepted"
      <3>1. batch[m].dest \in accepted'[m]
        BY <2>1, <2>4 DEF Send, TypeOK
      <3>2. ASSUME NEW n \in Msgs, First(n)' PROVE n = m
        BY <3>2, <2>2, FirstUnique DEF First
      <3> QED BY <2>2, <3>1, <3>2 DEF AcceptedIsTrue
    <2> QED BY <2>3, <2>4
  <1>5. ASSUME NEW m \in Msgs, Settle(m) \/ Count(m) PROVE AcceptedIsTrue'
    BY <1>5, <1>u, <1>n DEF Settle, Count
  <1>6. ASSUME NEW a \in Admins, Admin(a) PROVE AcceptedIsTrue'
    BY <1>6, <1>u DEF Admin, SaveConfig, RetryBegin, RewriteHeldDelivery, RetryHeld, ResetCircuit
  <1>7. CASE Signal \/ ClearHeld \/ SendTest \/ Tick \/ Stop
    BY <1>7, <1>u DEF Signal, ClearHeld, SendTest, Tick, Stop
  <1>8. CASE Crash \/ Exit
    BY <1>8, <1>n DEF Crash, Exit, LoseMemory
  <1> QED BY <1>1, <1>2, <1>3, <1>3a, <1>4, <1>5, <1>6, <1>7, <1>8 DEF Next, Loop

LEMMA InvInit == Init => Inv
  <1> SUFFICES ASSUME Init PROVE Inv
    OBVIOUS
  <1>1. TypeOK
    BY TypeInit
  <1>2. DrainShape /\ BatchDue /\ OpenMeansNoDrain /\ AcceptedIsTrue
    BY DEF Init, DrainShape, BatchDue, OpenMeansNoDrain, AcceptedIsTrue, NoItems
  <1>3. BreakerCoherent
    BY ThresholdAssumption DEF Init, BreakerCoherent
  <1> QED BY <1>1, <1>2, <1>3 DEF Inv

LEMMA InvStep == Inv /\ [Next]_vars => Inv'
  <1>1. ASSUME Inv, Next PROVE Inv'
    <2>1. TypeOK'
      BY <1>1, TypeStep DEF Inv
    <2> QED BY <1>1, <2>1, DrainShapeStep, BatchDueStep, OpenMeansNoDrainStep,
               BreakerCoherentStep, AcceptedIsTrueStep DEF Inv
  <1>2. ASSUME Inv, UNCHANGED vars PROVE Inv'
    <2>1. TypeOK'
      BY <1>2, TypeStep DEF Inv
    <2>2. DrainShape' /\ OpenMeansNoDrain' /\ BreakerCoherent'
      BY <1>2 DEF vars, Inv, DrainShape, OpenMeansNoDrain, BreakerCoherent
    <2>3. BatchDue' /\ AcceptedIsTrue'
      BY <1>2 DEF vars, Inv, BatchDue, AcceptedIsTrue, First, Due, Pending
    <2> QED BY <2>1, <2>2, <2>3 DEF Inv
  <1> QED BY <1>1, <1>2

LEMMA Invariance == Spec => []Inv
  BY InvInit, InvStep, PTL DEF Spec

\* What a drain is about to send is still due for every interleaving of the
\* loop with enqueues, admins, time and restarts.
THEOREM BatchStaysDue == Spec => []BatchDue
  BY Invariance, PTL DEF Inv

\* No send is made while the circuit is open.
THEOREM OpenCircuitSendsNothing == Spec => []OpenMeansNoDrain
  BY Invariance, PTL DEF Inv

\* The breaker's state, failure count and pause level always agree.
THEOREM BreakerStaysCoherent == Spec => []BreakerCoherent
  BY Invariance, PTL DEF Inv

-----------------------------------------------------------------------------
(* Wake-ups.  NoLostWakeup is inductive as it stands. *)

LEMMA NoLostWakeupStep == NoLostWakeup /\ [Next]_vars => NoLostWakeup'
  <1> SUFFICES ASSUME NoLostWakeup, [Next]_vars PROVE NoLostWakeup'
    OBVIOUS
  <1> USE DEF NoLostWakeup
  <1>1. ASSUME NEW m \in Msgs, NEW c \in Configs, Enqueue(m, c) PROVE NoLostWakeup'
    BY <1>1 DEF Enqueue
  <1>2. CASE Signal \/ LoopPoll \/ LoopTick \/ LoopStop
    BY <1>2 DEF Signal, LoopPoll, LoopTick, LoopStop
  <1>3. CASE DrainGate \/ DequeueDue \/ RowsRead \/ DequeueFails \/ DrainEnd
    BY <1>3 DEF DrainGate, DequeueDue, RowsRead, DequeueFails, DrainEnd
  <1>4. ASSUME NEW m \in Msgs, HoldUndecryptable(m) \/ SendAny(m) \/ Settle(m) \/ Count(m)
        PROVE  NoLostWakeup'
    BY <1>4 DEF HoldUndecryptable, SendAny, Send, Settle, Count
  <1>5. ASSUME NEW a \in Admins, Admin(a) PROVE NoLostWakeup'
    BY <1>5 DEF Admin, SaveConfig, RetryBegin, RewriteHeldDelivery, RetryHeld, ResetCircuit
  <1>6. CASE ClearHeld \/ SendTest \/ Tick \/ Stop \/ Start
    BY <1>6 DEF ClearHeld, SendTest, Tick, Stop, Start
  <1>7. CASE Crash \/ Exit
    BY <1>7 DEF Crash, Exit, LoseMemory
  <1>8. CASE UNCHANGED vars
    BY <1>8 DEF vars
  <1> QED BY <1>1, <1>2, <1>3, <1>4, <1>5, <1>6, <1>7, <1>8 DEF Next, Loop

\* A row inserted since the last drain began always has a wake-up in pollCh or
\* on its way there, although a full channel swallows tokens.
THEOREM WakeupsAreKept == Spec => []NoLostWakeup
  <1>1. Init => NoLostWakeup
    BY DEF Init, NoLostWakeup
  <1> QED BY <1>1, NoLostWakeupStep, PTL DEF Spec

-----------------------------------------------------------------------------
(* The dispatcher implements ArchiveContract.  Inserting a row submits the   *)
(* payload, an arriving send is a Take, deleting after "accepted" completes  *)
(* it; BatchDue and AcceptedIsTrue give the guards of Take and Complete.     *)

LEMMA ContractStep == Inv /\ [Next]_vars => [Contract!Next]_(Contract!vars)
  <1> SUFFICES ASSUME Inv, [Next]_vars PROVE [Contract!Next]_(Contract!vars)
    OBVIOUS
  <1> USE DEF Inv
  <1>t. status \in [Msgs -> Statuses] /\ accepted \in [Msgs -> SUBSET Configs]
    BY DEF TypeOK, QueueTypeOK
  <1>u. UNCHANGED <<status, accepted>> => UNCHANGED Contract!vars
    BY DEF Contract!vars
  <1>1. ASSUME NEW m \in Msgs, NEW c \in Configs, Enqueue(m, c) PROVE Contract!Submit(m)
    BY <1>1, <1>t DEF Enqueue, Insert, Contract!Submit, Contract!Move
  <1>2. ASSUME NEW m \in Msgs, HoldUndecryptable(m) PROVE [Contract!Next]_(Contract!vars)
    <2>1. accepted' = accepted /\ pc = "decrypt" /\ m \in DOMAIN batch
      BY <1>2 DEF HoldUndecryptable
    <2>2. status[m] = "pending"
      BY <2>1 DEF BatchDue, Due, Pending
    <2>3. {m} \cap Rows = {m}
      BY <2>2 DEF Rows
    <2>4. CASE MarkHold({m})
      <3>1. Contract!Park({m})
        BY <2>1, <2>2, <2>3, <2>4 DEF MarkHold, Contract!Park, Contract!Move
      <3> QED BY <3>1 DEF Contract!Next
    <2> QED BY <1>2, <2>1, <2>4, <1>u DEF HoldUndecryptable
  <1>3. ASSUME NEW m \in Msgs, SendAny(m) PROVE [Contract!Next]_(Contract!vars)
    <2>1. PICK o \in Outcomes, arrives \in BOOLEAN : Send(m, o, arrives)
      BY <1>3 DEF SendAny
    <2>2. status' = status /\ pc = "item" /\ m \in DOMAIN batch
      BY <2>1 DEF Send, First
    <2>3. CASE arrives
      <3>1. batch[m].dest \in Configs
        BY <2>2 DEF TypeOK, Items
      <3>2. status[m] = "pending"
        BY <2>2 DEF BatchDue, Due, Pending
      <3>3. Contract!Take(m, batch[m].dest)
        BY <2>1, <2>2, <2>3, <3>2 DEF Send, Contract!Take
      <3> QED BY <3>1, <3>3 DEF Contract!Next
    <2>4. CASE ~arrives
      <3>1. accepted' = accepted
        BY <2>1, <2>4, <1>t DEF Send
      <3> QED BY <2>2, <3>1, <1>u
    <2> QED BY <2>3, <2>4
  <1>4. ASSUME NEW m \in Msgs, Settle(m) PROVE [Contract!Next]_(Contract!vars)
    <2>1. accepted' = accepted /\ pc = "settle" /\ First(m) /\ m \in DOMAIN batch
      BY <1>4 DEF Settle, First
    <2>2. status[m] = "pending"
      BY <2>1 DEF BatchDue, Due, Pending
    <2>3. {m} \cap Rows = {m}
      BY <2>2 DEF Rows
    <2>4. CASE outcome = "accepted" /\ MarkDelivered(m)
      <3>1. accepted[m] # {}
        BY <2>1, <2>4 DEF AcceptedIsTrue
      <3>2. Contract!Complete(m)
        BY <2>1, <2>2, <2>3, <2>4, <3>1 DEF MarkDelivered, Delete, Contract!Complete,
           Contract!Move
      <3> QED BY <3>2 DEF Contract!Next
    <2>5. CASE MarkHold({m})
      <3>1. Contract!Park({m})
        BY <2>1, <2>2, <2>3, <2>5 DEF MarkHold, Contract!Park, Contract!Move
      <3> QED BY <3>1 DEF Contract!Next
    <2>6. CASE UNCHANGED status
      BY <2>1, <2>6, <1>u
    <2> QED BY <1>4, <2>4, <2>5, <2>6 DEF Settle, SettleWrite, Reschedule
  <1>5. ASSUME NEW a \in Admins, Admin(a) PROVE [Contract!Next]_(Contract!vars)
    <2>1. accepted' = accepted
      BY <1>5 DEF Admin, SaveConfig, RetryBegin, RewriteHeldDelivery, RetryHeld, ResetCircuit
    <2>2. CASE RetryHeldRows
      <3>1. Held \in SUBSET Msgs /\ \A m \in Held : status[m] = "hold"
        BY DEF Held
      <3>2. Contract!Release(Held)
        BY <2>1, <2>2, <3>1 DEF RetryHeldRows, Contract!Release, Contract!Move
      <3> QED BY <3>1, <3>2 DEF Contract!Next
    <2>3. CASE UNCHANGED status
      BY <2>1, <2>3, <1>u
    <2> QED BY <1>5, <2>2, <2>3 DEF Admin, SaveConfig, RetryBegin, RewriteHeldDelivery,
               RewriteRows, RetryHeld, ResetCircuit
  <1>6. CASE ClearHeld
    <2>1. Held \in SUBSET Msgs /\ Held \cap Rows = Held /\ \A m \in Held : status[m] = "hold"
      BY DEF Held, Rows
    <2>2. Contract!Discard(Held)
      BY <1>6, <2>1 DEF ClearHeld, ClearHeldRows, Delete, Contract!Discard, Contract!Move
    <2> QED BY <2>1, <2>2 DEF Contract!Next
  <1>7. CASE Signal \/ LoopPoll \/ LoopTick \/ LoopStop
    BY <1>7, <1>u DEF Signal, LoopPoll, LoopTick, LoopStop
  <1>7a. CASE DrainGate \/ DequeueDue \/ RowsRead \/ DequeueFails \/ DrainEnd
    BY <1>7a, <1>u DEF DrainGate, DequeueDue, RowsRead, DequeueFails, DrainEnd
  <1>8. ASSUME NEW m \in Msgs, Count(m) PROVE UNCHANGED Contract!vars
    BY <1>8, <1>u DEF Count
  <1>9. CASE SendTest \/ Tick \/ Stop \/ Crash \/ Exit \/ Start
    BY <1>9, <1>u DEF SendTest, Tick, RowsAge, Stop, Crash, Exit, LoseMemory, Start
  <1>10. CASE UNCHANGED vars
    BY <1>10, <1>u DEF vars
  <1>11. ASSUME NEW m \in Msgs, Contract!Submit(m) PROVE Contract!Next
    BY <1>11 DEF Contract!Next
  <1> QED BY <1>1, <1>2, <1>3, <1>4, <1>5, <1>6, <1>7, <1>7a, <1>8, <1>9, <1>10, <1>11
           DEF Next, Loop

\* At-least-once delivery, for every number of messages, batch size, backoff
\* and breaker setting: crashes, lost answers, failed store writes, retargets
\* and clears never drop a payload that no receiver took.
THEOREM ImplementsContract == Spec => KeepsContract
  <1>1. Init => Contract!Init
    BY DEF Init, QueueInit, Contract!Init
  <1> QED BY <1>1, Invariance, ContractStep, PTL DEF Spec, KeepsContract, Contract!Spec
=============================================================================
