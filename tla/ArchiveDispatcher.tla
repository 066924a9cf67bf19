-------------------------- MODULE ArchiveDispatcher --------------------------
(***************************************************************************)
(* The archive dispatcher of internal/middleware/archive_dispatcher.go     *)
(* over the durable queue: the delivery loop and its circuit breaker, the  *)
(* exchanges that enqueue payloads, the admin handlers of                  *)
(* internal/web/handlers.go that retarget, retry, clear and test, and the  *)
(* process being stopped, killed and restarted.                            *)
(*                                                                         *)
(* The loop works from a snapshot of the due rows and holds no lock while  *)
(* a send is in flight, so a batch item has three steps of its own (send,  *)
(* store write, breaker update), and the other goroutines run between any  *)
(* two of them.                                                            *)
(***************************************************************************)
EXTENDS ArchiveQueue

CONSTANTS
  BackoffSchedule,    \* [0..LastBackoff -> Nat], in ticks
  LastPause,          \* index of the last circuit pause
  cbPauseDurations,   \* [0..LastPause -> Nat], in ticks
  cbFailThreshold,
  drainBatchSize,
  Admins,             \* concurrent admin requests
  MaxDisruptions      \* bound: restarts, store errors and admin requests

ASSUME BackoffAssumption == BackoffSchedule \in [0..LastBackoff -> Nat]
ASSUME PauseAssumption ==
  /\ LastPause \in Nat
  /\ cbPauseDurations \in [0..LastPause -> Nat]
  /\ \A i \in 0..LastPause : cbPauseDurations[i] <= cbPauseDurations[LastPause]
ASSUME ThresholdAssumption == cbFailThreshold \in Nat \ {0}
ASSUME BoundsAssumption == MaxDisruptions \in Nat

VARIABLES
  pc,           \* where the loop goroutine is
  stopping,     \* stopCh is closed
  poll,         \* pollCh holds its one token
  owed,         \* some goroutine has yet to do its non-blocking send on pollCh
  batch,        \* items of the current drain not yet finished, as dequeued
  outcome,      \* what the send of the batch's first item came to
  cbState, consecutiveFails, cbPauseLevel,
  openFor,      \* now - cbOpenedAt while open, saturating at the longest pause
  cfg,          \* the stored global archive config
  held,         \* configs that pipelines of exchanges in progress may hold
  admin,        \* the admin handlers in progress
  accepted,     \* history: the configs under which each message was accepted
  unseen,       \* history: a row was inserted since the last drain began
  disruptions   \* restarts, store errors and admin requests so far

loopVars == <<pc, batch, outcome>>
breakerVars == <<cbState, consecutiveFails, cbPauseLevel, openFor>>
signalVars == <<poll, owed, unseen>>
envVars == <<cfg, held, admin>>
vars == <<queueVars, loopVars, breakerVars, signalVars, envVars,
          stopping, accepted, disruptions>>

\* A dequeued item: the columns as they were read, and its place in the order.
Items == [attempts : 0..LastBackoff, dest : Configs, due : Int]

\* "off": the process is down; "exited": the loop has returned; "idle": the
\* select; "gate": the breaker check; "fetch": the SELECT of DequeueDue;
\* "decrypt": its loop over the rows; "item": the top of the batch loop;
\* "settle": the store write after a send; "count": the breaker update after it.
PCs == {"off", "exited", "idle", "gate", "fetch", "decrypt", "item", "settle", "count"}
Outcomes == {"accepted", "transient", "permanent"}   \* "none": not sending
AdminSteps == {"none", "save_rewrite", "save_reset",
               "retry_rewrite", "retry_rows", "retry_reset"}

TypeOK ==
  /\ QueueTypeOK
  /\ pc \in PCs /\ stopping \in BOOLEAN
  /\ poll \in BOOLEAN /\ owed \in BOOLEAN /\ unseen \in BOOLEAN
  /\ DOMAIN batch \in SUBSET Msgs
  /\ batch = [m \in DOMAIN batch |-> batch[m]]
  /\ \A m \in DOMAIN batch : batch[m] \in Items
  /\ outcome \in Outcomes \cup {"none"}
  /\ cbState \in {"closed", "open", "half-open"}
  /\ consecutiveFails \in 0..cbFailThreshold
  /\ cbPauseLevel \in 0..LastPause
  /\ openFor \in 0..cbPauseDurations[LastPause]
  /\ cfg \in Configs /\ held \in SUBSET Configs
  /\ admin \in [Admins -> [at : AdminSteps, cfg : SUBSET Configs]]
  /\ accepted \in [Msgs -> SUBSET Configs]
  /\ disruptions \in 0..MaxDisruptions

Up == pc # "off"
NoItems == [m \in {} |-> 0]

\* The config a handler read or was given is a local variable: {c} while the
\* handler still needs it, {} otherwise.
IdleAdmin == [at |-> "none", cfg |-> {}]

Disrupt ==
  /\ disruptions < MaxDisruptions
  /\ disruptions' = disruptions + 1

Init ==
  /\ cfg \in Configs
  /\ QueueInit(cfg)
  /\ pc = "gate" /\ stopping = FALSE
  /\ poll = FALSE /\ owed = FALSE /\ unseen = FALSE
  /\ batch = NoItems /\ outcome = "none"
  /\ cbState = "closed" /\ consecutiveFails = 0
  /\ cbPauseLevel = 0 /\ openFor = 0
  /\ held = {cfg}
  /\ admin = [a \in Admins |-> IdleAdmin]
  /\ accepted = [m \in Msgs |-> {}]
  /\ disruptions = 0

-----------------------------------------------------------------------------
(* Exchanges: an Archive middleware enqueues what it saw.  Its config is the *)
(* one its pipeline was built with, which may have been replaced since.      *)

Enqueue(m, c) ==
  /\ Up /\ c \in held
  /\ Insert(m, c)
  /\ owed' = TRUE
  /\ unseen' = TRUE
  /\ UNCHANGED <<loopVars, breakerVars, poll, envVars, stopping, accepted, disruptions>>

\* The non-blocking send on pollCh: a full channel swallows the token.  More
\* than one goroutine may owe one, so the debt may remain.
Signal ==
  /\ Up /\ owed
  /\ owed' \in BOOLEAN
  /\ poll' = TRUE
  /\ UNCHANGED <<queueVars, loopVars, breakerVars, unseen, envVars, stopping,
                 accepted, disruptions>>

-----------------------------------------------------------------------------
(* The delivery loop *)

\* The select of loop(): a token, the 30 s ticker, or stopCh.  When several
\* are ready Go picks any of them.
LoopPoll ==
  /\ pc = "idle" /\ poll
  /\ poll' = FALSE /\ pc' = "gate" /\ unseen' = FALSE
  /\ UNCHANGED <<queueVars, batch, outcome, breakerVars, owed, envVars, stopping,
                 accepted, disruptions>>

LoopTick ==
  /\ pc = "idle"
  /\ pc' = "gate" /\ unseen' = FALSE
  /\ UNCHANGED <<queueVars, batch, outcome, breakerVars, poll, owed, envVars, stopping,
                 accepted, disruptions>>

LoopStop ==
  /\ pc = "idle" /\ stopping
  /\ pc' = "exited"
  /\ UNCHANGED <<queueVars, batch, outcome, breakerVars, signalVars, envVars, stopping,
                 accepted, disruptions>>

PauseOver == openFor >= cbPauseDurations[cbPauseLevel]

\* Mutant of DrainGate: an open circuit returns before it looks at the pause.
DrainGateStaysOpen ==
  /\ pc = "gate"
  /\ pc' = IF cbState = "open" THEN "idle" ELSE "fetch"
  /\ UNCHANGED <<queueVars, batch, outcome, breakerVars, signalVars, envVars,
                 stopping, accepted, disruptions>>

DrainGate ==
  /\ pc = "gate"
  /\ \/ cbState = "open" /\ ~PauseOver /\ pc' = "idle" /\ UNCHANGED <<cbState, openFor>>
     \/ cbState = "open" /\ PauseOver /\ pc' = "fetch" /\ cbState' = "half-open" /\ openFor' = 0
     \/ cbState # "open" /\ pc' = "fetch" /\ UNCHANGED <<cbState, openFor>>
  /\ UNCHANGED <<queueVars, batch, outcome, consecutiveFails, cbPauseLevel, signalVars, envVars,
                 stopping, accepted, disruptions>>

\* Mutant of DequeueDue: the queue is popped, so a crash loses the batch.
DequeueDuePops ==
  /\ pc = "fetch"
  /\ Delete(SelectDue(drainBatchSize))
  /\ batch' = [m \in SelectDue(drainBatchSize) |->
                 [attempts |-> attempts[m], dest |-> dest[m], due |-> wait[m]]]
  /\ pc' = "decrypt"
  /\ UNCHANGED <<outcome, breakerVars, signalVars, envVars, stopping, accepted,
                 disruptions>>

\* The SELECT of DequeueDue(drainBatchSize).
DequeueDue ==
  /\ pc = "fetch"
  /\ batch' = [m \in SelectDue(drainBatchSize) |->
                 [attempts |-> attempts[m], dest |-> dest[m], due |-> wait[m]]]
  /\ pc' = "decrypt"
  /\ UNCHANGED <<queueVars, outcome, breakerVars, signalVars, envVars, stopping, accepted,
                 disruptions>>

Rest(m) == [n \in DOMAIN batch \ {m} |-> batch[n]]

\* Its loop over the rows: one whose auth_value cannot be decrypted is held, by
\* a write whose error is ignored, and left out of the batch.
HoldUndecryptable(m) ==
  /\ pc = "decrypt" /\ m \in DOMAIN batch
  /\ \/ MarkHold({m}) /\ UNCHANGED disruptions
     \/ Disrupt /\ UNCHANGED queueVars
  /\ batch' = Rest(m)
  /\ UNCHANGED <<pc, outcome, breakerVars, signalVars, envVars, stopping, accepted>>

RowsRead ==
  /\ pc = "decrypt"
  /\ pc' = "item"
  /\ UNCHANGED <<queueVars, batch, outcome, breakerVars, signalVars, envVars, stopping,
                 accepted, disruptions>>

\* A failed query or scan gives the drain up; rows already held stay held.
DequeueFails ==
  /\ pc \in {"fetch", "decrypt"}
  /\ Disrupt
  /\ pc' = "idle" /\ batch' = NoItems
  /\ UNCHANGED <<queueVars, outcome, breakerVars, signalVars, envVars, stopping, accepted>>

\* Mutant of DrainEnd: wake-ups that came in during the drain are thrown away.
DrainEndDropsToken ==
  /\ pc = "item"
  /\ batch = NoItems \/ stopping
  /\ pc' = "idle" /\ batch' = NoItems /\ poll' = FALSE
  /\ UNCHANGED <<queueVars, outcome, breakerVars, owed, unseen, envVars, stopping,
                 accepted, disruptions>>

\* The batch is finished, or stopCh is seen closed between two items.
DrainEnd ==
  /\ pc = "item"
  /\ batch = NoItems \/ stopping
  /\ pc' = "idle" /\ batch' = NoItems
  /\ UNCHANGED <<queueVars, outcome, breakerVars, signalVars, envVars, stopping,
                 accepted, disruptions>>

First(m) ==
  /\ m \in DOMAIN batch
  /\ \A n \in DOMAIN batch \ {m} : Before(batch[m].due, m, batch[n].due, n)

\* sendOne up to the answer.  The receiver may accept a message whose answer
\* is lost on the way back, which the dispatcher sees as a network error.
Send(m, o, arrives) ==
  /\ pc = "item" /\ ~stopping
  /\ First(m)
  /\ o = "accepted" => arrives
  /\ o = "permanent" => ~arrives
  /\ outcome' = o
  /\ accepted' = [accepted EXCEPT ![m] = IF arrives THEN @ \cup {batch[m].dest} ELSE @]
  /\ pc' = "settle"
  /\ UNCHANGED <<queueVars, batch, breakerVars, signalVars, envVars, stopping,
                 disruptions>>

\* nextAttemptTime, from the attempts the snapshot recorded.
Backoff(a) == BackoffSchedule[OneMore(a)]

\* The store write that follows the answer; its error is logged and dropped.
SettleWrite(m) ==
  \/ outcome = "accepted" /\ MarkDelivered(m)
  \/ outcome = "transient" /\ Reschedule(m, Backoff(batch[m].attempts))
  \/ outcome = "permanent" /\ MarkHold({m})

Settle(m) ==
  /\ pc = "settle" /\ First(m)
  /\ \/ SettleWrite(m) /\ UNCHANGED disruptions
     \/ Disrupt /\ UNCHANGED queueVars
  /\ pc' = "count"
  /\ UNCHANGED <<batch, outcome, breakerVars, signalVars, envVars, stopping, accepted>>

-----------------------------------------------------------------------------
(* The circuit breaker, after each item *)

\* Only the comparison with the threshold is ever made.
OneMoreFail == IF consecutiveFails < cbFailThreshold THEN consecutiveFails + 1
                                                     ELSE cbFailThreshold

CountSuccess ==
  /\ outcome = "accepted"
  /\ consecutiveFails' = 0
  /\ cbState' = IF cbState = "half-open" THEN "closed" ELSE cbState
  /\ cbPauseLevel' = IF cbState = "half-open" THEN 0 ELSE cbPauseLevel
  /\ UNCHANGED openFor

\* Mutant of CountProbeFailure: the pause level is not capped.
CountProbeFailureUncapped ==
  /\ outcome # "accepted" /\ cbState = "half-open"
  /\ consecutiveFails' = OneMoreFail
  /\ cbState' = "open" /\ openFor' = 0
  /\ cbPauseLevel' = cbPauseLevel + 1

CountProbeFailure ==
  /\ outcome # "accepted" /\ cbState = "half-open"
  /\ consecutiveFails' = OneMoreFail
  /\ cbState' = "open" /\ openFor' = 0
  /\ cbPauseLevel' = IF cbPauseLevel < LastPause THEN cbPauseLevel + 1 ELSE cbPauseLevel

CountFailureOpens ==
  /\ outcome # "accepted" /\ cbState # "half-open"
  /\ OneMoreFail >= cbFailThreshold
  /\ consecutiveFails' = OneMoreFail
  /\ cbState' = "open" /\ openFor' = 0
  /\ UNCHANGED cbPauseLevel

CountFailure ==
  /\ outcome # "accepted" /\ cbState # "half-open"
  /\ OneMoreFail < cbFailThreshold
  /\ consecutiveFails' = OneMoreFail
  /\ UNCHANGED <<cbState, openFor, cbPauseLevel>>

\* Mutant of Count: a breaker that opens lets the batch go on.
CountGoesOn(m) ==
  /\ pc = "count" /\ First(m)
  /\ CountSuccess \/ CountFailure \/ CountProbeFailure \/ CountFailureOpens
  /\ pc' = "item" /\ batch' = Rest(m)
  /\ outcome' = "none"
  /\ UNCHANGED <<queueVars, signalVars, envVars, stopping, accepted, disruptions>>

\* Opening the breaker abandons the rest of the batch.
Count(m) ==
  /\ pc = "count" /\ First(m)
  /\ \/ /\ CountSuccess \/ CountFailure
        /\ pc' = "item" /\ batch' = Rest(m)
     \/ /\ CountProbeFailure \/ CountFailureOpens
        /\ pc' = "idle" /\ batch' = NoItems
  /\ outcome' = "none"
  /\ UNCHANGED <<queueVars, signalVars, envVars, stopping, accepted, disruptions>>

-----------------------------------------------------------------------------
(* Admin handlers.  Each is a sequence of separate critical sections.        *)

AdminStep(a, from, to) ==
  /\ Up
  /\ admin[a].at = from
  /\ admin' = [admin EXCEPT ![a] = [at |-> to, cfg |-> {}]]

AdminIdle(a) == Up /\ admin[a].at = "none"

\* Saving the global config, by hand or by completing a handoff: store it,
\* retarget the queue, close the circuit.
SaveConfig(a, c) ==
  /\ AdminIdle(a) /\ Disrupt
  /\ cfg' = c /\ held' = held \cup {c}
  /\ admin' = [admin EXCEPT ![a] = [at |-> "save_rewrite", cfg |-> {c}]]
  /\ UNCHANGED <<queueVars, loopVars, breakerVars, signalVars, stopping, accepted>>

\* "Retry" re-reads the stored config, retargets, then releases held rows.
RetryBegin(a) ==
  /\ AdminIdle(a) /\ Disrupt
  /\ admin' = [admin EXCEPT ![a] = [at |-> "retry_rewrite", cfg |-> {cfg}]]
  /\ UNCHANGED <<queueVars, loopVars, breakerVars, signalVars, cfg, held, stopping,
                 accepted>>

\* A failed rewrite is ignored by both handlers.
RewriteHeldDelivery(a) ==
  /\ \/ AdminStep(a, "save_rewrite", "save_reset")
     \/ AdminStep(a, "retry_rewrite", "retry_rows")
  /\ \/ (\E c \in admin[a].cfg : RewriteRows(c)) /\ UNCHANGED disruptions
     \/ Disrupt /\ UNCHANGED queueVars
  /\ UNCHANGED <<loopVars, breakerVars, signalVars, cfg, held, stopping, accepted>>

\* A store error ends the retry with the circuit as it was.
RetryHeld(a) ==
  /\ \/ AdminStep(a, "retry_rows", "retry_reset") /\ RetryHeldRows /\ UNCHANGED disruptions
     \/ AdminStep(a, "retry_rows", "none") /\ Disrupt /\ UNCHANGED queueVars
  /\ UNCHANGED <<loopVars, breakerVars, signalVars, cfg, held, stopping, accepted>>

\* Mutant of CloseCircuit: the failure count survives the reset.
CloseCircuitKeepsFails ==
  /\ cbState' = "closed" /\ cbPauseLevel' = 0
  /\ openFor' = 0 /\ UNCHANGED consecutiveFails

CloseCircuit ==
  /\ cbState' = "closed" /\ cbPauseLevel' = 0 /\ consecutiveFails' = 0
  /\ openFor' = 0

ResetCircuit(a) ==
  /\ \/ AdminStep(a, "save_reset", "none")
     \/ AdminStep(a, "retry_reset", "none")
  /\ CloseCircuit
  /\ owed' = TRUE
  /\ UNCHANGED <<queueVars, loopVars, poll, unseen, cfg, held, stopping, accepted,
                 disruptions>>

ClearHeld ==
  /\ Up /\ Disrupt
  /\ ClearHeldRows
  /\ UNCHANGED <<loopVars, breakerVars, signalVars, envVars, stopping, accepted>>

\* A test delivery that the receiver takes closes the circuit; one that fails,
\* or finds it closed already, changes nothing.  It does not wake the loop.
SendTest ==
  /\ Up /\ cbState # "closed"
  /\ CloseCircuit
  /\ UNCHANGED <<queueVars, loopVars, signalVars, envVars, stopping, accepted,
                 disruptions>>

-----------------------------------------------------------------------------
(* Time and the process *)

Tick ==
  /\ RowsAge
  /\ openFor' = IF cbState = "open" /\ openFor < cbPauseDurations[LastPause]
                  THEN openFor + 1 ELSE openFor
  /\ UNCHANGED <<loopVars, cbState, consecutiveFails, cbPauseLevel, signalVars, envVars,
                 stopping, accepted, disruptions>>

Stop ==
  /\ Up /\ ~stopping /\ Disrupt
  /\ stopping' = TRUE
  /\ UNCHANGED <<queueVars, loopVars, breakerVars, signalVars, envVars, accepted>>

\* Everything but the table and the history is lost with the process.
LoseMemory ==
  /\ pc' = "off" /\ batch' = NoItems /\ outcome' = "none"
  /\ cbState' = "closed" /\ consecutiveFails' = 0 /\ cbPauseLevel' = 0 /\ openFor' = 0
  /\ poll' = FALSE /\ owed' = FALSE /\ unseen' = FALSE
  /\ stopping' = FALSE
  /\ held' = {cfg}
  /\ admin' = [a \in Admins |-> IdleAdmin]
  /\ UNCHANGED <<queueVars, cfg, accepted>>

Crash == Up /\ Disrupt /\ LoseMemory
Exit == pc = "exited" /\ LoseMemory /\ UNCHANGED disruptions

\* Start: the loop begins with a drain of what the last process left behind.
Start ==
  /\ pc = "off"
  /\ pc' = "gate"
  /\ UNCHANGED <<queueVars, batch, outcome, breakerVars, signalVars, envVars, stopping,
                 accepted, disruptions>>

-----------------------------------------------------------------------------
SendAny(m) == \E o \in Outcomes, arrives \in BOOLEAN : Send(m, o, arrives)

Loop ==
  \/ LoopPoll \/ LoopTick \/ LoopStop
  \/ DrainGate \/ DequeueDue \/ RowsRead \/ DequeueFails \/ DrainEnd
  \/ \E m \in Msgs : HoldUndecryptable(m) \/ SendAny(m) \/ Settle(m) \/ Count(m)

Admin(a) ==
  \/ \E c \in Configs : SaveConfig(a, c)
  \/ RetryBegin(a) \/ RewriteHeldDelivery(a) \/ RetryHeld(a) \/ ResetCircuit(a)

Next ==
  \/ \E m \in Msgs, c \in Configs : Enqueue(m, c)
  \/ Signal
  \/ Loop
  \/ \E a \in Admins : Admin(a)
  \/ ClearHeld \/ SendTest
  \/ Tick \/ Stop \/ Crash \/ Exit \/ Start

Spec == Init /\ [][Next]_vars

-----------------------------------------------------------------------------
(* Safety *)

\* The rows a drain still has to send are pending and due: holding no lock,
\* the loop works from a snapshot, yet no retry, retarget, clear or decrypt
\* failure can hold, postpone or delete a row under it.  (After its own store
\* write the item being counted may be in any state.)
BatchDue ==
  \A m \in DOMAIN batch : m \in Due \/ (pc = "count" /\ First(m))

\* While the circuit is open no drain is under way, whatever admins, tests and
\* the loop do between the send and the breaker update: opening it always
\* abandons the batch.
OpenMeansNoDrain ==
  cbState = "open" => batch = NoItems /\ pc \notin {"fetch", "decrypt", "item", "settle", "count"}

\* The circuit is closed exactly while fewer than cbFailThreshold sends in a
\* row have failed, and a closed circuit has forgotten its pause level; a
\* reset landing between a failed send and its count does not break this.
BreakerCoherent ==
  /\ cbState = "closed" <=> consecutiveFails < cbFailThreshold
  /\ cbState = "closed" => cbPauseLevel = 0

\* A row inserted after a drain began is never slept on: a token is in pollCh,
\* or the goroutine that inserted the row is about to put one there.
NoLostWakeup == unseen => poll \/ owed

Contract == INSTANCE ArchiveContract
              WITH phase <- status, taken <- accepted, Receivers <- Configs

\* The queue and the dispatcher implement at-least-once delivery: a row leaves
\* the table only after a receiver took the message, or from hold by an
\* admin's clear, and never comes back.  Crashes, failed store writes and
\* settles that land after a retarget drop nothing.
KeepsContract == Contract!Spec

-----------------------------------------------------------------------------
(* Liveness.  Time passes, and the goroutines that can run do run.  Go's     *)
(* select picks among ready cases at random, so a closed stopCh is noticed   *)
(* eventually.  Nothing is assumed of the receiver here.                     *)

Fairness ==
  /\ WF_vars(Tick) /\ WF_vars(Signal) /\ WF_vars(Start) /\ WF_vars(Exit)
  /\ WF_vars(LoopTick) /\ SF_vars(LoopStop)
  /\ WF_vars(DrainGate) /\ WF_vars(DequeueDue) /\ WF_vars(RowsRead)
  /\ WF_vars(DrainEnd)
  /\ \A m \in Msgs :
       WF_vars(SendAny(m)) /\ WF_vars(Settle(m)) /\ WF_vars(Count(m))
  /\ \A a \in Admins :
       WF_vars(RewriteHeldDelivery(a) \/ RetryHeld(a) \/ ResetCircuit(a))

FairSpec == Spec /\ Fairness

\* A queued message that the receiver would not refuse for ever is eventually
\* delivered or held, even if every other message fails for ever: an open
\* circuit and restarts delay it but cannot starve it, because DequeueDue serves
\* the row that has been due longest first.
EventuallySettled ==
  \A m \in Msgs :
    SF_vars(Send(m, "accepted", TRUE)) => (status[m] = "pending" ~> status[m] # "pending")

\* An open circuit does not stay open.
CircuitRecovers == cbState = "open" ~> cbState # "open"

-----------------------------------------------------------------------------
(* What the comments say of retargeting *)

\* archive_handoff.go: retargeting happens "so a handoff that happens while a
\* backlog is draining does not strand messages on the old destination".  Then
\* a message is dropped from the queue only when the destination its row names
\* has taken it.
NotStrandedOnOldDestination ==
  [][\A m \in Msgs : status[m] = "pending" /\ status'[m] = "gone"
        => dest[m] \in accepted[m]]_vars

\* archive_dispatcher.go: RewriteHeldDelivery "updates the URL and auth fields
\* on all held rows".
AllHeldRowsRewritten ==
  [][\A a \in Admins, c \in Configs :
        admin[a].cfg = {c} /\ admin'[a].cfg = {} /\ pc' # "off" /\ UNCHANGED disruptions
          => \A m \in Held : dest'[m] = c]_vars
=============================================================================
