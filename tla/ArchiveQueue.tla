---------------------------- MODULE ArchiveQueue ----------------------------
(***************************************************************************)
(* The durable archive queue: the archive_queue table and the store        *)
(* methods of internal/store/archive_queue.go.  Every method is one SQL    *)
(* statement, so every one is an atomic action on the table.               *)
(*                                                                         *)
(* A row is named by a message number; numbers are handed out in insertion *)
(* order, so they also stand for created_at.  Time is kept relative to now: *)
(* wait[m] is next_attempt_at - now while that is positive; row m is due    *)
(* when wait[m] <= 0, and then wait orders the due rows by next_attempt_at. *)
(***************************************************************************)
EXTENDS Integers, FiniteSets

CONSTANTS
  Msgs,            \* message numbers, in order of insertion
  Urls,            \* archive destinations
  Auths,           \* credentials that can accompany a destination
  LastBackoff      \* index of the last entry of BackoffSchedule

ASSUME MsgsAssumption == Msgs \subseteq Nat
ASSUME LastBackoffAssumption == LastBackoff \in Nat

VARIABLES
  status,          \* "none": never inserted; "gone": deleted
  attempts,        \* attempts column, saturating at LastBackoff
  wait,            \* next_attempt_at, relative to now
  dest             \* url and auth columns: where the row will be sent

queueVars == <<status, attempts, wait, dest>>

\* The part of an ArchiveConfig that delivery depends on.
Configs == [url : Urls, auth : Auths]

Statuses == {"none", "pending", "hold", "gone"}

QueueTypeOK ==
  /\ status \in [Msgs -> Statuses]
  /\ attempts \in [Msgs -> 0..LastBackoff]
  /\ wait \in [Msgs -> Int]
  /\ dest \in [Msgs -> Configs]

QueueInit(c) ==
  /\ status = [m \in Msgs |-> "none"]
  /\ attempts = [m \in Msgs |-> 0]
  /\ wait = [m \in Msgs |-> 0]
  /\ dest = [m \in Msgs |-> c]

Rows == {m \in Msgs : status[m] \in {"pending", "hold"}}
Pending == {m \in Msgs : status[m] = "pending"}
Held == {m \in Msgs : status[m] = "hold"}

\* attempts only selects a backoff entry, and every value from LastBackoff on
\* selects the last one.
OneMore(a) == IF a < LastBackoff THEN a + 1 ELSE LastBackoff

-----------------------------------------------------------------------------
(* Selection *)

Due == {m \in Pending : wait[m] <= 0}

\* Mutant of Before: oldest message first, whenever it was last tried.
BeforeByCreation(t, m, u, n) == m < n

\* ORDER BY next_attempt_at ASC, created_at ASC, on pairs of a time and a row.
Before(t, m, u, n) == t < u \/ (t = u /\ m < n)

\* The rows DequeueDue(limit) selects: the first limit due rows.
SelectDue(limit) ==
  {m \in Due : Cardinality({n \in Due : Before(wait[n], n, wait[m], m)}) < limit}

-----------------------------------------------------------------------------
(* Store methods *)

Insert(m, c) ==
  /\ status[m] = "none"
  /\ \A n \in Msgs : n < m => status[n] # "none"
  /\ status' = [status EXCEPT ![m] = "pending"]
  /\ attempts' = [attempts EXCEPT ![m] = 0]
  /\ wait' = [wait EXCEPT ![m] = 0]
  /\ dest' = [dest EXCEPT ![m] = c]

\* DELETE of the rows of S that are in the table.
Delete(S) ==
  /\ status' = [m \in Msgs |-> IF m \in S \cap Rows THEN "gone" ELSE status[m]]
  /\ attempts' = [m \in Msgs |-> IF m \in S \cap Rows THEN 0 ELSE attempts[m]]
  /\ wait' = [m \in Msgs |-> IF m \in S \cap Rows THEN 0 ELSE wait[m]]
  /\ UNCHANGED dest

MarkDelivered(m) == Delete({m})

\* The WHERE clause names the id only: the row's status plays no part, and a
\* row that is no longer there is left alone.
Reschedule(m, delay) ==
  /\ attempts' = [n \in Msgs |-> IF n = m /\ n \in Rows THEN OneMore(attempts[n])
                                                       ELSE attempts[n]]
  /\ wait' = [n \in Msgs |-> IF n = m /\ n \in Rows THEN delay ELSE wait[n]]
  /\ UNCHANGED <<status, dest>>

\* MarkHold on each row of a set: one row for a failed send, the undecryptable
\* rows of a batch inside DequeueDue.
MarkHold(S) ==
  /\ status' = [m \in Msgs |-> IF m \in S \cap Rows THEN "hold" ELSE status[m]]
  /\ attempts' = [m \in Msgs |-> IF m \in S \cap Rows THEN OneMore(attempts[m])
                                                      ELSE attempts[m]]
  /\ UNCHANGED <<wait, dest>>

RetryHeldRows ==
  /\ status' = [m \in Msgs |-> IF m \in Held THEN "pending" ELSE status[m]]
  /\ attempts' = [m \in Msgs |-> IF m \in Held THEN 0 ELSE attempts[m]]
  /\ wait' = [m \in Msgs |-> IF m \in Held THEN 0 ELSE wait[m]]
  /\ UNCHANGED dest

\* The rows an UPDATE to config c touches: those with another URL.  The
\* credential is not compared.
Retargeted(c) == {m \in Rows : dest[m].url # c.url}

RewriteRows(c) ==
  /\ dest' = [m \in Msgs |-> IF m \in Retargeted(c) THEN c ELSE dest[m]]
  /\ attempts' = [m \in Msgs |-> IF m \in Retargeted(c) THEN 0 ELSE attempts[m]]
  /\ wait' = [m \in Msgs |-> IF m \in Retargeted(c) THEN 0 ELSE wait[m]]
  /\ UNCHANGED status

\* Mutant of ClearHeldRows: the status condition is forgotten.
ClearAllRows == Delete(Rows)

ClearHeldRows == Delete(Held)

\* Time passes.  Among due rows only the order of next_attempt_at is ever
\* read, so they age only when one has become due since the last tick: rows
\* due later then stay behind rows due earlier.  A held row's next_attempt_at
\* is rewritten before it is read again (RetryHeld), so held rows do not age.
RowsAge ==
  LET arrived == \E m \in Pending : wait[m] = 0 IN
  /\ wait' = [m \in Msgs |-> IF m \in Pending /\ (wait[m] > 0 \/ arrived)
                              THEN wait[m] - 1 ELSE wait[m]]
  /\ UNCHANGED <<status, attempts, dest>>
=============================================================================
