--------------------------- MODULE ArchiveContract ---------------------------
(***************************************************************************)
(* What the archive promises for a payload handed to Enqueue: it is kept   *)
(* until a receiver has taken it at least once, or until an admin throws   *)
(* it away after it was held.  Nothing is said about duplicates or order:  *)
(* delivery is at least once.                                              *)
(***************************************************************************)
CONSTANTS Msgs, Receivers

VARIABLES
  phase,     \* the life of each payload
  taken      \* the receivers that have taken each payload

vars == <<phase, taken>>

Init ==
  /\ phase = [m \in Msgs |-> "none"]
  /\ taken = [m \in Msgs |-> {}]

Move(S, from, to) ==
  /\ \A m \in S : phase[m] = from
  /\ phase' = [m \in Msgs |-> IF m \in S THEN to ELSE phase[m]]
  /\ UNCHANGED taken

Submit(m) == Move({m}, "none", "pending")
Park(S) == Move(S, "pending", "hold")
Release(S) == Move(S, "hold", "pending")
Discard(S) == Move(S, "hold", "gone")

Take(m, r) ==
  /\ phase[m] = "pending"
  /\ taken' = [taken EXCEPT ![m] = @ \cup {r}]
  /\ UNCHANGED phase

\* A payload is let go as delivered only once a receiver has taken it.
Complete(m) ==
  /\ taken[m] # {}
  /\ Move({m}, "pending", "gone")

Next ==
  \/ \E m \in Msgs : Submit(m) \/ Complete(m)
  \/ \E m \in Msgs, r \in Receivers : Take(m, r)
  \/ \E S \in SUBSET Msgs : Park(S) \/ Release(S) \/ Discard(S)

Spec == Init /\ [][Next]_vars
=============================================================================
