------------------------ MODULE MCArchiveDispatcher ------------------------
(* Instances of ArchiveDispatcher for TLC. *)
EXTENDS ArchiveDispatcher, TLC

MCBackoffSchedule == [i \in 0..LastBackoff |-> i]
MCPauseDurations == [i \in 0..LastPause |-> i + 1]
Symmetry == Permutations(Urls)
=============================================================================
