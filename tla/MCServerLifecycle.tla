------------------------- MODULE MCServerLifecycle -------------------------
(* ServerLifecycle for TLC: concurrent requests are interchangeable. *)
EXTENDS ServerLifecycle, TLC

UserSymmetry == Permutations(Users)
=============================================================================
