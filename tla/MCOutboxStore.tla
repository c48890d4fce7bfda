----------------------------- MODULE MCOutboxStore -----------------------------
(***************************************************************************)
(* OutboxStore for TLC.  The stores are interchangeable.                   *)
(***************************************************************************)
EXTENDS OutboxStore, TLC

Symmetry == Permutations(Stores)
=============================================================================
