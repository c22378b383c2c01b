------------------------------- MODULE MCSesi -------------------------------
(* Small instances of Sesi for TLC. *)
EXTENDS Sesi, TLC

Simetri == Permutations(Permintaan)
============================================================================
