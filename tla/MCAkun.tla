------------------------------- MODULE MCAkun -------------------------------
(* Small instances of Akun for TLC. *)
EXTENDS Akun, TLC

CONSTANTS r1, r2, warga, g1, g2

MCEmailGoogle == [g \in Google |-> warga]

Simetri == Permutations(Permintaan) \cup Permutations(Google)
============================================================================
