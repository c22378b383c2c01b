----------------------------- MODULE MCPendidik -----------------------------
(* Small instances of Pendidik for TLC. *)
EXTENDS Pendidik, TLC

CONSTANT nip1

\* Two of these make a conflict, or not; "null" never does.
MCDiisi == {"kosong", nip1}

Simetri == Permutations(Permintaan) \cup Permutations(Email)
============================================================================
