----------------------------- MODULE MCSekolah -----------------------------
(* Small instances of Sekolah for TLC, with the inductive invariant of its    *)
(* proofs.                                                                    *)
EXTENDS SekolahProofs, TLC

\* Keys, addresses, documents and requests are interchangeable: no definition
\* of Sekolah names one of them.
Simetri == Permutations(SekolahID) \cup Permutations(Email)
             \cup Permutations(Dokumen) \cup Permutations(Permintaan)
============================================================================
