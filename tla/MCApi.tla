-------------------------------- MODULE MCApi --------------------------------
(* A small instance of Api for TLC. *)
EXTENDS Api, TLC

\* No action reads the last answer, and the properties of steps only the new one.
Pandangan == <<tabel, redis, sesi, gagal>>
Simetri == Permutations(Email \ {Pusat, Kepala}) \cup Permutations(Slot)
============================================================================
