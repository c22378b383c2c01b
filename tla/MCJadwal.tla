------------------------------ MODULE MCJadwal ------------------------------
(* Small instances of Jadwal for TLC, with the inductive invariant of its     *)
(* proofs.                                                                    *)
EXTENDS JadwalProofs, TLC

\* Zero-padded times: text order and time of day agree.
JamRapi == {"07:00", "08:00", "09:00"}
WaktuRapi == ("07:00" :> 7) @@ ("08:00" :> 8) @@ ("09:00" :> 9)

\* One text without its zero: as text it comes last.
JamCampur == {"07:00", "9:00", "10:00"}
UrutanCampur == ("07:00" :> 1) @@ ("10:00" :> 2) @@ ("9:00" :> 3)
WaktuCampur == ("07:00" :> 7) @@ ("9:00" :> 9) @@ ("10:00" :> 10)

\* Keys, schools and requests are interchangeable.
Simetri ==
  Permutations(JadwalID) \cup Permutations(Sekolah) \cup Permutations(Permintaan)
============================================================================
