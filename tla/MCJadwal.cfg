SPECIFICATION Spec
CONSTANTS
  JadwalID = {j1, j2}
  Sekolah = {s1, s2}
  Hari = {senin}
  Permintaan = {r1, r2}
  Jam <- JamCampur
  Urutan <- UrutanCampur
  Waktu <- WaktuCampur
  NULL = NULL
SYMMETRY Simetri
INVARIANTS
  TabrakanBersebab
