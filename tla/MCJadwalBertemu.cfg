SPECIFICATION Spec
CONSTANTS
  JadwalID = {j1, j2}
  Sekolah = {s1}
  Hari = {senin, selasa}
  Permintaan = {r1, r2}
  Jam <- JamRapi
  Urutan <- WaktuRapi
  Waktu <- WaktuRapi
  NULL = NULL
INVARIANTS
  TidakBertabrakan
