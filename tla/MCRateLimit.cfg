SPECIFICATION Spec
CONSTANTS
  Permintaan = {r1, r2, r3}
  Limit = 2
  Window = 3
  Gangguan = TRUE
INVARIANTS
  PalingBanyakDuaKali
  KunciBerumur
PROPERTIES
  DibukaLagi
