SPECIFICATION Spec
CONSTANTS
  Permintaan = {r1}
  OtpTTL = 3
  OtpMaxAttempts = 3
  OtpResendCooldown = 2
  MaxKode = 2
  Gangguan = TRUE
INVARIANTS
  MaksPercobaan
  SekaliPakai
  SelaluBerbatasWaktu
PROPERTIES
  KodeTerbaruSaja
  JedaKirimUlang
  KodeTamat
