SPECIFICATION Spec
CONSTANTS
  Permintaan = {r1, r2}
  OtpTTL = 3
  OtpMaxAttempts = 2
  OtpResendCooldown = 1
  MaxKode = 1
  Gangguan = FALSE
INVARIANTS
  MaksPercobaan
