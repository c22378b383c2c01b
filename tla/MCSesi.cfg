SPECIFICATION Spec
CONSTANTS
  Permintaan = {r1, r2}
  MaxToken = 3
  Akses = {1}
  MasaAkses = 2
SYMMETRY Simetri
INVARIANTS
  TypeOK
  AksesKeluarDitolak
  DigantiBerartiDicabut
  SatuPenerus
  TamatTuntas
