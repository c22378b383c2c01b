CONSTANTS
  r1 = r1
  r2 = r2
  warga = warga
  g1 = g1
  g2 = g2
  Permintaan = {r1, r2}
  Email = {warga}
  Google = {g1, g2}
  EmailGoogle <- MCEmailGoogle
  TanpaGoogle = TanpaGoogle
  MaxSandi = 2
  MaxTunda = 1
  MaxTemp = 1
SPECIFICATION Spec
SYMMETRY Simetri
INVARIANTS TypeOK AktifBerartiTerbukti SesiHanyaAktif HanyaGoogleMenimpa TundaSekaliPakai TempSekaliPakai
PROPERTIES TetapAktif
