CONSTANTS
  Permintaan = {r1, r2}
  Sekolah = {s1}
  Email = {e1, e2}
  nip1 = nip1
  Nomor = {nip1}
  Diisi <- MCDiisi
  Tiada = Tiada
  MaxAkun = 2
  MaxData = 1
SPECIFICATION Spec
SYMMETRY Simetri
INVARIANTS JumlahSesuai KredensialBerakun YatimBersebab StatusTerakhir ProfilTetap
