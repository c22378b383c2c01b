SPECIFICATION Spec
CONSTANTS
  SekolahID = {s1, s2}
  Email = {e1, e2}
  Dokumen = {akta}
  Permintaan = {r1, r2}
  NULL = NULL
SYMMETRY Simetri
INVARIANTS
  TypeOK
  AktifPunyaAdmin
  AdminMilikSekolah
  AdminDapatMasuk
  DiumumkanSetelahKredensial
