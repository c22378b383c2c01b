SPECIFICATION Spec
CONSTANTS
  SekolahID = {s1}
  Email = {e1, e2}
  Dokumen = {akta, nib}
  Permintaan = {r1, r2}
  NULL = NULL
SYMMETRY Simetri
INVARIANTS
  DokumenUtuh
PROPERTIES
  MengikutiAlur
