SPECIFICATION SpecRute
CONSTANTS
  SekolahID = {s1}
  Email = {e1}
  Dokumen = {akta}
  Permintaan = {r1, r2}
  NULL = NULL
PROPERTIES
  PersetujuanTetap
CHECK_DEADLOCK FALSE
