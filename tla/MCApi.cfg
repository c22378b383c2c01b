CONSTANTS
  Email = {pusat, kepala, e1, e2}
  SekolahID = {s1, s2}
  Slot = {senin, selasa}
  Pusat = pusat
  Kepala = kepala
  SekolahAwal = s1
  Tiada = Tiada
  Warga = {e1, e2}
  MaxSementara = 2
SPECIFICATION Spec
SYMMETRY Simetri
VIEW Pandangan
INVARIANTS Rujukan DataLengkap
PROPERTIES DitolakTanpaBekas SesuaiPeran 
