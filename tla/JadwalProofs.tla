---------------------------- MODULE JadwalProofs ----------------------------
(***************************************************************************)
(* Why lessons collide only for the two reasons that TabrakanBersebab      *)
(* names, for any number of lessons, schools, days, times and requests and *)
(* any order of the texts.  Between its check and its write a request      *)
(* relies on the answer of the check; the answer holds until another       *)
(* request writes a lesson of the same school, so the invariant carries it *)
(* along for the requests that are not usang.  That a write elsewhere does *)
(* not touch it rests on a key never changing its school, even when a Save *)
(* inserts a deleted lesson again.                                         *)
(***************************************************************************)
EXTENDS Jadwal, TLAPS

\* What request r may still rely on before its next call.
Terperiksa(r) ==
  /\ req[r].pc = "buat" => ~CheckTabrakan(req[r].baris, NULL)
  /\ req[r].pc = "simpan" => \/ ~CheckTabrakan(req[r].baris, req[r].id)
                             \/ jadwal[req[r].id] = req[r].baris

\* Lessons the query takes for colliding: one of them was stored late.
IrisanTercela ==
  \A i, j \in Ada : i # j /\ Beririsan(jadwal[i], jadwal[j]) => i \in tercela \/ j \in tercela

\* Request r works on a stored lesson.
Memegang(r) == req[r].pc \in {"periksa", "simpan", "hapus"}

\* A request works on a key that was handed out, for the school of its lesson.
Pegangan(r) ==
  Memegang(r) => /\ req[r].id \in pernah
                 /\ req[r].id \in Ada => jadwal[req[r].id].sekolah = req[r].baris.sekolah

\* Requests that work on one key work for one school.
SatuSekolah ==
  \A r, p \in Permintaan : Memegang(r) /\ Memegang(p) /\ req[r].id = req[p].id =>
    req[r].baris.sekolah = req[p].baris.sekolah

IInv ==
  /\ TypeOK
  /\ Ada \subseteq pernah
  /\ IrisanTercela
  /\ SatuSekolah
  /\ \A r \in Permintaan : Pegangan(r) /\ (r \notin usang => Terperiksa(r))

----------------------------------------------------------------------------
\* The WHERE clause does not depend on which lesson is the stored one.
LEMMA BeririsanSimetris ==
  ASSUME NEW a \in Pelajaran, NEW b \in Pelajaran, Beririsan(a, b)
  PROVE  Beririsan(b, a)
  BY JamAssumption DEF Beririsan, Pelajaran

\* Lessons with a moment in common satisfy the WHERE clause if their texts sort
\* as times, even when one of them ends before it starts.
LEMMA BersamaanBeririsan ==
  ASSUME NEW a \in Pelajaran, NEW b \in Pelajaran, Terurut(a, b),
         a.sekolah = b.sekolah, a.hari = b.hari, Bersamaan(a, b)
  PROVE  Beririsan(a, b)
<1>1. PICK j \in Jam : /\ Waktu[a.mulai] <= Waktu[j] /\ Waktu[j] < Waktu[a.selesai]
                       /\ Waktu[b.mulai] <= Waktu[j] /\ Waktu[j] < Waktu[b.selesai]
  BY DEF Bersamaan
<1>2. /\ a.mulai \in Jam /\ a.selesai \in Jam
      /\ b.mulai \in Jam /\ b.selesai \in Jam
  BY DEF Pelajaran
<1>3. Waktu[a.mulai] < Waktu[b.selesai] /\ Waktu[b.mulai] < Waktu[a.selesai]
  BY <1>1, <1>2, JamAssumption
<1>4. Urutan[a.mulai] < Urutan[b.selesai] /\ Urutan[b.mulai] < Urutan[a.selesai]
  BY <1>3 DEF Terurut
<1>5. QED
  BY <1>2, <1>4, JamAssumption DEF Beririsan

LEMMA Sedang ==
  ASSUME TypeOK, NEW r \in Permintaan, req[r].pc # "bebas"
  PROVE  req[r] \in Berjalan
  BY DEF TypeOK, Bebas

LEMMA TypeMenjadi ==
  ASSUME TypeOK, NEW r \in Permintaan, NEW q \in Berjalan \cup {Bebas}, Menjadi(r, q)
  PROVE  req' \in [Permintaan -> Berjalan \cup {Bebas}]
  BY DEF TypeOK, Menjadi

LEMMA ReqBaru ==
  ASSUME TypeOK, NEW r \in Permintaan, NEW q, Menjadi(r, q)
  PROVE  req'[r] = q /\ \A p \in Permintaan : p # r => req'[p] = req[p]
  BY DEF TypeOK, Menjadi

\* A step that leaves the table alone and makes r a request that may rely on it.
LEMMA MembacaBaik ==
  ASSUME IInv, NEW r \in Permintaan, NEW q \in Berjalan \cup {Bebas}, Membaca(r, q),
         q.pc \in {"periksa", "simpan", "hapus"} =>
           /\ q.id \in pernah
           /\ q.id \in Ada => jadwal[q.id].sekolah = q.baris.sekolah
           /\ \A p \in Permintaan \ {r} :
                Memegang(p) /\ req[p].id = q.id => req[p].baris.sekolah = q.baris.sekolah,
         q.pc = "buat" => ~CheckTabrakan(q.baris, NULL),
         q.pc = "simpan" => ~CheckTabrakan(q.baris, q.id) \/ jadwal[q.id] = q.baris
  PROVE  IInv'
<1>1. /\ Menjadi(r, q) /\ usang' = usang \ {r}
      /\ UNCHANGED <<jadwal, pernah, tercela>>
  BY DEF Membaca
<1>2. TypeOK'
  BY <1>1, TypeMenjadi DEF IInv, TypeOK
<1>3. req'[r] = q /\ \A p \in Permintaan : p # r => req'[p] = req[p]
  BY <1>1, ReqBaru DEF IInv
<1>4. Ada' = Ada
  BY <1>1 DEF Ada
<1>5. (Ada \subseteq pernah)' /\ IrisanTercela'
  BY <1>1, <1>4 DEF IInv, IrisanTercela, Beririsan
<1>6. SatuSekolah'
  BY <1>3 DEF IInv, SatuSekolah, Memegang
<1>7. ASSUME NEW p \in Permintaan PROVE (Pegangan(p) /\ (p \notin usang => Terperiksa(p)))'
  <2>1. CASE p = r
    BY <1>1, <1>3, <1>4, <2>1 DEF Pegangan, Memegang, Terperiksa, CheckTabrakan, Beririsan
  <2>2. CASE p # r
    <3>1. Pegangan(p) /\ (p \notin usang => Terperiksa(p))
      BY DEF IInv
    <3>2. QED
      BY <1>1, <1>3, <1>4, <2>2, <3>1 DEF Pegangan, Memegang, Terperiksa, CheckTabrakan, Beririsan
  <2>3. QED
    BY <2>1, <2>2
<1>8. QED
  BY <1>2, <1>5, <1>6, <1>7 DEF IInv

LEMMA BebasBaik ==
  ASSUME IInv, NEW r \in Permintaan, Membaca(r, Bebas)
  PROVE  IInv'
  BY MembacaBaik DEF Bebas

\* Whoever works on a stored lesson works for its school.
LEMMA PegangAda ==
  ASSUME IInv, NEW i \in Ada, NEW p \in Permintaan, Memegang(p), req[p].id = i
  PROVE  req[p].baris.sekolah = jadwal[i].sekolah
  BY DEF IInv, Pegangan

LEMMA TambahBaik ==
  ASSUME IInv, NEW r \in Permintaan, NEW b \in Pelajaran, TambahJadwal(r, b)
  PROVE  IInv'
<1> DEFINE q == [pc |-> "buat", id |-> NULL, baris |-> b]
<1>1. q \in Berjalan /\ q.pc = "buat" /\ q.baris = b
  BY DEF Berjalan
<1>2. ~CheckTabrakan(b, NULL) /\ Membaca(r, q)
  BY DEF TambahJadwal
<1> HIDE DEF q
<1>3. QED
  BY <1>1, <1>2, MembacaBaik

LEMMA UpdateBaik ==
  ASSUME IInv, NEW r \in Permintaan, NEW i \in JadwalID, NEW b \in Pelajaran,
         UpdateJadwal(r, i, b)
  PROVE  IInv'
<1>1. i \in Ada /\ i \in pernah /\ b.sekolah = jadwal[i].sekolah
  BY DEF UpdateJadwal, IInv
<1>2. \A p \in Permintaan \ {r} : Memegang(p) /\ req[p].id = i => req[p].baris.sekolah = b.sekolah
  BY <1>1, PegangAda
<1>3. ASSUME NEW pc \in {"periksa", "simpan"}, pc = "simpan" => b = jadwal[i],
             Membaca(r, [pc |-> pc, id |-> i, baris |-> b])
      PROVE  IInv'
  <2> DEFINE q == [pc |-> pc, id |-> i, baris |-> b]
  <2>1. q \in Berjalan /\ q.pc = pc /\ q.id = i /\ q.baris = b
    BY DEF Berjalan
  <2>2. Membaca(r, q)
    BY <1>3
  <2> HIDE DEF q
  <2>3. QED
    BY <1>1, <1>2, <1>3, <2>1, <2>2, MembacaBaik
<1>4. QED
  BY <1>3 DEF UpdateJadwal

LEMMA PeriksaBaik ==
  ASSUME IInv, NEW r \in Permintaan, Periksa(r)
  PROVE  IInv'
<1>1. req[r] \in Berjalan /\ Pegangan(r) /\ req[r].pc = "periksa" /\ Memegang(r)
  BY Sedang DEF IInv, Periksa, Memegang
<1>2. CASE CheckTabrakan(req[r].baris, req[r].id)
  BY <1>2, BebasBaik DEF Periksa
<1>3. CASE ~CheckTabrakan(req[r].baris, req[r].id)
  <2> DEFINE q == [req[r] EXCEPT !.pc = "simpan"]
  <2>1. q \in Berjalan /\ q.pc = "simpan" /\ q.id = req[r].id /\ q.baris = req[r].baris
    BY <1>1 DEF Berjalan
  <2>2. Membaca(r, q)
    BY <1>3 DEF Periksa
  <2>3. \A p \in Permintaan \ {r} :
          Memegang(p) /\ req[p].id = req[r].id => req[p].baris.sekolah = req[r].baris.sekolah
    BY <1>1 DEF IInv, SatuSekolah
  <2> HIDE DEF q
  <2>4. QED
    BY <1>1, <1>3, <2>1, <2>2, <2>3, MembacaBaik DEF Pegangan
<1>4. QED
  BY <1>2, <1>3

LEMMA DeleteBaik ==
  ASSUME IInv, NEW r \in Permintaan, NEW i \in JadwalID, DeleteJadwal(r, i)
  PROVE  IInv'
<1> DEFINE q == [pc |-> "hapus", id |-> i, baris |-> jadwal[i]]
<1>1. i \in Ada /\ i \in pernah /\ Membaca(r, q)
  BY DEF DeleteJadwal, IInv
<1>2. q \in Berjalan /\ q.pc = "hapus" /\ q.id = i /\ q.baris = jadwal[i]
  BY <1>1 DEF Berjalan, Ada, IInv, TypeOK
<1>3. \A p \in Permintaan \ {r} :
        Memegang(p) /\ req[p].id = i => req[p].baris.sekolah = jadwal[i].sekolah
  BY <1>1, PegangAda
<1> HIDE DEF q
<1>4. QED
  BY <1>1, <1>2, <1>3, MembacaBaik

\* A write of request r for its school under key i: whoever else works on i does
\* so for that school, and nobody of another school notices.
LEMMA TulisBaik ==
  ASSUME IInv, NEW r \in Permintaan, req[r] \in Berjalan, NEW i \in JadwalID,
         NEW b \in Pelajaran \cup {NULL}, SelesaiMenulis(r),
         jadwal' = [jadwal EXCEPT ![i] = b],
         b # NULL => b.sekolah = req[r].baris.sekolah,
         i \in Ada => jadwal[i].sekolah = req[r].baris.sekolah,
         \A p \in Permintaan \ {r} :
           Memegang(p) /\ req[p].id = i => req[p].baris.sekolah = req[r].baris.sekolah,
         pernah \subseteq pernah', pernah' \subseteq JadwalID, i \in pernah',
         tercela' \subseteq JadwalID, IrisanTercela'
  PROVE  IInv'
<1>1. /\ Menjadi(r, Bebas)
      /\ usang' = (usang \ {r}) \cup {p \in Permintaan \ {r} :
                     /\ req[p] # Bebas
                     /\ req[p].baris.sekolah = req[r].baris.sekolah}
  BY DEF SelesaiMenulis
<1>2. jadwal'[i] = b /\ \A j \in JadwalID : j # i => jadwal'[j] = jadwal[j]
  BY DEF IInv, TypeOK
<1>3. TypeOK'
  BY <1>1, TypeMenjadi DEF IInv, TypeOK
<1>4. (Ada \subseteq pernah)'
  BY <1>2 DEF IInv, Ada
<1>5. req'[r] = Bebas /\ \A p \in Permintaan : p # r => req'[p] = req[p]
  BY <1>1, ReqBaru DEF IInv
<1>6. SatuSekolah'
  BY <1>5 DEF IInv, SatuSekolah, Memegang, Bebas
<1>7. ASSUME NEW p \in Permintaan, p # r
      PROVE  Pegangan(p)'
  <2>1. Pegangan(p) /\ req'[p] = req[p]
    BY <1>5, <1>7 DEF IInv
  <2>2. CASE Memegang(p) /\ req[p].id = i
    BY <1>2, <1>7, <2>1, <2>2 DEF Pegangan, Ada, Memegang
  <2>3. CASE Memegang(p) /\ req[p].id # i
    BY <1>2, <2>1, <2>3 DEF Pegangan, Ada, Memegang
  <2>4. CASE ~Memegang(p)
    BY <2>1, <2>4 DEF Pegangan, Memegang
  <2>5. QED
    BY <2>2, <2>3, <2>4
<1>8. ASSUME NEW p \in Permintaan, p # r, p \notin usang'
      PROVE  Terperiksa(p)'
  <2>1. p \notin usang /\ (req[p] # Bebas => req[p].baris.sekolah # req[r].baris.sekolah)
    BY <1>1, <1>8
  <2>2. Terperiksa(p) /\ req'[p] = req[p]
    BY <1>5, <1>8, <2>1 DEF IInv
  <2>3. CASE req[p].pc \in {"buat", "simpan"}
    <3>1. req[p] # Bebas /\ req[p] \in Berjalan
      BY <2>3, Sedang DEF Bebas, IInv
    <3>2. ~Beririsan(b, req[p].baris) \/ b = NULL
      BY <2>1, <3>1 DEF Beririsan
    <3>3. req[p].pc = "simpan" => req[p].id # i
      BY <1>8, <2>1, <3>1 DEF Memegang
    <3>4. ASSUME NEW k, CheckTabrakan(req[p].baris, k)' PROVE CheckTabrakan(req[p].baris, k)
      <4>1. PICK j \in Ada' \ {k} : Beririsan(jadwal'[j], req'[p].baris)
        BY <3>4 DEF CheckTabrakan, Beririsan
      <4>2. j # i
        BY <1>2, <2>2, <3>2, <4>1 DEF Ada
      <4>3. j \in Ada /\ jadwal'[j] = jadwal[j]
        BY <1>2, <4>1, <4>2 DEF Ada
      <4>4. QED
        BY <2>2, <4>1, <4>3 DEF CheckTabrakan
    <3>5. QED
      BY <1>2, <2>2, <2>3, <3>1, <3>3, <3>4 DEF Terperiksa, Berjalan
  <2>4. CASE req[p].pc \notin {"buat", "simpan"}
    BY <2>2, <2>4 DEF Terperiksa
  <2>5. QED
    BY <2>3, <2>4
<1>9. Pegangan(r)' /\ Terperiksa(r)'
  BY <1>5 DEF Pegangan, Memegang, Terperiksa, Bebas
<1>10. QED
  BY <1>3, <1>4, <1>6, <1>7, <1>8, <1>9 DEF IInv

\* Storing lesson b under key i: b is checked against the others, or the key is
\* marked.
LEMMA IrisanTulis ==
  ASSUME IInv, NEW i \in JadwalID, NEW b \in Pelajaran, jadwal' = [jadwal EXCEPT ![i] = b],
         tercela \ {i} \subseteq tercela',
         \/ i \in tercela'
         \/ \A j \in Ada \ {i} : ~Beririsan(jadwal[j], b)
  PROVE  IrisanTercela'
<1>1. /\ Ada' = Ada \cup {i}
      /\ jadwal'[i] = b
      /\ \A j \in Ada : j # i => jadwal'[j] = jadwal[j]
  BY NullAssumption DEF Ada, IInv, TypeOK
<1>2. \A j \in Ada : jadwal[j] \in Pelajaran
  BY DEF Ada, IInv, TypeOK
<1>3. SUFFICES ASSUME NEW k \in Ada', NEW j \in Ada', k # j, Beririsan(jadwal'[k], jadwal'[j])
               PROVE  k \in tercela' \/ j \in tercela'
  BY DEF IrisanTercela
<1>4. CASE k # i /\ j # i
  BY <1>1, <1>3, <1>4 DEF IInv, IrisanTercela
<1>5. CASE j = i
  BY <1>1, <1>3, <1>5
<1>6. CASE k = i
  BY <1>1, <1>2, <1>3, <1>6, BeririsanSimetris
<1>7. QED
  BY <1>4, <1>5, <1>6

LEMMA BuatBaik ==
  ASSUME IInv, NEW r \in Permintaan, BuatJadwal(r)
  PROVE  IInv'
<1>1. req[r] \in Berjalan /\ req[r].pc = "buat" /\ SelesaiMenulis(r) /\ req[r].baris \in Pelajaran
  BY Sedang DEF IInv, BuatJadwal, Berjalan
<1>2. PICK i \in JadwalID \ pernah :
        /\ jadwal' = [jadwal EXCEPT ![i] = req[r].baris]
        /\ pernah' = pernah \cup {i}
        /\ tercela' = IF r \in usang THEN tercela \cup {i} ELSE tercela
  BY DEF BuatJadwal
<1>3. i \notin Ada /\ \A p \in Permintaan : Memegang(p) => req[p].id # i
  BY <1>2 DEF IInv, Pegangan
<1>4. i \in tercela' \/ \A j \in Ada \ {i} : ~Beririsan(jadwal[j], req[r].baris)
  BY <1>1, <1>2, NullAssumption DEF IInv, Terperiksa, CheckTabrakan, Ada
<1>5. IrisanTercela'
  BY <1>1, <1>2, <1>4, IrisanTulis
<1>6. tercela' \subseteq JadwalID /\ pernah' \subseteq JadwalID
  BY <1>2 DEF IInv, TypeOK
<1>7. PICK b \in Pelajaran : b = req[r].baris
  BY <1>1
<1>8. QED
  BY <1>1, <1>2, <1>3, <1>5, <1>6, <1>7, TulisBaik

LEMMA SimpanBaik ==
  ASSUME IInv, NEW r \in Permintaan, SimpanJadwal(r)
  PROVE  IInv'
<1>1. /\ req[r] \in Berjalan /\ req[r].pc = "simpan" /\ Memegang(r) /\ Pegangan(r)
      /\ SelesaiMenulis(r) /\ req[r].baris \in Pelajaran
      /\ UNCHANGED pernah
  BY Sedang DEF IInv, SimpanJadwal, Berjalan, Memegang
<1>2. PICK i, b : i = req[r].id /\ b = req[r].baris
  OBVIOUS
<1>3. /\ i \in pernah /\ i \in JadwalID /\ b \in Pelajaran
      /\ i \in Ada => jadwal[i].sekolah = b.sekolah
  BY <1>1, <1>2 DEF Pegangan, IInv, TypeOK
<1>4. /\ jadwal' = [jadwal EXCEPT ![i] = b]
      /\ tercela' = IF r \in usang THEN tercela \cup {i}
                    ELSE IF jadwal[i] = b THEN tercela ELSE tercela \ {i}
  BY <1>2 DEF SimpanJadwal
<1>5. IrisanTercela'
  <2>1. CASE jadwal[i] = b /\ r \notin usang
    <3>1. jadwal' = jadwal /\ tercela' = tercela
      BY <1>4, <2>1 DEF IInv, TypeOK
    <3>2. QED
      BY <3>1 DEF IInv, IrisanTercela, Ada, Beririsan
  <2>2. CASE jadwal[i] # b \/ r \in usang
    <3>1. i \in tercela' \/ \A j \in Ada \ {i} : ~Beririsan(jadwal[j], b)
      BY <1>1, <1>2, <1>4, <2>2 DEF IInv, Terperiksa, CheckTabrakan
    <3>2. QED
      BY <1>3, <1>4, <3>1, IrisanTulis
  <2>3. QED
    BY <2>1, <2>2
<1>6. \A p \in Permintaan \ {r} :
        Memegang(p) /\ req[p].id = i => req[p].baris.sekolah = req[r].baris.sekolah
  BY <1>1, <1>2 DEF IInv, SatuSekolah
<1>7. tercela' \subseteq JadwalID /\ pernah' \subseteq JadwalID
  BY <1>1, <1>3, <1>4 DEF IInv, TypeOK
<1>8. QED
  BY <1>1, <1>2, <1>3, <1>4, <1>5, <1>6, <1>7, TulisBaik

\* Removing a lesson creates no collision.
LEMMA HapusBaik ==
  ASSUME IInv, NEW r \in Permintaan, HapusJadwal(r)
  PROVE  IInv'
<1>1. /\ req[r] \in Berjalan /\ req[r].pc = "hapus" /\ Memegang(r) /\ Pegangan(r)
      /\ SelesaiMenulis(r) /\ UNCHANGED pernah
  BY Sedang DEF IInv, HapusJadwal, Memegang
<1>2. PICK i : i = req[r].id
  OBVIOUS
<1>3. /\ i \in pernah /\ i \in JadwalID
      /\ i \in Ada => jadwal[i].sekolah = req[r].baris.sekolah
  BY <1>1, <1>2 DEF Pegangan, IInv, TypeOK
<1>4. jadwal' = [jadwal EXCEPT ![i] = NULL] /\ tercela' = tercela \ {i}
  BY <1>2 DEF HapusJadwal
<1>5. Ada' = Ada \ {i} /\ \A j \in Ada' : jadwal'[j] = jadwal[j]
  BY <1>4 DEF Ada, IInv, TypeOK
<1>6. IrisanTercela'
  BY <1>4, <1>5 DEF IInv, IrisanTercela
<1>7. \A p \in Permintaan \ {r} :
        Memegang(p) /\ req[p].id = i => req[p].baris.sekolah = req[r].baris.sekolah
  BY <1>1, <1>2 DEF IInv, SatuSekolah
<1>8. tercela' \subseteq JadwalID /\ pernah' \subseteq JadwalID
  BY <1>1, <1>4 DEF IInv, TypeOK
<1>9. QED
  BY <1>1, <1>3, <1>4, <1>6, <1>7, <1>8, TulisBaik

LEMMA InvInit == Init => IInv
  BY DEF Init, IInv, TypeOK, Ada, IrisanTercela, SatuSekolah, Pegangan, Memegang, Terperiksa, Bebas

LEMMA InvNext == IInv /\ [Next]_vars => IInv'
<1> SUFFICES ASSUME IInv, [Next]_vars PROVE IInv'
  OBVIOUS
<1>1. ASSUME NEW r \in Permintaan, Terima(r) PROVE IInv'
  BY <1>1, TambahBaik, UpdateBaik, DeleteBaik DEF Terima
<1>2. ASSUME NEW r \in Permintaan, Lanjut(r) PROVE IInv'
  BY <1>2, BuatBaik, PeriksaBaik, SimpanBaik, HapusBaik, BebasBaik DEF Lanjut, Gagal
<1>3. CASE UNCHANGED vars
  BY <1>3 DEF vars, IInv, TypeOK, Ada, IrisanTercela, SatuSekolah, Pegangan, Memegang,
              Terperiksa, CheckTabrakan, Beririsan
<1>4. QED
  BY <1>1, <1>2, <1>3 DEF Next

\* Whatever overlaps and fails, two lessons of a school share a moment of a day
\* only if one was stored after another request wrote a lesson of the school since
\* its check or read, or their texts do not sort as times.
THEOREM TabrakanBersebabBenar == Spec => []TabrakanBersebab
<1>1. IInv => TabrakanBersebab
  <2> SUFFICES ASSUME IInv, NEW i \in Ada, NEW j \in Ada, Bertabrakan(i, j),
                      Terurut(jadwal[i], jadwal[j])
               PROVE  i \in tercela \/ j \in tercela
    BY DEF TabrakanBersebab
  <2>1. jadwal[i] \in Pelajaran /\ jadwal[j] \in Pelajaran
    BY DEF IInv, TypeOK, Ada
  <2>2. Beririsan(jadwal[i], jadwal[j])
    BY <2>1, BersamaanBeririsan DEF Bertabrakan
  <2>3. QED
    BY <2>2 DEF IInv, IrisanTercela, Bertabrakan
<1>2. QED
  BY <1>1, InvInit, InvNext, PTL DEF Spec
=============================================================================
