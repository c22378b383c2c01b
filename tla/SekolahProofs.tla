--------------------------- MODULE SekolahProofs ---------------------------
(***************************************************************************)
(* Proofs about Sekolah for any number of schools, addresses, documents    *)
(* and concurrent requests.  The rows alone are not inductive: a Save      *)
(* stores a copy taken many steps earlier, so the invariant also speaks of *)
(* the copies that requests hold.  A copy also still tells what its        *)
(* request made of the row it read (JInv): a Save of a copy whose row has  *)
(* not moved since is a step of SekolahAlur.                               *)
(***************************************************************************)
EXTENDS Sekolah, TLAPS

\* The addresses with an administrator account, and those among them whose
\* password was handed to the mailer.  Both sets only grow.
BerAkun == {e \in Email : pengguna[e] = "admin_sekolah"}
Berkredensial == {e \in BerAkun : <<"kredensial", e>> \in surat}

\* What every version of a row satisfies, stored or copied, when K are the
\* addresses with credentials.
BarisSah(b, K) ==
  /\ b.status \in {"aktif", "nonaktif"} <=> b.admin # NULL
  /\ b.admin \in {NULL, b.email}
  /\ b.admin # NULL => b.email \in K
  /\ b.dokumen \in {{}, Dokumen}
  /\ b.status = "pengajuan" => b.dokumen = {}

\* What request q satisfies before each of its calls, when T are the keys in
\* use, A the addresses with accounts, K those with credentials, F the storage.
SalinanSah(q, T, A, K, F) ==
  /\ q.pc \notin {"bebas", "buat"} => q.id \in T /\ q.sek.dokumen \subseteq F[q.id]
  /\ q.pc \in {"buat", "unggah"} =>
       /\ q.sek.status = "pengajuan"
       /\ q.sek.admin = NULL
       /\ q.sek.dokumen \cup q.sisa = Dokumen
  /\ q.pc = "buat" => q.sek.dokumen = {}
  /\ q.pc = "akun" => q.sek.status = "aktif" /\ q.sek.dokumen \in {{}, Dokumen}
  /\ q.pc = "kredensial" =>
       /\ q.sek.status = "aktif"
       /\ q.sek.admin = q.sek.email
       /\ q.sek.email \in A
       /\ q.sek.dokumen \in {{}, Dokumen}
  /\ q.pc \in {"simpan", "catat", "kabari"} => BarisSah(q.sek, K)

TabelSah ==
  \A s \in Terdaftar : /\ BarisSah(sekolah[s], Berkredensial)
                       /\ sekolah[s].dokumen \subseteq berkas[s]

PermintaanSah ==
  \A r \in Permintaan : SalinanSah(req[r], Terdaftar, BerAkun, Berkredensial, berkas)

EmailBerbeda ==
  \A s, t \in Terdaftar : sekolah[s].email = sekolah[t].email => s = t

IInv == TypeOK /\ TabelSah /\ PermintaanSah /\ EmailBerbeda

----------------------------------------------------------------------------

LEMMA TypeInit == Init => TypeOK
  BY NullAssumption DEF Init, TypeOK

LEMMA Sedang ==
  ASSUME TypeOK, NEW r \in Permintaan, req[r].pc # "bebas"
  PROVE  req[r] \in Berjalan
  BY DEF TypeOK, Bebas

\* A request that becomes a well-formed request or ends keeps req well-typed.
LEMMA TypeMenjadi ==
  ASSUME TypeOK, NEW r \in Permintaan, NEW q \in Berjalan \cup {Bebas}, Menjadi(r, q)
  PROVE  req' \in [Permintaan -> Berjalan \cup {Bebas}]
  BY DEF TypeOK, Menjadi

LEMMA VersiRow ==
  ASSUME NEW b \in Row
  PROVE  VersiBaris(b) \in Versi
  BY DEF VersiBaris, Versi, Row

LEMMA VersiSah ==
  ASSUME TypeOK, NEW id \in Terdaftar \cup {NULL}
  PROVE  /\ id \in SekolahID \cup {NULL}
         /\ (IF id = NULL THEN NULL ELSE VersiBaris(sekolah[id])) \in Versi \cup {NULL}
<1>1. CASE id \in Terdaftar
  <2>1. sekolah[id] \in Row /\ id \in SekolahID
    BY <1>1 DEF TypeOK, Terdaftar
  <2>2. QED
    BY <2>1, VersiRow
<1>2. CASE id = NULL
  BY <1>2
<1>3. QED
  BY <1>1, <1>2

LEMMA TypeMulai ==
  ASSUME TypeOK, NEW r \in Permintaan, NEW op \in Operasi, NEW pc \in Langkah,
         NEW id \in Terdaftar \cup {NULL}, NEW sek \in Row, NEW sisa \in SUBSET Dokumen,
         Mulai(r, op, pc, id, sek, sisa)
  PROVE  TypeOK'
<1> DEFINE q == [op |-> op, pc |-> pc, id |-> id, sek |-> sek, sisa |-> sisa,
               asal |-> IF id = NULL THEN NULL ELSE VersiBaris(sekolah[id])]
<1>1. q \in Berjalan
  BY VersiSah DEF Berjalan
<1>2. Menjadi(r, q)
  BY DEF Mulai
<1> HIDE DEF q
<1>3. req' \in [Permintaan -> Berjalan \cup {Bebas}]
  BY <1>1, <1>2, TypeMenjadi
<1>4. QED
  BY <1>3 DEF Mulai, TypeOK

LEMMA GantiLangkah ==
  ASSUME NEW q \in Berjalan, NEW pc \in Langkah
  PROVE  [q EXCEPT !.pc = pc] \in Berjalan
  BY DEF Berjalan

LEMMA GantiSalinan ==
  ASSUME NEW q \in Berjalan, NEW pc \in Langkah, NEW sek \in Row
  PROVE  [q EXCEPT !.pc = pc, !.sek = sek] \in Berjalan
  BY DEF Berjalan

LEMMA TypeNext == TypeOK /\ [Next]_vars => TypeOK'
<1> SUFFICES ASSUME TypeOK, [Next]_vars PROVE TypeOK'
  OBVIOUS
<1>1. ASSUME NEW r \in Permintaan, Terima(r) PROVE TypeOK'
  <2>0. \A s \in Terdaftar : sekolah[s] \in Row
    BY DEF Terdaftar, TypeOK
  <2>1. ASSUME NEW op \in {"baru", "lengkap"}, NEW e \in Email, PengajuanBaru(r, op, e)
        PROVE  TypeOK'
    BY <2>1, TypeMulai DEF PengajuanBaru, Operasi, Langkah, Row, Status
  <2>2. ASSUME NEW s \in SekolahID, UploadDokumen(r, s) PROVE TypeOK'
    BY <2>0, <2>2, TypeMulai DEF UploadDokumen, Operasi, Langkah
  <2>3. ASSUME NEW s \in SekolahID, NEW baru \in StatusDiminta, Verifikasi(r, s, baru)
        PROVE  TypeOK'
    <3>1. [sekolah[s] EXCEPT !.status = baru] \in Row
      BY <2>0, <2>3 DEF Verifikasi, Row, Status, StatusDiminta
    <3>2. QED
      BY <2>3, <3>1, TypeMulai DEF Verifikasi, Operasi, Langkah
  <2>4. ASSUME NEW s \in SekolahID, NEW e \in Email, PengajuanUlang(r, s, e)
        PROVE  TypeOK'
    <3>1. [sekolah[s] EXCEPT !.status = "pengajuan", !.email = e, !.dokumen = {}] \in Row
      BY <2>0, <2>4 DEF PengajuanUlang, Row, Status
    <3>2. QED
      BY <2>4, <3>1, TypeMulai DEF PengajuanUlang, Operasi, Langkah
  <2>5. ASSUME NEW s \in SekolahID, NEW e \in Email, UpdateMySekolah(r, e, s)
        PROVE  TypeOK'
    BY <2>0, <2>5, TypeMulai DEF UpdateMySekolah, Operasi, Langkah
  <2>6. ASSUME NEW s \in SekolahID, UpdateSekolah(r, s) PROVE TypeOK'
    BY <2>0, <2>6, TypeMulai DEF UpdateSekolah, Operasi, Langkah
  <2>7. QED
    BY <1>1, <2>1, <2>2, <2>3, <2>4, <2>5, <2>6 DEF Terima
<1>2. ASSUME NEW r \in Permintaan, Lanjut(r) PROVE TypeOK'
  <2>1. CASE BuatSekolah(r)
    <3>1. req[r] \in Berjalan
      BY <2>1, Sedang DEF BuatSekolah
    <3>2. PICK s \in SekolahID \ Terdaftar :
            /\ sekolah' = [sekolah EXCEPT ![s] = req[r].sek]
            /\ Menjadi(r, IF req[r].op = "lengkap"
                            THEN [req[r] EXCEPT !.pc = "unggah", !.id = s, !.asal = VersiBaris(req[r].sek)]
                            ELSE Bebas)
      BY <2>1 DEF BuatSekolah
    <3>3. sekolah' \in [SekolahID -> Row \cup {NULL}]
      BY <3>1, <3>2 DEF TypeOK, Berjalan
    <3>4. [req[r] EXCEPT !.pc = "unggah", !.id = s, !.asal = VersiBaris(req[r].sek)] \in Berjalan
      BY <3>1, VersiRow DEF Berjalan, Langkah
    <3>5. req' \in [Permintaan -> Berjalan \cup {Bebas}]
      BY <3>2, <3>4, TypeMenjadi
    <3>6. QED
      BY <2>1, <3>3, <3>5 DEF BuatSekolah, TypeOK
  <2>2. CASE UnggahBerkas(r)
    <3>1. req[r] \in Berjalan
      BY <2>2, Sedang DEF UnggahBerkas
    <3>2. PICK d \in req[r].sisa :
            /\ berkas' = [berkas EXCEPT ![req[r].id] = @ \cup {d}]
            /\ LET terakhir == req[r].sisa = {d}
                   sek == [req[r].sek EXCEPT
                             !.dokumen = @ \cup {d},
                             !.status = IF terakhir THEN "menunggu_verifikasi" ELSE @]
               IN Menjadi(r, [req[r] EXCEPT !.sek = sek, !.sisa = @ \ {d},
                                            !.pc = IF terakhir THEN "simpan" ELSE @])
      BY <2>2 DEF UnggahBerkas
    <3> DEFINE terakhir == req[r].sisa = {d}
               sek == [req[r].sek EXCEPT
                         !.dokumen = @ \cup {d},
                         !.status = IF terakhir THEN "menunggu_verifikasi" ELSE @]
               q == [req[r] EXCEPT !.sek = sek, !.sisa = @ \ {d},
                                   !.pc = IF terakhir THEN "simpan" ELSE @]
    <3>3. d \in Dokumen
      BY <3>1 DEF Berjalan
    <3>4. sek \in Row
      BY <3>1, <3>3 DEF Berjalan, Row, Status
    <3>5. q \in Berjalan
      <4> HIDE DEF sek
      <4> QED
        BY <3>1, <3>4 DEF Berjalan, Langkah
    <3>6. req' \in [Permintaan -> Berjalan \cup {Bebas}]
      <4> Menjadi(r, q)
        BY <3>2
      <4> HIDE DEF q
      <4> QED
        BY <3>5, TypeMenjadi
    <3>7. berkas' \in [SekolahID -> SUBSET Dokumen]
      BY <3>2, <3>3 DEF TypeOK
    <3>8. QED
      BY <2>2, <3>6, <3>7 DEF UnggahBerkas, TypeOK
  <2>3. CASE BuatAkun(r)
    <3> DEFINE sek == [req[r].sek EXCEPT !.admin = req[r].sek.email]
    <3>1. req[r] \in Berjalan
      BY <2>3, Sedang DEF BuatAkun
    <3>2. sek \in Row
      BY <3>1 DEF Berjalan, Row
    <3>3. [req[r] EXCEPT !.pc = "kredensial", !.sek = sek] \in Berjalan
      BY <3>1, <3>2, GantiSalinan DEF Langkah
    <3>4. Menjadi(r, [req[r] EXCEPT !.pc = "kredensial", !.sek = sek])
      BY <2>3 DEF BuatAkun, SetelahAkun
    <3>5. req' \in [Permintaan -> Berjalan \cup {Bebas}]
      BY <3>3, <3>4, TypeMenjadi
    <3>6. QED
      BY <2>3, <3>5 DEF BuatAkun, TypeOK, Role
  <2>4. CASE KirimKredensial(r)
    <3>1. req[r] \in Berjalan
      BY <2>4, Sedang DEF KirimKredensial
    <3>2. [req[r] EXCEPT !.pc = "simpan"] \in Berjalan
      BY <3>1, GantiLangkah DEF Langkah
    <3>3. req' \in [Permintaan -> Berjalan \cup {Bebas}]
      BY <2>4, <3>2, TypeMenjadi DEF KirimKredensial
    <3>4. surat' \subseteq Surat
      BY <2>4, <3>1 DEF KirimKredensial, TypeOK, Surat, Berjalan, Row
    <3>5. QED
      BY <2>4, <3>3, <3>4 DEF KirimKredensial, TypeOK
  <2>5. CASE Simpan(r)
    <3>1. req[r] \in Berjalan
      BY <2>5, Sedang DEF Simpan
    <3>2. [req[r] EXCEPT !.pc = "catat", !.asal = NULL] \in Berjalan
      BY <3>1 DEF Berjalan, Langkah
    <3>3. req' \in [Permintaan -> Berjalan \cup {Bebas}]
      BY <2>5, <3>2, TypeMenjadi DEF Simpan
    <3>4. sekolah' \in [SekolahID -> Row \cup {NULL}]
      BY <2>5, <3>1 DEF Simpan, TypeOK, Berjalan
    <3>5. QED
      BY <2>5, <3>3, <3>4 DEF Simpan, TypeOK
  <2>6. CASE CatatRiwayat(r)
    <3>1. req[r] \in Berjalan
      BY <2>6, Sedang DEF CatatRiwayat
    <3>2. [req[r] EXCEPT !.pc = "kabari"] \in Berjalan
      BY <3>1, GantiLangkah DEF Langkah
    <3>3. req' \in [Permintaan -> Berjalan \cup {Bebas}]
      BY <2>6, <3>2, TypeMenjadi DEF CatatRiwayat
    <3>4. riwayat' \subseteq SekolahID
      BY <2>6, <3>1 DEF CatatRiwayat, TypeOK, Berjalan
    <3>5. QED
      BY <2>6, <3>3, <3>4 DEF CatatRiwayat, TypeOK
  <2>7. CASE Kabari(r)
    <3>1. req[r] \in Berjalan
      BY <2>7, Sedang DEF Kabari
    <3>2. req' \in [Permintaan -> Berjalan \cup {Bebas}]
      BY <2>7, TypeMenjadi DEF Kabari
    <3>3. surat' \subseteq Surat
      BY <2>7, <3>1 DEF Kabari, TypeOK, Surat, Berjalan, Row
    <3>4. QED
      BY <2>7, <3>2, <3>3 DEF Kabari, TypeOK
  <2>8. CASE Gagal(r)
    BY <2>8, TypeMenjadi DEF Gagal, TypeOK
  <2>9. QED
    BY <1>2, <2>1, <2>2, <2>3, <2>4, <2>5, <2>6, <2>7, <2>8 DEF Lanjut
<1>3. ASSUME NEW e \in Email, DaftarLain(e) PROVE TypeOK'
  BY <1>3 DEF DaftarLain, TypeOK, Role
<1>4. CASE UNCHANGED vars
  BY <1>4 DEF vars, TypeOK
<1>5. QED
  BY <1>1, <1>2, <1>3, <1>4 DEF Next

\* Every variable of Sekolah always has its type: tables map keys to rows or
\* nothing, and a request is idle or holds one well-formed copy.
THEOREM TypeCorrect == Spec => []TypeOK
  BY TypeInit, TypeNext, PTL DEF Spec
----------------------------------------------------------------------------
(* The inductive invariant.                                                *)

LEMMA BarisTetap ==
  ASSUME NEW b, NEW K, NEW L, K \subseteq L, BarisSah(b, K)
  PROVE  BarisSah(b, L)
  BY DEF BarisSah

LEMMA SalinanTetap ==
  ASSUME NEW q \in Berjalan \cup {Bebas},
         NEW T \in SUBSET SekolahID, NEW U, T \subseteq U, NEW A, NEW B, A \subseteq B,
         NEW K, NEW L, K \subseteq L,
         NEW F, NEW G, \A s \in SekolahID : F[s] \subseteq G[s],
         SalinanSah(q, T, A, K, F)
  PROVE  SalinanSah(q, U, B, L, G)
  BY BarisTetap DEF SalinanSah

\* What every step does to the things copies depend on: they only grow.
Tumbuh ==
  /\ Terdaftar \subseteq Terdaftar'
  /\ BerAkun \subseteq BerAkun'
  /\ Berkredensial \subseteq Berkredensial'
  /\ \A s \in SekolahID : berkas[s] \subseteq berkas'[s]

\* A step of request r that leaves it as q: the other copies stay good.
LEMMA PermintaanTetap ==
  ASSUME TypeOK, PermintaanSah, Tumbuh, NEW r \in Permintaan, NEW q, Menjadi(r, q),
         SalinanSah(q, Terdaftar', BerAkun', Berkredensial', berkas')
  PROVE  PermintaanSah'
<1>1. ASSUME NEW p \in Permintaan, p # r
      PROVE  SalinanSah(req[p], Terdaftar', BerAkun', Berkredensial', berkas')
  <2>1. req[p] \in Berjalan \cup {Bebas} /\ Terdaftar \in SUBSET SekolahID
    BY DEF TypeOK, Terdaftar
  <2>2. SalinanSah(req[p], Terdaftar, BerAkun, Berkredensial, berkas)
    BY DEF PermintaanSah
  <2>3. QED
    BY <2>1, <2>2, SalinanTetap DEF Tumbuh
<1>2. \A p \in Permintaan : req'[p] = IF p = r THEN q ELSE req[p]
  BY DEF TypeOK, Menjadi
<1>3. QED
  BY <1>1, <1>2 DEF PermintaanSah

\* The tables are untouched by a step that changes neither rows nor mails.
LEMMA TabelTetap ==
  ASSUME TabelSah, EmailBerbeda, Tumbuh, UNCHANGED sekolah
  PROVE  TabelSah' /\ EmailBerbeda'
<1>1. Terdaftar' = Terdaftar
  BY DEF Terdaftar
<1>2. ASSUME NEW s \in Terdaftar
      PROVE  BarisSah(sekolah[s], Berkredensial') /\ sekolah[s].dokumen \subseteq berkas'[s]
  <2>1. BarisSah(sekolah[s], Berkredensial) /\ sekolah[s].dokumen \subseteq berkas[s]
    BY DEF TabelSah
  <2>2. BarisSah(sekolah[s], Berkredensial')
    BY <2>1, BarisTetap DEF Tumbuh
  <2>3. QED
    BY <2>1, <2>2 DEF Tumbuh, Terdaftar
<1>3. QED
  BY <1>1, <1>2 DEF TabelSah, EmailBerbeda

LEMMA BebasSah == \A T, A, K, F : SalinanSah(Bebas, T, A, K, F)
  BY DEF SalinanSah, Bebas

LEMMA TumbuhDiam ==
  UNCHANGED <<sekolah, pengguna, berkas, surat>> => Tumbuh
  BY DEF Tumbuh, Terdaftar, BerAkun, Berkredensial

\* Starting a request with a good copy keeps the invariant.
LEMMA MulaiSah ==
  ASSUME IInv, NEW r \in Permintaan, NEW op, NEW pc, NEW id, NEW sek, NEW sisa,
         Mulai(r, op, pc, id, sek, sisa),
         SalinanSah([op |-> op, pc |-> pc, id |-> id, sek |-> sek, sisa |-> sisa],
                    Terdaftar, BerAkun, Berkredensial, berkas)
  PROVE  TabelSah' /\ PermintaanSah' /\ EmailBerbeda'
<1> DEFINE q == [op |-> op, pc |-> pc, id |-> id, sek |-> sek, sisa |-> sisa,
                 asal |-> IF id = NULL THEN NULL ELSE VersiBaris(sekolah[id])]
<1>1. UNCHANGED <<sekolah, pengguna, berkas, surat>> /\ Menjadi(r, q)
  BY DEF Mulai
<1>2. Tumbuh
  BY <1>1, TumbuhDiam
<1>3. SalinanSah(q, Terdaftar', BerAkun', Berkredensial', berkas')
  BY <1>1 DEF Terdaftar, BerAkun, Berkredensial, SalinanSah
<1> HIDE DEF q
<1>4. QED
  BY <1>1, <1>2, <1>3, PermintaanTetap, TabelTetap DEF IInv

LEMMA InvInit == Init => IInv
<1> SUFFICES ASSUME Init PROVE IInv
  OBVIOUS
<1>1. Terdaftar = {}
  BY DEF Init, Terdaftar
<1>2. PermintaanSah
  BY BebasSah DEF Init, PermintaanSah
<1>3. QED
  BY <1>1, <1>2, TypeInit DEF IInv, TabelSah, EmailBerbeda

\* Reading, deciding and keeping a copy: each handler's first step.
LEMMA TerimaSah ==
  ASSUME IInv, NEW r \in Permintaan, Terima(r)
  PROVE  TabelSah' /\ PermintaanSah' /\ EmailBerbeda'
<1>0. \A s \in Terdaftar : /\ sekolah[s] \in Row
                           /\ BarisSah(sekolah[s], Berkredensial)
                           /\ sekolah[s].dokumen \subseteq berkas[s]
  BY DEF IInv, TypeOK, Terdaftar, TabelSah
<1>1. ASSUME NEW op, NEW e \in Email, PengajuanBaru(r, op, e)
      PROVE  TabelSah' /\ PermintaanSah' /\ EmailBerbeda'
  <2> DEFINE sek == [status |-> "pengajuan", dokumen |-> {}, admin |-> NULL, email |-> e]
  <2>1. SalinanSah([op |-> op, pc |-> "buat", id |-> NULL, sek |-> sek,
                    sisa |-> Dokumen], Terdaftar, BerAkun, Berkredensial, berkas)
    BY DEF SalinanSah
  <2>2. Mulai(r, op, "buat", NULL, sek, Dokumen)
    BY <1>1 DEF PengajuanBaru
  <2> HIDE DEF sek
  <2>3. QED
    BY <2>1, <2>2, MulaiSah
<1>2. ASSUME NEW s \in SekolahID, UploadDokumen(r, s)
      PROVE  TabelSah' /\ PermintaanSah' /\ EmailBerbeda'
  <2>1. SalinanSah([op |-> "unggah", pc |-> "unggah", id |-> s, sek |-> sekolah[s],
                    sisa |-> Dokumen], Terdaftar, BerAkun, Berkredensial, berkas)
    BY <1>0, <1>2 DEF UploadDokumen, SalinanSah, BarisSah
  <2>2. QED
    BY <1>2, <2>1, MulaiSah DEF UploadDokumen
<1>3. ASSUME NEW s \in SekolahID, NEW baru \in StatusDiminta, Verifikasi(r, s, baru)
      PROVE  TabelSah' /\ PermintaanSah' /\ EmailBerbeda'
  <2> DEFINE sek == [sekolah[s] EXCEPT !.status = baru]
             pertama == baru = "aktif" /\ sekolah[s].status = "menunggu_verifikasi"
             pc == IF pertama THEN "akun" ELSE "simpan"
  <2>1. /\ s \in Terdaftar
        /\ baru \in validStatusTransitions[sekolah[s].status]
        /\ Mulai(r, "verifikasi", pc, s, sek, {})
    BY <1>3 DEF Verifikasi
  <2>2. /\ sek.status = baru
        /\ sek.admin = sekolah[s].admin
        /\ sek.email = sekolah[s].email
        /\ sek.dokumen = sekolah[s].dokumen
    BY <1>0, <2>1 DEF Row
  <2>3. ~pertama => BarisSah(sek, Berkredensial)
    BY <1>0, <2>1, <2>2 DEF BarisSah, validStatusTransitions, StatusDiminta, Row, Status
  <2>4. pertama => sek.status = "aktif" /\ sek.dokumen \in {{}, Dokumen}
    BY <1>0, <2>1, <2>2 DEF BarisSah
  <2>5. sek.dokumen \subseteq berkas[s]
    BY <1>0, <2>1, <2>2
  <2> HIDE DEF sek, pertama
  <2>6. SalinanSah([op |-> "verifikasi", pc |-> pc, id |-> s, sek |-> sek, sisa |-> {}],
                   Terdaftar, BerAkun, Berkredensial, berkas)
    BY <2>1, <2>3, <2>4, <2>5 DEF SalinanSah
  <2> HIDE DEF pc
  <2>7. QED
    BY <2>1, <2>6, MulaiSah
<1>4. ASSUME NEW s \in SekolahID, NEW e \in Email, PengajuanUlang(r, s, e)
      PROVE  TabelSah' /\ PermintaanSah' /\ EmailBerbeda'
  <2> DEFINE sek == [sekolah[s] EXCEPT !.status = "pengajuan", !.email = e, !.dokumen = {}]
  <2>1. s \in Terdaftar /\ sekolah[s].status = "ditolak"
    BY <1>4 DEF PengajuanUlang
  <2>2. /\ sek.status = "pengajuan"
        /\ sek.admin = sekolah[s].admin
        /\ sek.email = e
        /\ sek.dokumen = {}
    BY <1>0, <2>1 DEF Row
  <2>3. Mulai(r, "ulang", "simpan", s, sek, {})
    BY <1>4 DEF PengajuanUlang
  <2> HIDE DEF sek
  <2>4. BarisSah(sek, Berkredensial)
    BY <1>0, <2>1, <2>2 DEF BarisSah
  <2>5. SalinanSah([op |-> "ulang", pc |-> "simpan", id |-> s, sek |-> sek, sisa |-> {}],
                   Terdaftar, BerAkun, Berkredensial, berkas)
    BY <2>1, <2>2, <2>4 DEF SalinanSah
  <2>6. QED
    BY <2>3, <2>5, MulaiSah
<1>5. ASSUME NEW s \in Terdaftar, Mulai(r, "perbarui", "simpan", s, sekolah[s], {})
      PROVE  TabelSah' /\ PermintaanSah' /\ EmailBerbeda'
  <2>1. SalinanSah([op |-> "perbarui", pc |-> "simpan", id |-> s, sek |-> sekolah[s],
                    sisa |-> {}], Terdaftar, BerAkun, Berkredensial, berkas)
    BY <1>0 DEF SalinanSah
  <2>2. QED
    BY <1>5, <2>1, MulaiSah
<1>6. QED
  BY <1>1, <1>2, <1>3, <1>4, <1>5 DEF Terima, UpdateMySekolah, UpdateSekolah

\* Ending a request, and every step that leaves the school table alone.
LEMMA TabelDiamSah ==
  ASSUME IInv, TypeOK', NEW r \in Permintaan, NEW q, Menjadi(r, q), UNCHANGED sekolah, Tumbuh,
         SalinanSah(q, Terdaftar', BerAkun', Berkredensial', berkas')
  PROVE  IInv'
  BY PermintaanTetap, TabelTetap DEF IInv

LEMMA BuatSekolahSah ==
  ASSUME IInv, TypeOK', NEW r \in Permintaan, BuatSekolah(r)
  PROVE  IInv'
<1> DEFINE baris == req[r].sek
<1>1. req[r] \in Berjalan /\ SalinanSah(req[r], Terdaftar, BerAkun, Berkredensial, berkas)
  BY Sedang DEF IInv, PermintaanSah, BuatSekolah
<1>2. PICK s \in SekolahID \ Terdaftar :
        /\ sekolah' = [sekolah EXCEPT ![s] = baris]
        /\ Menjadi(r, IF req[r].op = "lengkap"
                        THEN [req[r] EXCEPT !.pc = "unggah", !.id = s, !.asal = VersiBaris(req[r].sek)]
                            ELSE Bebas)
  BY DEF BuatSekolah
<1>3. /\ UNCHANGED <<pengguna, berkas, riwayat, surat>>
      /\ req[r].pc = "buat"
      /\ \A t \in Terdaftar : sekolah[t].email # baris.email
  BY NullAssumption DEF BuatSekolah, EmailUnik, Terdaftar
<1>4. baris \in Row /\ baris # NULL
  BY <1>1, NullAssumption DEF Berjalan
<1>5. Terdaftar' = Terdaftar \cup {s} /\ sekolah'[s] = baris
      /\ \A t \in Terdaftar : sekolah'[t] = sekolah[t]
  BY <1>2, <1>4 DEF Terdaftar, IInv, TypeOK
<1>6. Tumbuh /\ BerAkun' = BerAkun /\ Berkredensial' = Berkredensial /\ berkas' = berkas
  BY <1>3, <1>5 DEF Tumbuh, BerAkun, Berkredensial
<1>7. BarisSah(baris, Berkredensial) /\ baris.dokumen = {}
  BY <1>1, <1>3 DEF SalinanSah, BarisSah
<1>8. TabelSah'
  BY <1>5, <1>6, <1>7 DEF TabelSah, IInv
<1>9. EmailBerbeda'
  BY <1>3, <1>5 DEF EmailBerbeda, IInv
<1>10. PermintaanSah'
  <2> DEFINE q == IF req[r].op = "lengkap"
                    THEN [req[r] EXCEPT !.pc = "unggah", !.id = s, !.asal = VersiBaris(req[r].sek)]
                          ELSE Bebas
  <2>1. SalinanSah(q, Terdaftar', BerAkun', Berkredensial', berkas')
    <3>1. CASE req[r].op = "lengkap"
      <4>1. q.pc = "unggah" /\ q.id = s /\ q.sek = baris /\ q.sisa = req[r].sisa
        BY <1>1, <3>1 DEF Berjalan
      <4> HIDE DEF q
      <4>2. QED
        BY <1>1, <1>3, <1>5, <1>7, <4>1 DEF SalinanSah
    <3>2. CASE req[r].op # "lengkap"
      BY <3>2, BebasSah
    <3>3. QED
      BY <3>1, <3>2
  <2>2. Menjadi(r, q)
    BY <1>2
  <2> HIDE DEF q
  <2>3. QED
    BY <1>6, <2>1, <2>2, PermintaanTetap DEF IInv
<1>11. QED
  BY <1>8, <1>9, <1>10 DEF IInv

LEMMA UnggahBerkasSah ==
  ASSUME IInv, TypeOK', NEW r \in Permintaan, UnggahBerkas(r)
  PROVE  IInv'
<1>1. req[r] \in Berjalan /\ SalinanSah(req[r], Terdaftar, BerAkun, Berkredensial, berkas)
  BY Sedang DEF IInv, PermintaanSah, UnggahBerkas
<1>2. PICK d \in req[r].sisa :
        /\ berkas' = [berkas EXCEPT ![req[r].id] = @ \cup {d}]
        /\ LET terakhir == req[r].sisa = {d}
               sek == [req[r].sek EXCEPT
                         !.dokumen = @ \cup {d},
                         !.status = IF terakhir THEN "menunggu_verifikasi" ELSE @]
           IN Menjadi(r, [req[r] EXCEPT !.sek = sek, !.sisa = @ \ {d},
                                        !.pc = IF terakhir THEN "simpan" ELSE @])
  BY DEF UnggahBerkas
<1> DEFINE terakhir == req[r].sisa = {d}
           sek == [req[r].sek EXCEPT
                     !.dokumen = @ \cup {d},
                     !.status = IF terakhir THEN "menunggu_verifikasi" ELSE @]
           q == [req[r] EXCEPT !.sek = sek, !.sisa = @ \ {d},
                               !.pc = IF terakhir THEN "simpan" ELSE @]
<1>3. req[r].pc = "unggah" /\ UNCHANGED <<sekolah, pengguna, riwayat, surat>>
  BY DEF UnggahBerkas
<1>4. /\ req[r].id \in Terdaftar
      /\ req[r].sek.dokumen \subseteq berkas[req[r].id]
      /\ req[r].sek.status = "pengajuan"
      /\ req[r].sek.admin = NULL
      /\ req[r].sek.dokumen \cup req[r].sisa = Dokumen
  BY <1>1, <1>3 DEF SalinanSah
<1>5. /\ berkas'[req[r].id] = berkas[req[r].id] \cup {d}
      /\ \A s \in SekolahID : berkas[s] \subseteq berkas'[s]
  BY <1>2, <1>4 DEF IInv, TypeOK, Terdaftar
<1>6. Tumbuh /\ Terdaftar' = Terdaftar
  BY <1>3, <1>5 DEF Tumbuh, Terdaftar, BerAkun, Berkredensial
<1>7. /\ sek.dokumen = req[r].sek.dokumen \cup {d}
      /\ sek.admin = NULL
      /\ sek.status = IF terakhir THEN "menunggu_verifikasi" ELSE "pengajuan"
  BY <1>1, <1>4 DEF Berjalan, Row
<1>8. terakhir => sek.dokumen = Dokumen
  BY <1>4, <1>7
<1>9. /\ q.id = req[r].id
      /\ q.sek = sek
      /\ q.sisa = req[r].sisa \ {d}
      /\ q.pc = IF terakhir THEN "simpan" ELSE "unggah"
  <2> HIDE DEF sek
  <2> QED
    BY <1>1, <1>3 DEF Berjalan
<1>10. Menjadi(r, q)
  BY <1>2
<1> HIDE DEF sek, q, terakhir
<1>11. sek.dokumen \cup q.sisa = Dokumen /\ sek.dokumen \subseteq berkas'[q.id]
  BY <1>4, <1>5, <1>7, <1>9
<1>12. terakhir => BarisSah(sek, Berkredensial')
  BY <1>7, <1>8 DEF BarisSah
<1>13. SalinanSah(q, Terdaftar', BerAkun', Berkredensial', berkas')
  BY <1>4, <1>6, <1>7, <1>9, <1>11, <1>12 DEF SalinanSah
<1>14. QED
  BY <1>3, <1>6, <1>10, <1>13, TabelDiamSah

LEMMA BuatAkunSah ==
  ASSUME IInv, TypeOK', NEW r \in Permintaan, BuatAkun(r)
  PROVE  IInv'
<1> DEFINE sek == [req[r].sek EXCEPT !.admin = req[r].sek.email]
           q == [req[r] EXCEPT !.pc = "kredensial", !.sek = sek]
<1>1. req[r] \in Berjalan /\ SalinanSah(req[r], Terdaftar, BerAkun, Berkredensial, berkas)
  BY Sedang DEF IInv, PermintaanSah, BuatAkun
<1>2. /\ req[r].pc = "akun"
      /\ pengguna[req[r].sek.email] = NULL
      /\ pengguna' = [pengguna EXCEPT ![req[r].sek.email] = "admin_sekolah"]
      /\ UNCHANGED <<sekolah, berkas, riwayat, surat>>
      /\ Menjadi(r, q)
  BY DEF BuatAkun, SetelahAkun
<1>3. req[r].sek \in Row /\ req[r].sek.email \in Email
  BY <1>1 DEF Berjalan, Row
<1>4. /\ sek.status = req[r].sek.status
      /\ sek.dokumen = req[r].sek.dokumen
      /\ sek.email = req[r].sek.email
      /\ sek.admin = req[r].sek.email
  BY <1>3 DEF Row
<1>5. BerAkun' = BerAkun \cup {req[r].sek.email}
  BY <1>2, <1>3 DEF BerAkun, IInv, TypeOK
<1>6. Tumbuh /\ Terdaftar' = Terdaftar
  BY <1>2, <1>5 DEF Tumbuh, Terdaftar, Berkredensial
<1>7. q.id = req[r].id /\ q.sek = sek /\ q.pc = "kredensial"
  <2> HIDE DEF sek
  <2> QED
    BY <1>1 DEF Berjalan
<1> HIDE DEF sek, q
<1>8. SalinanSah(q, Terdaftar', BerAkun', Berkredensial', berkas')
  BY <1>1, <1>2, <1>4, <1>5, <1>6, <1>7 DEF SalinanSah
<1>9. QED
  BY <1>2, <1>6, <1>8, TabelDiamSah

LEMMA KirimKredensialSah ==
  ASSUME IInv, TypeOK', NEW r \in Permintaan, KirimKredensial(r)
  PROVE  IInv'
<1> DEFINE q == [req[r] EXCEPT !.pc = "simpan"]
<1>1. req[r] \in Berjalan /\ SalinanSah(req[r], Terdaftar, BerAkun, Berkredensial, berkas)
  BY Sedang DEF IInv, PermintaanSah, KirimKredensial
<1>2. /\ req[r].pc = "kredensial"
      /\ surat' = surat \cup {<<"kredensial", req[r].sek.email>>}
      /\ UNCHANGED <<sekolah, pengguna, berkas, riwayat>>
      /\ Menjadi(r, q)
  BY DEF KirimKredensial
<1>3. q.id = req[r].id /\ q.sek = req[r].sek /\ q.pc = "simpan"
  BY <1>1 DEF Berjalan
<1>4. BerAkun' = BerAkun /\ Berkredensial \subseteq Berkredensial'
      /\ Terdaftar' = Terdaftar /\ berkas' = berkas
  BY <1>2 DEF BerAkun, Berkredensial, Terdaftar
<1>5. req[r].sek.email \in Berkredensial'
  BY <1>1, <1>2, <1>4 DEF SalinanSah, Berkredensial
<1>6. Tumbuh
  BY <1>4 DEF Tumbuh
<1>7. BarisSah(req[r].sek, Berkredensial')
  BY <1>1, <1>2, <1>5, NullAssumption DEF SalinanSah, BarisSah, Berjalan, Row
<1> HIDE DEF q
<1>8. SalinanSah(q, Terdaftar', BerAkun', Berkredensial', berkas')
  BY <1>1, <1>2, <1>3, <1>4, <1>7 DEF SalinanSah
<1>9. QED
  BY <1>2, <1>6, <1>8, TabelDiamSah

LEMMA SimpanSah ==
  ASSUME IInv, TypeOK', NEW r \in Permintaan, Simpan(r)
  PROVE  IInv'
<1> DEFINE q == IF req[r].op = "perbarui" THEN Bebas ELSE [req[r] EXCEPT !.pc = "catat", !.asal = NULL]
           id == req[r].id
           baris == req[r].sek
<1>1. req[r] \in Berjalan /\ SalinanSah(req[r], Terdaftar, BerAkun, Berkredensial, berkas)
  BY Sedang DEF IInv, PermintaanSah, Simpan
<1>2. /\ req[r].pc = "simpan"
      /\ \A t \in Terdaftar \ {id} : sekolah[t].email # baris.email
      /\ sekolah' = [sekolah EXCEPT ![id] = baris]
      /\ UNCHANGED <<pengguna, berkas, riwayat, surat>>
      /\ Menjadi(r, q)
  BY DEF Simpan, EmailUnik
<1>3. /\ id \in Terdaftar
      /\ BarisSah(baris, Berkredensial)
      /\ baris.dokumen \subseteq berkas[id]
  BY <1>1, <1>2 DEF SalinanSah
<1>4. baris # NULL
  BY <1>1, NullAssumption DEF Berjalan
<1>5. Terdaftar' = Terdaftar /\ sekolah'[id] = baris
      /\ \A t \in Terdaftar : t # id => sekolah'[t] = sekolah[t]
  BY <1>2, <1>3, <1>4 DEF Terdaftar, IInv, TypeOK
<1>6. Tumbuh /\ BerAkun' = BerAkun /\ Berkredensial' = Berkredensial /\ berkas' = berkas
  BY <1>2, <1>5 DEF Tumbuh, BerAkun, Berkredensial
<1>7. TabelSah'
  BY <1>3, <1>5, <1>6 DEF TabelSah, IInv
<1>8. EmailBerbeda'
  BY <1>2, <1>3, <1>5 DEF EmailBerbeda, IInv
<1>9. SalinanSah(q, Terdaftar', BerAkun', Berkredensial', berkas')
  <2>1. CASE req[r].op = "perbarui"
    BY <2>1, BebasSah
  <2>2. CASE req[r].op # "perbarui"
    <3>1. q.pc = "catat" /\ q.id = id /\ q.sek = baris
      BY <1>1, <2>2 DEF Berjalan
    <3> HIDE DEF q
    <3>2. QED
      BY <1>3, <1>5, <1>6, <3>1 DEF SalinanSah
  <2>3. QED
    BY <2>1, <2>2
<1> HIDE DEF q
<1>10. PermintaanSah'
  BY <1>2, <1>6, <1>9, PermintaanTetap DEF IInv
<1>11. QED
  BY <1>7, <1>8, <1>10 DEF IInv

LEMMA CatatRiwayatSah ==
  ASSUME IInv, TypeOK', NEW r \in Permintaan, CatatRiwayat(r)
  PROVE  IInv'
<1> DEFINE q == IF req[r].op = "verifikasi" THEN [req[r] EXCEPT !.pc = "kabari"] ELSE Bebas
<1>1. req[r] \in Berjalan /\ SalinanSah(req[r], Terdaftar, BerAkun, Berkredensial, berkas)
  BY Sedang DEF IInv, PermintaanSah, CatatRiwayat
<1>2. req[r].pc = "catat" /\ UNCHANGED <<sekolah, pengguna, berkas, surat>> /\ Menjadi(r, q)
  BY DEF CatatRiwayat
<1>3. Tumbuh /\ Terdaftar' = Terdaftar /\ BerAkun' = BerAkun
      /\ Berkredensial' = Berkredensial /\ berkas' = berkas
  BY <1>2, TumbuhDiam DEF Terdaftar, BerAkun, Berkredensial
<1>4. SalinanSah(q, Terdaftar', BerAkun', Berkredensial', berkas')
  <2>1. CASE req[r].op = "verifikasi"
    <3>1. q.pc = "kabari" /\ q.id = req[r].id /\ q.sek = req[r].sek
      BY <1>1, <2>1 DEF Berjalan
    <3> HIDE DEF q
    <3>2. QED
      BY <1>1, <1>2, <1>3, <3>1 DEF SalinanSah
  <2>2. CASE req[r].op # "verifikasi"
    BY <2>2, BebasSah
  <2>3. QED
    BY <2>1, <2>2
<1> HIDE DEF q
<1>5. QED
  BY <1>2, <1>3, <1>4, TabelDiamSah

LEMMA KabariSah ==
  ASSUME IInv, TypeOK', NEW r \in Permintaan, Kabari(r)
  PROVE  IInv'
<1>1. UNCHANGED <<sekolah, pengguna, berkas>> /\ Menjadi(r, Bebas) /\ surat \subseteq surat'
  BY DEF Kabari
<1>2. Tumbuh
  BY <1>1 DEF Tumbuh, Terdaftar, BerAkun, Berkredensial
<1>3. QED
  BY <1>1, <1>2, BebasSah, TabelDiamSah

LEMMA GagalSah ==
  ASSUME IInv, TypeOK', NEW r \in Permintaan, Gagal(r)
  PROVE  IInv'
  BY BebasSah, TumbuhDiam, TabelDiamSah DEF Gagal

\* An account for an address that has none never takes one over.
LEMMA DaftarLainSah ==
  ASSUME IInv, TypeOK', NEW e \in Email, DaftarLain(e)
  PROVE  IInv'
<1>1. UNCHANGED <<sekolah, berkas, surat, req>>
  BY DEF DaftarLain
<1>2. BerAkun \subseteq BerAkun'
  BY NullAssumption DEF DaftarLain, BerAkun, IInv, TypeOK, Role
<1>3. Tumbuh
  BY <1>1, <1>2 DEF Tumbuh, Terdaftar, Berkredensial
<1>4. PermintaanSah'
  <2>1. SUFFICES ASSUME NEW p \in Permintaan
        PROVE SalinanSah(req[p], Terdaftar', BerAkun', Berkredensial', berkas')
    BY <1>1 DEF PermintaanSah
  <2>2. req[p] \in Berjalan \cup {Bebas} /\ Terdaftar \in SUBSET SekolahID
    BY DEF IInv, TypeOK, Terdaftar
  <2>3. SalinanSah(req[p], Terdaftar, BerAkun, Berkredensial, berkas)
    BY DEF IInv, PermintaanSah
  <2>4. QED
    BY <1>3, <2>2, <2>3, SalinanTetap DEF Tumbuh
<1>5. QED
  BY <1>1, <1>3, <1>4, TabelTetap DEF IInv

LEMMA InvNext == IInv /\ [Next]_vars => IInv'
<1> SUFFICES ASSUME IInv, [Next]_vars PROVE IInv'
  OBVIOUS
<1>1. TypeOK'
  BY TypeNext DEF IInv
<1>2. ASSUME NEW r \in Permintaan, Terima(r) PROVE IInv'
  BY <1>1, <1>2, TerimaSah DEF IInv
<1>3. ASSUME NEW r \in Permintaan, Lanjut(r) PROVE IInv'
  BY <1>1, <1>3, BuatSekolahSah, UnggahBerkasSah, BuatAkunSah, KirimKredensialSah,
     SimpanSah, CatatRiwayatSah, KabariSah, GagalSah DEF Lanjut
<1>4. ASSUME NEW e \in Email, DaftarLain(e) PROVE IInv'
  BY <1>1, <1>4, DaftarLainSah
<1>5. CASE UNCHANGED vars
  <2>1. TabelSah' /\ PermintaanSah' /\ EmailBerbeda'
    BY <1>5 DEF vars, IInv, TabelSah, PermintaanSah, EmailBerbeda, Terdaftar, BerAkun,
                Berkredensial, BarisSah, SalinanSah
  <2>2. QED
    BY <1>1, <2>1 DEF IInv
<1>6. QED
  BY <1>2, <1>3, <1>4, <1>5 DEF Next

LEMMA InvBerlaku == Spec => []IInv
  BY InvInit, InvNext, PTL DEF Spec

----------------------------------------------------------------------------
(* The theorems.                                                           *)

\* In every reachable state a school is active or deactivated exactly when it
\* has an administrator, however stale the copies are that requests save.
THEOREM AktifPunyaAdminBenar == Spec => []AktifPunyaAdmin
<1>1. IInv => AktifPunyaAdmin
  BY DEF IInv, TabelSah, BarisSah, AktifPunyaAdmin
<1>2. QED
  BY <1>1, InvBerlaku, PTL

\* In every reachable state administrators sign in with their school's address
\* and no account administers two schools.
THEOREM AdminMilikSekolahBenar == Spec => []AdminMilikSekolah
<1>1. IInv => AdminMilikSekolah
  BY DEF IInv, TabelSah, BarisSah, EmailBerbeda, AdminMilikSekolah
<1>2. QED
  BY <1>1, InvBerlaku, PTL

\* In every reachable state the administrator of a school has an admin_sekolah
\* account whose password was handed to the mailer, whatever call of
\* Verifikasi failed or was cut off.
THEOREM AdminDapatMasukBenar == Spec => []AdminDapatMasuk
<1>1. IInv => AdminDapatMasuk
  BY DEF IInv, TabelSah, BarisSah, BerAkun, Berkredensial, AdminDapatMasuk
<1>2. QED
  BY <1>1, InvBerlaku, PTL

\* In every reachable state a row refers to all documents or none, all of them
\* in the storage, and to none in pengajuan.
THEOREM DokumenUtuhBenar == Spec => []DokumenUtuh
<1>1. IInv => DokumenUtuh
  BY DEF IInv, TabelSah, BarisSah, DokumenUtuh
<1>2. QED
  BY <1>1, InvBerlaku, PTL

----------------------------------------------------------------------------
(* The announcements, on top of the invariant.                             *)

\* The steps that neither announce nor record anything.
LEMMA Diam ==
  ASSUME IInv, DiumumkanSetelahKredensial, UNCHANGED riwayat, surat \subseteq surat',
         \A m \in surat' \ surat : m[1] = "kredensial",
         \A e \in Email : pengguna[e] = "admin_sekolah" => pengguna'[e] = "admin_sekolah"
  PROVE  DiumumkanSetelahKredensial'
<1>1. ASSUME NEW e \in Email, <<"diterima", e>> \in surat'
      PROVE  <<"kredensial", e>> \in surat'
  <2>1. <<"diterima", e>> \in surat
    BY <1>1
  <2>2. QED
    BY <2>1 DEF DiumumkanSetelahKredensial
<1>2. riwayat # {} => \E e \in Email : pengguna'[e] = "admin_sekolah" /\ <<"kredensial", e>> \in surat'
  BY DEF DiumumkanSetelahKredensial
<1>3. QED
  BY <1>1, <1>2 DEF DiumumkanSetelahKredensial

LEMMA DiumumkanNext ==
  ASSUME IInv, DiumumkanSetelahKredensial, [Next]_vars
  PROVE  DiumumkanSetelahKredensial'
<1>1. ASSUME NEW r \in Permintaan, Terima(r)
      PROVE  DiumumkanSetelahKredensial'
  <2>1. UNCHANGED <<riwayat, surat, pengguna>>
    BY <1>1 DEF Terima, PengajuanBaru, UploadDokumen, Verifikasi, PengajuanUlang, UpdateMySekolah,
                UpdateSekolah, Mulai
  <2>2. QED
    BY <2>1, Diam
<1>2. ASSUME NEW r \in Permintaan,
             BuatSekolah(r) \/ UnggahBerkas(r) \/ BuatAkun(r) \/ KirimKredensial(r) \/ Simpan(r) \/ Gagal(r)
      PROVE  DiumumkanSetelahKredensial'
  <2>1. UNCHANGED riwayat /\ surat \subseteq surat' /\ \A m \in surat' \ surat : m[1] = "kredensial"
    <3>1. CASE KirimKredensial(r)
      <4>1. UNCHANGED riwayat /\ surat' = surat \cup {<<"kredensial", req[r].sek.email>>}
        BY <3>1 DEF KirimKredensial
      <4>2. QED
        BY <4>1
    <3>2. CASE BuatSekolah(r) \/ UnggahBerkas(r) \/ BuatAkun(r) \/ Simpan(r) \/ Gagal(r)
      BY <3>2 DEF BuatSekolah, UnggahBerkas, BuatAkun, Simpan, Gagal
    <3>3. QED
      BY <1>2, <3>1, <3>2
  <2>2. \A e \in Email : pengguna[e] = "admin_sekolah" => pengguna'[e] = "admin_sekolah"
    <3>1. CASE BuatAkun(r)
      BY <3>1 DEF BuatAkun, IInv, TypeOK
    <3>2. QED
      BY <1>2, <3>1 DEF BuatSekolah, UnggahBerkas, KirimKredensial, Simpan, Gagal
  <2>3. QED
    BY <2>1, <2>2, Diam
<1>3. ASSUME NEW r \in Permintaan, req[r].pc \in {"catat", "kabari"}
      PROVE  /\ req[r].sek.email \in Email
             /\ req[r].sek.status = "aktif" => req[r].sek.email \in Berkredensial
  <2>1. req[r] \in Berjalan /\ SalinanSah(req[r], Terdaftar, BerAkun, Berkredensial, berkas)
    BY <1>3, Sedang DEF IInv, PermintaanSah
  <2>2. BarisSah(req[r].sek, Berkredensial)
    BY <1>3, <2>1 DEF SalinanSah
  <2>3. QED
    BY <2>1, <2>2 DEF BarisSah, Berjalan, Row
<1>4. ASSUME NEW r \in Permintaan, CatatRiwayat(r)
      PROVE  DiumumkanSetelahKredensial'
  <2>1. UNCHANGED <<surat, pengguna>> /\ (riwayat' = riwayat \/ req[r].sek.status = "aktif")
    BY <1>4 DEF CatatRiwayat
  <2>2. req[r].sek.status = "aktif" => \E e \in Email : pengguna[e] = "admin_sekolah" /\ <<"kredensial", e>> \in surat
    BY <1>3, <1>4 DEF CatatRiwayat, Berkredensial, BerAkun
  <2>3. QED
    BY <2>1, <2>2 DEF DiumumkanSetelahKredensial
<1>5. ASSUME NEW r \in Permintaan, Kabari(r)
      PROVE  DiumumkanSetelahKredensial'
  <2>1. CASE req[r].sek.status = "aktif"
    <3>1. UNCHANGED <<riwayat, pengguna>> /\ surat' = surat \cup {<<"diterima", req[r].sek.email>>}
      BY <1>5, <2>1 DEF Kabari
    <3>2. <<"kredensial", req[r].sek.email>> \in surat
      BY <1>3, <1>5, <2>1 DEF Kabari, Berkredensial
    <3>3. ASSUME NEW e \in Email, <<"diterima", e>> \in surat'
          PROVE  <<"kredensial", e>> \in surat'
      BY <3>1, <3>2, <3>3 DEF DiumumkanSetelahKredensial
    <3>4. QED
      BY <3>1, <3>3 DEF DiumumkanSetelahKredensial
  <2>2. CASE req[r].sek.status # "aktif"
    BY <1>5, <2>2, Diam DEF Kabari
  <2>3. QED
    BY <2>1, <2>2
<1>6. ASSUME NEW e \in Email, DaftarLain(e)
      PROVE  DiumumkanSetelahKredensial'
  <2>1. UNCHANGED <<riwayat, surat>>
    BY <1>6 DEF DaftarLain
  <2>2. \A f \in Email : pengguna[f] = "admin_sekolah" => pengguna'[f] = "admin_sekolah"
    BY <1>6, NullAssumption DEF DaftarLain, IInv, TypeOK, Role
  <2>3. QED
    BY <2>1, <2>2, Diam
<1>7. CASE UNCHANGED vars
  BY <1>7, Diam DEF vars
<1>8. QED
  BY <1>1, <1>2, <1>4, <1>5, <1>6, <1>7 DEF Next, Lanjut

\* In every reachable state a school is told to be active, by mail or in its public
\* history, only after the password of an administrator was mailed.
THEOREM DiumumkanBenar == Spec => []DiumumkanSetelahKredensial
<1>1. Init => DiumumkanSetelahKredensial
  BY DEF Init, DiumumkanSetelahKredensial
<1>2. QED
  BY <1>1, DiumumkanNext, InvBerlaku, PTL DEF Spec


----------------------------------------------------------------------------
(* The refinement.                                                         *)

TanpaNonaktif == \A s \in Terdaftar : sekolah[s].status # "nonaktif"

\* The decisions that leave the administrator alone.
Panah == {<<"pengajuan", "menunggu_verifikasi">>, <<"pengajuan", "ditolak">>,
          <<"menunggu_verifikasi", "ditolak">>, <<"ditolak", "pengajuan">>}

\* What the copy in request q makes of the version of the row it was read from.
SalinanSegar(q) ==
  /\ q.pc \notin {"bebas", "buat"} => q.sek.status # "nonaktif"
  /\ q.pc = "unggah" => q.asal.status = "pengajuan" /\ q.asal.admin = NULL
  /\ q.pc \in {"akun", "kredensial"} => q.asal.status = "menunggu_verifikasi"
  /\ q.pc = "simpan" =>
       \/ q.sek.status = q.asal.status /\ q.sek.admin = q.asal.admin
       \/ <<q.asal.status, q.sek.status>> \in Panah /\ q.sek.admin = q.asal.admin
       \/ /\ q.asal.status = "menunggu_verifikasi"
          /\ q.sek.status = "aktif"
          /\ q.sek.admin = q.sek.email

JInv ==
  /\ IInv
  /\ TanpaNonaktif
  /\ \A r \in Permintaan : SalinanSegar(req[r])

LEMMA SegarBebas == SalinanSegar(Bebas)
  BY DEF SalinanSegar, Bebas

LEMMA ReqBaru ==
  ASSUME TypeOK, NEW r \in Permintaan, NEW q, Menjadi(r, q)
  PROVE  req'[r] = q /\ \A p \in Permintaan : p # r => req'[p] = req[p]
  BY DEF TypeOK, Menjadi

\* A step of request r that leaves it as q and stores no nonaktif.
LEMMA SegarMaju ==
  ASSUME JInv, IInv', TanpaNonaktif', NEW r \in Permintaan, NEW q, Menjadi(r, q),
         SalinanSegar(q)
  PROVE  JInv'
<1>1. req'[r] = q /\ \A t \in Permintaan : t # r => req'[t] = req[t]
  BY ReqBaru DEF JInv, IInv
<1>2. ASSUME NEW p \in Permintaan PROVE SalinanSegar(req'[p])
  BY <1>1 DEF JInv
<1>3. QED
  BY <1>2 DEF JInv

\* A step that leaves the school table alone.
LEMMA SegarDiam ==
  ASSUME JInv, IInv', NEW r \in Permintaan, NEW q, Menjadi(r, q), UNCHANGED sekolah,
         SalinanSegar(q)
  PROVE  JInv'
<1>1. TanpaNonaktif'
  BY DEF JInv, TanpaNonaktif, Terdaftar
<1>2. QED
  BY <1>1, SegarMaju

\* A step that writes row i.
LEMMA SegarTulis ==
  ASSUME JInv, IInv', NEW r \in Permintaan, NEW q, Menjadi(r, q),
         NEW i \in SekolahID, NEW b, sekolah' = [sekolah EXCEPT ![i] = b],
         b.status # "nonaktif", SalinanSegar(q)
  PROVE  JInv'
<1>1. sekolah'[i] = b /\ \A s \in SekolahID : s # i => sekolah'[s] = sekolah[s]
  BY DEF JInv, IInv, TypeOK
<1>2. TanpaNonaktif'
  BY <1>1 DEF JInv, TanpaNonaktif, Terdaftar
<1>3. QED
  BY <1>2, SegarMaju

\* A request that starts on row s keeps the version it reads.
LEMMA SegarMulai ==
  ASSUME JInv, IInv', NEW r \in Permintaan, NEW op, NEW pc, NEW s \in Terdaftar, NEW sek, NEW sisa,
         Mulai(r, op, pc, s, sek, sisa),
         SalinanSegar([op |-> op, pc |-> pc, id |-> s, sek |-> sek, sisa |-> sisa,
                       asal |-> VersiBaris(sekolah[s])])
  PROVE  JInv'
<1> DEFINE q == [op |-> op, pc |-> pc, id |-> s, sek |-> sek, sisa |-> sisa,
                 asal |-> VersiBaris(sekolah[s])]
<1>1. s # NULL
  BY NullAssumption DEF Terdaftar
<1>2. Menjadi(r, q) /\ UNCHANGED sekolah
  BY <1>1 DEF Mulai
<1> HIDE DEF q
<1>3. QED
  BY <1>2, SegarDiam DEF q

\* Each handler decides on the row as it is.
LEMMA TerimaSegar ==
  ASSUME JInv, IInv', NEW r \in Permintaan, Terima(r)
  PROVE  JInv'
<1>0. \A s \in Terdaftar : /\ sekolah[s] \in Row
                           /\ sekolah[s].status # "nonaktif"
                           /\ sekolah[s].status = "pengajuan" => sekolah[s].admin = NULL
  BY DEF JInv, IInv, TypeOK, Terdaftar, TanpaNonaktif, TabelSah, BarisSah
<1>1. ASSUME NEW op, NEW e \in Email, PengajuanBaru(r, op, e)
      PROVE  JInv'
  <2> DEFINE sek == [status |-> "pengajuan", dokumen |-> {}, admin |-> NULL, email |-> e]
  <2> DEFINE q == [op |-> op, pc |-> "buat", id |-> NULL, sek |-> sek, sisa |-> Dokumen,
                   asal |-> NULL]
  <2>1. SalinanSegar(q)
    BY DEF SalinanSegar
  <2>2. Menjadi(r, q) /\ UNCHANGED sekolah
    BY <1>1 DEF PengajuanBaru, Mulai
  <2> HIDE DEF q
  <2>3. QED
    BY <2>1, <2>2, SegarDiam
<1>2. ASSUME NEW s \in SekolahID, UploadDokumen(r, s)
      PROVE  JInv'
  <2>1. SalinanSegar([op |-> "unggah", pc |-> "unggah", id |-> s, sek |-> sekolah[s],
                      sisa |-> Dokumen, asal |-> VersiBaris(sekolah[s])])
    BY <1>0, <1>2 DEF UploadDokumen, SalinanSegar, VersiBaris
  <2>2. QED
    BY <1>2, <2>1, SegarMulai DEF UploadDokumen
<1>3. ASSUME NEW s \in SekolahID, NEW baru \in StatusDiminta, Verifikasi(r, s, baru)
      PROVE  JInv'
  <2> DEFINE sek == [sekolah[s] EXCEPT !.status = baru]
             pertama == baru = "aktif" /\ sekolah[s].status = "menunggu_verifikasi"
             pc == IF pertama THEN "akun" ELSE "simpan"
  <2>1. /\ s \in Terdaftar
        /\ baru \in validStatusTransitions[sekolah[s].status]
        /\ Mulai(r, "verifikasi", pc, s, sek, {})
    BY <1>3 DEF Verifikasi
  <2>2. sek.status = baru /\ sek.admin = sekolah[s].admin
    BY <1>0, <2>1 DEF Row
  <2>3. ~pertama => <<sekolah[s].status, baru>> \in Panah
    BY <1>0, <2>1 DEF validStatusTransitions, StatusDiminta, Row, Status, Panah
  <2>4. baru # "nonaktif" /\ (pertama => sekolah[s].status = "menunggu_verifikasi")
    BY DEF StatusDiminta
  <2> HIDE DEF sek, pertama
  <2>5. SalinanSegar([op |-> "verifikasi", pc |-> pc, id |-> s, sek |-> sek, sisa |-> {},
                      asal |-> VersiBaris(sekolah[s])])
    BY <2>2, <2>3, <2>4 DEF SalinanSegar, VersiBaris
  <2> HIDE DEF pc
  <2>6. QED
    BY <2>1, <2>5, SegarMulai
<1>4. ASSUME NEW s \in SekolahID, NEW e \in Email, PengajuanUlang(r, s, e)
      PROVE  JInv'
  <2> DEFINE sek == [sekolah[s] EXCEPT !.status = "pengajuan", !.email = e, !.dokumen = {}]
  <2>1. s \in Terdaftar /\ sekolah[s].status = "ditolak"
    BY <1>4 DEF PengajuanUlang
  <2>2. sek.status = "pengajuan" /\ sek.admin = sekolah[s].admin
    BY <1>0, <2>1 DEF Row
  <2>3. Mulai(r, "ulang", "simpan", s, sek, {})
    BY <1>4 DEF PengajuanUlang
  <2> HIDE DEF sek
  <2>4. SalinanSegar([op |-> "ulang", pc |-> "simpan", id |-> s, sek |-> sek, sisa |-> {},
                      asal |-> VersiBaris(sekolah[s])])
    BY <2>1, <2>2 DEF SalinanSegar, Panah, VersiBaris
  <2>5. QED
    BY <2>1, <2>3, <2>4, SegarMulai
<1>5. ASSUME NEW s \in Terdaftar, Mulai(r, "perbarui", "simpan", s, sekolah[s], {})
      PROVE  JInv'
  <2>1. SalinanSegar([op |-> "perbarui", pc |-> "simpan", id |-> s, sek |-> sekolah[s],
                      sisa |-> {}, asal |-> VersiBaris(sekolah[s])])
    BY <1>0 DEF SalinanSegar, VersiBaris
  <2>2. QED
    BY <1>5, <2>1, SegarMulai
<1>6. QED
  BY <1>1, <1>2, <1>3, <1>4, <1>5 DEF Terima, UpdateMySekolah, UpdateSekolah


LEMMA LanjutSegar ==
  ASSUME JInv, IInv', NEW r \in Permintaan, Lanjut(r)
  PROVE  JInv'
<1>0. SalinanSegar(req[r]) /\ (req[r].pc # "bebas" => req[r] \in Berjalan)
      /\ SalinanSah(req[r], Terdaftar, BerAkun, Berkredensial, berkas)
  BY Sedang DEF JInv, IInv, PermintaanSah
<1>1. CASE BuatSekolah(r)
  <2>1. PICK s \in SekolahID \ Terdaftar :
          /\ sekolah' = [sekolah EXCEPT ![s] = req[r].sek]
          /\ Menjadi(r, IF req[r].op = "lengkap"
                          THEN [req[r] EXCEPT !.pc = "unggah", !.id = s, !.asal = VersiBaris(req[r].sek)]
                            ELSE Bebas)
    BY <1>1 DEF BuatSekolah
  <2>2. PICK q : /\ Menjadi(r, q)
                 /\ q = IF req[r].op = "lengkap"
                          THEN [req[r] EXCEPT !.pc = "unggah", !.id = s, !.asal = VersiBaris(req[r].sek)]
                          ELSE Bebas
    BY <2>1
  <2>3. req[r] \in Berjalan /\ req[r].sek.status = "pengajuan" /\ req[r].sek.admin = NULL
    BY <1>0, <1>1, <2>1 DEF BuatSekolah, SalinanSah, JInv, IInv, TypeOK
  <2>4. q = Bebas \/ (q.pc = "unggah" /\ q.sek = req[r].sek /\ q.asal = VersiBaris(req[r].sek))
    BY <2>2, <2>3 DEF Berjalan
  <2>5. SalinanSegar(q)
    BY <2>3, <2>4, SegarBebas DEF SalinanSegar, VersiBaris
  <2>7. PICK b : b = req[r].sek
    OBVIOUS
  <2>8. b.status # "nonaktif" /\ sekolah' = [sekolah EXCEPT ![s] = b] /\ s \in SekolahID
    BY <2>1, <2>3, <2>7
  <2>9. QED
    BY <2>2, <2>5, <2>7, <2>8, SegarTulis
<1>2. CASE UnggahBerkas(r)
  <2>1. PICK d \in req[r].sisa :
          LET terakhir == req[r].sisa = {d}
              sek == [req[r].sek EXCEPT
                        !.dokumen = @ \cup {d},
                        !.status = IF terakhir THEN "menunggu_verifikasi" ELSE @]
          IN Menjadi(r, [req[r] EXCEPT !.sek = sek, !.sisa = @ \ {d},
                                       !.pc = IF terakhir THEN "simpan" ELSE @])
    BY <1>2 DEF UnggahBerkas
  <2> DEFINE terakhir == req[r].sisa = {d}
             sek == [req[r].sek EXCEPT
                       !.dokumen = @ \cup {d},
                       !.status = IF terakhir THEN "menunggu_verifikasi" ELSE @]
             q == [req[r] EXCEPT !.sek = sek, !.sisa = @ \ {d},
                                 !.pc = IF terakhir THEN "simpan" ELSE @]
  <2>2. /\ req[r] \in Berjalan /\ req[r].pc = "unggah" /\ req[r].id \in Terdaftar
        /\ req[r].sek.status = "pengajuan" /\ req[r].sek.admin = NULL
        /\ req[r].asal.status = "pengajuan" /\ req[r].asal.admin = NULL
    BY <1>0, <1>2 DEF UnggahBerkas, SalinanSah, SalinanSegar
  <2>4. /\ sek.admin = NULL
        /\ sek.status = IF terakhir THEN "menunggu_verifikasi" ELSE "pengajuan"
    BY <2>2 DEF Berjalan, Row
  <2> HIDE DEF sek
  <2>5. q.asal = req[r].asal /\ q.sek = sek /\ q.pc = IF terakhir THEN "simpan" ELSE "unggah"
    BY <2>2 DEF Berjalan
  <2>6. Menjadi(r, q) /\ UNCHANGED sekolah
    BY <1>2, <2>1 DEF UnggahBerkas, sek
  <2> HIDE DEF q
  <2>7. SalinanSegar(q)
    BY <2>2, <2>4, <2>5 DEF SalinanSegar, Panah
  <2>8. QED
    BY <2>6, <2>7, SegarDiam
<1>3. CASE BuatAkun(r)
  <2> DEFINE sek == [req[r].sek EXCEPT !.admin = req[r].sek.email]
             q == [req[r] EXCEPT !.pc = "kredensial", !.sek = sek]
  <2>1. /\ req[r] \in Berjalan /\ req[r].sek.status = "aktif"
        /\ req[r].asal.status = "menunggu_verifikasi"
    BY <1>0, <1>3 DEF BuatAkun, SalinanSah, SalinanSegar
  <2>2. sek.status = "aktif"
    BY <2>1 DEF Berjalan, Row
  <2> HIDE DEF sek
  <2>3. q.pc = "kredensial" /\ q.asal = req[r].asal /\ q.sek = sek
    BY <2>1 DEF Berjalan
  <2>4. Menjadi(r, q) /\ UNCHANGED sekolah
    BY <1>3 DEF BuatAkun, SetelahAkun, sek
  <2> HIDE DEF q
  <2>5. SalinanSegar(q)
    BY <2>1, <2>2, <2>3 DEF SalinanSegar
  <2>6. QED
    BY <2>4, <2>5, SegarDiam
<1>4. CASE KirimKredensial(r)
  <2>1. PICK q : Menjadi(r, q) /\ q = [req[r] EXCEPT !.pc = "simpan"]
    BY <1>4 DEF KirimKredensial
  <2>2. q.pc = "simpan" /\ q.asal = req[r].asal /\ q.sek = req[r].sek
    BY <1>0, <1>4, <2>1 DEF KirimKredensial, Berjalan
  <2>3. SalinanSegar(q)
    BY <1>0, <1>4, <2>2 DEF KirimKredensial, SalinanSah, SalinanSegar
  <2>4. QED
    BY <1>4, <2>1, <2>3, SegarDiam DEF KirimKredensial
<1>5. CASE Simpan(r)
  <2>1. PICK q : Menjadi(r, q) /\ q = IF req[r].op = "perbarui"
                                        THEN Bebas ELSE [req[r] EXCEPT !.pc = "catat", !.asal = NULL]
    BY <1>5 DEF Simpan
  <2>2. /\ req[r] \in Berjalan /\ req[r].pc = "simpan" /\ req[r] # Bebas
        /\ req[r].id \in Terdaftar /\ req[r].id \in SekolahID /\ req[r].id # NULL
    BY <1>0, <1>5, NullAssumption DEF Simpan, SalinanSah, Terdaftar, Bebas
  <2>3. req[r].sek.status # "nonaktif"
    BY <1>0, <2>2 DEF SalinanSegar
  <2>4. q = Bebas \/ (q.pc = "catat" /\ q.sek = req[r].sek)
    BY <2>1, <2>2 DEF Berjalan
  <2>5. SalinanSegar(q)
    BY <2>3, <2>4, SegarBebas DEF SalinanSegar
  <2>7. PICK b, i : b = req[r].sek /\ i = req[r].id
    OBVIOUS
  <2>8. b.status # "nonaktif" /\ sekolah' = [sekolah EXCEPT ![i] = b] /\ i \in SekolahID
    BY <1>5, <2>2, <2>3, <2>7 DEF Simpan
  <2>9. QED
    BY <2>1, <2>5, <2>7, <2>8, SegarTulis
<1>6. CASE CatatRiwayat(r)
  <2>1. PICK q : Menjadi(r, q) /\ q = IF req[r].op = "verifikasi"
                                        THEN [req[r] EXCEPT !.pc = "kabari"] ELSE Bebas
    BY <1>6 DEF CatatRiwayat
  <2>2. q = Bebas \/ (q.pc = "kabari" /\ q.sek = req[r].sek)
    BY <1>0, <1>6, <2>1 DEF CatatRiwayat, Berjalan
  <2>3. SalinanSegar(q)
    BY <1>0, <1>6, <2>2, SegarBebas DEF CatatRiwayat, SalinanSegar
  <2>4. QED
    BY <1>6, <2>1, <2>3, SegarDiam DEF CatatRiwayat
<1>7. CASE Kabari(r) \/ Gagal(r)
  <2>1. Menjadi(r, Bebas) /\ UNCHANGED sekolah
    BY <1>7 DEF Kabari, Gagal
  <2>2. QED
    BY <2>1, SegarBebas, SegarDiam
<1>8. QED
  BY <1>1, <1>2, <1>3, <1>4, <1>5, <1>6, <1>7 DEF Lanjut

LEMMA SegarInit == Init => JInv
<1>1. Init => TanpaNonaktif
  BY DEF Init, TanpaNonaktif, Terdaftar
<1>2. QED
  BY <1>1, InvInit, SegarBebas DEF JInv, Init

LEMMA SegarNext == JInv /\ [Next]_vars => JInv'
<1> SUFFICES ASSUME JInv, [Next]_vars PROVE JInv'
  OBVIOUS
<1>1. IInv'
  BY InvNext DEF JInv
<1>2. ASSUME NEW r \in Permintaan, Terima(r) \/ Lanjut(r) PROVE JInv'
  BY <1>1, <1>2, TerimaSegar, LanjutSegar
<1>3. ASSUME NEW e \in Email, DaftarLain(e) PROVE JInv'
  BY <1>1, <1>3 DEF DaftarLain, JInv, TanpaNonaktif, Terdaftar
<1>4. CASE UNCHANGED vars
  BY <1>1, <1>4 DEF vars, JInv, TanpaNonaktif, Terdaftar
<1>5. QED
  BY <1>2, <1>3, <1>4 DEF Next


----------------------------------------------------------------------------
\* What Alur sees of the table: the two columns it follows.
StatusTampak == [s \in SekolahID |-> Kolom(s, "status")]
AdminTampak == [s \in SekolahID |-> Kolom(s, "admin")]

LEMMA TampakDiam == UNCHANGED sekolah => UNCHANGED <<StatusTampak, AdminTampak>>
  BY DEF StatusTampak, AdminTampak, Kolom, Terdaftar

\* Writing one row changes these columns of that row only.
LEMMA TampakTulis ==
  ASSUME TypeOK, NEW i \in SekolahID, NEW b \in Row, sekolah' = [sekolah EXCEPT ![i] = b]
  PROVE  /\ StatusTampak' = [StatusTampak EXCEPT ![i] = b.status]
         /\ AdminTampak' = [AdminTampak EXCEPT ![i] = b.admin]
<1>1. /\ sekolah'[i] = b /\ \A s \in SekolahID : s # i => sekolah'[s] = sekolah[s]
      /\ Terdaftar' = Terdaftar \cup {i}
  BY NullAssumption DEF TypeOK, Terdaftar
<1>2. \A s \in SekolahID : /\ Kolom(s, "status")' = IF s = i THEN b.status ELSE Kolom(s, "status")
                           /\ Kolom(s, "admin")' = IF s = i THEN b.admin ELSE Kolom(s, "admin")
  BY <1>1 DEF Kolom
<1>3. QED
  BY <1>2 DEF StatusTampak, AdminTampak

LEMMA TampakBaris ==
  ASSUME NEW i \in Terdaftar
  PROVE  /\ StatusTampak[i] = sekolah[i].status
         /\ AdminTampak[i] = sekolah[i].admin
  BY DEF StatusTampak, AdminTampak, Kolom, Terdaftar

LEMMA TampakKosong ==
  ASSUME NEW i \in SekolahID \ Terdaftar
  PROVE  StatusTampak[i] = NULL /\ AdminTampak[i] = NULL
  BY DEF StatusTampak, AdminTampak, Kolom

LEMMA AlurInit == Init => Alur!Init
  BY DEF Init, Alur!Init, Kolom, Terdaftar

\* Creating a row is Daftar.
LEMMA BuatAlur ==
  ASSUME IInv, NEW r \in Permintaan, BuatSekolah(r)
  PROVE  Alur!Next
<1>1. PICK s \in SekolahID \ Terdaftar : sekolah' = [sekolah EXCEPT ![s] = req[r].sek]
  BY DEF BuatSekolah
<1>2. /\ req[r].sek \in Row /\ req[r].sek.status = "pengajuan" /\ req[r].sek.admin = NULL
  BY Sedang DEF BuatSekolah, IInv, PermintaanSah, SalinanSah, Berjalan
<1>3. /\ StatusTampak' = [StatusTampak EXCEPT ![s] = "pengajuan"]
      /\ AdminTampak' = [AdminTampak EXCEPT ![s] = NULL]
  <2>1. PICK b \in Row : b.status = "pengajuan" /\ b.admin = NULL /\ sekolah' = [sekolah EXCEPT ![s] = b]
    BY <1>1, <1>2
  <2>2. QED
    BY <2>1, TampakTulis DEF IInv
<1>4. StatusTampak[s] = NULL /\ AdminTampak' = AdminTampak
  BY <1>3, TampakKosong DEF AdminTampak
<1>5. Alur!Daftar(s)
  BY <1>3, <1>4 DEF Alur!Daftar, Alur!Pindah, StatusTampak, AdminTampak
<1>6. QED
  BY <1>5 DEF Alur!Next

\* A Save of a copy whose row has not moved since is the decision that its request took.
LEMMA SimpanAlur ==
  ASSUME JInv, NEW r \in Permintaan, Simpan(r), ~Basi(r)
  PROVE  [Alur!Next]_<<StatusTampak, AdminTampak>>
<1>1. PICK b, i : b = req[r].sek /\ i = req[r].id
  OBVIOUS
<1>2. /\ b \in Row /\ i \in Terdaftar /\ i \in SekolahID
      /\ SalinanSegar(req[r]) /\ req[r].pc = "simpan"
      /\ req[r].asal.status = sekolah[i].status /\ req[r].asal.admin = sekolah[i].admin
      /\ sekolah' = [sekolah EXCEPT ![i] = b]
      /\ EmailUnik(i, b.email)
  BY <1>1, Sedang DEF Simpan, JInv, IInv, PermintaanSah, SalinanSah, Berjalan, Terdaftar, Basi, VersiBaris
<1>3. /\ StatusTampak' = [StatusTampak EXCEPT ![i] = b.status]
      /\ AdminTampak' = [AdminTampak EXCEPT ![i] = b.admin]
  BY <1>2, TampakTulis DEF JInv, IInv
<1>4. StatusTampak[i] = sekolah[i].status /\ AdminTampak[i] = sekolah[i].admin
  BY <1>2, TampakBaris
<1>5. b.admin = sekolah[i].admin => AdminTampak' = AdminTampak
  BY <1>3, <1>4 DEF AdminTampak
<1>6. CASE b.status = sekolah[i].status /\ b.admin = sekolah[i].admin
  BY <1>3, <1>4, <1>5, <1>6 DEF StatusTampak
<1>7. CASE <<sekolah[i].status, b.status>> \in Panah /\ b.admin = sekolah[i].admin
  <2>1. AdminTampak' = AdminTampak
    BY <1>5, <1>7
  <2>2. Alur!Lengkapi(i) \/ Alur!Tolak(i) \/ Alur!AjukanUlang(i)
    BY <1>3, <1>4, <1>7, <2>1
       DEF Panah, Alur!Lengkapi, Alur!Tolak, Alur!AjukanUlang, Alur!Pindah, StatusTampak, AdminTampak
  <2>3. QED
    BY <1>2, <2>2 DEF Alur!Next
<1>8. CASE sekolah[i].status = "menunggu_verifikasi" /\ b.status = "aktif" /\ b.admin = b.email
  <2>1. b.email \in Email /\ b.email # NULL
    BY <1>2, NullAssumption DEF Row
  <2>2. \A t \in SekolahID : AdminTampak[t] # b.email
    <3>1. sekolah[i].admin = NULL
      BY <1>2, <1>8 DEF JInv, IInv, TabelSah, BarisSah
    <3>2. ASSUME NEW t \in Terdaftar PROVE AdminTampak[t] # b.email
      <4>1. AdminTampak[t] = sekolah[t].admin /\ sekolah[t].admin \in {NULL, sekolah[t].email}
        BY TampakBaris DEF JInv, IInv, TabelSah, BarisSah
      <4>2. QED
        BY <1>2, <2>1, <3>1, <4>1 DEF EmailUnik
    <3>3. QED
      BY <2>1, <3>2, TampakKosong
  <2>3. Alur!Setujui(i, b.email)
    BY <1>3, <1>4, <1>8, <2>2 DEF Alur!Setujui, Alur!Pindah, StatusTampak, AdminTampak
  <2>4. QED
    BY <1>2, <2>1, <2>3 DEF Alur!Next
<1>9. QED
  BY <1>1, <1>2, <1>6, <1>7, <1>8 DEF SalinanSegar

LEMMA AlurNext ==
  JInv /\ [Next]_vars =>
    [Alur!Next \/ \E r \in Permintaan : Simpan(r) /\ Basi(r)]_(Alur!vars)
<1> SUFFICES ASSUME JInv, [Next]_vars, ~(\E r \in Permintaan : Simpan(r) /\ Basi(r))
             PROVE  [Alur!Next]_<<StatusTampak, AdminTampak>>
  BY DEF Alur!vars, StatusTampak, AdminTampak
<1>1. ASSUME NEW r \in Permintaan, BuatSekolah(r) PROVE Alur!Next
  BY <1>1, BuatAlur DEF JInv
<1>2. ASSUME NEW r \in Permintaan, Simpan(r) PROVE [Alur!Next]_<<StatusTampak, AdminTampak>>
  BY <1>2, SimpanAlur
<1>3. ASSUME NEW r \in Permintaan, Terima(r) PROVE UNCHANGED sekolah
  BY <1>3 DEF Terima, PengajuanBaru, UploadDokumen, Verifikasi, PengajuanUlang, UpdateMySekolah,
              UpdateSekolah, Mulai
<1>4. ASSUME NEW r \in Permintaan, Lanjut(r), ~BuatSekolah(r), ~Simpan(r)
      PROVE  UNCHANGED sekolah
  BY <1>4 DEF Lanjut, UnggahBerkas, BuatAkun, KirimKredensial, CatatRiwayat, Kabari, Gagal
<1>5. (\E e \in Email : DaftarLain(e)) \/ UNCHANGED vars => UNCHANGED sekolah
  BY DEF DaftarLain, vars
<1>6. QED
  BY <1>1, <1>2, <1>3, <1>4, <1>5, TampakDiam DEF Next

\* Whatever overlaps and fails, the workflow implements SekolahAlur but for the
\* Saves of copies whose row has moved since it was read: every other step moves
\* a school as the checks of the service allow, and gives it an administrator
\* no other school has only when it is approved.
THEOREM MengikutiAlurBenar == Spec => MengikutiAlur
<1>1. Spec => []JInv
  BY SegarInit, SegarNext, PTL DEF Spec
<1>2. QED
  BY <1>1, AlurInit, AlurNext, PTL DEF Spec, MengikutiAlur
=============================================================================
