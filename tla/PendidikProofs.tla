--------------------------- MODULE PendidikProofs ---------------------------
(***************************************************************************)
(* Theorems about Pendidik, for any number of requests, schools, accounts  *)
(* and numbers.  The properties speak of what is stored; a request changes *)
(* it by saving copies it read earlier, so IInv says what a request in     *)
(* progress may hold, and what two requests have in common.                *)
(***************************************************************************)
EXTENDS Pendidik, FiniteSetTheorems, TLAPS

\* TypeOK but for the number of teachers, which is any number here; that it is at
\* most MaxAkun takes an invariant of its own, at the end.
Hitungan == [jumlah : Nat, profil : 0..MaxData]

LokalTipe == [pc : {"bebas", "email", "nomor", "akun", "baris", "batal", "jumlah",
                    "guru", "status", "sekolah", "hitung", "jumlahkan", "profil"},
              s : Sekolah \cup {Tiada}, n : 0..MaxAkun, e : Email \cup {Tiada},
              guru : Guru, instansi : Hitungan, sendiri : BOOLEAN]

Tipe ==
  /\ users \in [Akun -> Pengguna]
  /\ pendidik \in [Akun -> Guru] /\ maksud \in [Akun -> Status]
  /\ sekolah \in [Sekolah -> Hitungan] /\ profil \in [Sekolah -> 0..MaxData]
  /\ req \in [Permintaan -> LokalTipe]
  /\ kredensial \subseteq Akun /\ tumpang \subseteq Akun /\ yatim \subseteq Akun
  /\ bentrok \subseteq Sekolah /\ kotor \subseteq Sekolah

\* Where a request is at work on an account that has no teacher yet, on a teacher,
\* or holds the row of its school.
TanpaGuru == {"baris", "batal"}
AdaGuru == {"jumlah", "guru", "status", "sekolah", "hitung", "jumlahkan"}
PegangSekolah == {"email", "nomor", "akun", "baris", "jumlah", "hitung", "jumlahkan"}
Mendaftar == {"email", "nomor", "akun", "baris"}

\* What a request that is at work may hold.
PermintaanSah(q) ==
  /\ IF q.pc = "bebas" THEN q = Bebas ELSE q.s \in Sekolah
  /\ q.pc \notin TanpaGuru \cup AdaGuru => q.n = 0
  /\ q.pc \in {"email", "nomor", "akun"} => q.e \in Email
  /\ q.pc \in Mendaftar => q.guru.sekolah = q.s /\ q.guru.status = "aktif"
  /\ q.pc \in TanpaGuru =>
       q.n \in Akun /\ users[q.n].role = "tenaga_pendidik" /\ q.n \notin Terdaftar
  /\ q.pc \in AdaGuru => q.n \in Terdaftar /\ pendidik[q.n].sekolah = q.s
  /\ q.pc \in {"guru", "status"} => q.guru.sekolah = q.s
  /\ q.pc = "guru" => q.guru.status = maksud[q.n] \/ q.n \in tumpang
  /\ q.pc \in PegangSekolah => q.instansi.profil = profil[q.s] \/ q.s \in bentrok

\* Two requests at work on one school, or on one account, overlap; no two of them
\* are about to give one account its teacher.
Berdua(p, q) ==
  /\ p.pc # "bebas" /\ q.pc # "bebas" /\ p.s = q.s => p.s \in bentrok
  /\ p.n = q.n /\ p.n \in Akun => p.n \in tumpang
  /\ p.pc \in TanpaGuru /\ q.pc \in TanpaGuru => p.n # q.n

TabelSah ==
  /\ \A n \in Akun :
       /\ n \in Terdaftar => users[n].role = "tenaga_pendidik"
       /\ n \notin Terdaftar => pendidik[n].status = "aktif" /\ maksud[n] = "aktif"
       /\ users[n].role = "belum" => users[n].email = Tiada
  /\ kredensial \subseteq Terdaftar

IInv ==
  /\ Tipe
  /\ \A r \in Permintaan : PermintaanSah(req[r])
  /\ \A r, p \in Permintaan : r # p => Berdua(req[r], req[p])
  /\ TabelSah
  /\ YatimBersebab /\ StatusTerakhir /\ ProfilTetap


\* What a request goes on to hold after it held p: nothing two requests could
\* come to share by it.
Lanjutan(p, q) ==
  /\ q.pc # "bebas" => p.pc # "bebas" /\ q.s = p.s
  /\ q.n \in Akun => q.n = p.n
  /\ q.pc \in TanpaGuru => p.pc \in TanpaGuru /\ q.n = p.n

\* The variables that requests about other schools and teachers are checked with.
Tabel == <<users, pendidik, maksud, profil, tumpang, bentrok>>

----------------------------------------------------------------------------
\* The rows a request holds while it is free are of the right type.
LEMMA BebasSah == Bebas \in LokalTipe /\ Bebas.pc = "bebas" /\ Bebas.n = 0
<1>0. MaxAkun \in Nat /\ MaxData \in Nat BY KonstantaAssumption
<1>1. 0 \in 0..MaxAkun /\ 0 \in 0..MaxData BY <1>0
<1>2. BelumAda \in Guru BY DEF BelumAda, Guru, NIP, Status
<1>3. Semula \in Hitungan BY <1>1 DEF Semula, Hitungan
<1> QED BY <1>1, <1>2, <1>3 DEF Bebas, LokalTipe

\* An account is a number from 1 on.
LEMMA AkunAsli == Akun \subseteq Nat /\ Akun \subseteq 0..MaxAkun /\ 0 \notin Akun
<1>1. MaxAkun \in Nat BY KonstantaAssumption
<1> QED BY <1>1 DEF Akun

\* If one request goes on with what it had, no two requests come to share anything.
LEMMA BerduaTetap ==
  ASSUME Tipe, \A r, p \in Permintaan : r # p => Berdua(req[r], req[p]),
         NEW r \in Permintaan, NEW q, Menjadi(r, q), Lanjutan(req[r], q),
         tumpang \subseteq tumpang', bentrok \subseteq bentrok'
  PROVE  \A p1, p2 \in Permintaan : p1 # p2 => Berdua(req[p1], req[p2])'
<1> SUFFICES ASSUME NEW p1 \in Permintaan, NEW p2 \in Permintaan, p1 # p2
             PROVE  Berdua(req[p1], req[p2])'
  OBVIOUS
<1>1. req'[r] = q /\ \A p \in Permintaan : p # r => req'[p] = req[p] BY DEF Menjadi, Tipe
<1>2. Berdua(req[p1], req[p2]) OBVIOUS
<1>3. CASE p1 = r BY <1>1, <1>2, <1>3 DEF Berdua, Lanjutan, TanpaGuru, Akun
<1>4. CASE p2 = r BY <1>1, <1>2, <1>4 DEF Berdua, Lanjutan, TanpaGuru, Akun
<1>5. CASE p1 # r /\ p2 # r BY <1>1, <1>2, <1>5 DEF Berdua
<1> QED BY <1>3, <1>4, <1>5

\* A step that changes one request, and of the tables nothing, keeps what the
\* others hold right.
LEMMA LokalSaja ==
  ASSUME IInv, NEW r \in Permintaan, NEW q, q \in LokalTipe, PermintaanSah(q),
         Menjadi(r, q), Lanjutan(req[r], q), UNCHANGED Tabel,
         sekolah' \in [Sekolah -> Hitungan], kotor' \subseteq Sekolah,
         kredensial' \subseteq Terdaftar, yatim \subseteq yatim', yatim' \subseteq Akun,
         ProfilTetap',
         \A n \in Akun : req[r].n = n /\ n \notin Terdaftar
                           => q.n = n \/ n \in yatim' \/ Dibatalkan # {}
  PROVE  IInv'
<1>1. req'[r] = q /\ \A p \in Permintaan : p # r => req'[p] = req[p] BY DEF Menjadi, Tipe, IInv
<1>2. Tipe' BY DEF Tipe, IInv, Tabel, Menjadi, Terdaftar
<1>3. \A p \in Permintaan : PermintaanSah(req[p])'
  BY <1>1 DEF PermintaanSah, IInv, Tabel, Terdaftar
<1>4. \A p1, p2 \in Permintaan : p1 # p2 => Berdua(req[p1], req[p2])'
  BY BerduaTetap DEF IInv, Tabel
<1>5. TabelSah' BY DEF TabelSah, IInv, Tabel, Terdaftar
<1>6. YatimBersebab'
  BY <1>1 DEF YatimBersebab, IInv, Tabel, Terdaftar, Dibatalkan
<1>7. StatusTerakhir' BY DEF StatusTerakhir, IInv, Tabel
<1> QED BY <1>2, <1>3, <1>4, <1>5, <1>6, <1>7 DEF IInv


----------------------------------------------------------------------------
(* The steps, one by one.                                                  *)

\* A request that ends, changing no table but those of schools.
LEMMA Selesai ==
  ASSUME IInv, NEW r \in Permintaan, Menjadi(r, Bebas), UNCHANGED Tabel,
         sekolah' \in [Sekolah -> Hitungan], kotor' \subseteq Sekolah,
         kredensial' \subseteq Terdaftar, yatim \subseteq yatim', yatim' \subseteq Akun,
         ProfilTetap',
         req[r].pc \in TanpaGuru => req[r].n \in yatim' \/ Dibatalkan # {}
  PROVE  IInv'
<1>1. PermintaanSah(Bebas) BY BebasSah DEF PermintaanSah, TanpaGuru, AdaGuru, PegangSekolah, Mendaftar
<1>2. Lanjutan(req[r], Bebas) BY BebasSah, AkunAsli DEF Lanjutan, TanpaGuru
<1>3. PermintaanSah(req[r]) BY DEF IInv
<1>4. \A n \in Akun : req[r].n = n /\ n \notin Terdaftar
                        => Bebas.n = n \/ n \in yatim' \/ Dibatalkan # {}
  BY <1>3, AkunAsli DEF PermintaanSah
<1> QED BY <1>1, <1>2, <1>4, BebasSah, LokalSaja

LEMMA CekEmailAman ==
  ASSUME IInv, NEW r \in Permintaan, CekEmail(r) PROVE IInv'
<1>1. Tipe /\ TabelSah /\ ProfilTetap /\ PermintaanSah(req[r]) /\ req[r] \in LokalTipe
  BY DEF IInv, Tipe
<1>2. req[r].pc = "email" /\ req[r].pc \notin TanpaGuru BY DEF CekEmail, TanpaGuru
<1>3. /\ UNCHANGED Tabel /\ kredensial' \subseteq Terdaftar
      /\ sekolah' \in [Sekolah -> Hitungan] /\ kotor' \subseteq Sekolah
      /\ yatim \subseteq yatim' /\ yatim' \subseteq Akun /\ ProfilTetap'
  BY <1>1 DEF CekEmail, Tabel, riwayat, Tipe, TabelSah, ProfilTetap
<1>4. CASE Menjadi(r, Bebas) BY <1>2, <1>3, <1>4, Selesai
<1>5. ASSUME NEW pc \in {"nomor", "akun"}, Ke(r, pc) PROVE IInv'
  <2> DEFINE q == [req[r] EXCEPT !.pc = pc]
  <2>1. q \in LokalTipe /\ q.pc = pc /\ q.s = req[r].s /\ q.n = req[r].n /\ q.e = req[r].e
        /\ q.guru = req[r].guru /\ q.instansi = req[r].instansi
    BY <1>1 DEF LokalTipe
  <2>2. Menjadi(r, q) BY <1>5 DEF Ke
  <2> HIDE DEF q
  <2>3. PermintaanSah(q)
    BY <1>1, <1>2, <2>1 DEF PermintaanSah, TanpaGuru, AdaGuru, PegangSekolah, Mendaftar
  <2>4. Lanjutan(req[r], q) BY <1>2, <2>1 DEF Lanjutan, TanpaGuru
  <2> QED BY <1>3, <2>1, <2>2, <2>3, <2>4, LokalSaja
<1> QED BY <1>4, <1>5 DEF CekEmail

LEMMA CekNomorAman ==
  ASSUME IInv, NEW r \in Permintaan, CekNomor(r) PROVE IInv'
<1>1. Tipe /\ TabelSah /\ ProfilTetap /\ PermintaanSah(req[r]) /\ req[r] \in LokalTipe
  BY DEF IInv, Tipe
<1>2. req[r].pc = "nomor" /\ req[r].pc \notin TanpaGuru BY DEF CekNomor, TanpaGuru
<1>3. /\ UNCHANGED Tabel /\ kredensial' \subseteq Terdaftar
      /\ sekolah' \in [Sekolah -> Hitungan] /\ kotor' \subseteq Sekolah
      /\ yatim \subseteq yatim' /\ yatim' \subseteq Akun /\ ProfilTetap'
  BY <1>1 DEF CekNomor, Tabel, riwayat, Tipe, TabelSah, ProfilTetap
<1>4. CASE Menjadi(r, Bebas) BY <1>2, <1>3, <1>4, Selesai
<1>5. CASE Ke(r, "akun")
  <2> DEFINE q == [req[r] EXCEPT !.pc = "akun"]
  <2>1. q \in LokalTipe /\ q.pc = "akun" /\ q.s = req[r].s /\ q.n = req[r].n /\ q.e = req[r].e
        /\ q.guru = req[r].guru /\ q.instansi = req[r].instansi
    BY <1>1 DEF LokalTipe
  <2>2. Menjadi(r, q) BY <1>5 DEF Ke
  <2> HIDE DEF q
  <2>3. PermintaanSah(q)
    BY <1>1, <1>2, <2>1 DEF PermintaanSah, TanpaGuru, AdaGuru, PegangSekolah, Mendaftar
  <2>4. Lanjutan(req[r], q) BY <1>2, <2>1 DEF Lanjutan, TanpaGuru
  <2> QED BY <1>3, <2>1, <2>2, <2>3, <2>4, LokalSaja
<1> QED BY <1>4, <1>5 DEF CekNomor

LEMMA TambahJumlahAman ==
  ASSUME IInv, NEW r \in Permintaan, TambahJumlah(r) PROVE IInv'
<1>1. Tipe /\ TabelSah /\ ProfilTetap /\ PermintaanSah(req[r]) /\ req[r] \in LokalTipe
  BY DEF IInv, Tipe
<1>2. req[r].pc = "jumlah" /\ req[r].pc \notin TanpaGuru BY DEF TambahJumlah, TanpaGuru
<1>3. req[r].s \in Sekolah /\ req[r].n \in Terdaftar
      /\ (req[r].instansi.profil = profil[req[r].s] \/ req[r].s \in bentrok)
  BY <1>1, <1>2 DEF PermintaanSah, AdaGuru, PegangSekolah
<1> DEFINE i == [req[r].instansi EXCEPT !.jumlah = @ + 1]
<1>4. i \in Hitungan /\ i.profil = req[r].instansi.profil BY <1>1 DEF LokalTipe, Hitungan
<1>5. sekolah' = [sekolah EXCEPT ![req[r].s] = i] BY DEF TambahJumlah
<1> HIDE DEF i
<1>6. UNCHANGED Tabel /\ kredensial' \subseteq Terdaftar /\ kotor' = kotor /\ yatim' = yatim
      /\ Menjadi(r, Bebas)
  BY <1>1, <1>3 DEF TambahJumlah, Tabel, TabelSah
<1>7. sekolah' \in [Sekolah -> Hitungan] /\ kotor \subseteq Sekolah /\ yatim \subseteq Akun
  BY <1>1, <1>4, <1>5 DEF Tipe
<1>8. ProfilTetap'
  BY <1>1, <1>3, <1>4, <1>5, <1>6 DEF ProfilTetap, Tabel, Tipe
<1> QED BY <1>2, <1>6, <1>7, <1>8, Selesai

LEMMA SimpanJumlahAman ==
  ASSUME IInv, NEW r \in Permintaan, SimpanJumlah(r) PROVE IInv'
<1>1. Tipe /\ TabelSah /\ ProfilTetap /\ PermintaanSah(req[r]) /\ req[r] \in LokalTipe
  BY DEF IInv, Tipe
<1>2. req[r].pc = "jumlahkan" /\ req[r].pc \notin TanpaGuru BY DEF SimpanJumlah, TanpaGuru
<1>3. req[r].s \in Sekolah
      /\ (req[r].instansi.profil = profil[req[r].s] \/ req[r].s \in bentrok)
  BY <1>1, <1>2 DEF PermintaanSah, PegangSekolah
<1>4. req[r].instansi \in Hitungan BY <1>1 DEF LokalTipe
<1>5. UNCHANGED Tabel /\ kredensial' \subseteq Terdaftar /\ kotor' \subseteq Sekolah
      /\ yatim' = yatim /\ Menjadi(r, Bebas)
      /\ sekolah' = [sekolah EXCEPT ![req[r].s] = req[r].instansi]
  BY <1>1 DEF SimpanJumlah, Tabel, TabelSah, Tipe
<1>6. sekolah' \in [Sekolah -> Hitungan] /\ yatim \subseteq Akun BY <1>1, <1>4, <1>5 DEF Tipe
<1>7. ProfilTetap'
  BY <1>1, <1>3, <1>5 DEF ProfilTetap, Tabel, Tipe
<1> QED BY <1>2, <1>5, <1>6, <1>7, Selesai


LEMMA SimpanProfilAman ==
  ASSUME IInv, NEW r \in Permintaan, SimpanProfil(r) PROVE IInv'
<1>1. Tipe /\ TabelSah /\ ProfilTetap /\ PermintaanSah(req[r]) /\ req[r] \in LokalTipe
  BY DEF IInv, Tipe
<1>2. req[r].pc = "profil" BY DEF SimpanProfil
<1>3. req[r].s \in Sekolah /\ req[r].n = 0
  BY <1>1, <1>2 DEF PermintaanSah, TanpaGuru, AdaGuru
<1>4. req[r].instansi \in Hitungan /\ req[r].instansi.profil \in 0..MaxData
  BY <1>1 DEF LokalTipe, Hitungan
<1>5. req'[r] = Bebas /\ \A p \in Permintaan : p # r => req'[p] = req[p]
  BY <1>1 DEF SimpanProfil, Menjadi, Tipe
<1>6. Tipe'
  BY <1>1, <1>3, <1>4, BebasSah DEF Tipe, SimpanProfil, Menjadi
<1>7. \A p \in Permintaan : PermintaanSah(req[p])'
  <2> SUFFICES ASSUME NEW p \in Permintaan PROVE PermintaanSah(req[p])'
    OBVIOUS
  <2>1. CASE p = r
    BY <1>5, <2>1, BebasSah DEF PermintaanSah, TanpaGuru, AdaGuru, PegangSekolah, Mendaftar
  <2>2. CASE p # r
    <3>1. Berdua(req[p], req[r]) /\ PermintaanSah(req[p]) /\ req'[p] = req[p] BY <1>5, <2>2 DEF IInv
    <3>2. req[p].pc \in PegangSekolah /\ req[p].s = req[r].s => req[p].s \in bentrok
      BY <3>1, <1>2 DEF Berdua, PegangSekolah
    <3>3. req[p].s # req[r].s => profil'[req[p].s] = profil[req[p].s]
      BY <1>1, <1>3 DEF SimpanProfil, Tipe
    <3> QED BY <3>1, <3>2, <3>3 DEF PermintaanSah, SimpanProfil, Terdaftar
  <2> QED BY <2>1, <2>2
<1>8. Lanjutan(req[r], Bebas) BY BebasSah, AkunAsli DEF Lanjutan, TanpaGuru
<1>9. \A p1, p2 \in Permintaan : p1 # p2 => Berdua(req[p1], req[p2])'
  BY <1>8, BerduaTetap DEF IInv, SimpanProfil
<1>10. TabelSah' BY <1>1 DEF TabelSah, SimpanProfil, Terdaftar
<1>11. YatimBersebab'
  BY <1>3, <1>5, AkunAsli DEF YatimBersebab, IInv, SimpanProfil, Terdaftar, Dibatalkan
<1>12. StatusTerakhir' BY DEF StatusTerakhir, IInv, SimpanProfil
<1>13. ProfilTetap' BY <1>1 DEF ProfilTetap, SimpanProfil, Tipe
<1> QED BY <1>6, <1>7, <1>9, <1>10, <1>11, <1>12, <1>13 DEF IInv

LEMMA BacaSekolahAman ==
  ASSUME IInv, NEW r \in Permintaan, BacaSekolah(r) PROVE IInv'
<1>1. Tipe /\ TabelSah /\ ProfilTetap /\ PermintaanSah(req[r]) /\ req[r] \in LokalTipe
  BY DEF IInv, Tipe
<1>2. req[r].pc = "sekolah" BY DEF BacaSekolah
<1>3. /\ UNCHANGED Tabel /\ kredensial' \subseteq Terdaftar
      /\ sekolah' \in [Sekolah -> Hitungan] /\ kotor' \subseteq Sekolah
      /\ yatim \subseteq yatim' /\ yatim' \subseteq Akun /\ ProfilTetap'
  BY <1>1 DEF BacaSekolah, Tabel, riwayat, Tipe, TabelSah, ProfilTetap
<1>4. req[r].s \in Sekolah BY <1>1, <1>2 DEF PermintaanSah
<1> DEFINE q == [req[r] EXCEPT !.pc = "hitung", !.instansi = sekolah[req[r].s]]
<1>5. q \in LokalTipe BY <1>1, <1>4 DEF LokalTipe, Tipe
<1>6. q.pc = "hitung" /\ q.s = req[r].s /\ q.n = req[r].n /\ q.e = req[r].e
      /\ q.guru = req[r].guru /\ q.instansi = sekolah[req[r].s]
  BY <1>1 DEF LokalTipe
<1>7. Menjadi(r, q) BY DEF BacaSekolah
<1> HIDE DEF q
<1>8. PermintaanSah(q)
  BY <1>1, <1>2, <1>4, <1>6 DEF PermintaanSah, TanpaGuru, AdaGuru, PegangSekolah, Mendaftar, ProfilTetap
<1>9. Lanjutan(req[r], q) BY <1>2, <1>6 DEF Lanjutan, TanpaGuru
<1> QED BY <1>3, <1>5, <1>6, <1>7, <1>8, <1>9, LokalSaja

\* The set of the active teachers of a school is finite, so it has a number.
LEMMA AktifTerhingga ==
  ASSUME NEW s
  PROVE  IsFiniteSet(Aktif(s)) /\ Cardinality(Aktif(s)) \in Nat
<1>1. MaxAkun \in Nat BY KonstantaAssumption
<1>2. IsFiniteSet(Akun) BY <1>1, FS_Interval DEF Akun
<1>3. Aktif(s) \subseteq Akun BY DEF Aktif
<1> QED BY <1>2, <1>3, FS_Subset, FS_CardinalityType

LEMMA HitungAman ==
  ASSUME IInv, NEW r \in Permintaan, Hitung(r) PROVE IInv'
<1>1. Tipe /\ TabelSah /\ ProfilTetap /\ PermintaanSah(req[r]) /\ req[r] \in LokalTipe
  BY DEF IInv, Tipe
<1>2. req[r].pc = "hitung" BY DEF Hitung
<1>3. /\ UNCHANGED Tabel /\ kredensial' \subseteq Terdaftar
      /\ sekolah' \in [Sekolah -> Hitungan] /\ kotor' \subseteq Sekolah
      /\ yatim \subseteq yatim' /\ yatim' \subseteq Akun /\ ProfilTetap'
  BY <1>1 DEF Hitung, Tabel, riwayat, Tipe, TabelSah, ProfilTetap
<1> DEFINE k == Cardinality(Aktif(req[r].s))
           q == [req[r] EXCEPT !.pc = "jumlahkan", !.instansi.jumlah = k]
<1>4. k \in Nat BY AktifTerhingga
<1>5. Menjadi(r, q) BY DEF Hitung
<1> HIDE DEF k
<1>6. q \in LokalTipe BY <1>1, <1>4 DEF LokalTipe, Hitungan
<1>7. q.pc = "jumlahkan" /\ q.s = req[r].s /\ q.n = req[r].n /\ q.e = req[r].e
      /\ q.guru = req[r].guru /\ q.instansi.profil = req[r].instansi.profil
  BY <1>1, <1>4 DEF LokalTipe, Hitungan
<1> HIDE DEF q
<1>8. PermintaanSah(q)
  BY <1>1, <1>2, <1>7 DEF PermintaanSah, TanpaGuru, AdaGuru, PegangSekolah, Mendaftar
<1>9. Lanjutan(req[r], q) BY <1>2, <1>7 DEF Lanjutan, TanpaGuru
<1> QED BY <1>3, <1>5, <1>6, <1>7, <1>8, <1>9, LokalSaja

LEMMA GagalAman ==
  ASSUME IInv, NEW r \in Permintaan, Gagal(r) PROVE IInv'
<1>1. Tipe /\ TabelSah /\ ProfilTetap /\ PermintaanSah(req[r]) /\ req[r] \in LokalTipe
  BY DEF IInv, Tipe
<1>2. /\ UNCHANGED Tabel /\ sekolah' \in [Sekolah -> Hitungan] /\ ProfilTetap'
  BY <1>1 DEF Gagal, Tabel, Tipe, ProfilTetap
<1>3. kotor' \subseteq Sekolah
  BY <1>1 DEF Gagal, Tipe, PermintaanSah
<1>4. kredensial \subseteq Terdaftar /\ yatim \subseteq Akun BY <1>1 DEF TabelSah, Tipe
<1>5. CASE req[r].pc = "baris" /\ Lepas(r, "batal") /\ UNCHANGED <<kredensial, yatim>>
  <2> DEFINE q == [req[r] EXCEPT !.pc = "batal", !.guru = BelumAda]
  <2>1. q \in LokalTipe BY <1>1, BebasSah DEF LokalTipe, Bebas
  <2>2. q.pc = "batal" /\ q.s = req[r].s /\ q.n = req[r].n BY <1>1 DEF LokalTipe
  <2>3. Menjadi(r, q) BY <1>5 DEF Lepas
  <2> HIDE DEF q
  <2>4. PermintaanSah(q)
    BY <1>1, <1>5, <2>2 DEF PermintaanSah, TanpaGuru, AdaGuru, PegangSekolah, Mendaftar
  <2>5. Lanjutan(req[r], q) BY <1>5, <2>2 DEF Lanjutan, TanpaGuru
  <2>6. kredensial' \subseteq Terdaftar /\ yatim \subseteq yatim' /\ yatim' \subseteq Akun
    BY <1>4, <1>5
  <2> QED BY <1>2, <1>3, <2>1, <2>2, <2>3, <2>4, <2>5, <2>6, LokalSaja
<1>6. CASE /\ req[r].pc = "hitung"
           /\ Menjadi(r, [req[r] EXCEPT !.pc = "jumlahkan", !.instansi.jumlah = 0, !.sendiri = FALSE])
           /\ UNCHANGED <<kredensial, yatim>>
  <2> DEFINE q == [req[r] EXCEPT !.pc = "jumlahkan", !.instansi.jumlah = 0, !.sendiri = FALSE]
  <2>1. q \in LokalTipe BY <1>1 DEF LokalTipe, Hitungan
  <2>2. q.pc = "jumlahkan" /\ q.s = req[r].s /\ q.n = req[r].n /\ q.e = req[r].e
        /\ q.guru = req[r].guru /\ q.instansi.profil = req[r].instansi.profil
    BY <1>1 DEF LokalTipe, Hitungan
  <2>3. Menjadi(r, q) BY <1>6
  <2> HIDE DEF q
  <2>4. PermintaanSah(q)
    BY <1>1, <1>6, <2>2 DEF PermintaanSah, TanpaGuru, AdaGuru, PegangSekolah, Mendaftar
  <2>5. Lanjutan(req[r], q) BY <1>6, <2>2 DEF Lanjutan, TanpaGuru
  <2>6. kredensial' \subseteq Terdaftar /\ yatim \subseteq yatim' /\ yatim' \subseteq Akun
    BY <1>4, <1>6
  <2> QED BY <1>2, <1>3, <2>1, <2>2, <2>3, <2>4, <2>5, <2>6, LokalSaja
<1>7. CASE /\ req[r].pc = "jumlah" /\ Menjadi(r, Bebas)
           /\ kredensial' = kredensial \cup {req[r].n} /\ UNCHANGED yatim
  <2>1. req[r].n \in Terdaftar /\ req[r].pc \notin TanpaGuru
    BY <1>1, <1>7 DEF PermintaanSah, AdaGuru, TanpaGuru
  <2>2. kredensial' \subseteq Terdaftar /\ yatim \subseteq yatim' /\ yatim' \subseteq Akun
    BY <1>4, <1>7, <2>1
  <2> QED BY <1>2, <1>3, <1>7, <2>1, <2>2, Selesai
<1>8. CASE /\ Menjadi(r, Bebas)
           /\ yatim' = IF req[r].pc \in {"baris", "batal"} THEN yatim \cup {req[r].n} ELSE yatim
           /\ UNCHANGED kredensial
  <2>1. req[r].pc \in TanpaGuru => req[r].n \in Akun BY <1>1 DEF PermintaanSah
  <2>2. kredensial' \subseteq Terdaftar /\ yatim \subseteq yatim' /\ yatim' \subseteq Akun
        /\ (req[r].pc \in TanpaGuru => req[r].n \in yatim')
    BY <1>4, <1>8, <2>1 DEF TanpaGuru
  <2> QED BY <1>2, <1>3, <1>8, <2>2, Selesai
<1> QED BY <1>5, <1>6, <1>7, <1>8 DEF Gagal


\* A teacher's row saved again stays with its school; which schools and accounts
\* have teachers does not change.
LEMMA SimpanGuruAman ==
  ASSUME IInv, NEW r \in Permintaan, SimpanGuru(r) PROVE IInv'
<1>1. Tipe /\ TabelSah /\ ProfilTetap /\ PermintaanSah(req[r]) /\ req[r] \in LokalTipe
  BY DEF IInv, Tipe
<1>2. req[r].pc = "guru" BY DEF SimpanGuru
<1> DEFINE n == req[r].n
<1>3. n \in Terdaftar /\ n \in Akun /\ pendidik[n].sekolah = req[r].s
      /\ req[r].guru.sekolah = req[r].s /\ (req[r].guru.status = maksud[n] \/ n \in tumpang)
  BY <1>1, <1>2 DEF PermintaanSah, AdaGuru, Terdaftar
<1>4. req[r].guru \in Guru BY <1>1 DEF LokalTipe
<1>5. req'[r] = Bebas /\ \A p \in Permintaan : p # r => req'[p] = req[p]
  BY <1>1 DEF SimpanGuru, Menjadi, Tipe
<1>6. /\ pendidik'[n] = req[r].guru
      /\ \A m \in Akun : m # n => pendidik'[m] = pendidik[m]
      /\ \A m \in Akun : pendidik'[m].sekolah = pendidik[m].sekolah
  BY <1>1, <1>3 DEF SimpanGuru, Tipe
<1>7. Terdaftar' = Terdaftar BY <1>6 DEF Terdaftar, Akun
<1>8. Tipe' BY <1>1, <1>3, <1>4, BebasSah DEF Tipe, SimpanGuru, Menjadi, riwayat
<1>9. \A p \in Permintaan : PermintaanSah(req[p])'
  <2> SUFFICES ASSUME NEW p \in Permintaan PROVE PermintaanSah(req[p])'
    OBVIOUS
  <2>1. CASE p = r
    BY <1>5, <2>1, BebasSah DEF PermintaanSah, TanpaGuru, AdaGuru, PegangSekolah, Mendaftar
  <2>2. CASE p # r
    <3>1. PermintaanSah(req[p]) /\ req'[p] = req[p] BY <1>5, <2>2 DEF IInv
    <3>2. req[p].n \in Terdaftar => pendidik'[req[p].n].sekolah = pendidik[req[p].n].sekolah
      BY <1>6 DEF Terdaftar
    <3> QED BY <3>1, <3>2, <1>7 DEF PermintaanSah, SimpanGuru, riwayat, AdaGuru, TanpaGuru,
                                    PegangSekolah, Mendaftar
  <2> QED BY <2>1, <2>2
<1>10. Lanjutan(req[r], Bebas) BY BebasSah, AkunAsli DEF Lanjutan, TanpaGuru
<1>11. \A p1, p2 \in Permintaan : p1 # p2 => Berdua(req[p1], req[p2])'
  BY <1>10, <1>1, BerduaTetap DEF IInv, SimpanGuru, riwayat
<1>12. TabelSah' BY <1>1, <1>3, <1>6, <1>7 DEF TabelSah, SimpanGuru, riwayat, Akun
<1>13. YatimBersebab'
  BY <1>3, <1>5, <1>7, AkunAsli DEF YatimBersebab, IInv, SimpanGuru, riwayat, Dibatalkan, Akun
<1>14. StatusTerakhir' BY <1>3, <1>6 DEF StatusTerakhir, IInv, SimpanGuru, riwayat, Akun
<1>15. ProfilTetap' BY <1>1 DEF ProfilTetap, SimpanGuru, riwayat
<1> QED BY <1>8, <1>9, <1>11, <1>12, <1>13, <1>14, <1>15 DEF IInv

LEMMA SimpanStatusAman ==
  ASSUME IInv, NEW r \in Permintaan, SimpanStatus(r) PROVE IInv'
<1>1. Tipe /\ TabelSah /\ ProfilTetap /\ PermintaanSah(req[r]) /\ req[r] \in LokalTipe
  BY DEF IInv, Tipe
<1>2. req[r].pc = "status" BY DEF SimpanStatus
<1> DEFINE n == req[r].n
           q == [req[r] EXCEPT !.pc = "sekolah", !.guru = BelumAda]
<1>3. n \in Terdaftar /\ n \in Akun /\ pendidik[n].sekolah = req[r].s
      /\ req[r].guru.sekolah = req[r].s
  BY <1>1, <1>2 DEF PermintaanSah, AdaGuru, Terdaftar
<1>4. req[r].guru \in Guru /\ req[r].guru.status \in Status BY <1>1 DEF LokalTipe, Guru
<1>5. q \in LokalTipe BY <1>1, BebasSah DEF LokalTipe, Bebas
<1>6. q.pc = "sekolah" /\ q.s = req[r].s /\ q.n = n BY <1>1 DEF LokalTipe
<1>7. Menjadi(r, q) BY DEF SimpanStatus, Lepas
<1> HIDE DEF q
<1>8. req'[r] = q /\ \A p \in Permintaan : p # r => req'[p] = req[p]
  BY <1>1, <1>7 DEF Menjadi, Tipe
<1>9. /\ pendidik'[n] = req[r].guru /\ maksud'[n] = req[r].guru.status
      /\ \A m \in Akun : m # n => pendidik'[m] = pendidik[m] /\ maksud'[m] = maksud[m]
      /\ \A m \in Akun : pendidik'[m].sekolah = pendidik[m].sekolah
  BY <1>1, <1>3 DEF SimpanStatus, Tipe
<1>10. Terdaftar' = Terdaftar BY <1>9 DEF Terdaftar, Akun
<1>11. Tipe' BY <1>1, <1>3, <1>4, <1>5, <1>7 DEF Tipe, SimpanStatus, Menjadi
<1>12. \A p \in Permintaan : PermintaanSah(req[p])'
  <2> SUFFICES ASSUME NEW p \in Permintaan PROVE PermintaanSah(req[p])'
    OBVIOUS
  <2>1. CASE p = r
    BY <1>1, <1>2, <1>3, <1>6, <1>8, <1>9, <1>10, <2>1
    DEF PermintaanSah, TanpaGuru, AdaGuru, PegangSekolah, Mendaftar, SimpanStatus
  <2>2. CASE p # r
    <3>1. Berdua(req[p], req[r]) /\ PermintaanSah(req[p]) /\ req'[p] = req[p] BY <1>8, <2>2 DEF IInv
    <3>2. req[p].n \in Terdaftar =>
            /\ pendidik'[req[p].n].sekolah = pendidik[req[p].n].sekolah
            /\ maksud'[req[p].n] = maksud[req[p].n] \/ req[p].n \in tumpang
      BY <3>1, <1>9, <1>3 DEF Terdaftar, Berdua
    <3> QED BY <3>1, <3>2, <1>10 DEF PermintaanSah, SimpanStatus, AdaGuru, TanpaGuru,
                                     PegangSekolah, Mendaftar
  <2> QED BY <2>1, <2>2
<1>13. Lanjutan(req[r], q) BY <1>2, <1>6 DEF Lanjutan, TanpaGuru
<1>14. \A p1, p2 \in Permintaan : p1 # p2 => Berdua(req[p1], req[p2])'
  BY <1>1, <1>7, <1>13, BerduaTetap DEF IInv, SimpanStatus
<1>15. TabelSah' BY <1>1, <1>3, <1>9, <1>10 DEF TabelSah, SimpanStatus, Akun
<1>16. YatimBersebab'
  BY <1>3, <1>6, <1>8, <1>10, AkunAsli DEF YatimBersebab, IInv, SimpanStatus, Dibatalkan, Akun
<1>17. StatusTerakhir' BY <1>3, <1>9 DEF StatusTerakhir, IInv, SimpanStatus, Akun
<1>18. ProfilTetap' BY <1>1 DEF ProfilTetap, SimpanStatus
<1> QED BY <1>11, <1>12, <1>14, <1>15, <1>16, <1>17, <1>18 DEF IInv

LEMMA BuatBarisAman ==
  ASSUME IInv, NEW r \in Permintaan, BuatBaris(r) PROVE IInv'
<1>1. Tipe /\ TabelSah /\ ProfilTetap /\ PermintaanSah(req[r]) /\ req[r] \in LokalTipe
  BY DEF IInv, Tipe
<1>2. req[r].pc = "baris" BY DEF BuatBaris
<1> DEFINE n == req[r].n
<1>3. n \in Akun /\ users[n].role = "tenaga_pendidik" /\ n \notin Terdaftar
      /\ req[r].s \in Sekolah /\ req[r].guru.sekolah = req[r].s /\ req[r].guru.status = "aktif"
      /\ (req[r].instansi.profil = profil[req[r].s] \/ req[r].s \in bentrok)
  BY <1>1, <1>2 DEF PermintaanSah, TanpaGuru, Mendaftar, PegangSekolah
<1>4. CASE Lepas(r, "batal") /\ UNCHANGED pendidik
  <2> DEFINE q == [req[r] EXCEPT !.pc = "batal", !.guru = BelumAda]
  <2>1. q \in LokalTipe BY <1>1, BebasSah DEF LokalTipe, Bebas
  <2>2. q.pc = "batal" /\ q.s = req[r].s /\ q.n = n BY <1>1 DEF LokalTipe
  <2>3. Menjadi(r, q) BY <1>4 DEF Lepas
  <2> HIDE DEF q
  <2>4. PermintaanSah(q)
    BY <1>1, <1>2, <2>2 DEF PermintaanSah, TanpaGuru, AdaGuru, PegangSekolah, Mendaftar
  <2>5. Lanjutan(req[r], q) BY <1>2, <2>2 DEF Lanjutan, TanpaGuru
  <2>6. /\ UNCHANGED Tabel /\ kredensial' \subseteq Terdaftar
        /\ sekolah' \in [Sekolah -> Hitungan] /\ kotor' \subseteq Sekolah
        /\ yatim \subseteq yatim' /\ yatim' \subseteq Akun /\ ProfilTetap'
    BY <1>1, <1>4 DEF BuatBaris, Tabel, riwayat, Tipe, TabelSah, ProfilTetap
  <2> QED BY <2>1, <2>2, <2>3, <2>4, <2>5, <2>6, LokalSaja
<1>5. CASE pendidik' = [pendidik EXCEPT ![n] = req[r].guru] /\ Lepas(r, "jumlah")
  <2> DEFINE q == [req[r] EXCEPT !.pc = "jumlah", !.guru = BelumAda]
  <2>1. q \in LokalTipe BY <1>1, BebasSah DEF LokalTipe, Bebas
  <2>2. q.pc = "jumlah" /\ q.s = req[r].s /\ q.n = n /\ q.instansi = req[r].instansi
    BY <1>1 DEF LokalTipe
  <2>3. Menjadi(r, q) BY <1>5 DEF Lepas
  <2>4. req[r].guru \in Guru /\ Tiada \notin Sekolah
    BY <1>1, KonstantaAssumption DEF LokalTipe
  <2> HIDE DEF q
  <2>5. req'[r] = q /\ \A p \in Permintaan : p # r => req'[p] = req[p]
    BY <1>1, <2>3 DEF Menjadi, Tipe
  <2>6. /\ pendidik'[n] = req[r].guru
        /\ \A m \in Akun : m # n => pendidik'[m] = pendidik[m]
    BY <1>1, <1>3, <1>5 DEF Tipe
  <2>7. Terdaftar' = Terdaftar \cup {n} /\ UNCHANGED <<users, sekolah, riwayat>>
    BY <1>3, <2>4, <2>6 DEF Terdaftar, Akun, BuatBaris
  <2>8. Tipe' BY <1>1, <1>3, <1>5, <2>1, <2>3, <2>4, <2>7 DEF Tipe, Menjadi, riwayat
  <2>9. \A p \in Permintaan : PermintaanSah(req[p])'
    <3> SUFFICES ASSUME NEW p \in Permintaan PROVE PermintaanSah(req[p])'
      OBVIOUS
    <3>1. CASE p = r
      BY <1>1, <1>3, <2>2, <2>5, <2>6, <2>7, <3>1
      DEF PermintaanSah, TanpaGuru, AdaGuru, PegangSekolah, Mendaftar, riwayat
    <3>2. CASE p # r
      <4>1. Berdua(req[p], req[r]) /\ PermintaanSah(req[p]) /\ req'[p] = req[p]
        BY <2>5, <3>2 DEF IInv
      <4>2. req[p].pc \in TanpaGuru => req[p].n # n BY <4>1, <1>2 DEF Berdua, TanpaGuru
      <4>3. req[p].n \in Terdaftar => pendidik'[req[p].n] = pendidik[req[p].n]
        BY <2>6, <1>3 DEF Terdaftar
      <4> QED BY <4>1, <4>2, <4>3, <2>7 DEF PermintaanSah, riwayat, TanpaGuru, AdaGuru,
                                            PegangSekolah, Mendaftar, Akun
    <3> QED BY <3>1, <3>2
  <2>10. Lanjutan(req[r], q) BY <1>2, <2>2 DEF Lanjutan, TanpaGuru
  <2>11. \A p1, p2 \in Permintaan : p1 # p2 => Berdua(req[p1], req[p2])'
    BY <1>1, <2>3, <2>7, <2>10, BerduaTetap DEF IInv, riwayat
  <2>12. TabelSah' BY <1>1, <1>3, <2>6, <2>7 DEF TabelSah, riwayat, Akun
  <2>13. YatimBersebab'
    BY <2>2, <2>5, <2>7, AkunAsli DEF YatimBersebab, IInv, riwayat, Dibatalkan, Akun
  <2>14. StatusTerakhir'
    BY <1>1, <1>3, <2>6, <2>7 DEF StatusTerakhir, IInv, TabelSah, riwayat, Akun
  <2>15. ProfilTetap' BY <1>1, <2>7 DEF ProfilTetap, riwayat
  <2> QED BY <2>8, <2>9, <2>11, <2>12, <2>13, <2>14, <2>15 DEF IInv
<1> QED BY <1>4, <1>5 DEF BuatBaris


\* The rollback changes no account that has a teacher, and none another request
\* is at work on.
LEMMA BatalkanAman ==
  ASSUME IInv, NEW r \in Permintaan, Batalkan(r) PROVE IInv'
<1>1. Tipe /\ TabelSah /\ ProfilTetap /\ PermintaanSah(req[r]) /\ req[r] \in LokalTipe
  BY DEF IInv, Tipe
<1>2. req[r].pc = "batal" /\ Menjadi(r, Bebas) /\ UNCHANGED <<pendidik, sekolah, riwayat>>
  BY DEF Batalkan
<1> DEFINE n == req[r].n
<1>3. n \in Akun /\ n \notin Terdaftar
  BY <1>1, <1>2 DEF PermintaanSah, TanpaGuru
<1>4. CASE Dibatalkan # {} /\ users' = users
  <2>1. /\ UNCHANGED Tabel /\ kredensial' \subseteq Terdaftar
        /\ sekolah' \in [Sekolah -> Hitungan] /\ kotor' \subseteq Sekolah
        /\ yatim \subseteq yatim' /\ yatim' \subseteq Akun /\ ProfilTetap'
    BY <1>1, <1>2, <1>4 DEF Tabel, riwayat, Tipe, TabelSah, ProfilTetap
  <2> QED BY <1>2, <1>4, <2>1, Selesai
<1>5. CASE Dibatalkan = {} /\ users' = [users EXCEPT ![n] = [email |-> "", role |-> ""]]
  <2> DEFINE hapus == [email |-> "", role |-> ""]
  <2>0. /\ hapus \in Pengguna /\ hapus.email = ""
        /\ hapus.role # "belum" /\ hapus.role # "tenaga_pendidik"
    BY Zenon DEF Pengguna
  <2>4. users' = [users EXCEPT ![n] = hapus] BY <1>5
  <2> HIDE DEF hapus
  <2>1. req'[r] = Bebas /\ \A p \in Permintaan : p # r => req'[p] = req[p]
    BY <1>1, <1>2 DEF Menjadi, Tipe
  <2>2. users'[n] = hapus /\ \A m \in Akun : m # n => users'[m] = users[m]
    BY <1>1, <1>3, <2>4 DEF Tipe
  <2>3. Terdaftar' = Terdaftar BY <1>2 DEF Terdaftar, Akun
  <2>5. Tipe' BY <1>1, <1>2, <1>3, <2>0, <2>4, BebasSah DEF Tipe, Menjadi, riwayat
  <2>6. \A p \in Permintaan : PermintaanSah(req[p])'
    <3> SUFFICES ASSUME NEW p \in Permintaan PROVE PermintaanSah(req[p])'
      OBVIOUS
    <3>1. CASE p = r
      BY <2>1, <3>1, BebasSah DEF PermintaanSah, TanpaGuru, AdaGuru, PegangSekolah, Mendaftar
    <3>2. CASE p # r
      <4>1. Berdua(req[p], req[r]) /\ PermintaanSah(req[p]) /\ req'[p] = req[p]
        BY <2>1, <3>2 DEF IInv
      <4>2. req[p].pc \in TanpaGuru => users'[req[p].n] = users[req[p].n]
        BY <4>1, <1>2, <2>2 DEF Berdua, TanpaGuru, PermintaanSah
      <4> QED BY <4>1, <4>2, <2>3, <1>2 DEF PermintaanSah, riwayat, TanpaGuru, AdaGuru,
                                            PegangSekolah, Mendaftar, Akun
    <3> QED BY <3>1, <3>2
  <2>7. Lanjutan(req[r], Bebas) BY BebasSah, AkunAsli DEF Lanjutan, TanpaGuru
  <2>8. \A p1, p2 \in Permintaan : p1 # p2 => Berdua(req[p1], req[p2])'
    BY <1>1, <1>2, <2>7, BerduaTetap DEF IInv, riwayat
  <2>9. TabelSah' BY <1>1, <1>2, <1>3, <2>0, <2>2, <2>3 DEF TabelSah, riwayat, Akun
  <2>10. n \in Dibatalkan' BY <1>3, <2>0, <2>2, Zenon DEF Dibatalkan, Akun
  <2>11. YatimBersebab' BY <2>10 DEF YatimBersebab
  <2>12. StatusTerakhir' BY <1>2 DEF StatusTerakhir, IInv, riwayat
  <2>13. ProfilTetap' BY <1>1, <1>2 DEF ProfilTetap, riwayat
  <2> QED BY <2>5, <2>6, <2>8, <2>9, <2>11, <2>12, <2>13 DEF IInv
<1> QED BY <1>4, <1>5 DEF Batalkan

\* Nobody is at work on the account Create makes: it has no teacher, no role and
\* no e-mail yet.
LEMMA BerikutBaru ==
  ASSUME IInv, NEW n, n \in Berikut
  PROVE  /\ n \in Akun /\ n \notin Terdaftar /\ n \notin Dibatalkan
         /\ \A p \in Permintaan : req[p].n # n
<1>1. n \in Akun /\ users[n].role = "belum" BY DEF Berikut
<1>2. n \notin Terdaftar /\ users[n].email = Tiada BY <1>1 DEF IInv, TabelSah
<1>3. Tiada # "" BY KonstantaAssumption
<1>4. ASSUME NEW p \in Permintaan PROVE req[p].n # n
  BY <1>1, <1>2, AkunAsli DEF IInv, PermintaanSah
<1> QED BY <1>1, <1>2, <1>3, <1>4 DEF Dibatalkan

LEMMA BuatAkunAman ==
  ASSUME IInv, NEW r \in Permintaan, BuatAkun(r) PROVE IInv'
<1>1. Tipe /\ TabelSah /\ ProfilTetap /\ PermintaanSah(req[r]) /\ req[r] \in LokalTipe
  BY DEF IInv, Tipe
<1>2. req[r].pc = "akun" /\ req[r].pc \notin TanpaGuru
      /\ UNCHANGED <<pendidik, sekolah, kredensial, maksud, profil, tumpang, bentrok, kotor>>
  BY DEF BuatAkun, TanpaGuru
<1>3. CASE Menjadi(r, Bebas) /\ UNCHANGED <<users, yatim>>
  <2>1. /\ UNCHANGED Tabel /\ kredensial' \subseteq Terdaftar
        /\ sekolah' \in [Sekolah -> Hitungan] /\ kotor' \subseteq Sekolah
        /\ yatim \subseteq yatim' /\ yatim' \subseteq Akun /\ ProfilTetap'
    BY <1>1, <1>2, <1>3 DEF Tabel, Tipe, TabelSah, ProfilTetap
  <2> QED BY <1>2, <1>3, <2>1, Selesai
<1>4. ASSUME NEW n \in Berikut,
             users' = [users EXCEPT ![n] = [email |-> req[r].e, role |-> "tenaga_pendidik"]],
             NEW q, Menjadi(r, q), q \in LokalTipe, q.n = n \/ n \in yatim',
             yatim \subseteq yatim', yatim' \subseteq Akun,
             q.n \in Akun => q.n = n, q.pc \in TanpaGuru => q.n = n,
             q.pc # "bebas" => q.s = req[r].s,
             PermintaanSah(q)'
      PROVE  IInv'
  <2>1. req'[r] = q /\ \A p \in Permintaan : p # r => req'[p] = req[p]
    BY <1>1, <1>4 DEF Menjadi, Tipe
  <2>2. n \in Akun /\ n \notin Terdaftar /\ n \notin Dibatalkan /\ \A p \in Permintaan : req[p].n # n
    BY BerikutBaru
  <2>3. [email |-> req[r].e, role |-> "tenaga_pendidik"] \in Pengguna
    BY <1>1 DEF LokalTipe, Pengguna
  <2>4. users'[n] = [email |-> req[r].e, role |-> "tenaga_pendidik"]
        /\ \A m \in Akun : m # n => users'[m] = users[m]
    BY <1>1, <1>4, <2>2 DEF Tipe
  <2>5. Terdaftar' = Terdaftar BY <1>2 DEF Terdaftar, Akun
  <2>6. Tipe' BY <1>1, <1>2, <1>4, <2>2, <2>3 DEF Tipe, Menjadi
  <2>7. \A p \in Permintaan : PermintaanSah(req[p])'
    <3> SUFFICES ASSUME NEW p \in Permintaan PROVE PermintaanSah(req[p])'
      OBVIOUS
    <3>1. CASE p = r BY <1>4, <2>1, <3>1 DEF PermintaanSah
    <3>2. CASE p # r
      <4>1. PermintaanSah(req[p]) /\ req'[p] = req[p] BY <2>1, <3>2 DEF IInv
      <4>2. req[p].pc \in TanpaGuru => users'[req[p].n] = users[req[p].n]
        BY <4>1, <2>2, <2>4 DEF PermintaanSah
      <4> QED BY <4>1, <4>2, <2>5, <1>2 DEF PermintaanSah, TanpaGuru, AdaGuru,
                                            PegangSekolah, Mendaftar, Akun
    <3> QED BY <3>1, <3>2
  <2>8. \A p1, p2 \in Permintaan : p1 # p2 => Berdua(req[p1], req[p2])'
    <3> SUFFICES ASSUME NEW p1 \in Permintaan, NEW p2 \in Permintaan, p1 # p2
                 PROVE  Berdua(req[p1], req[p2])'
      OBVIOUS
    <3>1. Berdua(req[p1], req[p2]) BY DEF IInv
    <3>2. CASE p1 = r BY <1>2, <1>4, <2>1, <2>2, <3>1, <3>2 DEF Berdua, TanpaGuru, Akun
    <3>3. CASE p2 = r BY <1>2, <1>4, <2>1, <2>2, <3>1, <3>3 DEF Berdua, TanpaGuru, Akun
    <3>4. CASE p1 # r /\ p2 # r BY <1>2, <2>1, <3>1, <3>4 DEF Berdua
    <3> QED BY <3>2, <3>3, <3>4
  <2>9. TabelSah' BY <1>1, <1>2, <2>2, <2>4, <2>5 DEF TabelSah, Akun
  <2>10. Dibatalkan \subseteq Dibatalkan' BY <2>2, <2>4 DEF Dibatalkan, Akun
  <2>11. YatimBersebab'
    <3> SUFFICES ASSUME NEW m \in Akun, users'[m].role = "tenaga_pendidik", m \notin Terdaftar'
                 PROVE  (\E p \in Permintaan : req'[p].n = m) \/ m \in yatim' \/ Dibatalkan' # {}
      BY DEF YatimBersebab, Akun
    <3>1. CASE m = n BY <1>4, <2>1, <3>1
    <3>2. CASE m # n
      <4>1. (\E p \in Permintaan : req[p].n = m) \/ m \in yatim \/ Dibatalkan # {}
        BY <2>4, <2>5, <3>2 DEF YatimBersebab, IInv
      <4>2. req[r].n # m BY <1>1, <1>2, AkunAsli DEF PermintaanSah, TanpaGuru, AdaGuru
      <4> QED BY <1>4, <2>1, <2>10, <4>1, <4>2
    <3> QED BY <3>1, <3>2
  <2>12. StatusTerakhir' BY <1>2 DEF StatusTerakhir, IInv
  <2>13. ProfilTetap' BY <1>1, <1>2 DEF ProfilTetap
  <2> QED BY <2>6, <2>7, <2>8, <2>9, <2>11, <2>12, <2>13 DEF IInv
<1>5. ASSUME NEW n \in Berikut,
             users' = [users EXCEPT ![n] = [email |-> req[r].e, role |-> "tenaga_pendidik"]],
             Menjadi(r, [req[r] EXCEPT !.pc = "baris", !.n = n, !.e = Tiada]), yatim' = yatim
      PROVE  IInv'
  <2> DEFINE q == [req[r] EXCEPT !.pc = "baris", !.n = n, !.e = Tiada]
  <2>1. n \in Akun /\ n \notin Terdaftar BY BerikutBaru
  <2>2. q \in LokalTipe BY <1>1, <2>1, AkunAsli DEF LokalTipe
  <2>3. q.pc = "baris" /\ q.s = req[r].s /\ q.n = n /\ q.guru = req[r].guru
        /\ q.instansi = req[r].instansi
    BY <1>1 DEF LokalTipe
  <2>4. Menjadi(r, q) BY <1>5
  <2> HIDE DEF q
  <2>4a. PICK v : v = q OBVIOUS
  <2>5. users'[n].role = "tenaga_pendidik" BY <1>1, <1>5, <2>1 DEF Tipe
  <2>6. Terdaftar' = Terdaftar BY <1>2 DEF Terdaftar, Akun
  <2>7. PermintaanSah(v)'
    BY <1>1, <1>2, <2>1, <2>3, <2>4a, <2>5, <2>6
    DEF PermintaanSah, TanpaGuru, AdaGuru, PegangSekolah, Mendaftar, Akun
  <2>8. yatim \subseteq yatim' /\ yatim' \subseteq Akun BY <1>1, <1>5 DEF Tipe
  <2> QED BY <1>4, <1>5, <2>2, <2>3, <2>4, <2>4a, <2>7, <2>8
<1>6. ASSUME NEW n \in Berikut,
             users' = [users EXCEPT ![n] = [email |-> req[r].e, role |-> "tenaga_pendidik"]],
             Menjadi(r, Bebas), yatim' = yatim \cup {n}
      PROVE  IInv'
  <2>1. n \in Akun BY BerikutBaru
  <2>2. PermintaanSah(Bebas)'
    BY BebasSah DEF PermintaanSah, TanpaGuru, AdaGuru, PegangSekolah, Mendaftar
  <2>3. yatim \subseteq yatim' /\ yatim' \subseteq Akun /\ n \in yatim' BY <1>1, <1>6, <2>1 DEF Tipe
  <2>4. Bebas.n \notin Akun /\ Bebas.pc \notin TanpaGuru BY BebasSah, AkunAsli DEF TanpaGuru
  <2> QED BY <1>4, <1>6, <2>2, <2>3, <2>4, BebasSah
<1> QED BY <1>3, <1>5, <1>6 DEF BuatAkun


\* A request that begins holds what is stored, and any other that it could share
\* something with is recorded.
LEMMA MulaiAman ==
  ASSUME IInv, NEW r \in Permintaan, NEW q, q \in LokalTipe, Mulai(r, q), PermintaanSah(q),
         q.pc # "bebas", q.pc \notin TanpaGuru
  PROVE  IInv'
<1>1. Tipe /\ TabelSah /\ ProfilTetap /\ req[r] = Bebas BY DEF IInv, Mulai
<1>2. UNCHANGED <<users, pendidik, sekolah, kredensial, maksud, profil, yatim>> BY DEF Mulai
<1>3. q.s \in Sekolah BY DEF PermintaanSah
<1> DEFINE lain == Sibuk(q.s)
           b == [q EXCEPT !.sendiri = (q.pc = "status" /\ lain = {})]
           Lama(p) == IF p \in lain THEN [req[p] EXCEPT !.sendiri = FALSE] ELSE req[p]
<1>4. b \in LokalTipe /\ b.pc = q.pc /\ b.s = q.s /\ b.n = q.n /\ b.e = q.e /\ b.guru = q.guru
      /\ b.instansi = q.instansi
  BY DEF LokalTipe
<1>5. \A p \in Permintaan :
        /\ Lama(p) \in LokalTipe /\ Lama(p).pc = req[p].pc /\ Lama(p).s = req[p].s
        /\ Lama(p).n = req[p].n /\ Lama(p).e = req[p].e /\ Lama(p).guru = req[p].guru
        /\ Lama(p).instansi = req[p].instansi
  BY <1>1 DEF Tipe, LokalTipe
<1>6. req' = [p \in Permintaan |-> IF p = r THEN b ELSE Lama(p)] BY DEF Mulai
<1>7. /\ bentrok' = IF lain = {} THEN bentrok ELSE bentrok \cup {q.s}
      /\ kotor' = IF lain = {} THEN kotor ELSE kotor \cup {q.s}
      /\ tumpang' = tumpang \cup ({q.n} \cap Akun \cap {req[p].n : p \in lain})
  BY DEF Mulai
<1>8. \A p \in Permintaan : p \in lain <=> req[p].pc # "bebas" /\ req[p].s = q.s BY DEF Sibuk
<1>9. lain \subseteq Permintaan BY DEF Sibuk
<1> HIDE DEF lain, b, Lama
<1>10. req'[r] = b /\ \A p \in Permintaan : p # r => req'[p] = Lama(p) BY <1>6
<1>11. Terdaftar' = Terdaftar BY <1>2 DEF Terdaftar, Akun
<1>12. Tipe'
  <2>1. req' \in [Permintaan -> LokalTipe] BY <1>4, <1>5, <1>6
  <2>2. bentrok' \subseteq Sekolah /\ kotor' \subseteq Sekolah /\ tumpang' \subseteq Akun
    BY <1>1, <1>3, <1>7 DEF Tipe
  <2> QED BY <1>1, <1>2, <2>1, <2>2 DEF Tipe, Akun, LokalTipe
<1>13. \A p \in Permintaan : PermintaanSah(req[p])'
  <2> SUFFICES ASSUME NEW p \in Permintaan PROVE PermintaanSah(req[p])'
    OBVIOUS
  <2>1. CASE p = r
    BY <1>2, <1>4, <1>7, <1>10, <1>11, <2>1
    DEF PermintaanSah, TanpaGuru, AdaGuru, PegangSekolah, Mendaftar, Akun
  <2>2. CASE p # r
    <3>1. PermintaanSah(req[p]) /\ req'[p] = Lama(p) BY <1>10, <2>2 DEF IInv
    <3>2. req[p].pc = "bebas" => Lama(p) = req[p] BY <1>8 DEF Lama
    <3> QED BY <1>2, <1>5, <1>7, <1>11, <3>1, <3>2
        DEF PermintaanSah, TanpaGuru, AdaGuru, PegangSekolah, Mendaftar, Akun
  <2> QED BY <2>1, <2>2
<1>14. ASSUME NEW p \in Permintaan, p # r
       PROVE  /\ q.s = req[p].s /\ req[p].pc # "bebas" => q.s \in bentrok'
              /\ q.n = req[p].n /\ q.n \in Akun => q.n \in tumpang'
  <2>1. CASE req[p].pc # "bebas" /\ q.s = req[p].s
    BY <1>7, <1>8, <2>1
  <2>2. ASSUME q.n = req[p].n, q.n \in Akun PROVE req[p].pc # "bebas" /\ q.s = req[p].s
    <3>1. q.n \in Terdaftar /\ pendidik[q.n].sekolah = q.s
      BY <2>2, AkunAsli DEF PermintaanSah
    <3>2. PermintaanSah(req[p]) BY DEF IInv
    <3>3. req[p].pc \in AdaGuru BY <2>2, <3>1, <3>2, AkunAsli DEF PermintaanSah
    <3> QED BY <2>2, <3>1, <3>2, <3>3 DEF PermintaanSah, AdaGuru
  <2> QED BY <2>1, <2>2
<1>15. \A p1, p2 \in Permintaan : p1 # p2 => Berdua(req[p1], req[p2])'
  <2> SUFFICES ASSUME NEW p1 \in Permintaan, NEW p2 \in Permintaan, p1 # p2
               PROVE  Berdua(req[p1], req[p2])'
    OBVIOUS
  <2>1. Berdua(req[p1], req[p2]) BY DEF IInv
  <2>2. CASE p1 = r
    BY <1>4, <1>5, <1>10, <1>14, <2>2 DEF Berdua, TanpaGuru, Akun
  <2>3. CASE p2 = r
    BY <1>4, <1>5, <1>10, <1>14, <2>3 DEF Berdua, TanpaGuru, Akun
  <2>4. CASE p1 # r /\ p2 # r
    BY <1>5, <1>7, <1>10, <2>1, <2>4 DEF Berdua, TanpaGuru, Akun
  <2> QED BY <2>2, <2>3, <2>4
<1>16. TabelSah' BY <1>1, <1>2, <1>11 DEF TabelSah, Akun
<1>17. YatimBersebab'
  <2>1. req[r].n = 0 BY <1>1, BebasSah
  <2>2. Dibatalkan' = Dibatalkan BY <1>2 DEF Dibatalkan, Akun
  <2> SUFFICES ASSUME NEW n \in Akun, users[n].role = "tenaga_pendidik", n \notin Terdaftar
               PROVE  (\E p \in Permintaan : req'[p].n = n) \/ n \in yatim \/ Dibatalkan # {}
    BY <1>2, <1>11, <2>2 DEF YatimBersebab, Akun
  <2>3. CASE \E p \in Permintaan : req[p].n = n
    <3>1. PICK p \in Permintaan : req[p].n = n BY <2>3
    <3>2. p # r BY <2>1, <3>1, AkunAsli
    <3> QED BY <1>5, <1>10, <3>1, <3>2
  <2>4. CASE n \in yatim \/ Dibatalkan # {} BY <2>4
  <2> QED BY <2>3, <2>4 DEF YatimBersebab, IInv
<1>18. StatusTerakhir' BY <1>2, <1>7 DEF StatusTerakhir, IInv, Akun
<1>19. ProfilTetap' BY <1>1, <1>2, <1>7 DEF ProfilTetap
<1> QED BY <1>12, <1>13, <1>15, <1>16, <1>17, <1>18, <1>19 DEF IInv

LEMMA TambahPendidikAman ==
  ASSUME IInv, NEW r \in Permintaan, NEW s \in Sekolah, NEW e \in Email, NEW nip \in Diisi,
         TambahPendidik(r, s, e, nip)
  PROVE  IInv'
<1> DEFINE g == [BelumAda EXCEPT !.sekolah = s, !.nip = nip]
           q == [Bebas EXCEPT !.pc = "email", !.s = s, !.e = e, !.instansi = sekolah[s],
                              !.guru = g]
<1>1. Diisi \subseteq NIP BY KonstantaAssumption DEF NIP
<1>2. g \in Guru /\ g.sekolah = s /\ g.status = "aktif" BY <1>1 DEF BelumAda, Guru, Status, NIP
<1>3. sekolah[s] \in Hitungan /\ (sekolah[s].profil = profil[s] \/ s \in bentrok)
  BY DEF IInv, Tipe, ProfilTetap
<1>4. Mulai(r, q) BY DEF TambahPendidik
<1> HIDE DEF g
<1>5. q \in LokalTipe BY <1>2, <1>3, BebasSah DEF LokalTipe, Bebas
<1>6. q.pc = "email" /\ q.s = s /\ q.n = 0 /\ q.e = e /\ q.guru = g /\ q.instansi = sekolah[s]
  BY BebasSah DEF LokalTipe, Bebas
<1> HIDE DEF q
<1>7. PermintaanSah(q)
  BY <1>2, <1>3, <1>6 DEF PermintaanSah, TanpaGuru, AdaGuru, PegangSekolah, Mendaftar
<1> QED BY <1>4, <1>5, <1>6, <1>7, MulaiAman DEF TanpaGuru

LEMMA BacaGuruAman ==
  ASSUME IInv, NEW r \in Permintaan, NEW n \in Akun, NEW pc \in {"guru", "status"}, NEW guru \in Guru,
         BacaGuru(r, n, pc, guru), guru.sekolah = pendidik[n].sekolah,
         pc = "guru" => guru.status = pendidik[n].status
  PROVE  IInv'
<1> DEFINE q == [Bebas EXCEPT !.pc = pc, !.s = pendidik[n].sekolah, !.n = n, !.guru = guru]
<1>1. n \in Terdaftar /\ Mulai(r, q) BY DEF BacaGuru
<1>2. pendidik[n].sekolah \in Sekolah BY <1>1 DEF IInv, Tipe, Guru, Terdaftar
<1>3. q \in LokalTipe BY <1>2, BebasSah, AkunAsli DEF LokalTipe, Bebas
<1>4. q.pc = pc /\ q.s = pendidik[n].sekolah /\ q.n = n /\ q.guru = guru
  BY BebasSah DEF LokalTipe, Bebas
<1> HIDE DEF q
<1>5. pendidik[n].status = maksud[n] \/ n \in tumpang BY DEF IInv, StatusTerakhir
<1>6. PermintaanSah(q)
  BY <1>1, <1>2, <1>4, <1>5 DEF PermintaanSah, TanpaGuru, AdaGuru, PegangSekolah, Mendaftar
<1> QED BY <1>1, <1>3, <1>4, <1>6, MulaiAman DEF TanpaGuru

LEMMA BacaProfilAman ==
  ASSUME IInv, NEW r \in Permintaan, NEW s \in Sekolah, BacaProfil(r, s) PROVE IInv'
<1> DEFINE i == [sekolah[s] EXCEPT !.profil = profil[s] + 1]
           q == [Bebas EXCEPT !.pc = "profil", !.s = s, !.instansi = i]
<1>1. profil[s] < MaxData /\ Mulai(r, q) BY DEF BacaProfil
<1>2. sekolah[s] \in Hitungan /\ profil[s] \in 0..MaxData BY DEF IInv, Tipe
<1>3. MaxData \in Nat BY KonstantaAssumption
<1>4. profil[s] + 1 \in 0..MaxData BY <1>1, <1>2, <1>3
<1>5. i \in Hitungan BY <1>2, <1>4 DEF Hitungan
<1> HIDE DEF i
<1>6. q \in LokalTipe BY <1>5, BebasSah DEF LokalTipe, Bebas
<1>7. q.pc = "profil" /\ q.s = s /\ q.n = 0 BY BebasSah DEF LokalTipe, Bebas
<1> HIDE DEF q
<1>8. PermintaanSah(q)
  BY <1>7 DEF PermintaanSah, TanpaGuru, AdaGuru, PegangSekolah, Mendaftar
<1> QED BY <1>1, <1>6, <1>7, <1>8, MulaiAman DEF TanpaGuru


----------------------------------------------------------------------------
(* The theorems.                                                           *)

\* What users, requests and rows start as satisfies the invariant.
LEMMA AwalAman == Init => IInv
<1> SUFFICES ASSUME Init PROVE IInv
  OBVIOUS
<1>1. BelumAda \in Guru /\ BelumAda.sekolah = Tiada /\ BelumAda.status = "aktif"
  BY DEF BelumAda, Guru, NIP, Status
<1>2. Semula \in Hitungan /\ Semula.profil = 0 /\ 0 \in 0..MaxData
  BY BebasSah DEF Semula, Hitungan, Bebas, LokalTipe
<1>3. \A n \in Akun : users[n] = [email |-> Tiada, role |-> "belum"] /\ pendidik[n] = BelumAda
                      /\ maksud[n] = "aktif"
  BY DEF Init
<1>4. Terdaftar = {} BY <1>1, <1>3 DEF Terdaftar
<1>5. Tipe
  <2>1. users \in [Akun -> Pengguna] BY DEF Init, Pengguna
  <2>2. pendidik \in [Akun -> Guru] /\ maksud \in [Akun -> Status]
    BY <1>1 DEF Init, Status
  <2>3. sekolah \in [Sekolah -> Hitungan] /\ profil \in [Sekolah -> 0..MaxData]
    BY <1>2 DEF Init
  <2>4. req \in [Permintaan -> LokalTipe] BY BebasSah DEF Init
  <2> QED BY <2>1, <2>2, <2>3, <2>4 DEF Tipe, Init
<1>6. \A r \in Permintaan : req[r] = Bebas BY DEF Init
<1>7. \A r \in Permintaan : PermintaanSah(req[r])
  BY <1>6, BebasSah DEF PermintaanSah, TanpaGuru, AdaGuru, PegangSekolah, Mendaftar
<1>8. \A r, p \in Permintaan : r # p => Berdua(req[r], req[p])
  BY <1>6, BebasSah, AkunAsli DEF Berdua, TanpaGuru
<1>9. TabelSah /\ YatimBersebab
  BY <1>1, <1>3, <1>4 DEF TabelSah, YatimBersebab, Init
<1>10. StatusTerakhir BY <1>1, <1>3 DEF StatusTerakhir
<1>11. ProfilTetap BY <1>2 DEF ProfilTetap, Init
<1> QED BY <1>5, <1>7, <1>8, <1>9, <1>10, <1>11 DEF IInv

\* Every step keeps the invariant.
LEMMA LangkahAman == IInv /\ [Next]_vars => IInv'
<1> SUFFICES ASSUME IInv, [Next]_vars PROVE IInv'
  OBVIOUS
<1>1. CASE UNCHANGED vars
  <2>1. Terdaftar' = Terdaftar /\ Dibatalkan' = Dibatalkan
    BY <1>1 DEF Terdaftar, Dibatalkan, vars, Akun
  <2>2. \A r \in Permintaan : PermintaanSah(req[r])'
    BY <1>1, <2>1 DEF IInv, PermintaanSah, vars, riwayat
  <2>3. \A r, p \in Permintaan : r # p => Berdua(req[r], req[p])'
    BY <1>1 DEF IInv, Berdua, vars, riwayat
  <2>4. Tipe' /\ TabelSah' BY <1>1, <2>1 DEF IInv, Tipe, TabelSah, vars, riwayat
  <2>5. YatimBersebab' /\ StatusTerakhir' /\ ProfilTetap'
    BY <1>1, <2>1 DEF IInv, YatimBersebab, StatusTerakhir, ProfilTetap, vars, riwayat
  <2> QED BY <2>2, <2>3, <2>4, <2>5 DEF IInv
<1>2. ASSUME NEW r \in Permintaan, Terima(r) PROVE IInv'
  <2>1. ASSUME NEW s \in Sekolah, BacaProfil(r, s) PROVE IInv'
    BY <2>1, BacaProfilAman
  <2>2. ASSUME NEW s \in Sekolah, NEW e \in Email, NEW nip \in Diisi, TambahPendidik(r, s, e, nip)
        PROVE  IInv'
    BY <2>2, TambahPendidikAman
  <2>3. ASSUME NEW n \in Akun, UpdatePendidik(r, n) PROVE IInv'
    <3>1. pendidik[n] \in Guru BY DEF IInv, Tipe
    <3> QED BY <2>3, <3>1, BacaGuruAman DEF UpdatePendidik
  <2>4. ASSUME NEW n \in Akun, NEW st \in Status, UpdatePendidikStatus(r, n, st) PROVE IInv'
    <3> DEFINE g == [pendidik[n] EXCEPT !.status = st]
    <3>1. g \in Guru /\ g.sekolah = pendidik[n].sekolah BY DEF IInv, Tipe, Guru
    <3>2. BacaGuru(r, n, "status", g) BY <2>4 DEF UpdatePendidikStatus
    <3> HIDE DEF g
    <3> QED BY <3>1, <3>2, BacaGuruAman
  <2> QED BY <1>2, <2>1, <2>2, <2>3, <2>4 DEF Terima
<1>3. ASSUME NEW r \in Permintaan, Lanjut(r) PROVE IInv'
  BY <1>3, CekEmailAman, CekNomorAman, BuatAkunAman, BuatBarisAman, BatalkanAman,
     TambahJumlahAman, SimpanGuruAman, SimpanStatusAman, BacaSekolahAman, HitungAman,
     SimpanJumlahAman, SimpanProfilAman, GagalAman
  DEF Lanjut
<1> QED BY <1>1, <1>2, <1>3 DEF Next

\* The invariant holds throughout.
THEOREM Selalu == Spec => []IInv
<1>1. Init => IInv BY AwalAman
<1>2. IInv /\ [Next]_vars => IInv' BY LangkahAman
<1> QED BY <1>1, <1>2, PTL DEF Spec

\* KredensialBerakun for any number of requests, whatever overlaps and fails: no
\* rollback takes away the account of somebody who was sent a password.
THEOREM KredensialBenar == Spec => []KredensialBerakun
<1>1. IInv => KredensialBerakun BY DEF IInv, TabelSah, Tipe, KredensialBerakun
<1> QED BY <1>1, Selalu, PTL

\* YatimBersebab: an account of a teacher without a teacher has a request that is at
\* work on it, or one of the causes named.
THEOREM YatimBenar == Spec => []YatimBersebab
<1>1. IInv => YatimBersebab BY DEF IInv
<1> QED BY <1>1, Selalu, PTL

\* StatusTerakhir: without an overlap about one teacher no update brings an earlier
\* status back.
THEOREM StatusBenar == Spec => []StatusTerakhir
<1>1. IInv => StatusTerakhir BY DEF IInv
<1> QED BY <1>1, Selalu, PTL

\* ProfilTetap: without an overlap at one school the saves that count its teachers
\* leave its other columns as they were decided last.
THEOREM ProfilBenar == Spec => []ProfilTetap
<1>1. IInv => ProfilTetap BY DEF IInv
<1> QED BY <1>1, Selalu, PTL


----------------------------------------------------------------------------
(* The number of teachers.                                                 *)

\* What request q, at work on a school that is not kotor, knows about the number of
\* its active teachers; a recount without an overlap knows it even if it is.
Menghitung == {"status", "sekolah", "hitung", "jumlahkan"}
Menyalin == {"email", "nomor", "akun", "baris", "profil"}

Terhitung(q) ==
  /\ q.sendiri => q.pc \in Menghitung
  /\ q.pc \in Menghitung /\ ~ q.sendiri => q.s \in kotor
  /\ q.pc = "jumlahkan" /\ q.sendiri => q.instansi.jumlah = Cardinality(Aktif(q.s))
  /\ q.pc # "bebas" /\ q.s \notin kotor =>
       /\ q.pc \in Menyalin => q.instansi.jumlah = sekolah[q.s].jumlah
       /\ q.pc = "guru" => q.guru.status = pendidik[q.n].status
       /\ q.pc = "jumlah" => Cardinality(Aktif(q.s)) = q.instansi.jumlah + 1
       /\ q.pc \in Menyalin \cup {"guru", "status", "batal"} =>
            sekolah[q.s].jumlah = Cardinality(Aktif(q.s))

\* Two requests at work on a school: it is kotor, and no recount of theirs counts.
Bersama(p, q) ==
  p.pc # "bebas" /\ q.pc # "bebas" /\ p.s = q.s =>
    p.s \in kotor /\ ~ p.sendiri /\ ~ q.sendiri

JInv ==
  /\ \A r \in Permintaan : Terhitung(req[r])
  /\ \A r, p \in Permintaan : r # p => Bersama(req[r], req[p])
  /\ JumlahSesuai


\* A step of one request about school s: the others do not notice, for those at s
\* have made it kotor, and only a recount that was alone makes it not.
LEMMA HitungTetap ==
  ASSUME IInv, JInv, NEW r \in Permintaan, NEW q, Menjadi(r, q), NEW s \in Sekolah,
         req[r].pc # "bebas", req[r].s = s, q.pc # "bebas" => q.s = s,
         q.sendiri => req[r].sendiri,
         \A z \in Sekolah : z # s => /\ sekolah'[z] = sekolah[z] /\ Aktif(z)' = Aktif(z)
                                     /\ z \in kotor' <=> z \in kotor,
         \A n \in Akun : n \in Terdaftar /\ pendidik[n].sekolah # s => pendidik'[n] = pendidik[n],
         s \in kotor => s \in kotor' \/ req[r].sendiri,
         Terhitung(q)',
         q.pc = "bebas" => s \in kotor' \/ sekolah'[s].jumlah = Cardinality(Aktif(s))'
  PROVE  JInv'
<1>1. req'[r] = q /\ \A p \in Permintaan : p # r => req'[p] = req[p] BY DEF Menjadi, Tipe, IInv
<1>2. ASSUME NEW p \in Permintaan, p # r, req[p].pc # "bebas", req[p].s = s
      PROVE  s \in kotor' /\ ~ req[p].sendiri /\ ~ q.sendiri
  BY <1>2 DEF JInv, Bersama
<1>3. \A p \in Permintaan : Terhitung(req[p])'
  <2> SUFFICES ASSUME NEW p \in Permintaan PROVE Terhitung(req[p])'
    OBVIOUS
  <2>1. CASE p = r BY <1>1, <2>1 DEF Terhitung
  <2>2. CASE p # r /\ req[p].pc = "bebas"
    <3>1. Terhitung(req[p]) /\ req'[p] = req[p] BY <1>1, <2>2 DEF JInv
    <3> QED BY <2>2, <3>1 DEF Terhitung, Menghitung
  <2>3. CASE p # r /\ req[p].pc # "bebas" /\ req[p].s = s
    <3>1. s \in kotor' /\ ~ req[p].sendiri BY <1>2, <2>3
    <3>2. req'[p] = req[p] BY <1>1, <2>3
    <3> QED BY <2>3, <3>1, <3>2 DEF Terhitung
  <2>4. CASE p # r /\ req[p].pc # "bebas" /\ req[p].s # s
    <3>1. Terhitung(req[p]) /\ req'[p] = req[p] /\ PermintaanSah(req[p])
      BY <1>1, <2>4 DEF JInv, IInv
    <3>2. req[p].s \in Sekolah BY <2>4, <3>1 DEF PermintaanSah
    <3>3. sekolah'[req[p].s] = sekolah[req[p].s]
          /\ (req[p].s \in kotor' <=> req[p].s \in kotor)
      BY <2>4, <3>1, <3>2
    <3>4. Cardinality(Aktif(req[p].s))' = Cardinality(Aktif(req[p].s))
      <4>1. PICK z \in Sekolah : z = req[p].s BY <3>2
      <4>2. Aktif(z)' = Aktif(z) BY <2>4, <4>1
      <4> QED BY <3>1, <4>1, <4>2
    <3>5. req[p].pc = "guru" => pendidik'[req[p].n] = pendidik[req[p].n]
      BY <2>4, <3>1 DEF PermintaanSah, AdaGuru, Terdaftar
    <3> QED BY <2>4, <3>1, <3>3, <3>4, <3>5 DEF Terhitung, Menghitung, Menyalin
  <2> QED BY <2>1, <2>2, <2>3, <2>4
<1>4. \A p1, p2 \in Permintaan : p1 # p2 => Bersama(req[p1], req[p2])'
  <2> SUFFICES ASSUME NEW p1 \in Permintaan, NEW p2 \in Permintaan, p1 # p2
               PROVE  Bersama(req[p1], req[p2])'
    OBVIOUS
  <2>1. Bersama(req[p1], req[p2]) BY DEF JInv
  <2>2. CASE p1 = r BY <1>1, <1>2, <2>2 DEF Bersama
  <2>3. CASE p2 = r BY <1>1, <1>2, <2>3 DEF Bersama
  <2>4. CASE p1 # r /\ p2 # r
    <3>1. req'[p1] = req[p1] /\ req'[p2] = req[p2] BY <1>1, <2>4
    <3>2. CASE req[p1].s = s BY <1>2, <2>4, <3>1, <3>2 DEF Bersama
    <3>3. CASE req[p1].s # s
      <4>1. req[p1].pc # "bebas" => req[p1].s \in Sekolah BY DEF IInv, PermintaanSah
      <4> QED BY <2>1, <3>1, <3>3, <4>1 DEF Bersama
    <3> QED BY <3>2, <3>3
  <2> QED BY <2>2, <2>3, <2>4
<1>5. JumlahSesuai'
  <2> SUFFICES ASSUME NEW z \in Sekolah, Sibuk(z)' = {}, z \notin kotor'
               PROVE  sekolah'[z].jumlah = Cardinality(Aktif(z))'
    BY DEF JumlahSesuai
  <2>1. CASE z = s
    <3>1. q.pc = "bebas" BY <1>1, <2>1 DEF Sibuk
    <3> QED BY <2>1, <3>1
  <2>2. CASE z # s
    <3>1. Sibuk(z) = {} BY <1>1, <2>2 DEF Sibuk
    <3>2. sekolah[z].jumlah = Cardinality(Aktif(z)) BY <2>2, <3>1 DEF JInv, JumlahSesuai
    <3> QED BY <2>2, <3>2
  <2> QED BY <2>1, <2>2
<1> QED BY <1>3, <1>4, <1>5 DEF JInv


\* A step that changes neither schools nor teachers; if it ends the request, the
\* number at its school is right or the school is kotor.
LEMMA HitungLokal ==
  ASSUME IInv, JInv, NEW r \in Permintaan, NEW q, Menjadi(r, q), req[r].pc # "bebas",
         q.pc # "bebas" => q.s = req[r].s, q.sendiri => req[r].sendiri,
         UNCHANGED <<pendidik, sekolah>>,
         kotor' = kotor \/ kotor' = kotor \cup {req[r].s},
         Terhitung(q)',
         q.pc = "bebas" => \/ req[r].s \in kotor'
                           \/ sekolah[req[r].s].jumlah = Cardinality(Aktif(req[r].s))
  PROVE  JInv'
<1>1. PICK s : s = req[r].s OBVIOUS
<1>2. s \in Sekolah BY <1>1 DEF IInv, PermintaanSah
<1>3. \A z \in Sekolah : Aktif(z)' = Aktif(z) BY DEF Aktif, Akun
<1>4. Cardinality(Aktif(s))' = Cardinality(Aktif(s)) BY <1>2, <1>3
<1>5. \A z \in Sekolah : z # s => /\ sekolah'[z] = sekolah[z] /\ Aktif(z)' = Aktif(z)
                                  /\ z \in kotor' <=> z \in kotor
  BY <1>1, <1>3
<1>6. q.pc = "bebas" => s \in kotor' \/ sekolah'[s].jumlah = Cardinality(Aktif(s))'
  BY <1>1, <1>4
<1>7. s \in kotor => s \in kotor' OBVIOUS
<1>8. req[r].s = s /\ (q.pc # "bebas" => q.s = s) BY <1>1
<1>9. \A n \in Akun : n \in Terdaftar /\ pendidik[n].sekolah # s => pendidik'[n] = pendidik[n]
  OBVIOUS
<1> QED BY <1>2, <1>5, <1>6, <1>7, <1>8, <1>9, HitungTetap

\* A request that ends knows nothing.
LEMMA BebasTerhitung == Terhitung(Bebas)' /\ Bebas.sendiri = FALSE
BY DEF Terhitung, Bebas, Menghitung

\* What a step that changes neither schools nor teachers means for request q.
LEMMA TerhitungTetap ==
  ASSUME NEW q, UNCHANGED <<pendidik, sekolah>>, kotor \subseteq kotor', Terhitung(q)
  PROVE  Terhitung(q)'
<1>1. \A z : Aktif(z)' = Aktif(z) BY DEF Aktif, Akun
<1>2. Cardinality(Aktif(q.s))' = Cardinality(Aktif(q.s)) BY <1>1
<1> QED BY <1>2 DEF Terhitung, Menghitung, Menyalin

\* TambahPendidik up to its insert, and the rollback.
LEMMA DaftarHitung ==
  ASSUME IInv, JInv, NEW r \in Permintaan,
         CekEmail(r) \/ CekNomor(r) \/ BuatAkun(r) \/ Batalkan(r)
  PROVE  JInv'
<1>1. req[r] \in LokalTipe /\ Terhitung(req[r]) /\ req[r].pc # "bebas"
      /\ UNCHANGED <<pendidik, sekolah, kotor>>
  BY DEF IInv, Tipe, JInv, CekEmail, CekNomor, BuatAkun, Batalkan, riwayat
<1>2. req[r].pc \in {"email", "nomor", "akun", "batal"}
  BY DEF CekEmail, CekNomor, BuatAkun, Batalkan
<1>3. req[r].s \in kotor \/ sekolah[req[r].s].jumlah = Cardinality(Aktif(req[r].s))
  BY <1>1, <1>2 DEF Terhitung, Menyalin
<1>4. CASE Menjadi(r, Bebas)
  BY <1>1, <1>3, <1>4, BebasSah, BebasTerhitung, HitungLokal
<1>5. ASSUME NEW q, Menjadi(r, q), q.pc \in {"nomor", "akun", "baris"}, q.s = req[r].s,
             q.instansi = req[r].instansi, q.sendiri = req[r].sendiri, req[r].pc # "batal"
      PROVE  JInv'
  <2>1. Terhitung(q)
    BY <1>1, <1>2, <1>5 DEF Terhitung, Menghitung, Menyalin
  <2>2. Terhitung(q)' BY <1>1, <2>1, TerhitungTetap
  <2> QED BY <1>1, <1>5, <2>2, HitungLokal
<1>6. ASSUME NEW pc \in {"nomor", "akun"}, Ke(r, pc), req[r].pc # "batal" PROVE JInv'
  <2> DEFINE q == [req[r] EXCEPT !.pc = pc]
  <2>1. q.pc = pc /\ q.s = req[r].s /\ q.instansi = req[r].instansi /\ q.sendiri = req[r].sendiri
    BY <1>1 DEF LokalTipe
  <2>2. Menjadi(r, q) BY <1>6 DEF Ke
  <2> HIDE DEF q
  <2> QED BY <1>5, <1>6, <2>1, <2>2
<1>7. ASSUME NEW n, Menjadi(r, [req[r] EXCEPT !.pc = "baris", !.n = n, !.e = Tiada]),
             req[r].pc # "batal"
      PROVE  JInv'
  <2> DEFINE q == [req[r] EXCEPT !.pc = "baris", !.n = n, !.e = Tiada]
  <2>1. q.pc = "baris" /\ q.s = req[r].s /\ q.instansi = req[r].instansi /\ q.sendiri = req[r].sendiri
    BY <1>1 DEF LokalTipe
  <2>2. Menjadi(r, q) BY <1>7
  <2> HIDE DEF q
  <2> QED BY <1>5, <1>7, <2>1, <2>2
<1>8. CASE CekEmail(r) BY <1>4, <1>6, <1>8 DEF CekEmail
<1>9. CASE CekNomor(r) BY <1>4, <1>6, <1>9 DEF CekNomor
<1>10. CASE BuatAkun(r) BY <1>4, <1>7, <1>10 DEF BuatAkun
<1>11. CASE Batalkan(r) BY <1>4, <1>11 DEF Batalkan
<1> QED BY <1>8, <1>9, <1>10, <1>11

\* The insert adds one active teacher to the school, and to no other.
LEMMA BuatBarisHitung ==
  ASSUME IInv, JInv, NEW r \in Permintaan, BuatBaris(r) PROVE JInv'
<1>1. req[r] \in LokalTipe /\ Terhitung(req[r]) /\ PermintaanSah(req[r]) /\ req[r].pc = "baris"
      /\ UNCHANGED <<sekolah, kotor>> /\ Tipe
  BY DEF IInv, Tipe, JInv, BuatBaris, riwayat
<1> DEFINE n == req[r].n
<1>2. PICK s \in Sekolah : s = req[r].s BY <1>1 DEF PermintaanSah
<1>3. n \in Akun /\ n \notin Terdaftar /\ req[r].guru.sekolah = s /\ req[r].guru.status = "aktif"
      /\ ~ req[r].sendiri
  BY <1>1, <1>2 DEF PermintaanSah, TanpaGuru, Mendaftar, Terhitung, Menghitung
<1>4. s \notin kotor => /\ sekolah[s].jumlah = Cardinality(Aktif(s))
                        /\ req[r].instansi.jumlah = sekolah[s].jumlah
  BY <1>1, <1>2 DEF Terhitung, Menyalin
<1>5. CASE Lepas(r, "batal") /\ UNCHANGED pendidik
  <2> DEFINE q == [req[r] EXCEPT !.pc = "batal", !.guru = BelumAda]
  <2>1. q.pc = "batal" /\ q.s = req[r].s /\ q.sendiri = req[r].sendiri BY <1>1 DEF LokalTipe
  <2>2. Menjadi(r, q) BY <1>5 DEF Lepas
  <2> HIDE DEF q
  <2>3. PICK v : v = q OBVIOUS
  <2>4. Terhitung(v)
    BY <1>2, <1>3, <1>4, <2>1, <2>3 DEF Terhitung, Menghitung, Menyalin
  <2>5. Terhitung(v)' BY <1>1, <1>5, <2>4, TerhitungTetap
  <2> QED BY <1>1, <1>5, <2>1, <2>2, <2>3, <2>5, HitungLokal
<1>6. CASE pendidik' = [pendidik EXCEPT ![n] = req[r].guru] /\ Lepas(r, "jumlah")
  <2> DEFINE q == [req[r] EXCEPT !.pc = "jumlah", !.guru = BelumAda]
  <2>1. q.pc = "jumlah" /\ q.s = s /\ q.sendiri = FALSE /\ q.instansi = req[r].instansi
    BY <1>1, <1>2, <1>3 DEF LokalTipe
  <2>2. Menjadi(r, q) BY <1>6 DEF Lepas
  <2> HIDE DEF q
  <2>3. PICK v : v = q OBVIOUS
  <2>4. pendidik'[n] = req[r].guru /\ \A m \in Akun : m # n => pendidik'[m] = pendidik[m]
    BY <1>1, <1>3, <1>6 DEF Tipe
  <2>5. pendidik[n].sekolah = Tiada /\ Tiada \notin Sekolah
    BY <1>3, KonstantaAssumption DEF Terdaftar
  <2>6. \A z \in Sekolah : z # s => Aktif(z)' = Aktif(z)
    BY <1>3, <2>4, <2>5 DEF Aktif, Akun
  <2>7. Aktif(s)' = Aktif(s) \cup {n} /\ n \notin Aktif(s)
    BY <1>3, <2>4, <2>5 DEF Aktif, Akun
  <2>8. Cardinality(Aktif(s))' = Cardinality(Aktif(s)) + 1
    <3>1. Cardinality(Aktif(s) \cup {n}) = Cardinality(Aktif(s)) + 1
      BY <2>7, AktifTerhingga, FS_AddElement
    <3> QED BY <2>7, <3>1
  <2>9. Terhitung(v)'
    <3>1. v.pc = "jumlah" /\ v.s = s /\ ~ v.sendiri /\ v.instansi = req[r].instansi
      BY <2>1, <2>3
    <3>2. Cardinality(Aktif(v.s))' = Cardinality(Aktif(s)) + 1 BY <2>8, <3>1
    <3> QED BY <1>1, <1>4, <3>1, <3>2 DEF Terhitung, Menghitung, Menyalin
  <2>10. \A m \in Akun : m \in Terdaftar /\ pendidik[m].sekolah # s => pendidik'[m] = pendidik[m]
    BY <1>3, <2>4
  <2> QED BY <1>1, <1>2, <2>1, <2>2, <2>3, <2>6, <2>9, <2>10, HitungTetap
<1> QED BY <1>5, <1>6 DEF BuatBaris


\* A save of the school ends a request: the number it saves is right, or the school
\* stays kotor.
LEMMA SimpanHitung ==
  ASSUME IInv, JInv, NEW r \in Permintaan, NEW s \in Sekolah, NEW i,
         req[r].pc # "bebas", req[r].s = s, Menjadi(r, Bebas), UNCHANGED pendidik,
         sekolah' = [sekolah EXCEPT ![s] = i],
         kotor' = kotor \/ (req[r].sendiri /\ kotor' = kotor \ {s}),
         s \notin kotor' => i.jumlah = Cardinality(Aktif(s))
  PROVE  JInv'
<1>1. sekolah'[s] = i /\ \A z \in Sekolah : z # s => sekolah'[z] = sekolah[z]
  BY DEF IInv, Tipe
<1>2. \A z \in Sekolah : Aktif(z)' = Aktif(z) BY DEF Aktif, Akun
<1>3. Cardinality(Aktif(s))' = Cardinality(Aktif(s)) BY <1>2
<1>4. \A z \in Sekolah : z # s => /\ sekolah'[z] = sekolah[z] /\ Aktif(z)' = Aktif(z)
                                  /\ z \in kotor' <=> z \in kotor
  BY <1>1, <1>2
<1>5. \A n \in Akun : n \in Terdaftar /\ pendidik[n].sekolah # s => pendidik'[n] = pendidik[n]
  OBVIOUS
<1>6. s \in kotor' \/ sekolah'[s].jumlah = Cardinality(Aktif(s))' BY <1>1, <1>3
<1> QED BY <1>4, <1>5, <1>6, BebasSah, BebasTerhitung, HitungTetap

LEMMA TambahJumlahHitung ==
  ASSUME IInv, JInv, NEW r \in Permintaan, TambahJumlah(r) PROVE JInv'
<1>1. req[r] \in LokalTipe /\ Terhitung(req[r]) /\ PermintaanSah(req[r]) /\ req[r].pc = "jumlah"
      /\ UNCHANGED <<pendidik, kotor>> /\ Menjadi(r, Bebas)
  BY DEF IInv, Tipe, JInv, TambahJumlah
<1>2. PICK s \in Sekolah : s = req[r].s BY <1>1 DEF PermintaanSah
<1>3. PICK i : i = [req[r].instansi EXCEPT !.jumlah = @ + 1] OBVIOUS
<1>4. sekolah' = [sekolah EXCEPT ![s] = i] BY <1>2, <1>3 DEF TambahJumlah
<1>5. i.jumlah = req[r].instansi.jumlah + 1 BY <1>1, <1>3 DEF LokalTipe, Hitungan
<1>6. s \notin kotor => i.jumlah = Cardinality(Aktif(s)) BY <1>1, <1>2, <1>5 DEF Terhitung
<1> QED BY <1>1, <1>2, <1>4, <1>6, SimpanHitung

LEMMA SimpanJumlahHitung ==
  ASSUME IInv, JInv, NEW r \in Permintaan, SimpanJumlah(r) PROVE JInv'
<1>1. req[r] \in LokalTipe /\ Terhitung(req[r]) /\ PermintaanSah(req[r])
      /\ req[r].pc = "jumlahkan" /\ UNCHANGED pendidik /\ Menjadi(r, Bebas)
  BY DEF IInv, Tipe, JInv, SimpanJumlah
<1>2. PICK s \in Sekolah : s = req[r].s BY <1>1 DEF PermintaanSah
<1>3. PICK i : i = req[r].instansi OBVIOUS
<1>4. sekolah' = [sekolah EXCEPT ![s] = i] BY <1>2, <1>3 DEF SimpanJumlah
<1>5. kotor' = IF req[r].sendiri THEN kotor \ {s} ELSE kotor BY <1>2 DEF SimpanJumlah
<1>6. s \notin kotor' => i.jumlah = Cardinality(Aktif(s))
  BY <1>1, <1>2, <1>3, <1>5 DEF Terhitung, Menghitung
<1> QED BY <1>1, <1>2, <1>4, <1>5, <1>6, SimpanHitung

LEMMA SimpanProfilHitung ==
  ASSUME IInv, JInv, NEW r \in Permintaan, SimpanProfil(r) PROVE JInv'
<1>1. req[r] \in LokalTipe /\ Terhitung(req[r]) /\ PermintaanSah(req[r]) /\ req[r].pc = "profil"
      /\ UNCHANGED <<pendidik, kotor>> /\ Menjadi(r, Bebas)
  BY DEF IInv, Tipe, JInv, SimpanProfil
<1>2. PICK s \in Sekolah : s = req[r].s BY <1>1 DEF PermintaanSah
<1>3. PICK i : i = req[r].instansi OBVIOUS
<1>4. sekolah' = [sekolah EXCEPT ![s] = i] BY <1>2, <1>3 DEF SimpanProfil
<1>5. s \notin kotor => i.jumlah = Cardinality(Aktif(s))
  BY <1>1, <1>2, <1>3 DEF Terhitung, Menyalin
<1> QED BY <1>1, <1>2, <1>4, <1>5, SimpanHitung

LEMMA SimpanGuruHitung ==
  ASSUME IInv, JInv, NEW r \in Permintaan, SimpanGuru(r) PROVE JInv'
<1>1. Tipe /\ Terhitung(req[r]) /\ PermintaanSah(req[r]) /\ req[r].pc = "guru"
      /\ UNCHANGED <<sekolah, kotor>> /\ Menjadi(r, Bebas)
  BY DEF IInv, JInv, SimpanGuru, riwayat
<1>2. PICK s \in Sekolah : s = req[r].s BY <1>1 DEF PermintaanSah
<1> DEFINE n == req[r].n
<1>3. n \in Akun /\ pendidik[n].sekolah = s /\ req[r].guru.sekolah = s
  BY <1>1, <1>2 DEF PermintaanSah, AdaGuru, Terdaftar
<1>4. pendidik'[n] = req[r].guru /\ \A m \in Akun : m # n => pendidik'[m] = pendidik[m]
  BY <1>1, <1>3 DEF SimpanGuru, Tipe
<1>5. \A z \in Sekolah : z # s => Aktif(z)' = Aktif(z) BY <1>3, <1>4 DEF Aktif, Akun
<1>6. s \notin kotor => Aktif(s)' = Aktif(s)
  BY <1>1, <1>2, <1>3, <1>4 DEF Aktif, Akun, Terhitung
<1>7. s \notin kotor => sekolah[s].jumlah = Cardinality(Aktif(s))
  BY <1>1, <1>2 DEF Terhitung
<1>8. s \in kotor' \/ sekolah'[s].jumlah = Cardinality(Aktif(s))' BY <1>1, <1>6, <1>7
<1>9. \A m \in Akun : m \in Terdaftar /\ pendidik[m].sekolah # s => pendidik'[m] = pendidik[m]
  BY <1>3, <1>4
<1> QED BY <1>1, <1>2, <1>5, <1>8, <1>9, BebasSah, BebasTerhitung, HitungTetap

LEMMA SimpanStatusHitung ==
  ASSUME IInv, JInv, NEW r \in Permintaan, SimpanStatus(r) PROVE JInv'
<1>1. Tipe /\ req[r] \in LokalTipe /\ Terhitung(req[r]) /\ PermintaanSah(req[r])
      /\ req[r].pc = "status" /\ UNCHANGED <<sekolah, kotor>>
  BY DEF IInv, Tipe, JInv, SimpanStatus
<1>2. PICK s \in Sekolah : s = req[r].s BY <1>1 DEF PermintaanSah
<1> DEFINE n == req[r].n
<1>3. n \in Akun /\ pendidik[n].sekolah = s /\ req[r].guru.sekolah = s
  BY <1>1, <1>2 DEF PermintaanSah, AdaGuru, Terdaftar
<1>4. pendidik'[n] = req[r].guru /\ \A m \in Akun : m # n => pendidik'[m] = pendidik[m]
  BY <1>1, <1>3 DEF SimpanStatus, Tipe
<1>5. \A z \in Sekolah : z # s => Aktif(z)' = Aktif(z) BY <1>3, <1>4 DEF Aktif, Akun
<1>6. PICK q : q = [req[r] EXCEPT !.pc = "sekolah", !.guru = BelumAda] OBVIOUS
<1>7. q.pc = "sekolah" /\ q.s = s /\ q.sendiri = req[r].sendiri BY <1>1, <1>2, <1>6 DEF LokalTipe
<1>8. Menjadi(r, q) BY <1>6 DEF SimpanStatus, Lepas
<1>9. Terhitung(q)' BY <1>1, <1>2, <1>7 DEF Terhitung, Menghitung, Menyalin
<1>10. \A m \in Akun : m \in Terdaftar /\ pendidik[m].sekolah # s => pendidik'[m] = pendidik[m]
  BY <1>3, <1>4
<1> QED BY <1>1, <1>2, <1>5, <1>7, <1>8, <1>9, <1>10, HitungTetap

LEMMA RekapHitung ==
  ASSUME IInv, JInv, NEW r \in Permintaan, BacaSekolah(r) \/ Hitung(r) PROVE JInv'
<1>1. req[r] \in LokalTipe /\ Terhitung(req[r]) /\ req[r].pc # "bebas"
      /\ UNCHANGED <<pendidik, sekolah, kotor>>
  BY DEF IInv, Tipe, JInv, BacaSekolah, Hitung, riwayat
<1>2. CASE BacaSekolah(r)
  <2>1. PICK q : q = [req[r] EXCEPT !.pc = "hitung", !.instansi = sekolah[req[r].s]] OBVIOUS
  <2>2. q.pc = "hitung" /\ q.s = req[r].s /\ q.sendiri = req[r].sendiri
    BY <1>1, <2>1 DEF LokalTipe
  <2>3. Menjadi(r, q) /\ req[r].pc = "sekolah" BY <1>2, <2>1 DEF BacaSekolah
  <2>4. Terhitung(q) BY <1>1, <2>2, <2>3 DEF Terhitung, Menghitung, Menyalin
  <2>5. Terhitung(q)' BY <1>1, <2>4, TerhitungTetap
  <2> QED BY <1>1, <2>2, <2>3, <2>5, HitungLokal
<1>3. CASE Hitung(r)
  <2>1. PICK k : k = Cardinality(Aktif(req[r].s)) OBVIOUS
  <2>2. PICK q : q = [req[r] EXCEPT !.pc = "jumlahkan", !.instansi.jumlah = k] OBVIOUS
  <2>3. q.pc = "jumlahkan" /\ q.s = req[r].s /\ q.sendiri = req[r].sendiri /\ q.instansi.jumlah = k
    BY <1>1, <2>2 DEF LokalTipe, Hitungan
  <2>4. Menjadi(r, q) /\ req[r].pc = "hitung" BY <1>3, <2>1, <2>2 DEF Hitung
  <2>5. Terhitung(q) BY <1>1, <2>1, <2>3, <2>4 DEF Terhitung, Menghitung, Menyalin
  <2>6. Terhitung(q)' BY <1>1, <2>5, TerhitungTetap
  <2> QED BY <1>1, <2>3, <2>4, <2>6, HitungLokal
<1> QED BY <1>2, <1>3


LEMMA GagalHitung ==
  ASSUME IInv, JInv, NEW r \in Permintaan, Gagal(r) PROVE JInv'
<1>1. req[r] \in LokalTipe /\ Terhitung(req[r]) /\ UNCHANGED <<pendidik, sekolah>>
  BY DEF IInv, Tipe, JInv, Gagal
<1>2. kotor' = IF req[r].pc \in {"jumlah", "sekolah", "hitung", "jumlahkan"}
                 THEN kotor \cup {req[r].s} ELSE kotor
  BY DEF Gagal
<1>3. kotor' = kotor \/ kotor' = kotor \cup {req[r].s} BY <1>2
<1>4. CASE req[r].pc = "baris" /\ Lepas(r, "batal")
  <2>1. PICK q : q = [req[r] EXCEPT !.pc = "batal", !.guru = BelumAda] OBVIOUS
  <2>2. q.pc = "batal" /\ q.s = req[r].s /\ q.sendiri = req[r].sendiri
    BY <1>1, <2>1 DEF LokalTipe
  <2>3. Menjadi(r, q) BY <1>4, <2>1 DEF Lepas
  <2>4. Terhitung(q)
    BY <1>1, <1>4, <2>2 DEF Terhitung, Menghitung, Menyalin
  <2>5. Terhitung(q)' BY <1>1, <1>3, <2>4, TerhitungTetap
  <2> QED BY <1>1, <1>3, <1>4, <2>2, <2>3, <2>5, HitungLokal
<1>5. CASE /\ req[r].pc = "hitung"
           /\ Menjadi(r, [req[r] EXCEPT !.pc = "jumlahkan", !.instansi.jumlah = 0, !.sendiri = FALSE])
  <2>1. PICK q : q = [req[r] EXCEPT !.pc = "jumlahkan", !.instansi.jumlah = 0, !.sendiri = FALSE]
    OBVIOUS
  <2>2. q.pc = "jumlahkan" /\ q.s = req[r].s /\ q.sendiri = FALSE
    BY <1>1, <2>1 DEF LokalTipe
  <2>3. Menjadi(r, q) /\ req[r].s \in kotor' BY <1>2, <1>5, <2>1
  <2>4. Terhitung(q)' BY <2>2, <2>3 DEF Terhitung, Menghitung
  <2> QED BY <1>1, <1>3, <1>5, <2>2, <2>3, <2>4, HitungLokal
<1>6. CASE req[r].pc # "bebas" /\ Menjadi(r, Bebas)
  <2>1. \/ req[r].s \in kotor' \/ sekolah[req[r].s].jumlah = Cardinality(Aktif(req[r].s))
    <3>1. CASE req[r].pc \in {"jumlah", "sekolah", "hitung", "jumlahkan"} BY <1>2, <3>1
    <3>2. CASE req[r].pc \notin {"jumlah", "sekolah", "hitung", "jumlahkan"}
      BY <1>1, <1>2, <1>6, <3>2 DEF Terhitung, Menyalin, LokalTipe
    <3> QED BY <3>1, <3>2
  <2> QED BY <1>1, <1>3, <1>6, <2>1, BebasSah, BebasTerhitung, HitungLokal
<1>7. req[r].pc # "bebas" BY DEF Gagal, IInv, PermintaanSah
<1> QED BY <1>4, <1>5, <1>6, <1>7 DEF Gagal


\* A request that begins alone finds the number right, unless its school is kotor;
\* one that does not makes it kotor, and every recount in progress void.
LEMMA MulaiHitung ==
  ASSUME IInv, JInv, NEW r \in Permintaan, NEW q \in LokalTipe, Mulai(r, q),
         q.s \in Sekolah, q.pc \in {"email", "profil", "guru", "status"}, q.sendiri = FALSE,
         q.pc \in Menyalin => q.instansi.jumlah = sekolah[q.s].jumlah,
         q.pc = "guru" => q.guru.status = pendidik[q.n].status
  PROVE  JInv'
<1> DEFINE lain == Sibuk(q.s)
           b == [q EXCEPT !.sendiri = (q.pc = "status" /\ lain = {})]
           Lama(p) == IF p \in lain THEN [req[p] EXCEPT !.sendiri = FALSE] ELSE req[p]
<1>1. b.pc = q.pc /\ b.s = q.s /\ b.n = q.n /\ b.guru = q.guru /\ b.instansi = q.instansi
      /\ b.sendiri = (q.pc = "status" /\ lain = {})
  BY DEF LokalTipe
<1>2. \A p \in Permintaan :
        /\ Lama(p).pc = req[p].pc /\ Lama(p).s = req[p].s
        /\ p \in lain => Lama(p).sendiri = FALSE
        /\ p \notin lain => Lama(p) = req[p]
  BY DEF IInv, Tipe, LokalTipe
<1>3. req' = [p \in Permintaan |-> IF p = r THEN b ELSE Lama(p)] BY DEF Mulai
<1>4. req[r] = Bebas /\ UNCHANGED <<pendidik, sekolah>>
      /\ kotor' = IF lain = {} THEN kotor ELSE kotor \cup {q.s}
  BY DEF Mulai
<1>5. lain \subseteq Permintaan
      /\ \A p \in Permintaan : p \in lain <=> req[p].pc # "bebas" /\ req[p].s = q.s
  BY DEF Sibuk
<1> HIDE DEF lain, b, Lama
<1>6. req'[r] = b /\ \A p \in Permintaan : p # r => req'[p] = Lama(p) BY <1>3
<1>7. \A z : Aktif(z)' = Aktif(z) BY <1>4 DEF Aktif, Akun
<1>8. r \notin lain BY <1>4, <1>5, BebasSah
<1>9. lain = {} /\ q.s \notin kotor => sekolah[q.s].jumlah = Cardinality(Aktif(q.s))
  <2>1. lain = {} => Sibuk(q.s) = {} BY DEF lain
  <2> QED BY <2>1 DEF JInv, JumlahSesuai
<1>10. \A p \in Permintaan : Terhitung(req[p])'
  <2> SUFFICES ASSUME NEW p \in Permintaan PROVE Terhitung(req[p])'
    OBVIOUS
  <2>1. Cardinality(Aktif(req[p].s))' = Cardinality(Aktif(req'[p].s)) BY <1>7
  <2>2. CASE p = r
    <3>1. CASE lain = {}
      <4>1. req'[p] = b /\ b.s = q.s /\ kotor' = kotor BY <1>1, <1>4, <1>6, <2>2, <3>1
      <4>2. Cardinality(Aktif(req[p].s))' = Cardinality(Aktif(q.s)) BY <1>7, <4>1
      <4> QED BY <1>1, <1>4, <1>9, <3>1, <4>1, <4>2 DEF Terhitung, Menghitung, Menyalin
    <3>2. CASE lain # {}
      <4>1. req'[p] = b /\ b.s \in kotor' /\ b.sendiri = FALSE BY <1>1, <1>4, <1>6, <2>2, <3>2
      <4> QED BY <4>1 DEF Terhitung, Menghitung, Menyalin
    <3> QED BY <3>1, <3>2
  <2>3. CASE p \in lain
    <3>1. req'[p].sendiri = FALSE /\ req'[p].s \in kotor' BY <1>2, <1>4, <1>5, <1>6, <1>8, <2>3
    <3> QED BY <3>1 DEF Terhitung, Menghitung, Menyalin
  <2>4. CASE p # r /\ p \notin lain
    <3>1. req'[p] = req[p] /\ Terhitung(req[p]) BY <1>2, <1>6, <2>4 DEF JInv
    <3>2. req[p].pc # "bebas" => (req[p].s \in kotor' <=> req[p].s \in kotor)
      BY <1>4, <1>5, <2>4
    <3>3. Cardinality(Aktif(req[p].s))' = Cardinality(Aktif(req[p].s)) BY <1>7, <3>1
    <3> QED BY <1>4, <3>1, <3>2, <3>3 DEF Terhitung, Menghitung, Menyalin
  <2> QED BY <2>2, <2>3, <2>4
<1>11. \A p1, p2 \in Permintaan : p1 # p2 => Bersama(req[p1], req[p2])'
  <2> SUFFICES ASSUME NEW p1 \in Permintaan, NEW p2 \in Permintaan, p1 # p2
               PROVE  Bersama(req[p1], req[p2])'
    OBVIOUS
  <2>1. Bersama(req[p1], req[p2]) BY DEF JInv
  <2>0. ASSUME NEW p \in Permintaan, p # r, req'[p].pc # "bebas", req'[p].s = q.s
        PROVE  q.s \in kotor' /\ ~ b.sendiri /\ ~ req'[p].sendiri
    <3>1. p \in lain BY <1>2, <1>5, <1>6, <2>0
    <3> QED BY <1>1, <1>2, <1>4, <1>6, <2>0, <3>1
  <2>2. CASE p1 = r BY <1>1, <1>6, <2>0, <2>2 DEF Bersama
  <2>3. CASE p2 = r BY <1>1, <1>6, <2>0, <2>3 DEF Bersama
  <2>4. CASE p1 # r /\ p2 # r
    <3>1. CASE p1 \in lain BY <1>2, <1>4, <1>5, <1>6, <2>4, <3>1 DEF Bersama
    <3>2. CASE p1 \notin lain
      <4>1. req'[p1] = req[p1] /\ req'[p2] = Lama(p2) BY <1>2, <1>6, <2>4, <3>2
      <4>2. kotor \subseteq kotor' BY <1>4
      <4>3. CASE p2 \in lain BY <1>2, <1>5, <3>2, <4>1, <4>3 DEF Bersama
      <4>4. CASE p2 \notin lain BY <1>2, <2>1, <4>1, <4>2, <4>4 DEF Bersama
      <4> QED BY <4>3, <4>4
    <3> QED BY <3>1, <3>2
  <2> QED BY <2>2, <2>3, <2>4
<1>12. JumlahSesuai'
  <2> SUFFICES ASSUME NEW z \in Sekolah, Sibuk(z)' = {}, z \notin kotor'
               PROVE  sekolah'[z].jumlah = Cardinality(Aktif(z))'
    BY DEF JumlahSesuai
  <2>1. z # q.s BY <1>1, <1>6 DEF Sibuk
  <2>2. \A p \in Permintaan : req[p].pc # "bebas" /\ req[p].s = z => req'[p].pc # "bebas" /\ req'[p].s = z
    BY <1>2, <1>4, <1>6, BebasSah
  <2>3. Sibuk(z) = {} BY <2>2 DEF Sibuk
  <2>4. sekolah[z].jumlah = Cardinality(Aktif(z))
    BY <1>4, <2>3 DEF JInv, JumlahSesuai
  <2>5. Cardinality(Aktif(z))' = Cardinality(Aktif(z)) BY <1>7
  <2> QED BY <1>4, <2>4, <2>5
<1> QED BY <1>10, <1>11, <1>12 DEF JInv

LEMMA TerimaHitung ==
  ASSUME IInv, JInv, NEW r \in Permintaan, Terima(r) PROVE JInv'
<1>1. ASSUME NEW s \in Sekolah, BacaProfil(r, s) PROVE JInv'
  <2> DEFINE i == [sekolah[s] EXCEPT !.profil = profil[s] + 1]
             q == [Bebas EXCEPT !.pc = "profil", !.s = s, !.instansi = i]
  <2>1. profil[s] < MaxData /\ Mulai(r, q) BY <1>1 DEF BacaProfil
  <2>2. sekolah[s] \in Hitungan /\ profil[s] \in 0..MaxData BY DEF IInv, Tipe
  <2>3. MaxData \in Nat BY KonstantaAssumption
  <2>4. profil[s] + 1 \in 0..MaxData BY <2>1, <2>2, <2>3
  <2>5. i \in Hitungan /\ i.jumlah = sekolah[s].jumlah BY <2>2, <2>4 DEF Hitungan
  <2> HIDE DEF i
  <2>6. q \in LokalTipe BY <2>5, BebasSah DEF LokalTipe, Bebas
  <2>7. q.pc = "profil" /\ q.s = s /\ q.instansi = i /\ q.sendiri = FALSE
    BY BebasSah DEF LokalTipe, Bebas
  <2> HIDE DEF q
  <2> QED BY <2>1, <2>5, <2>6, <2>7, MulaiHitung
<1>2. ASSUME NEW s \in Sekolah, NEW e \in Email, NEW nip \in Diisi, TambahPendidik(r, s, e, nip)
      PROVE  JInv'
  <2> DEFINE g == [BelumAda EXCEPT !.sekolah = s, !.nip = nip]
             q == [Bebas EXCEPT !.pc = "email", !.s = s, !.e = e, !.instansi = sekolah[s],
                                !.guru = g]
  <2>1. Diisi \subseteq NIP BY KonstantaAssumption DEF NIP
  <2>2. g \in Guru BY <2>1 DEF BelumAda, Guru, Status, NIP
  <2>3. sekolah[s] \in Hitungan BY DEF IInv, Tipe
  <2>4. Mulai(r, q) BY <1>2 DEF TambahPendidik
  <2> HIDE DEF g
  <2>5. q \in LokalTipe BY <2>2, <2>3, BebasSah DEF LokalTipe, Bebas
  <2>6. q.pc = "email" /\ q.s = s /\ q.instansi = sekolah[s] /\ q.sendiri = FALSE
    BY BebasSah DEF LokalTipe, Bebas
  <2> HIDE DEF q
  <2> QED BY <2>4, <2>5, <2>6, MulaiHitung
<1>3. ASSUME NEW n \in Akun, NEW pc \in {"guru", "status"}, NEW guru \in Guru,
             BacaGuru(r, n, pc, guru), pc = "guru" => guru.status = pendidik[n].status
      PROVE  JInv'
  <2> DEFINE q == [Bebas EXCEPT !.pc = pc, !.s = pendidik[n].sekolah, !.n = n, !.guru = guru]
  <2>1. n \in Terdaftar /\ Mulai(r, q) BY <1>3 DEF BacaGuru
  <2>2. pendidik[n].sekolah \in Sekolah BY <2>1 DEF IInv, Tipe, Guru, Terdaftar
  <2>3. q \in LokalTipe BY <2>2, BebasSah, AkunAsli DEF LokalTipe, Bebas
  <2>4. q.pc = pc /\ q.s = pendidik[n].sekolah /\ q.n = n /\ q.guru = guru /\ q.sendiri = FALSE
    BY BebasSah DEF LokalTipe, Bebas
  <2> HIDE DEF q
  <2>5. q.pc \notin Menyalin BY <2>4 DEF Menyalin
  <2> QED BY <1>3, <2>1, <2>2, <2>3, <2>4, <2>5, MulaiHitung
<1>4. ASSUME NEW n \in Akun, UpdatePendidik(r, n) PROVE JInv'
  <2>1. pendidik[n] \in Guru BY DEF IInv, Tipe
  <2> QED BY <1>3, <1>4, <2>1 DEF UpdatePendidik
<1>5. ASSUME NEW n \in Akun, NEW st \in Status, UpdatePendidikStatus(r, n, st) PROVE JInv'
  <2> DEFINE g == [pendidik[n] EXCEPT !.status = st]
  <2>1. g \in Guru BY DEF IInv, Tipe, Guru
  <2>2. BacaGuru(r, n, "status", g) BY <1>5 DEF UpdatePendidikStatus
  <2> HIDE DEF g
  <2> QED BY <1>3, <2>1, <2>2
<1> QED BY <1>1, <1>2, <1>4, <1>5 DEF Terima

\* Every step keeps what is known about the numbers.
LEMMA LangkahHitung == IInv /\ JInv /\ [Next]_vars => JInv'
<1> SUFFICES ASSUME IInv, JInv, [Next]_vars PROVE JInv'
  OBVIOUS
<1>1. CASE UNCHANGED vars
  BY <1>1 DEF JInv, Terhitung, Bersama, JumlahSesuai, Sibuk, Aktif, vars, riwayat
<1>2. ASSUME NEW r \in Permintaan, Terima(r) PROVE JInv'
  BY <1>2, TerimaHitung
<1>3. ASSUME NEW r \in Permintaan, Lanjut(r) PROVE JInv'
  BY <1>3, DaftarHitung, BuatBarisHitung, TambahJumlahHitung, SimpanGuruHitung,
     SimpanStatusHitung, RekapHitung, SimpanJumlahHitung, SimpanProfilHitung, GagalHitung
  DEF Lanjut
<1> QED BY <1>1, <1>2, <1>3 DEF Next

LEMMA AwalHitung == Init => JInv
<1> SUFFICES ASSUME Init PROVE JInv
  OBVIOUS
<1>1. \A r \in Permintaan : req[r] = Bebas BY DEF Init
<1>2. Bebas.pc = "bebas" /\ Bebas.sendiri = FALSE BY DEF Bebas
<1>3. \A s \in Sekolah : sekolah[s].jumlah = 0 BY DEF Init, Semula
<1>4. \A s \in Sekolah : Aktif(s) = {}
  <2>1. Tiada \notin Sekolah BY KonstantaAssumption
  <2> QED BY <2>1 DEF Init, Aktif, BelumAda
<1>5. Cardinality({}) = 0 BY FS_EmptySet
<1>6. JumlahSesuai BY <1>3, <1>4, <1>5 DEF JumlahSesuai
<1> QED BY <1>1, <1>2, <1>6 DEF JInv, Terhitung, Bersama, Menghitung

\* JumlahSesuai: a school nobody is at work on counts its active teachers right,
\* unless requests overlapped or a call failed there since the last recount that ran
\* alone, for any number of teachers and of overlapping requests elsewhere.
THEOREM JumlahBenar == Spec => []JumlahSesuai
<1>1. Init => JInv BY AwalHitung
<1>2. IInv /\ JInv /\ [Next]_vars => JInv' BY LangkahHitung
<1>3. JInv => JumlahSesuai BY DEF JInv
<1> QED BY <1>1, <1>2, <1>3, Selalu, PTL DEF Spec
----------------------------------------------------------------------------
(* The bound of the number of teachers.                                    *)

\* The teachers of a school, active or not: they only become more.
GuruDi(s) == {n \in Akun : pendidik[n].sekolah = s}

Banyak(s) == Cardinality(GuruDi(s))

\* What request q may save as the number of teachers of its school: a request that
\* is going to count up has already stored the teacher it counts.
Ruang(q) ==
  q.pc # "bebas" => /\ q.instansi.jumlah <= Banyak(q.s)
                    /\ q.pc = "jumlah" => q.instansi.jumlah < Banyak(q.s)

\* No school counts more teachers than it has, whatever overlaps and fails.
KInv ==
  /\ \A s \in Sekolah : sekolah[s].jumlah <= Banyak(s)
  /\ \A r \in Permintaan : Ruang(req[r])

LEMMA GuruTerhingga ==
  ASSUME NEW s
  PROVE  /\ IsFiniteSet(GuruDi(s)) /\ Banyak(s) \in Nat /\ Banyak(s) <= MaxAkun
         /\ Cardinality(Aktif(s)) <= Banyak(s)
<1>1. MaxAkun \in Nat BY KonstantaAssumption
<1>2. IsFiniteSet(Akun) /\ Cardinality(Akun) = MaxAkun BY <1>1, FS_Interval DEF Akun
<1>3. GuruDi(s) \subseteq Akun /\ Aktif(s) \subseteq GuruDi(s) BY DEF GuruDi, Aktif
<1>4. IsFiniteSet(GuruDi(s)) /\ Cardinality(GuruDi(s)) <= Cardinality(Akun)
  BY <1>2, <1>3, FS_Subset
<1>5. Cardinality(Aktif(s)) <= Cardinality(GuruDi(s)) BY <1>3, <1>4, FS_Subset
<1> QED BY <1>2, <1>4, <1>5, FS_CardinalityType DEF Banyak

\* A step that moves no teacher leaves the schools with as many.
LEMMA BanyakTetap ==
  ASSUME \A n \in Akun : pendidik'[n].sekolah = pendidik[n].sekolah, NEW s
  PROVE  Banyak(s)' = Banyak(s)
<1>1. GuruDi(s)' = GuruDi(s) BY DEF GuruDi, Akun
<1> QED BY <1>1 DEF Banyak

\* A step of one request: what the others hold still has room.
LEMMA RuangTetap ==
  ASSUME IInv, KInv, NEW r \in Permintaan, NEW q, Menjadi(r, q),
         \A s \in Sekolah : /\ Banyak(s)' = Banyak(s) \/ Banyak(s)' = Banyak(s) + 1
                            /\ sekolah'[s].jumlah <= Banyak(s)',
         Ruang(q)'
  PROVE  KInv'
<1>1. req'[r] = q /\ \A p \in Permintaan : p # r => req'[p] = req[p] BY DEF Menjadi, IInv, Tipe
<1>2. ASSUME NEW p \in Permintaan, p # r PROVE Ruang(req[p])'
  <2>1. req'[p] = req[p] /\ Ruang(req[p]) /\ req[p] \in LokalTipe /\ PermintaanSah(req[p])
    BY <1>1, <1>2 DEF KInv, IInv, Tipe
  <2>2. CASE req[p].pc = "bebas" BY <2>1, <2>2 DEF Ruang
  <2>3. CASE req[p].pc # "bebas"
    <3>1. PICK s \in Sekolah : s = req[p].s BY <2>1, <2>3 DEF PermintaanSah
    <3>2. PICK j \in Nat : j = req[p].instansi.jumlah BY <2>1 DEF LokalTipe, Hitungan
    <3>3. Banyak(s) \in Nat /\ (Banyak(s)' = Banyak(s) \/ Banyak(s)' = Banyak(s) + 1)
      BY GuruTerhingga
    <3>4. j <= Banyak(s) /\ (req[p].pc = "jumlah" => j < Banyak(s))
      BY <2>1, <2>3, <3>1, <3>2 DEF Ruang
    <3>5. j <= Banyak(s)' /\ (req[p].pc = "jumlah" => j < Banyak(s)') BY <3>3, <3>4
    <3> QED BY <2>1, <3>1, <3>2, <3>5 DEF Ruang
  <2> QED BY <2>2, <2>3
<1>3. ASSUME NEW p \in Permintaan PROVE Ruang(req[p])' BY <1>1, <1>2
<1> QED BY <1>3 DEF KInv

\* A step that moves no teacher, when what it saves and holds has room.
LEMMA RuangLokal ==
  ASSUME IInv, KInv, NEW r \in Permintaan, NEW q, Menjadi(r, q), Ruang(q),
         \A n \in Akun : pendidik'[n].sekolah = pendidik[n].sekolah,
         \A s \in Sekolah : sekolah'[s].jumlah <= Banyak(s)
  PROVE  KInv'
<1>1. \A s : Banyak(s)' = Banyak(s) BY BanyakTetap
<1>2. Ruang(q)' BY <1>1 DEF Ruang
<1>3. ASSUME NEW s \in Sekolah PROVE Banyak(s)' = Banyak(s) /\ sekolah'[s].jumlah <= Banyak(s)'
  BY <1>1
<1> QED BY <1>2, <1>3, RuangTetap

\* A step of a request that keeps the row of its school as it is, and is not about
\* to count up, or that ends.
LEMMA RuangSama ==
  ASSUME IInv, KInv, NEW r \in Permintaan, NEW q, Menjadi(r, q),
         \/ q.pc = "bebas"
         \/ /\ req[r].pc # "bebas" /\ q.pc # "jumlah"
            /\ q.s = req[r].s /\ q.instansi.jumlah = req[r].instansi.jumlah,
         \A n \in Akun : pendidik'[n].sekolah = pendidik[n].sekolah, UNCHANGED sekolah
  PROVE  KInv'
<1>1. Ruang(q) BY DEF Ruang, KInv
<1>2. \A s \in Sekolah : sekolah'[s].jumlah <= Banyak(s) BY DEF KInv
<1> QED BY <1>1, <1>2, RuangLokal

LEMMA MulaiRuang ==
  ASSUME IInv, KInv, NEW r \in Permintaan, NEW q \in LokalTipe, Mulai(r, q), Ruang(q)
  PROVE  KInv'
<1>1. \A s : Banyak(s)' = Banyak(s) BY BanyakTetap DEF Mulai
<1>2. \A s \in Sekolah : sekolah'[s].jumlah <= Banyak(s)' BY <1>1 DEF KInv, Mulai
<1>3. ASSUME NEW p \in Permintaan PROVE Ruang(req[p])'
  <2>1. PICK o \in LokalTipe : o = (IF p = r THEN q ELSE req[p]) BY DEF IInv, Tipe
  <2>2. Ruang(o) BY <2>1 DEF KInv
  <2>3. PICK b \in BOOLEAN : req'[p] = [o EXCEPT !.sendiri = b]
    <3>1. CASE p = r BY <2>1, <3>1 DEF Mulai
    <3>2. CASE p # r /\ p \in Sibuk(q.s) BY <2>1, <3>2 DEF Mulai
    <3>3. CASE p # r /\ p \notin Sibuk(q.s)
      <4>1. req'[p] = o BY <2>1, <3>3 DEF Mulai
      <4>2. o = [o EXCEPT !.sendiri = o.sendiri] /\ o.sendiri \in BOOLEAN BY DEF LokalTipe
      <4> QED BY <4>1, <4>2
    <3> QED BY <3>1, <3>2, <3>3
  <2>4. req'[p].pc = o.pc /\ req'[p].s = o.s /\ req'[p].instansi = o.instansi
    BY <2>3 DEF LokalTipe
  <2> QED BY <1>1, <2>2, <2>4 DEF Ruang
<1> QED BY <1>2, <1>3 DEF KInv

LEMMA TerimaRuang ==
  ASSUME IInv, KInv, NEW r \in Permintaan, Terima(r) PROVE KInv'
<1>1. ASSUME NEW s \in Sekolah, BacaProfil(r, s) PROVE KInv'
  <2>1. sekolah[s] \in Hitungan /\ profil[s] \in 0..MaxData /\ sekolah[s].jumlah <= Banyak(s)
    BY DEF IInv, KInv, Tipe
  <2> DEFINE i == [sekolah[s] EXCEPT !.profil = profil[s] + 1]
             q == [Bebas EXCEPT !.pc = "profil", !.s = s, !.instansi = i]
  <2>2. profil[s] + 1 \in 0..MaxData
    <3>1. profil[s] < MaxData BY <1>1 DEF BacaProfil
    <3>2. MaxData \in Nat BY KonstantaAssumption
    <3> QED BY <2>1, <3>1, <3>2
  <2>3. i \in Hitungan /\ i.jumlah = sekolah[s].jumlah BY <2>1, <2>2 DEF Hitungan
  <2>4. Mulai(r, q) BY <1>1 DEF BacaProfil
  <2> HIDE DEF i
  <2>5. q \in LokalTipe /\ q.pc = "profil" /\ q.s = s /\ q.instansi = i
    BY <2>3, BebasSah DEF LokalTipe, Bebas
  <2> HIDE DEF q
  <2>6. Ruang(q) BY <2>1, <2>3, <2>5 DEF Ruang
  <2> QED BY <2>4, <2>5, <2>6, MulaiRuang
<1>2. ASSUME NEW s \in Sekolah, NEW e \in Email, NEW nip \in Diisi, TambahPendidik(r, s, e, nip)
      PROVE  KInv'
  <2>1. sekolah[s] \in Hitungan /\ nip \in NIP /\ sekolah[s].jumlah <= Banyak(s)
    BY KonstantaAssumption DEF IInv, KInv, Tipe, NIP
  <2> DEFINE g == [BelumAda EXCEPT !.sekolah = s, !.nip = nip]
             q == [Bebas EXCEPT !.pc = "email", !.s = s, !.e = e, !.instansi = sekolah[s], !.guru = g]
  <2>2. g \in Guru BY <2>1 DEF Guru, BelumAda, Status, NIP
  <2>3. Mulai(r, q) BY <1>2 DEF TambahPendidik
  <2> HIDE DEF g
  <2>4. q \in LokalTipe /\ q.pc = "email" /\ q.s = s /\ q.instansi = sekolah[s]
    BY <2>1, <2>2, BebasSah DEF LokalTipe, Bebas
  <2> HIDE DEF q
  <2>5. Ruang(q) BY <2>1, <2>4 DEF Ruang
  <2> QED BY <2>3, <2>4, <2>5, MulaiRuang
<1>3. ASSUME NEW n \in Akun, NEW pc \in {"guru", "status"}, NEW guru \in Guru, BacaGuru(r, n, pc, guru)
      PROVE  KInv'
  <2> DEFINE q == [Bebas EXCEPT !.pc = pc, !.s = pendidik[n].sekolah, !.n = n, !.guru = guru]
  <2>1. n \in Terdaftar /\ Mulai(r, q) BY <1>3 DEF BacaGuru
  <2>2. pendidik[n].sekolah \in Sekolah BY <2>1 DEF IInv, Tipe, Guru, Terdaftar
  <2>3. q \in LokalTipe BY <2>2, BebasSah, AkunAsli DEF LokalTipe, Bebas
  <2>4. q.pc = pc /\ q.instansi.jumlah = 0 BY BebasSah DEF LokalTipe, Bebas, Semula
  <2> HIDE DEF q
  <2>5. Ruang(q)
    <3>1. Banyak(q.s) \in Nat BY GuruTerhingga
    <3> QED BY <2>4, <3>1 DEF Ruang
  <2> QED BY <2>1, <2>3, <2>5, MulaiRuang
<1>4. ASSUME NEW n \in Akun, UpdatePendidik(r, n) PROVE KInv'
  <2>1. pendidik[n] \in Guru BY DEF IInv, Tipe
  <2> QED BY <1>3, <1>4, <2>1 DEF UpdatePendidik
<1>5. ASSUME NEW n \in Akun, NEW st \in Status, UpdatePendidikStatus(r, n, st) PROVE KInv'
  <2>1. PICK g \in Guru : g = [pendidik[n] EXCEPT !.status = st] BY DEF IInv, Tipe, Guru
  <2> QED BY <1>3, <1>5, <2>1 DEF UpdatePendidikStatus
<1> QED BY <1>1, <1>2, <1>4, <1>5 DEF Terima

\* The registration up to the stored teacher reads and writes tables without numbers.
LEMMA DaftarRuang ==
  ASSUME IInv, KInv, NEW r \in Permintaan,
         CekEmail(r) \/ CekNomor(r) \/ BuatAkun(r) \/ Batalkan(r)
  PROVE  KInv'
<1>1. req[r] \in LokalTipe /\ req[r].pc # "bebas" /\ UNCHANGED <<pendidik, sekolah>>
  BY DEF IInv, Tipe, CekEmail, CekNomor, BuatAkun, Batalkan, riwayat
<1>2. PICK q : /\ Menjadi(r, q)
               /\ \/ q = Bebas
                  \/ q = [req[r] EXCEPT !.pc = "nomor"] \/ q = [req[r] EXCEPT !.pc = "akun"]
                  \/ \E n \in Berikut : q = [req[r] EXCEPT !.pc = "baris", !.n = n, !.e = Tiada]
  <2>1. CASE CekEmail(r) BY <2>1 DEF CekEmail, Ke
  <2>2. CASE CekNomor(r) BY <2>2 DEF CekNomor, Ke
  <2>3. CASE BuatAkun(r) BY <2>3 DEF BuatAkun
  <2>4. CASE Batalkan(r) BY <2>4 DEF Batalkan
  <2> QED BY <2>1, <2>2, <2>3, <2>4
<1>3. \/ q.pc = "bebas"
      \/ q.pc # "jumlah" /\ q.s = req[r].s /\ q.instansi.jumlah = req[r].instansi.jumlah
  BY <1>1, <1>2, BebasSah DEF LokalTipe
<1> QED BY <1>1, <1>2, <1>3, RuangSama

\* The teacher is stored before it is counted.
LEMMA BuatBarisRuang ==
  ASSUME IInv, KInv, NEW r \in Permintaan, BuatBaris(r) PROVE KInv'
<1>1. req[r] \in LokalTipe /\ PermintaanSah(req[r]) /\ req[r].pc = "baris" /\ Ruang(req[r])
      /\ UNCHANGED sekolah /\ Tipe
  BY DEF IInv, KInv, Tipe, BuatBaris
<1> DEFINE n == req[r].n
<1>2. PICK s \in Sekolah : s = req[r].s BY <1>1 DEF PermintaanSah
<1>3. n \in Akun /\ n \notin Terdaftar /\ req[r].guru.sekolah = s
  BY <1>1, <1>2 DEF PermintaanSah, TanpaGuru, Mendaftar
<1>4. CASE Lepas(r, "batal") /\ UNCHANGED pendidik
  <2>1. PICK q : q = [req[r] EXCEPT !.pc = "batal", !.guru = BelumAda] OBVIOUS
  <2>2. q.pc = "batal" /\ q.s = req[r].s /\ q.instansi = req[r].instansi
    BY <1>1, <2>1 DEF LokalTipe
  <2>3. Menjadi(r, q) BY <1>4, <2>1 DEF Lepas
  <2> QED BY <1>1, <1>4, <2>2, <2>3, RuangSama
<1>5. CASE pendidik' = [pendidik EXCEPT ![n] = req[r].guru] /\ Lepas(r, "jumlah")
  <2>1. PICK q : q = [req[r] EXCEPT !.pc = "jumlah", !.guru = BelumAda] OBVIOUS
  <2>2. q.pc = "jumlah" /\ q.s = s /\ q.instansi = req[r].instansi
    BY <1>1, <1>2, <2>1 DEF LokalTipe
  <2>3. Menjadi(r, q) BY <1>5, <2>1 DEF Lepas
  <2>4. pendidik'[n] = req[r].guru /\ \A m \in Akun : m # n => pendidik'[m] = pendidik[m]
    BY <1>1, <1>3, <1>5 DEF Tipe
  <2>5. pendidik[n].sekolah = Tiada /\ Tiada \notin Sekolah
    BY <1>3, KonstantaAssumption DEF Terdaftar
  <2>6. ASSUME NEW z \in Sekolah, z # s PROVE Banyak(z)' = Banyak(z)
    <3>1. GuruDi(z)' = GuruDi(z) BY <1>3, <2>4, <2>5, <2>6 DEF GuruDi, Akun
    <3> QED BY <3>1 DEF Banyak
  <2>7. GuruDi(s)' = GuruDi(s) \cup {n} /\ n \notin GuruDi(s)
    BY <1>3, <2>4, <2>5 DEF GuruDi, Akun
  <2>8. Banyak(s)' = Banyak(s) + 1
    <3>1. Cardinality(GuruDi(s) \cup {n}) = Cardinality(GuruDi(s)) + 1
      BY <2>7, GuruTerhingga, FS_AddElement
    <3> QED BY <2>7, <3>1 DEF Banyak
  <2>9. ASSUME NEW z \in Sekolah
        PROVE  /\ Banyak(z)' = Banyak(z) \/ Banyak(z)' = Banyak(z) + 1
               /\ sekolah'[z].jumlah <= Banyak(z)'
    <3>1. Banyak(z) \in Nat BY GuruTerhingga
    <3>2. sekolah'[z].jumlah \in Nat /\ sekolah'[z].jumlah <= Banyak(z)
      BY <1>1 DEF KInv, Tipe, Hitungan
    <3> QED BY <2>6, <2>8, <3>1, <3>2
  <2>10. Ruang(q)'
    <3>1. PICK j \in Nat : j = q.instansi.jumlah BY <1>1, <2>2 DEF LokalTipe, Hitungan
    <3>2. Banyak(s) \in Nat BY GuruTerhingga
    <3>3. j <= Banyak(s) BY <1>1, <1>2, <2>2, <3>1 DEF Ruang
    <3>4. j < Banyak(s)' BY <2>8, <3>2, <3>3
    <3>5. j <= Banyak(s)' BY <2>8, <3>2, <3>3
    <3> QED BY <2>2, <3>1, <3>4, <3>5 DEF Ruang
  <2> QED BY <2>3, <2>9, <2>10, RuangTetap
<1> QED BY <1>4, <1>5 DEF BuatBaris

\* Saving a teacher again does not move it.
LEMMA GuruRuang ==
  ASSUME IInv, KInv, NEW r \in Permintaan, SimpanGuru(r) \/ SimpanStatus(r) PROVE KInv'
<1>1. req[r] \in LokalTipe /\ PermintaanSah(req[r]) /\ req[r].pc \in {"guru", "status"}
      /\ UNCHANGED sekolah /\ Tipe
  BY DEF IInv, Tipe, SimpanGuru, SimpanStatus, riwayat
<1>2. \A n \in Akun : pendidik'[n].sekolah = pendidik[n].sekolah
  BY <1>1 DEF SimpanGuru, SimpanStatus, Tipe, PermintaanSah, AdaGuru, Terdaftar
<1>3. CASE SimpanGuru(r)
  BY <1>1, <1>2, <1>3, BebasSah, RuangSama DEF SimpanGuru
<1>4. CASE SimpanStatus(r)
  <2>1. PICK q : q = [req[r] EXCEPT !.pc = "sekolah", !.guru = BelumAda] OBVIOUS
  <2>2. q.pc = "sekolah" /\ q.s = req[r].s /\ q.instansi = req[r].instansi
    BY <1>1, <2>1 DEF LokalTipe
  <2>3. Menjadi(r, q) BY <1>4, <2>1 DEF SimpanStatus, Lepas
  <2> QED BY <1>1, <1>2, <2>2, <2>3, RuangSama
<1> QED BY <1>3, <1>4

LEMMA RekapRuang ==
  ASSUME IInv, KInv, NEW r \in Permintaan, BacaSekolah(r) \/ Hitung(r) PROVE KInv'
<1>1. req[r] \in LokalTipe /\ PermintaanSah(req[r]) /\ UNCHANGED <<pendidik, sekolah>>
      /\ req[r].pc # "bebas"
  BY DEF IInv, Tipe, BacaSekolah, Hitung
<1>2. PICK s \in Sekolah : s = req[r].s BY <1>1 DEF PermintaanSah
<1>3. sekolah[s].jumlah <= Banyak(s) /\ \A z \in Sekolah : sekolah'[z].jumlah <= Banyak(z)
  BY <1>1 DEF KInv
<1>4. CASE BacaSekolah(r)
  <2>1. PICK q : q = [req[r] EXCEPT !.pc = "hitung", !.instansi = sekolah[req[r].s]] OBVIOUS
  <2>2. q.pc = "hitung" /\ q.s = s /\ q.instansi = sekolah[s] BY <1>1, <1>2, <2>1 DEF LokalTipe
  <2>3. Menjadi(r, q) BY <1>4, <2>1 DEF BacaSekolah
  <2>4. Ruang(q) BY <1>3, <2>2 DEF Ruang
  <2> QED BY <1>1, <1>3, <2>3, <2>4, RuangLokal
<1>5. CASE Hitung(r)
  <2>1. PICK k : k = Cardinality(Aktif(req[r].s)) OBVIOUS
  <2>2. PICK q : q = [req[r] EXCEPT !.pc = "jumlahkan", !.instansi.jumlah = k] OBVIOUS
  <2>3. q.pc = "jumlahkan" /\ q.s = s /\ q.instansi.jumlah = k
    BY <1>1, <1>2, <2>2 DEF LokalTipe, Hitungan
  <2>4. Menjadi(r, q) BY <1>5, <2>1, <2>2 DEF Hitung
  <2>5. k <= Banyak(s) BY <1>2, <2>1, GuruTerhingga
  <2>6. Ruang(q) BY <2>3, <2>5 DEF Ruang
  <2> QED BY <1>1, <1>3, <2>4, <2>6, RuangLokal
<1> QED BY <1>4, <1>5

\* Every save of a school is one of a row with room.
LEMMA SimpanRuang ==
  ASSUME IInv, KInv, NEW r \in Permintaan, TambahJumlah(r) \/ SimpanJumlah(r) \/ SimpanProfil(r)
  PROVE  KInv'
<1>1. req[r] \in LokalTipe /\ PermintaanSah(req[r]) /\ Ruang(req[r]) /\ req[r].pc # "bebas"
      /\ UNCHANGED pendidik /\ Menjadi(r, Bebas) /\ Tipe
  BY DEF IInv, KInv, Tipe, TambahJumlah, SimpanJumlah, SimpanProfil
<1>2. PICK s \in Sekolah : s = req[r].s BY <1>1 DEF PermintaanSah
<1>3. PICK i : sekolah' = [sekolah EXCEPT ![s] = i] /\ i.jumlah <= Banyak(s)
  <2>1. CASE TambahJumlah(r)
    <3>1. PICK i : i = [req[r].instansi EXCEPT !.jumlah = @ + 1] OBVIOUS
    <3>2. i.jumlah = req[r].instansi.jumlah + 1 /\ req[r].instansi.jumlah \in Nat
      BY <1>1, <3>1 DEF LokalTipe, Hitungan
    <3>3. req[r].instansi.jumlah < Banyak(s) /\ Banyak(s) \in Nat
      BY <1>1, <1>2, <2>1, GuruTerhingga DEF Ruang, TambahJumlah
    <3>4. i.jumlah <= Banyak(s) BY <3>2, <3>3
    <3> QED BY <1>2, <2>1, <3>1, <3>4 DEF TambahJumlah
  <2>2. CASE SimpanJumlah(r) BY <1>1, <1>2, <2>2 DEF SimpanJumlah, Ruang
  <2>3. CASE SimpanProfil(r) BY <1>1, <1>2, <2>3 DEF SimpanProfil, Ruang
  <2> QED BY <2>1, <2>2, <2>3
<1>4. \A z \in Sekolah : sekolah'[z].jumlah <= Banyak(z) BY <1>1, <1>3 DEF KInv, Tipe
<1>5. Ruang(Bebas) BY BebasSah DEF Ruang
<1> QED BY <1>1, <1>4, <1>5, RuangLokal

LEMMA GagalRuang ==
  ASSUME IInv, KInv, NEW r \in Permintaan, Gagal(r) PROVE KInv'
<1>1. req[r] \in LokalTipe /\ UNCHANGED <<pendidik, sekolah>> BY DEF IInv, Tipe, Gagal
<1>2. CASE req[r].pc = "baris" /\ Lepas(r, "batal")
  <2>1. PICK q : q = [req[r] EXCEPT !.pc = "batal", !.guru = BelumAda] OBVIOUS
  <2>2. q.pc = "batal" /\ q.s = req[r].s /\ q.instansi = req[r].instansi
    BY <1>1, <2>1 DEF LokalTipe
  <2>3. Menjadi(r, q) BY <1>2, <2>1 DEF Lepas
  <2> QED BY <1>1, <1>2, <2>2, <2>3, RuangSama
<1>3. CASE Menjadi(r, [req[r] EXCEPT !.pc = "jumlahkan", !.instansi.jumlah = 0, !.sendiri = FALSE])
  <2>1. PICK q : q = [req[r] EXCEPT !.pc = "jumlahkan", !.instansi.jumlah = 0, !.sendiri = FALSE]
    OBVIOUS
  <2>2. q.pc = "jumlahkan" /\ q.instansi.jumlah = 0 BY <1>1, <2>1 DEF LokalTipe, Hitungan
  <2>3. Banyak(q.s) \in Nat BY GuruTerhingga
  <2>4. Ruang(q) BY <2>2, <2>3 DEF Ruang
  <2>5. \A s \in Sekolah : sekolah'[s].jumlah <= Banyak(s) BY <1>1 DEF KInv
  <2> QED BY <1>1, <1>3, <2>1, <2>4, <2>5, RuangLokal
<1>4. CASE Menjadi(r, Bebas) BY <1>1, <1>4, BebasSah, RuangSama
<1> QED BY <1>2, <1>3, <1>4 DEF Gagal

\* Every step leaves the schools room for what they count.
LEMMA LangkahRuang == IInv /\ KInv /\ [Next]_vars => KInv'
<1> SUFFICES ASSUME IInv, KInv, [Next]_vars PROVE KInv'
  OBVIOUS
<1>1. CASE UNCHANGED vars
  <2>1. \A s : Banyak(s)' = Banyak(s) BY <1>1, BanyakTetap DEF vars
  <2> QED BY <1>1, <2>1 DEF KInv, Ruang, vars
<1>2. ASSUME NEW r \in Permintaan, Terima(r) PROVE KInv'
  BY <1>2, TerimaRuang
<1>3. ASSUME NEW r \in Permintaan, Lanjut(r) PROVE KInv'
  BY <1>3, DaftarRuang, BuatBarisRuang, GuruRuang, RekapRuang, SimpanRuang, GagalRuang DEF Lanjut
<1> QED BY <1>1, <1>2, <1>3 DEF Next

LEMMA SelaluRuang == Spec => []KInv
<1>1. Init => KInv
  <2> SUFFICES ASSUME Init PROVE KInv
    OBVIOUS
  <2>1. \A s : Banyak(s) \in Nat BY GuruTerhingga
  <2>2. \A s \in Sekolah : sekolah[s].jumlah = 0 BY DEF Init, Semula
  <2>3. \A r \in Permintaan : req[r].pc = "bebas" BY BebasSah DEF Init
  <2> QED BY <2>1, <2>2, <2>3 DEF KInv, Ruang
<1>2. IInv /\ KInv /\ [Next]_vars => KInv' BY LangkahRuang
<1> QED BY <1>1, <1>2, Selalu, PTL DEF Spec

\* No school ever counts more teachers than it has had, active or not, whatever
\* overlaps and fails: a counter that is wrong is wrong by that much at most.
THEOREM JumlahTerbatas == Spec => [](\A s \in Sekolah : sekolah[s].jumlah <= Banyak(s))
<1>1. KInv => \A s \in Sekolah : sekolah[s].jumlah <= Banyak(s) BY DEF KInv
<1> QED BY <1>1, SelaluRuang, PTL

\* TypeOK, with the bound of the numbers: a school has at most MaxAkun teachers.
THEOREM TypeCorrect == Spec => []TypeOK
<1>1. IInv /\ KInv => TypeOK
  <2> SUFFICES ASSUME IInv, KInv PROVE TypeOK
    OBVIOUS
  <2>1. MaxAkun \in Nat /\ \A s : Banyak(s) \in Nat /\ Banyak(s) <= MaxAkun
    BY GuruTerhingga, KonstantaAssumption
  <2>2. ASSUME NEW i \in Hitungan, NEW s, i.jumlah <= Banyak(s) PROVE i \in Instansi
    BY <2>1, <2>2 DEF Hitungan, Instansi
  <2>3. ASSUME NEW s \in Sekolah PROVE sekolah[s] \in Instansi
    BY <2>2 DEF KInv, IInv, Tipe
  <2>4. ASSUME NEW r \in Permintaan PROVE req[r] \in Lokal
    <3>1. req[r] \in LokalTipe /\ Ruang(req[r]) /\ PermintaanSah(req[r])
      BY DEF KInv, IInv, Tipe
    <3>2. req[r].instansi \in Instansi
      <4>1. CASE req[r].pc = "bebas"
        BY <2>1, <3>1, <4>1 DEF PermintaanSah, Bebas, LokalTipe, Hitungan, Instansi, Semula
      <4>2. CASE req[r].pc # "bebas"
        BY <2>2, <3>1, <4>2 DEF Ruang, LokalTipe
      <4> QED BY <4>1, <4>2
    <3> QED BY <3>1, <3>2 DEF LokalTipe, Lokal
  <2>5. sekolah \in [Sekolah -> Instansi] /\ req \in [Permintaan -> Lokal]
    BY <2>3, <2>4 DEF IInv, Tipe
  <2> QED BY <2>5 DEF TypeOK, IInv, Tipe
<1> QED BY <1>1, Selalu, SelaluRuang, PTL
=============================================================================
