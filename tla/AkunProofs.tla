----------------------------- MODULE AkunProofs -----------------------------
(***************************************************************************)
(* The properties of Akun for every number of requests, addresses, Google  *)
(* accounts, pending sessions and temp tokens.                             *)
(*                                                                         *)
(* IInv says what every request, row, pending session and temp token is    *)
(* like, and Maju what no step takes back.  Of an account that was rolled  *)
(* back they say nothing: its row is empty, or what a Google sign-in saved *)
(* over it.  On top of IInv stand five more invariants: BatalSah (what is  *)
(* rolled back), Setia (what is saved whole), Sendirian (who overlaps),    *)
(* and TundaBersih and TempBersih (what was used once).  For those the     *)
(* steps are divided by Pembagian into ordinary ones (Biasa), the calls of *)
(* a request that holds something (Khusus) and changes of the tables alone *)
(* (Luar).                                                                 *)
(***************************************************************************)
EXTENDS Akun, TLAPS

\* The Google account of a row or of a copy of it belongs to the row's address.
MilikSendiri(b, e) == b.google_id \in Google => EmailGoogle[b.google_id] = e

\* The addresses whose account is active, or was rolled back.
Baik == {e \in Email : Status(e) = "active"} \cup dibatalkan

\* What a request q satisfies before its next call, when B is Baik, T the
\* proved addresses, P the pending sessions and M the temp tokens: whose it is,
\* that the address was proved before the row becomes active, and that a copy to be
\* saved is active.
Sah(q, B, T, P, M) ==
  /\ IF q.pc = "bebas" THEN q = Bebas ELSE q.e \in Email
  /\ q.pc \in {"cari", "tautkan", "tunda", "lepas", "baca", "lengkapi", "pengguna"} =>
       q.g \in Google /\ q.e = EmailGoogle[q.g] /\ q.e \in T
  /\ q.pc \in {"hapus", "verifikasi"} => q.e \in T
  /\ q.pc = "buat" => q.salin \in {Pendaftar, Petugas("internal"), Petugas("super_admin")}
  /\ q.pc \in {"tautkan", "lengkapi"} =>
       /\ q.salin.account_status = "active" /\ q.salin.email_verified
       /\ MilikSendiri(q.salin, q.e)
  /\ q.pc \in {"lepas", "baca", "lengkapi", "pengguna"} =>
       q.p \in 1..MaxTunda /\ P[q.p].keadaan # "belum" /\ P[q.p].g = q.g
  /\ q.pc \in {"ganti", "simpan", "cabut"} =>
       q.t \in 1..MaxTemp /\ M[q.t].keadaan # "belum" /\ M[q.t].untuk = q.e
  /\ q.pc = "sesi" => q.e \in B

PermintaanSah == \A r \in Permintaan : Sah(req[r], Baik, terbukti, tunda, temp)

BarisSah(b, e, T) ==
  /\ b.account_status = "active" <=> b.email_verified
  /\ b.account_status = "active" /\ b.role = "wali_murid" => e \in T
  /\ MilikSendiri(b, e)

TabelSah == \A e \in Email : BarisSah(users[e], e, terbukti)

\* A pending session is of a Google account that signed in.
TundaSah ==
  \A p \in 1..MaxTunda : tunda[p].keadaan # "belum" =>
    tunda[p].g \in Google /\ EmailGoogle[tunda[p].g] \in terbukti

\* A temp token is of an active account, or of one that was rolled back.
TempSah ==
  \A t \in 1..MaxTemp : temp[t].keadaan # "belum" => temp[t].untuk \in Email \cap Baik

IInv == TypeOK /\ PermintaanSah /\ TabelSah /\ TundaSah /\ TempSah /\ SesiHanyaAktif

\* Some request may roll the account of e back.
Membatalkan(e) == \E r \in Permintaan : req[r].pc = "batal" /\ req[r].e = e

\* What no step takes back.
Maju ==
  /\ \A e \in Email :
       /\ Status(e) = "active" =>
            users'[e].account_status = "active" \/ (Membatalkan(e) /\ e \in dibatalkan')
       /\ Status(e) # "tidak_ada" => users'[e].account_status # "tidak_ada"
  /\ dibatalkan \subseteq dibatalkan'
  /\ terbukti \subseteq terbukti'
  /\ \A p \in 1..MaxTunda : tunda[p].keadaan # "belum" =>
       tunda'[p].keadaan # "belum" /\ tunda'[p].g = tunda[p].g
  /\ \A t \in 1..MaxTemp : temp[t].keadaan # "belum" =>
       temp'[t].keadaan # "belum" /\ temp'[t].untuk = temp[t].untuk

----------------------------------------------------------------------------
LEMMA BarisTetap ==
  /\ Pendaftar \in Baris /\ TidakAda \in Baris /\ Kosong \in Baris /\ Bebas \in Lokal
  /\ \A role \in {"internal", "super_admin"} : Petugas(role) \in Baris
  /\ \A g \in Google : PenggunaGoogle(g) \in Baris
<1>1. 0 \in 0..MaxSandi /\ 1 \in 0..MaxSandi /\ 0 \in 0..MaxTunda /\ 0 \in 0..MaxTemp
  BY KonstantaAssumption
<1>2. Pendaftar \in Baris
  BY <1>1 DEF Pendaftar, Baris
<1>3. TidakAda \in Baris /\ Kosong \in Baris
  BY <1>1, <1>2 DEF TidakAda, Kosong, Pendaftar, Baris
<1>4. Bebas \in Lokal
  BY <1>1, <1>3 DEF Bebas, Lokal
<1>5. ASSUME NEW role \in {"internal", "super_admin"}
      PROVE  Petugas(role) \in Baris
  BY <1>2 DEF Petugas, Pendaftar, Baris
<1>6. ASSUME NEW g \in Google
      PROVE  PenggunaGoogle(g) \in Baris
  BY <1>1, <1>2 DEF PenggunaGoogle, Pendaftar, Baris
<1>7. QED
  BY <1>2, <1>3, <1>4, <1>5, <1>6

LEMMA BarisBaru ==
  ASSUME NEW b \in Baris
  PROVE  /\ Terverifikasi(b) \in Baris
         /\ \A g \in Google : Ditautkan(b, g) \in Baris /\ Dilengkapi(b, g) \in Baris
         /\ \A s \in 0..MaxSandi : SandiBaru(b, s) \in Baris
<1>1. Terverifikasi(b) \in Baris
  BY DEF Terverifikasi, Baris
<1>2. ASSUME NEW g \in Google
      PROVE  Ditautkan(b, g) \in Baris /\ Dilengkapi(b, g) \in Baris
  BY <1>1 DEF Ditautkan, Dilengkapi, Baris
<1>3. ASSUME NEW s \in 0..MaxSandi
      PROVE  SandiBaru(b, s) \in Baris
  BY DEF SandiBaru, Baris
<1>4. QED
  BY <1>1, <1>2, <1>3

LEMMA TypeInit == Init => TypeOK
<1>1. 0 \in 0..2 /\ MaxTunda \in Nat /\ MaxTemp \in Nat
  BY KonstantaAssumption
<1>2. QED
  BY <1>1, BarisTetap DEF Init, TypeOK, Tunda, Temp

LEMMA TypeMenjadi ==
  ASSUME TypeOK, NEW r \in Permintaan, NEW q \in Lokal, Menjadi(r, q)
  PROVE  req' \in [Permintaan -> Lokal]
  BY DEF TypeOK, Menjadi

LEMMA TypeKe ==
  ASSUME TypeOK, NEW r \in Permintaan, NEW pc, Ke(r, pc),
         pc \in {"bebas", "batal", "kirim", "hapus", "verifikasi", "cari", "tautkan", "tunda", "lepas",
                 "baca", "lengkapi", "pengguna", "simpan", "cabut", "sesi"}
  PROVE  req' \in [Permintaan -> Lokal]
<1>1. req[r] \in Lokal
  BY DEF TypeOK
<1>2. [req[r] EXCEPT !.pc = pc] \in Lokal
  BY <1>1 DEF Lokal
<1>3. QED
  BY <1>2, BarisTetap, TypeMenjadi DEF Ke

LEMMA TypeDi ==
  ASSUME NEW pc \in {"kirim", "buat", "periksa", "cari", "tautkan", "tunda", "lepas", "ganti", "sesi"}
  PROVE  /\ Di(pc) \in Lokal
         /\ \A b \in Baris : [Di(pc) EXCEPT !.salin = b] \in Lokal
         /\ \A g \in Google : \A p \in 1..MaxTunda : [Di(pc) EXCEPT !.g = g, !.p = p] \in Lokal
         /\ \A t \in 1..MaxTemp : \A s \in Sandi : [Di(pc) EXCEPT !.t = t, !.sandi = s] \in Lokal
<1>1. Di(pc) \in Lokal
  BY BarisTetap DEF Di, Lokal
<1>2. 1..MaxTunda \subseteq 0..MaxTunda /\ 1..MaxTemp \subseteq 0..MaxTemp /\ Sandi \subseteq 0..MaxSandi
  BY KonstantaAssumption DEF Sandi
<1>3. QED
  BY <1>1, <1>2 DEF Lokal

LEMMA TypeTulis ==
  ASSUME TypeOK, NEW r \in Permintaan, req[r].e \in Email,
         NEW baris \in Baris, NEW sendiri \in Baris, Tulis(r, baris, sendiri)
  PROVE  users' \in [Email -> Baris] /\ maksud' \in [Email -> Baris] /\ disela' \subseteq Email
  BY DEF TypeOK, Tulis

----------------------------------------------------------------------------
LEMMA BaikTumbuh == Maju => Baik \subseteq Baik'
  BY DEF Maju, Baik, Status

LEMMA BaikTetap == UNCHANGED <<users, dibatalkan>> => Baik' = Baik
  BY DEF Baik, Status

LEMMA SahTumbuh ==
  ASSUME Maju, NEW q \in Lokal, Sah(q, Baik, terbukti, tunda, temp)
  PROVE  Sah(q, Baik', terbukti', tunda', temp')
  BY BaikTumbuh DEF Sah, Maju

\* A step that takes nothing back and leaves request r well-formed.
LEMMA PermintaanMaju ==
  ASSUME IInv, Maju, NEW r \in Permintaan, NEW q \in Lokal, Menjadi(r, q),
         Sah(q, Baik', terbukti', tunda', temp')
  PROVE  req' \in [Permintaan -> Lokal] /\ PermintaanSah'
<1>1. req' \in [Permintaan -> Lokal]
  BY TypeMenjadi DEF IInv
<1>2. ASSUME NEW s \in Permintaan
      PROVE  Sah(req'[s], Baik', terbukti', tunda', temp')
  <2>1. CASE s = r
    BY <2>1 DEF Menjadi, IInv, TypeOK
  <2>2. CASE s # r
    <3>1. req'[s] = req[s] /\ req[s] \in Lokal /\ Sah(req[s], Baik, terbukti, tunda, temp)
      BY <2>2 DEF Menjadi, IInv, TypeOK, PermintaanSah
    <3>2. QED
      BY <3>1, SahTumbuh
  <2>3. QED
    BY <2>1, <2>2
<1>3. QED
  BY <1>1, <1>2 DEF PermintaanSah

LEMMA SahBebas == \A B, T, P, M : Sah(Bebas, B, T, P, M)
  BY DEF Sah, Bebas

LEMMA MajuTetap ==
  ASSUME UNCHANGED <<users, dibatalkan, tunda, temp>>, terbukti \subseteq terbukti'
  PROVE  Maju
  BY DEF Maju, Status

\* Request r goes on as q and no table changes.
LEMMA HanyaPermintaan ==
  ASSUME IInv, NEW r \in Permintaan, NEW q \in Lokal, Menjadi(r, q),
         UNCHANGED <<users, maksud, tunda, temp, sesi, dibatalkan, disela>>, terbukti \subseteq terbukti',
         kode' \subseteq Email, terbukti' \subseteq Email, tumpang' \subseteq Email, gagal' \subseteq Email,
         Sah(q, Baik, terbukti', tunda, temp)
  PROVE  IInv' /\ Maju
<1>1. Maju
  BY MajuTetap
<1>2. req' \in [Permintaan -> Lokal] /\ PermintaanSah'
  BY <1>1, PermintaanMaju, BaikTetap
<1>3. TypeOK'
  BY <1>2 DEF IInv, TypeOK
<1>4. TabelSah' /\ TundaSah'
  BY DEF IInv, TabelSah, TundaSah, BarisSah
<1>5. TempSah' /\ SesiHanyaAktif'
  BY BaikTetap DEF IInv, TempSah, SesiHanyaAktif, Status
<1>6. QED
  BY <1>1, <1>2, <1>3, <1>4, <1>5 DEF IInv

LEMMA MulaiSah ==
  ASSUME IInv, NEW r \in Permintaan, NEW e \in Email, NEW q \in Lokal, Mulai(r, e, q),
         q.pc # "bebas" => Sah([q EXCEPT !.e = e], Baik, terbukti, tunda, temp)
  PROVE  IInv' /\ Maju
<1> DEFINE p == IF q.pc = "bebas" THEN Bebas ELSE [q EXCEPT !.e = e]
<1>1. p \in Lokal
  BY BarisTetap DEF Lokal
<1>2. Sah(p, Baik, terbukti, tunda, temp)
  BY SahBebas
<1>3. Menjadi(r, p)
  BY DEF Mulai
<1>4. tumpang' \subseteq Email
  BY DEF Mulai, Bertemu, IInv, TypeOK
<1> HIDE DEF p
<1>5. terbukti' = terbukti /\ UNCHANGED <<users, maksud, kode, tunda, temp, sesi, dibatalkan, disela, gagal>>
  BY DEF Mulai
<1>6. kode' \subseteq Email /\ terbukti' \subseteq Email /\ gagal' \subseteq Email
  BY <1>5 DEF IInv, TypeOK
<1>7. QED
  BY <1>1, <1>2, <1>3, <1>4, <1>5, <1>6, HanyaPermintaan

\* The requests that begin with nothing but their address.
LEMMA MulaiDi ==
  ASSUME IInv, NEW r \in Permintaan, NEW e \in Email,
         \/ Mulai(r, e, Bebas) \/ Mulai(r, e, Di("kirim")) \/ Mulai(r, e, Di("periksa"))
         \/ Mulai(r, e, Di("sesi")) /\ Status(e) = "active"
  PROVE  IInv' /\ Maju
<1>1. ASSUME NEW pc \in {"kirim", "periksa", "sesi"}, pc = "sesi" => Status(e) = "active"
      PROVE  Sah([Di(pc) EXCEPT !.e = e], Baik, terbukti, tunda, temp)
  BY <1>1 DEF Sah, Di, Bebas, Baik
<1>2. Bebas.pc = "bebas"
  BY DEF Bebas
<1>3. CASE Mulai(r, e, Bebas)
  BY <1>2, <1>3, BarisTetap, MulaiSah
<1>4. CASE Mulai(r, e, Di("kirim"))
  BY <1>1, <1>4, TypeDi, MulaiSah
<1>5. CASE Mulai(r, e, Di("periksa"))
  BY <1>1, <1>5, TypeDi, MulaiSah
<1>6. CASE Mulai(r, e, Di("sesi")) /\ Status(e) = "active"
  BY <1>1, <1>6, TypeDi, MulaiSah
<1>7. QED
  BY <1>3, <1>4, <1>5, <1>6

\* The requests that begin with a row to insert.
LEMMA MulaiBuat ==
  ASSUME IInv, NEW r \in Permintaan, NEW e \in Email,
         NEW b \in {Pendaftar, Petugas("internal"), Petugas("super_admin")},
         Mulai(r, e, [Di("buat") EXCEPT !.salin = b])
  PROVE  IInv' /\ Maju
<1>1. b \in Baris
  BY BarisTetap
<1>2. [Di("buat") EXCEPT !.salin = b] \in Lokal
  BY <1>1, TypeDi
<1>3. Sah([[Di("buat") EXCEPT !.salin = b] EXCEPT !.e = e], Baik, terbukti, tunda, temp)
  BY DEF Sah, Di, Bebas
<1>4. QED
  BY <1>2, <1>3, MulaiSah

LEMMA PendaftaranSah ==
  ASSUME IInv, NEW r \in Permintaan, NEW e \in Email,
         \/ Register(r, e) \/ ResendOTP(r, e) \/ VerifyOTP(r, e)
         \/ \E role \in {"internal", "super_admin"} : BuatPetugas(r, e, role)
  PROVE  IInv' /\ Maju
<1>1. CASE Register(r, e)
  <2>1. \/ Mulai(r, e, Bebas) \/ Mulai(r, e, Di("kirim"))
        \/ Mulai(r, e, [Di("buat") EXCEPT !.salin = Pendaftar])
    BY <1>1 DEF Register
  <2>2. QED
    BY <2>1, MulaiDi, MulaiBuat
<1>2. CASE ResendOTP(r, e) \/ VerifyOTP(r, e)
  BY <1>2, MulaiDi DEF ResendOTP, VerifyOTP
<1>3. ASSUME NEW role \in {"internal", "super_admin"}, BuatPetugas(r, e, role)
      PROVE  IInv' /\ Maju
  <2>1. \/ Mulai(r, e, Bebas) \/ Mulai(r, e, [Di("buat") EXCEPT !.salin = Petugas(role)])
    BY <1>3 DEF BuatPetugas
  <2>2. QED
    BY <2>1, MulaiDi, MulaiBuat
<1>4. QED
  BY <1>1, <1>2, <1>3

LEMMA MasukSah ==
  ASSUME IInv, NEW r \in Permintaan, NEW e \in Email, NEW s \in Sandi,
         Login(r, e, s) \/ PusatLogin(r, e, s) \/ InternalLogin(r, e, s)
  PROVE  IInv' /\ Maju
<1>1. CASE Login(r, e, s) \/ PusatLogin(r, e, s)
  BY <1>1, MulaiDi DEF Login, PusatLogin, SandiCocok
<1>2. CASE InternalLogin(r, e, s) /\ ~(SandiCocok(e, s, "internal") /\ ~users[e].is_password_updated)
  BY <1>2, MulaiDi DEF InternalLogin, SandiCocok
<1>3. CASE InternalLogin(r, e, s) /\ SandiCocok(e, s, "internal") /\ ~users[e].is_password_updated
  <2>1. PICK t \in 1..MaxTemp :
          /\ temp[t].keadaan = "belum"
          /\ temp' = [temp EXCEPT ![t] = [untuk |-> e, keadaan |-> "berlaku", dipakai |-> 0]]
          /\ UNCHANGED <<users, kode, tunda, req, riwayat>>
    BY <1>3 DEF InternalLogin
  <2>2. Status(e) = "active"
    BY <1>3 DEF SandiCocok
  <2>3. temp' \in [1..MaxTemp -> Temp]
    BY <2>1 DEF Temp, IInv, TypeOK
  <2>4. Maju /\ Baik' = Baik
    BY <2>1, BaikTetap DEF Maju, riwayat, Status, IInv, TypeOK
  <2>5. TypeOK'
    BY <2>1, <2>3 DEF IInv, TypeOK, riwayat
  <2>6. PermintaanSah'
    BY <2>1, <2>4, SahTumbuh DEF IInv, TypeOK, PermintaanSah
  <2>7. TabelSah' /\ TundaSah' /\ SesiHanyaAktif'
    BY <2>1 DEF IInv, TabelSah, TundaSah, SesiHanyaAktif, Status, riwayat
  <2>8. TempSah'
    BY <2>1, <2>2, <2>4 DEF IInv, TempSah, TypeOK, Baik
  <2>9. QED
    BY <2>4, <2>5, <2>6, <2>7, <2>8 DEF IInv
<1>4. QED
  BY <1>1, <1>2, <1>3

LEMMA LanjutanSah ==
  ASSUME IInv, NEW r \in Permintaan,
         \/ \E p \in 1..MaxTunda : CompleteOAuth(r, p)
         \/ \E t \in 1..MaxTemp, s \in Sandi : ForceUpdatePassword(r, t, s)
  PROVE  IInv' /\ Maju
<1>1. ASSUME NEW p \in 1..MaxTunda, CompleteOAuth(r, p)
      PROVE  IInv' /\ Maju
  <2> DEFINE q == [Di("lepas") EXCEPT !.g = tunda[p].g, !.p = p]
  <2>1. tunda[p].g \in Google /\ EmailGoogle[tunda[p].g] \in terbukti
    BY <1>1 DEF CompleteOAuth, IInv, TundaSah
  <2>2. EmailGoogle[tunda[p].g] \in Email
    BY <2>1 DEF IInv, TypeOK
  <2>3. q \in Lokal
    BY <2>1, TypeDi
  <2>4. Sah([q EXCEPT !.e = EmailGoogle[tunda[p].g]], Baik, terbukti, tunda, temp)
    BY <1>1, <2>1, <2>2 DEF Sah, Di, Bebas, CompleteOAuth
  <2>5. Mulai(r, EmailGoogle[tunda[p].g], q)
    BY <1>1 DEF CompleteOAuth
  <2> HIDE DEF q
  <2>6. QED
    BY <2>2, <2>3, <2>4, <2>5, MulaiSah
<1>2. ASSUME NEW t \in 1..MaxTemp, NEW s \in Sandi, ForceUpdatePassword(r, t, s)
      PROVE  IInv' /\ Maju
  <2> DEFINE q == [Di("ganti") EXCEPT !.t = t, !.sandi = s]
  <2>1. temp[t].untuk \in Email
    BY <1>2 DEF ForceUpdatePassword, IInv, TempSah
  <2>2. q \in Lokal
    BY TypeDi
  <2>3. Sah([q EXCEPT !.e = temp[t].untuk], Baik, terbukti, tunda, temp)
    BY <1>2, <2>1 DEF Sah, Di, Bebas, ForceUpdatePassword
  <2>4. Mulai(r, temp[t].untuk, q)
    BY <1>2 DEF ForceUpdatePassword
  <2> HIDE DEF q
  <2>5. QED
    BY <2>1, <2>2, <2>3, <2>4, MulaiSah
<1>3. QED
  BY <1>1, <1>2

\* A row with a Google account is of that account's address, whether OAuth finds it
\* by the account or by the address.
LEMMA OAuthSah ==
  ASSUME IInv, NEW r \in Permintaan, NEW g \in Google, OAuth(r, g)
  PROVE  IInv' /\ Maju
<1> DEFINE e == EmailGoogle[g]
           milik == {f \in Email : users[f].google_id = g}
<1>1. e \in Email
  BY KonstantaAssumption
<1>2. PICK q \in IF milik = {} THEN {Di("cari")}
                 ELSE {[Di(SetelahOAuth(users[f])) EXCEPT !.salin = users[f]] : f \in milik} :
        Menjadi(r, [q EXCEPT !.e = e, !.g = g])
  BY DEF OAuth
<1> DEFINE p == [q EXCEPT !.e = e, !.g = g]
<1>3. terbukti' = terbukti \cup {e} /\ tumpang' = tumpang \cup Bertemu(e)
      /\ UNCHANGED <<users, kode, tunda, temp, sesi, maksud, dibatalkan, disela, gagal>>
  BY DEF OAuth
<1>4. p \in Lokal /\ Sah(p, Baik, terbukti', tunda, temp)
  <2>1. CASE milik = {}
    <3>1. q = Di("cari")
      BY <1>2, <2>1
    <3>2. p \in Lokal
      <4>1. Di("cari") \in Lokal
        BY TypeDi
      <4>2. QED
        BY <1>1, <3>1, <4>1 DEF Lokal
    <3>3. Sah(p, Baik, terbukti', tunda, temp)
      BY <1>1, <1>3, <3>1 DEF Sah, Di, Bebas
    <3>4. QED
      BY <3>2, <3>3
  <2>2. CASE milik # {}
    <3>1. PICK f \in milik : q = [Di(SetelahOAuth(users[f])) EXCEPT !.salin = users[f]]
      BY <1>2, <2>2
    <3>2. f = e
      BY <3>1 DEF IInv, TabelSah, BarisSah, MilikSendiri
    <3>3. users[f] \in Baris
      BY <3>1 DEF IInv, TypeOK
    <3>4. SetelahOAuth(users[f]) \in {"sesi", "tunda"}
          /\ (SetelahOAuth(users[f]) = "sesi" => f \in Baik)
      BY <3>2 DEF SetelahOAuth, Baik, Status
    <3>5. q \in Lokal
      BY <3>1, <3>3, <3>4, TypeDi
    <3>6. p \in Lokal
      BY <1>1, <3>5 DEF Lokal
    <3>7. q.pc = SetelahOAuth(users[f])
      BY <3>1 DEF Di, Bebas
    <3>8. p.pc = SetelahOAuth(users[f]) /\ p.e = e /\ p.g = g
      BY <3>7, <3>5 DEF Lokal
    <3>9. Sah(p, Baik, terbukti', tunda, temp)
      BY <1>1, <1>3, <3>2, <3>4, <3>8 DEF Sah
    <3>10. QED
      BY <3>6, <3>9
  <2>3. QED
    BY <2>1, <2>2
<1> HIDE DEF p
<1>5. kode' \subseteq Email /\ terbukti' \subseteq Email /\ tumpang' \subseteq Email /\ gagal' \subseteq Email
  BY <1>1, <1>3 DEF Bertemu, IInv, TypeOK
<1>6. Menjadi(r, p)
  BY <1>2 DEF p
<1>7. QED
  BY <1>3, <1>4, <1>5, <1>6, HanyaPermintaan

\* The steps of a request that change no table.
LEMMA LangkahSah ==
  ASSUME IInv, NEW r \in Permintaan,
         \/ Generate(r) \/ PeriksaKode(r) \/ HapusKode(r) \/ CariEmail(r) \/ BacaPengguna(r)
         \/ (\E s \in Sandi : BacaSandi(r, s)) \/ Gagal(r)
  PROVE  IInv' /\ Maju
<1>1. req[r] \in Lokal /\ Sah(req[r], Baik, terbukti, tunda, temp)
  BY DEF IInv, TypeOK, PermintaanSah
<1>2. kode \subseteq Email /\ terbukti \subseteq Email /\ tumpang \subseteq Email /\ gagal \subseteq Email
  BY DEF IInv, TypeOK
<1>3. CASE Generate(r)
  <2>1. Menjadi(r, Bebas) /\ kode' \subseteq Email
        /\ UNCHANGED <<users, maksud, tunda, temp, sesi, dibatalkan, disela, terbukti, tumpang, gagal>>
    BY <1>1, <1>2, <1>3 DEF Generate, riwayat, Sah
  <2>2. QED
    BY <1>2, <2>1, BarisTetap, SahBebas, HanyaPermintaan
<1>4. CASE PeriksaKode(r)
  <2>1. UNCHANGED <<users, maksud, kode, tunda, temp, sesi, dibatalkan, disela, tumpang, gagal>>
    BY <1>4 DEF PeriksaKode
  <2>2. CASE Ke(r, "bebas") /\ UNCHANGED terbukti
    BY <1>2, <2>1, <2>2, BarisTetap, SahBebas, HanyaPermintaan DEF Ke
  <2>3. CASE Ke(r, "hapus") /\ terbukti' = terbukti \cup {req[r].e}
    <3> DEFINE q == [req[r] EXCEPT !.pc = "hapus"]
    <3>1. q \in Lokal /\ Menjadi(r, q)
      BY <1>1, <2>3 DEF Ke, Lokal
    <3>2. req[r].e \in Email
      BY <1>1, <1>4 DEF PeriksaKode, Sah
    <3>3. Sah(q, Baik, terbukti', tunda, temp)
      BY <1>1, <2>3, <3>2 DEF Sah, Lokal
    <3> HIDE DEF q
    <3>4. QED
      BY <1>2, <2>1, <2>3, <3>1, <3>2, <3>3, HanyaPermintaan
  <2>4. QED
    BY <1>4, <2>2, <2>3 DEF PeriksaKode
<1>5. CASE HapusKode(r)
  <2> DEFINE q == [req[r] EXCEPT !.pc = "verifikasi"]
  <2>1. UNCHANGED <<users, maksud, tunda, temp, sesi, dibatalkan, disela, terbukti, tumpang, gagal>> /\ kode' \subseteq Email
    BY <1>2, <1>5 DEF HapusKode, riwayat
  <2>2. q \in Lokal /\ Menjadi(r, q)
    BY <1>1, <1>5 DEF HapusKode, Ke, Lokal
  <2>3. Sah(q, Baik, terbukti', tunda, temp)
    BY <1>1, <1>5, <2>1 DEF Sah, Lokal, HapusKode
  <2> HIDE DEF q
  <2>4. QED
    BY <1>2, <2>1, <2>2, <2>3, HanyaPermintaan
<1>6. CASE CariEmail(r)
  <2> DEFINE e == req[r].e
             g == req[r].g
             q == IF Ada(e) THEN [req[r] EXCEPT !.pc = "tautkan", !.salin = Ditautkan(users[e], g)]
                            ELSE [req[r] EXCEPT !.pc = "tunda"]
  <2>1. UNCHANGED <<users, maksud, kode, tunda, temp, sesi, dibatalkan, disela, terbukti, tumpang, gagal>> /\ Menjadi(r, q)
    BY <1>6 DEF CariEmail, riwayat
  <2>2. e \in Email /\ g \in Google /\ e = EmailGoogle[g] /\ e \in terbukti
    BY <1>1, <1>6 DEF CariEmail, Sah
  <2>3. users[e] \in Baris /\ Ditautkan(users[e], g) \in Baris
    BY <2>2, BarisBaru DEF IInv, TypeOK
  <2>4. q \in Lokal
    BY <1>1, <2>3 DEF Lokal
  <2>5. Ditautkan(users[e], g).account_status = "active" /\ Ditautkan(users[e], g).email_verified
        /\ Ditautkan(users[e], g).google_id = g
    BY <2>3 DEF Ditautkan, Terverifikasi, Baris
  <2>6. Sah(q, Baik, terbukti', tunda, temp)
    BY <1>1, <2>1, <2>2, <2>5 DEF Sah, Lokal, MilikSendiri
  <2> HIDE DEF q
  <2>7. QED
    BY <1>2, <2>1, <2>4, <2>6, HanyaPermintaan
<1>7. CASE BacaPengguna(r)
  <2> DEFINE e == req[r].e
             g == req[r].g
             q == [req[r] EXCEPT !.pc = "lengkapi", !.salin = Dilengkapi(users[e], g)]
  <2>1. UNCHANGED <<users, maksud, kode, tunda, temp, sesi, dibatalkan, disela, terbukti, tumpang, gagal>> /\ Menjadi(r, q)
    BY <1>7 DEF BacaPengguna, riwayat
  <2>2. e \in Email /\ g \in Google /\ e = EmailGoogle[g] /\ e \in terbukti
    BY <1>1, <1>7 DEF BacaPengguna, Sah
  <2>3. users[e] \in Baris /\ Dilengkapi(users[e], g) \in Baris /\ MilikSendiri(users[e], e)
    BY <2>2, BarisBaru DEF IInv, TypeOK, TabelSah, BarisSah
  <2>4. q \in Lokal
    BY <1>1, <2>3 DEF Lokal
  <2>5. Dilengkapi(users[e], g).account_status = "active" /\ Dilengkapi(users[e], g).email_verified
        /\ Dilengkapi(users[e], g).google_id \in {g, users[e].google_id}
    BY <2>3 DEF Dilengkapi, Terverifikasi, Baris
  <2>6. MilikSendiri(Dilengkapi(users[e], g), e)
    BY <2>2, <2>3, <2>5 DEF MilikSendiri
  <2>7. q.pc = "lengkapi" /\ q.e = e /\ q.g = g /\ q.p = req[r].p /\ q.salin = Dilengkapi(users[e], g)
    BY <1>1 DEF Lokal
  <2>8. Sah(req[r], Baik, terbukti, tunda, temp) /\ req[r].pc = "baca"
    BY <1>1, <1>7 DEF BacaPengguna
  <2> HIDE DEF q
  <2>9. Sah(q, Baik, terbukti', tunda, temp)
    BY <2>1, <2>2, <2>5, <2>6, <2>7, <2>8 DEF Sah
  <2>10. QED
    BY <1>2, <2>1, <2>4, <2>9, HanyaPermintaan
<1>8. ASSUME NEW s \in Sandi, BacaSandi(r, s)
      PROVE  IInv' /\ Maju
  <2> DEFINE b == users[req[r].e]
             q == IF b.role = "internal" /\ b.password = s /\ s # req[r].sandi
                     THEN [req[r] EXCEPT !.pc = "simpan", !.salin = b] ELSE Bebas
  <2>1. UNCHANGED <<users, maksud, kode, tunda, temp, sesi, dibatalkan, disela, terbukti, tumpang, gagal>> /\ Menjadi(r, q)
    BY <1>8 DEF BacaSandi, riwayat
  <2>2. b \in Baris /\ req[r].pc = "ganti"
    BY <1>1, <1>8 DEF BacaSandi, Sah, IInv, TypeOK
  <2>3. q \in Lokal
    BY <1>1, <2>2, BarisTetap DEF Lokal
  <2>4. Sah(q, Baik, terbukti', tunda, temp)
    BY <1>1, <2>1, <2>2, SahBebas DEF Sah, Lokal
  <2> HIDE DEF q
  <2>5. QED
    BY <1>2, <2>1, <2>3, <2>4, HanyaPermintaan
<1>9. CASE Gagal(r)
  <2>1. UNCHANGED <<users, maksud, kode, tunda, temp, sesi, dibatalkan, disela, terbukti, tumpang>>
        /\ gagal' = gagal \cup {req[r].e}
    BY <1>9 DEF Gagal
  <2>2. req[r].e \in Email
    <3>1. req[r].pc # "bebas"
      BY <1>1, <1>9 DEF Gagal, Sah
    <3>2. QED
      BY <3>1, <1>1 DEF Sah
  <2>3. gagal' \subseteq Email
    BY <1>2, <2>1, <2>2
  <2>4. ASSUME Menjadi(r, Bebas)
        PROVE  IInv' /\ Maju
    BY <1>2, <2>1, <2>3, <2>4, BarisTetap, SahBebas, HanyaPermintaan
  <2>5. ASSUME NEW pc \in {"verifikasi", "baca", "pengguna", "sesi"}, Ke(r, pc),
               \/ pc = "verifikasi" /\ req[r].pc = "hapus"
               \/ pc \in {"baca", "pengguna"} /\ req[r].pc = "lepas"
               \/ pc = "sesi" /\ req[r].pc = "cabut"
        PROVE  IInv' /\ Maju
    <3> DEFINE q == [req[r] EXCEPT !.pc = pc]
    <3>1. q \in Lokal /\ Menjadi(r, q)
      BY <1>1, <2>5 DEF Ke, Lokal
    <3>2. pc = "sesi" => req[r].e \in Baik
      BY <1>1, <2>5 DEF Sah, IInv, TempSah
    <3>3. Sah(q, Baik, terbukti, tunda, temp)
      BY <1>1, <2>5, <3>2 DEF Sah, Lokal
    <3> HIDE DEF q
    <3>4. QED
      BY <1>2, <2>1, <2>3, <3>1, <3>3, HanyaPermintaan
  <2>6. SetelahLepas(req[r].p) \in {"baca", "pengguna"}
    BY DEF SetelahLepas
  <2>7. QED
    BY <1>9, <2>4, <2>5, <2>6 DEF Gagal
<1>10. QED
  BY <1>3, <1>4, <1>5, <1>6, <1>7, <1>8, <1>9

\* The counter of a pending session, or of a temp token, goes up and nothing else.
LEMMA DitukarTipe ==
  ASSUME tunda \in [1..MaxTunda -> Tunda], NEW p \in 1..MaxTunda, Ditukar(p)
  PROVE  /\ tunda' \in [1..MaxTunda -> Tunda]
         /\ \A o \in 1..MaxTunda : tunda'[o].keadaan = tunda[o].keadaan /\ tunda'[o].g = tunda[o].g
<1>1. tunda[p] \in Tunda
  OBVIOUS
<1>2. (IF tunda[p].ditukar < 2 THEN tunda[p].ditukar + 1 ELSE 2) \in 0..2
  BY <1>1 DEF Tunda
<1>3. QED
  BY <1>1, <1>2 DEF Ditukar, Tunda

LEMMA DipakaiTipe ==
  ASSUME temp \in [1..MaxTemp -> Temp], NEW t \in 1..MaxTemp,
         temp' = [temp EXCEPT ![t].dipakai = IF @ < 2 THEN @ + 1 ELSE 2]
  PROVE  /\ temp' \in [1..MaxTemp -> Temp]
         /\ \A o \in 1..MaxTemp : temp'[o].keadaan = temp[o].keadaan /\ temp'[o].untuk = temp[o].untuk
<1>1. temp[t] \in Temp
  OBVIOUS
<1>2. (IF temp[t].dipakai < 2 THEN temp[t].dipakai + 1 ELSE 2) \in 0..2
  BY <1>1 DEF Temp
<1>3. QED
  BY <1>1, <1>2 DEF Temp

\* Request r writes a row that keeps the account active, or inserts one, and goes on
\* as q; of the pending sessions and the temp tokens only the counters change.
LEMMA SimpanSah ==
  ASSUME IInv, NEW r \in Permintaan, NEW baris \in Baris, NEW sendiri \in Baris, NEW q \in Lokal,
         req[r].e \in Email, Tulis(r, baris, sendiri), Menjadi(r, q),
         UNCHANGED <<kode, sesi, terbukti, dibatalkan, tumpang, gagal>>,
         tunda' \in [1..MaxTunda -> Tunda], temp' \in [1..MaxTemp -> Temp],
         \A p \in 1..MaxTunda : tunda'[p].keadaan = tunda[p].keadaan /\ tunda'[p].g = tunda[p].g,
         \A t \in 1..MaxTemp : temp'[t].keadaan = temp[t].keadaan /\ temp'[t].untuk = temp[t].untuk,
         BarisSah(baris, req[r].e, terbukti),
         baris.account_status \in {"active", Status(req[r].e)} \/ Status(req[r].e) = "tidak_ada",
         Sah(q, Baik', terbukti, tunda', temp')
  PROVE  IInv' /\ Maju
<1>1. users' = [users EXCEPT ![req[r].e] = baris] /\ users \in [Email -> Baris]
  BY DEF Tulis, IInv, TypeOK
<1>2. Maju
  BY <1>1 DEF Maju, Status
<1>3. req' \in [Permintaan -> Lokal] /\ PermintaanSah'
  BY <1>2, PermintaanMaju
<1>4. TypeOK'
  BY <1>3, TypeTulis DEF IInv, TypeOK
<1>5. TabelSah'
  BY <1>1 DEF IInv, TabelSah, BarisSah
<1>6. TundaSah'
  BY DEF IInv, TundaSah
<1>7. TempSah'
  BY <1>2, BaikTumbuh DEF IInv, TempSah
<1>8. SesiHanyaAktif'
  BY <1>2 DEF IInv, TypeOK, SesiHanyaAktif, Maju, Status
<1>9. QED
  BY <1>2, <1>3, <1>4, <1>5, <1>6, <1>7, <1>8 DEF IInv

LEMMA BuatSah ==
  ASSUME IInv, NEW r \in Permintaan, Create(r) \/ BuatPengguna(r)
  PROVE  IInv' /\ Maju
<1>1. req[r] \in Lokal /\ Sah(req[r], Baik, terbukti, tunda, temp)
  BY DEF IInv, TypeOK, PermintaanSah
<1>2. kode \subseteq Email /\ terbukti \subseteq Email /\ tumpang \subseteq Email /\ gagal \subseteq Email
      /\ tunda \in [1..MaxTunda -> Tunda] /\ temp \in [1..MaxTemp -> Temp]
  BY DEF IInv, TypeOK
<1>3. req[r].e \in Email
  BY <1>1 DEF Create, BuatPengguna, Sah
<1>4. CASE Ada(req[r].e)
  <2>1. Menjadi(r, Bebas) /\ UNCHANGED <<users, maksud, kode, tunda, temp, sesi, dibatalkan, disela, terbukti, tumpang, gagal>>
    BY <1>4 DEF Create, BuatPengguna, Buat, Ke
  <2>2. QED
    BY <1>2, <2>1, BarisTetap, SahBebas, HanyaPermintaan
<1>5. CASE ~Ada(req[r].e) /\ Create(r)
  <2> DEFINE b == req[r].salin
  <2>0. PICK pc \in SetelahBuat(b) : Ke(r, pc)
    BY <1>5 DEF Create, Buat
  <2> DEFINE q == IF pc = "bebas" THEN Bebas ELSE [req[r] EXCEPT !.pc = pc]
  <2>1. b \in {Pendaftar, Petugas("internal"), Petugas("super_admin")} /\ b \in Baris
    BY <1>1, <1>5, BarisTetap DEF Create, Sah
  <2>2. Tulis(r, b, b) /\ Menjadi(r, q) /\ UNCHANGED <<kode, tunda, temp, sesi, terbukti, dibatalkan, tumpang, gagal>>
        /\ Status(req[r].e) = "tidak_ada"
    BY <1>5, <2>0 DEF Create, Buat, Ke
  <2>3. /\ BarisSah(b, req[r].e, terbukti)
        /\ pc \in {"kirim", "sesi", "bebas", "batal"} /\ (pc = "sesi" => b.account_status = "active")
    <3>1. CASE b = Pendaftar
      BY <2>0, <3>1, KonstantaAssumption DEF BarisSah, MilikSendiri, SetelahBuat, Pendaftar
    <3>2. ASSUME NEW role \in {"internal", "super_admin"}, b = Petugas(role)
          PROVE  /\ BarisSah(b, req[r].e, terbukti)
                 /\ pc \in {"kirim", "sesi", "bebas", "batal"} /\ (pc = "sesi" => b.account_status = "active")
      <4>1. b.account_status = "active" /\ b.email_verified = TRUE /\ b.role = role /\ b.google_id = TanpaGoogle
        BY <3>2 DEF Petugas, Pendaftar
      <4>2. QED
        BY <2>0, <4>1, KonstantaAssumption DEF BarisSah, MilikSendiri, SetelahBuat
    <3>3. QED
      BY <2>1, <3>1, <3>2
  <2>4. q \in Lokal
    BY <1>1, <2>3, BarisTetap DEF Lokal
  <2>5. users'[req[r].e] = b
    BY <1>3, <2>2 DEF Tulis, IInv, TypeOK
  <2>6. Sah(q, Baik', terbukti, tunda', temp')
    <3>1. CASE pc = "bebas"
      BY <3>1, SahBebas
    <3>2. CASE pc # "bebas"
      <4>1. q.pc = pc /\ q.e = req[r].e
        BY <1>1, <3>2 DEF Lokal
      <4>2. pc = "sesi" => q.e \in Baik'
        BY <1>3, <2>3, <2>5, <4>1 DEF Baik, Status
      <4>3. QED
        BY <1>3, <2>3, <3>2, <4>1, <4>2 DEF Sah
    <3>3. QED
      BY <3>1, <3>2
  <2> HIDE DEF q, b
  <2>7. QED
    BY <1>2, <1>3, <1>5, <2>1, <2>2, <2>3, <2>4, <2>6, SimpanSah
<1>6. CASE ~Ada(req[r].e) /\ BuatPengguna(r)
  <2> DEFINE p == req[r].p
             b == PenggunaGoogle(req[r].g)
             q == [req[r] EXCEPT !.pc = "sesi"]
  <2>1. req[r].g \in Google /\ req[r].e = EmailGoogle[req[r].g] /\ req[r].e \in terbukti /\ p \in 1..MaxTunda
    BY <1>1, <1>6 DEF BuatPengguna, Sah
  <2>2. Tulis(r, b, b) /\ Menjadi(r, q) /\ Ditukar(p) /\ UNCHANGED <<kode, temp, sesi, terbukti, dibatalkan, tumpang, gagal>>
        /\ Status(req[r].e) = "tidak_ada"
    BY <1>6 DEF BuatPengguna, Buat, Ke
  <2>3. b.account_status = "active" /\ b.email_verified = TRUE /\ b.google_id = req[r].g
    BY DEF PenggunaGoogle, Pendaftar
  <2>4. BarisSah(b, req[r].e, terbukti) /\ b \in Baris
    BY <2>1, <2>3, BarisTetap DEF BarisSah, MilikSendiri
  <2>5. q \in Lokal /\ q.pc = "sesi" /\ q.e = req[r].e
    BY <1>1 DEF Lokal
  <2>6. users'[req[r].e] = b
    BY <1>3, <2>2 DEF Tulis, IInv, TypeOK
  <2>7. Sah(q, Baik', terbukti, tunda', temp')
    BY <1>3, <2>3, <2>5, <2>6 DEF Sah, Baik, Status
  <2>8. /\ tunda' \in [1..MaxTunda -> Tunda]
        /\ \A o \in 1..MaxTunda : tunda'[o].keadaan = tunda[o].keadaan /\ tunda'[o].g = tunda[o].g
    BY <1>2, <2>1, <2>2, DitukarTipe
  <2> HIDE DEF q, b, p
  <2>9. QED
    BY <1>2, <1>3, <2>2, <2>3, <2>4, <2>5, <2>7, <2>8, SimpanSah
<1>7. QED
  BY <1>4, <1>5, <1>6

\* The updates of a row.
LEMMA TulisSah ==
  ASSUME IInv, NEW r \in Permintaan,
         SetEmailVerified(r) \/ Tautkan(r) \/ Lengkapi(r) \/ UpdatePasswordAndActivate(r)
  PROVE  IInv' /\ Maju
<1> DEFINE e == req[r].e
           g == req[r].g
<1>1. req[r] \in Lokal /\ Sah(req[r], Baik, terbukti, tunda, temp)
  BY DEF IInv, TypeOK, PermintaanSah
<1>2. tunda \in [1..MaxTunda -> Tunda] /\ temp \in [1..MaxTemp -> Temp]
  BY DEF IInv, TypeOK
<1>3. e \in Email
  BY <1>1 DEF SetEmailVerified, Tautkan, Lengkapi, UpdatePasswordAndActivate, Sah
<1>4. users[e] \in Baris /\ maksud[e] \in Baris /\ BarisSah(users[e], e, terbukti)
  BY <1>3 DEF IInv, TypeOK, TabelSah
<1>5. ASSUME NEW baris, NEW sendiri, Tulis(r, baris, sendiri)
      PROVE  baris.account_status = "active" => e \in Baik'
  BY <1>3, <1>5 DEF Tulis, IInv, TypeOK, Baik, Status
<1>6. req[r].salin \in Baris /\ req[r].sandi \in 0..MaxSandi
  BY <1>1 DEF Lokal
<1>7. CASE SetEmailVerified(r)
  <2> DEFINE b == Terverifikasi(users[e])
             s == Terverifikasi(maksud[e])
             q == [req[r] EXCEPT !.pc = "sesi"]
  <2>1. Tulis(r, b, s) /\ Menjadi(r, q) /\ UNCHANGED <<kode, tunda, temp, sesi, terbukti, dibatalkan, tumpang, gagal>>
    BY <1>7 DEF SetEmailVerified, Ke
  <2>2. b \in Baris /\ s \in Baris
    BY <1>4, BarisBaru
  <2>3. e \in terbukti
    BY <1>1, <1>7 DEF SetEmailVerified, Sah
  <2>4. b.account_status = "active" /\ b.email_verified = TRUE /\ b.google_id = users[e].google_id
    BY <1>4 DEF Terverifikasi, Baris
  <2>5. BarisSah(b, e, terbukti)
    BY <1>4, <2>3, <2>4 DEF BarisSah, MilikSendiri
  <2>6. q \in Lokal /\ q.pc = "sesi" /\ q.e = e
    BY <1>1 DEF Lokal
  <2>7. Sah(q, Baik', terbukti, tunda', temp')
    BY <1>3, <1>5, <2>1, <2>4, <2>6 DEF Sah
  <2> HIDE DEF b, s, q
  <2>8. QED
    BY <1>2, <1>3, <2>1, <2>2, <2>4, <2>5, <2>6, <2>7, SimpanSah
<1>8. CASE Tautkan(r)
  <2> DEFINE b == req[r].salin
             s == Ditautkan(maksud[e], g)
             pc == SetelahOAuth(b)
             q == [req[r] EXCEPT !.pc = pc]
  <2>1. pc \in {"sesi", "tunda"}
    BY DEF SetelahOAuth
  <2>2. Tulis(r, b, s) /\ Menjadi(r, q) /\ UNCHANGED <<kode, tunda, temp, sesi, terbukti, dibatalkan, tumpang, gagal>>
    BY <1>8, <2>1 DEF Tautkan, Ke
  <2>3. g \in Google /\ e = EmailGoogle[g] /\ e \in terbukti
        /\ b.account_status = "active" /\ b.email_verified /\ MilikSendiri(b, e)
    BY <1>1, <1>8 DEF Tautkan, Sah
  <2>4. b \in Baris /\ s \in Baris
    BY <1>4, <1>6, <2>3, BarisBaru
  <2>5. BarisSah(b, e, terbukti)
    BY <2>3 DEF BarisSah
  <2>6. q \in Lokal /\ q.pc = pc /\ q.e = e /\ q.g = g
    BY <1>1, <2>1 DEF Lokal
  <2>7. Sah(q, Baik', terbukti, tunda', temp')
    BY <1>3, <1>5, <2>1, <2>2, <2>3, <2>6 DEF Sah
  <2> HIDE DEF b, s, q, pc
  <2>8. QED
    BY <1>2, <1>3, <2>2, <2>3, <2>4, <2>5, <2>6, <2>7, SimpanSah
<1>9. CASE Lengkapi(r)
  <2> DEFINE b == req[r].salin
             s == Dilengkapi(maksud[e], g)
             q == [req[r] EXCEPT !.pc = "sesi"]
  <2>1. Tulis(r, b, s) /\ Menjadi(r, q) /\ Ditukar(req[r].p) /\ UNCHANGED <<kode, temp, sesi, terbukti, dibatalkan, tumpang, gagal>>
    BY <1>9 DEF Lengkapi, Ke
  <2>2. g \in Google /\ e \in terbukti /\ req[r].p \in 1..MaxTunda
        /\ b.account_status = "active" /\ b.email_verified /\ MilikSendiri(b, e)
    BY <1>1, <1>9 DEF Lengkapi, Sah
  <2>3. b \in Baris /\ s \in Baris
    BY <1>4, <1>6, <2>2, BarisBaru
  <2>4. BarisSah(b, e, terbukti)
    BY <2>2 DEF BarisSah
  <2>5. q \in Lokal /\ q.pc = "sesi" /\ q.e = e
    BY <1>1 DEF Lokal
  <2>6. Sah(q, Baik', terbukti, tunda', temp')
    BY <1>3, <1>5, <2>1, <2>2, <2>5 DEF Sah
  <2>7. /\ tunda' \in [1..MaxTunda -> Tunda]
        /\ \A o \in 1..MaxTunda : tunda'[o].keadaan = tunda[o].keadaan /\ tunda'[o].g = tunda[o].g
    BY <1>2, <2>1, <2>2, DitukarTipe
  <2> HIDE DEF b, s, q
  <2>8. QED
    BY <1>2, <1>3, <2>1, <2>2, <2>3, <2>4, <2>5, <2>6, <2>7, SimpanSah
<1>10. CASE UpdatePasswordAndActivate(r)
  <2> DEFINE t == req[r].t
             b == SandiBaru(users[e], req[r].sandi)
             s == SandiBaru(maksud[e], req[r].sandi)
             q == [req[r] EXCEPT !.pc = "cabut"]
  <2>1. Tulis(r, b, s) /\ Menjadi(r, q) /\ UNCHANGED <<kode, tunda, sesi, terbukti, dibatalkan, tumpang, gagal>>
        /\ temp' = [temp EXCEPT ![t].dipakai = IF @ < 2 THEN @ + 1 ELSE 2]
    BY <1>10 DEF UpdatePasswordAndActivate, Ke
  <2>2. t \in 1..MaxTemp /\ temp[t].keadaan # "belum" /\ temp[t].untuk = e
    BY <1>1, <1>10 DEF UpdatePasswordAndActivate, Sah
  <2>4. b \in Baris /\ s \in Baris
    BY <1>4, <1>6, BarisBaru
  <2>5. b.account_status = Status(e) /\ b.email_verified = users[e].email_verified
        /\ b.role = users[e].role /\ b.google_id = users[e].google_id
    BY <1>4 DEF SandiBaru, Baris, Status
  <2>6. BarisSah(b, e, terbukti)
    BY <1>4, <2>5 DEF BarisSah, MilikSendiri, Status
  <2>7. q \in Lokal /\ q.pc = "cabut" /\ q.e = e /\ q.t = t
    BY <1>1 DEF Lokal
  <2>8. /\ temp' \in [1..MaxTemp -> Temp]
        /\ \A o \in 1..MaxTemp : temp'[o].keadaan = temp[o].keadaan /\ temp'[o].untuk = temp[o].untuk
    BY <1>2, <2>1, <2>2, DipakaiTipe
  <2>9. Sah(q, Baik', terbukti, tunda', temp')
    BY <1>3, <2>2, <2>7, <2>8 DEF Sah
  <2> HIDE DEF b, s, q, t
  <2>10. QED
    BY <1>2, <1>3, <2>1, <2>4, <2>5, <2>6, <2>7, <2>8, <2>9, SimpanSah
<1>11. QED
  BY <1>7, <1>8, <1>9, <1>10

\* The rollback leaves an empty row, if the e-mail can be empty.
LEMMA BatalkanSah ==
  ASSUME IInv, NEW r \in Permintaan, Batalkan(r)
  PROVE  IInv' /\ Maju
<1> DEFINE e == req[r].e
<1>1. Sah(req[r], Baik, terbukti, tunda, temp) /\ req[r].pc = "batal"
  BY DEF IInv, PermintaanSah, Batalkan
<1>2. e \in Email
  BY <1>1 DEF Sah
<1>3. Menjadi(r, Bebas) /\ UNCHANGED <<kode, tunda, temp, sesi, terbukti, tumpang, gagal>>
  BY DEF Batalkan
<1>4. kode \subseteq Email /\ terbukti \subseteq Email /\ tumpang \subseteq Email /\ gagal \subseteq Email
  BY DEF IInv, TypeOK
<1>5. CASE UNCHANGED <<users, maksud, dibatalkan, disela>>
  BY <1>3, <1>4, <1>5, BarisTetap, SahBebas, HanyaPermintaan
<1>6. CASE Tulis(r, Kosong, Kosong) /\ dibatalkan' = dibatalkan \cup {e}
  <2>1. users' = [users EXCEPT ![e] = Kosong] /\ users \in [Email -> Baris]
    BY <1>6 DEF Tulis, IInv, TypeOK
  <2>2. Kosong.account_status = "" /\ Kosong.email_verified = FALSE /\ Kosong.google_id = TanpaGoogle
    BY DEF Kosong, TidakAda, Pendaftar
  <2>3. Maju
    BY <1>1, <1>2, <1>3, <1>6, <2>1, <2>2 DEF Maju, Status, Membatalkan
  <2>4. req' \in [Permintaan -> Lokal] /\ PermintaanSah'
    BY <1>3, <2>3, BarisTetap, SahBebas, PermintaanMaju
  <2>5. TypeOK'
    BY <1>2, <1>3, <1>6, <2>4, BarisTetap, TypeTulis DEF IInv, TypeOK
  <2>6. TabelSah'
    BY <1>3, <2>1, <2>2, KonstantaAssumption DEF IInv, TabelSah, BarisSah, MilikSendiri
  <2>7. TundaSah'
    BY <1>3 DEF IInv, TundaSah
  <2>8. TempSah'
    BY <1>3, <2>3, BaikTumbuh DEF IInv, TempSah
  <2>9. SesiHanyaAktif'
    BY <1>2, <1>3, <1>6, <2>1 DEF IInv, TypeOK, SesiHanyaAktif, Status
  <2>10. QED
    BY <2>3, <2>4, <2>5, <2>6, <2>7, <2>8, <2>9 DEF IInv
<1>7. QED
  BY <1>5, <1>6 DEF Batalkan

\* What a step keeps that changes the pending sessions or the temp tokens only.
LEMMA MejaSah ==
  ASSUME IInv, Maju, PermintaanSah', req' \in [Permintaan -> Lokal],
         UNCHANGED <<users, maksud, terbukti, dibatalkan, disela, tumpang, gagal>>,
         kode' \subseteq kode, sesi' \subseteq Email, sesi' \subseteq Baik,
         tunda' \in [1..MaxTunda -> Tunda], temp' \in [1..MaxTemp -> Temp], TundaSah',
         \A t \in 1..MaxTemp : temp'[t].keadaan # "belum" => temp[t].keadaan # "belum"
  PROVE  IInv' /\ Maju
<1>1. TypeOK'
  BY DEF IInv, TypeOK
<1>2. TabelSah'
  BY DEF IInv, TabelSah
<1>3. TempSah'
  BY BaikTetap DEF IInv, TempSah, Maju
<1>4. SesiHanyaAktif'
  BY DEF SesiHanyaAktif, Baik, Status
<1>5. QED
  BY <1>1, <1>2, <1>3, <1>4 DEF IInv

LEMMA TabelLainSah ==
  ASSUME IInv, NEW r \in Permintaan,
         SavePendingOAuth(r) \/ HapusTunda(r) \/ CabutTemp(r) \/ IssueSession(r)
  PROVE  IInv' /\ Maju
<1>1. req[r] \in Lokal /\ Sah(req[r], Baik, terbukti, tunda, temp)
  BY DEF IInv, TypeOK, PermintaanSah
<1>2. /\ tunda \in [1..MaxTunda -> Tunda] /\ temp \in [1..MaxTemp -> Temp]
      /\ TundaSah /\ sesi \subseteq Email /\ sesi \subseteq Baik
  BY DEF IInv, TypeOK, SesiHanyaAktif, Baik
<1>3. CASE SavePendingOAuth(r)
  <2>1. PICK p \in 1..MaxTunda :
          /\ tunda[p].keadaan = "belum"
          /\ tunda' = [tunda EXCEPT ![p] =
               [g |-> req[r].g, existing |-> req[r].salin # TidakAda, keadaan |-> "ada", ditukar |-> 0]]
    BY <1>3 DEF SavePendingOAuth
  <2>2. Menjadi(r, Bebas) /\ UNCHANGED <<users, maksud, kode, temp, sesi, dibatalkan, disela, terbukti, tumpang, gagal>>
    BY <1>3 DEF SavePendingOAuth, riwayat
  <2>3. req[r].g \in Google /\ EmailGoogle[req[r].g] \in terbukti
    BY <1>1, <1>3 DEF SavePendingOAuth, Sah
  <2>4. tunda' \in [1..MaxTunda -> Tunda]
    BY <1>2, <2>1, <2>3 DEF Tunda
  <2>5. TundaSah'
    BY <1>2, <2>1, <2>2, <2>3 DEF TundaSah
  <2>6. Maju
    BY <1>2, <2>1, <2>2 DEF Maju, Status
  <2>7. req' \in [Permintaan -> Lokal] /\ PermintaanSah'
    BY <2>2, <2>6, BarisTetap, SahBebas, PermintaanMaju
  <2>8. QED
    BY <1>2, <2>2, <2>4, <2>5, <2>6, <2>7, MejaSah
<1>4. CASE HapusTunda(r)
  <2> DEFINE p == req[r].p
             pc == SetelahLepas(p)
             q == [req[r] EXCEPT !.pc = pc]
  <2>1. pc \in {"baca", "pengguna"}
    BY DEF SetelahLepas
  <2>2. /\ tunda' = [tunda EXCEPT ![p].keadaan = "hilang"] /\ Menjadi(r, q)
        /\ UNCHANGED <<users, maksud, kode, temp, sesi, dibatalkan, disela, terbukti, tumpang, gagal>>
    BY <1>4, <2>1 DEF HapusTunda, riwayat, Ke
  <2>3. p \in 1..MaxTunda /\ tunda[p].keadaan # "belum" /\ tunda[p].g = req[r].g
    BY <1>1, <1>4 DEF HapusTunda, Sah
  <2>4. tunda' \in [1..MaxTunda -> Tunda]
    BY <1>2, <2>2, <2>3 DEF Tunda
  <2>5. \A o \in 1..MaxTunda : tunda'[o].g = tunda[o].g
          /\ (tunda'[o].keadaan # "belum" <=> tunda[o].keadaan # "belum")
    BY <1>2, <2>2, <2>3 DEF Tunda
  <2>6. TundaSah' /\ Maju
    BY <1>2, <2>2, <2>5 DEF TundaSah, Maju, Status
  <2>7. q \in Lokal /\ q.pc = pc /\ q.e = req[r].e /\ q.g = req[r].g /\ q.p = p
    BY <1>1, <2>1 DEF Lokal
  <2>8. Sah(q, Baik', terbukti', tunda', temp')
    BY <1>1, <1>4, <2>1, <2>2, <2>3, <2>5, <2>7 DEF Sah, HapusTunda
  <2> HIDE DEF p, pc, q
  <2>9. req' \in [Permintaan -> Lokal] /\ PermintaanSah'
    BY <2>2, <2>6, <2>7, <2>8, PermintaanMaju
  <2>10. QED
    BY <1>2, <2>2, <2>4, <2>6, <2>9, MejaSah
<1>5. CASE CabutTemp(r)
  <2> DEFINE t == req[r].t
             q == [req[r] EXCEPT !.pc = "sesi"]
  <2>1. /\ temp' = [temp EXCEPT ![t].keadaan = IF @ = "berlaku" THEN "hitam" ELSE @] /\ Menjadi(r, q)
        /\ UNCHANGED <<users, maksud, kode, tunda, sesi, dibatalkan, disela, terbukti, tumpang, gagal>>
    BY <1>5 DEF CabutTemp, riwayat, Ke
  <2>2. t \in 1..MaxTemp /\ temp[t].keadaan # "belum" /\ temp[t].untuk = req[r].e /\ req[r].e \in Email
    BY <1>1, <1>5 DEF CabutTemp, Sah
  <2>3. temp' \in [1..MaxTemp -> Temp]
    BY <1>2, <2>1, <2>2 DEF Temp
  <2>4. \A o \in 1..MaxTemp : temp'[o].untuk = temp[o].untuk
          /\ (temp'[o].keadaan # "belum" <=> temp[o].keadaan # "belum")
    BY <1>2, <2>1, <2>2 DEF Temp
  <2>5. TundaSah' /\ Maju
    BY <1>2, <2>1, <2>4 DEF TundaSah, Maju, Status
  <2>6. req[r].e \in Baik /\ Baik' = Baik
    BY <2>1, <2>2, BaikTetap DEF IInv, TempSah
  <2>7. q \in Lokal /\ q.pc = "sesi" /\ q.e = req[r].e
    BY <1>1 DEF Lokal
  <2>8. Sah(q, Baik', terbukti', tunda', temp')
    BY <2>1, <2>2, <2>6, <2>7 DEF Sah
  <2> HIDE DEF t, q
  <2>9. req' \in [Permintaan -> Lokal] /\ PermintaanSah'
    BY <2>5, <2>7, <2>1, <2>8, PermintaanMaju
  <2>10. QED
    BY <1>2, <2>1, <2>3, <2>4, <2>5, <2>9, MejaSah
<1>6. CASE IssueSession(r)
  <2>1. Menjadi(r, Bebas) /\ sesi' = sesi \cup {req[r].e}
        /\ UNCHANGED <<users, maksud, kode, tunda, temp, dibatalkan, disela, terbukti, tumpang, gagal>>
    BY <1>6 DEF IssueSession
  <2>2. req[r].e \in Email /\ req[r].e \in Baik
    BY <1>1, <1>6 DEF IssueSession, Sah
  <2>3. Maju
    BY <2>1, MajuTetap
  <2>4. req' \in [Permintaan -> Lokal] /\ PermintaanSah'
    BY <2>1, <2>3, BarisTetap, SahBebas, PermintaanMaju
  <2>5. TundaSah'
    BY <1>2, <2>1 DEF TundaSah
  <2>6. QED
    BY <1>2, <2>1, <2>2, <2>3, <2>4, <2>5, MejaSah
<1>7. QED
  BY <1>3, <1>4, <1>5, <1>6

LEMMA LuarSah ==
  ASSUME IInv,
         \/ UNCHANGED vars
         \/ \E e \in Email : KodeHilang(e)
         \/ \E p \in 1..MaxTunda : TundaHilang(p)
         \/ \E t \in 1..MaxTemp : TempUsang(t)
  PROVE  IInv' /\ Maju
<1>1. /\ UNCHANGED <<users, req, riwayat>>
      /\ \/ UNCHANGED tunda /\ UNCHANGED temp
         \/ UNCHANGED temp /\ \E p \in 1..MaxTunda :
              tunda[p].keadaan = "ada" /\ tunda' = [tunda EXCEPT ![p].keadaan = "hilang"]
         \/ UNCHANGED tunda /\ \E t \in 1..MaxTemp :
              temp[t].keadaan = "berlaku" /\ temp' = [temp EXCEPT ![t].keadaan = "usang"]
      /\ kode' \subseteq kode
  BY DEF vars, KodeHilang, TundaHilang, TempUsang
<1>2. tunda \in [1..MaxTunda -> Tunda] /\ temp \in [1..MaxTemp -> Temp] /\ TundaSah
  BY DEF IInv, TypeOK
<1>3. /\ tunda' \in [1..MaxTunda -> Tunda]
      /\ \A o \in 1..MaxTunda : tunda'[o].g = tunda[o].g
           /\ (tunda'[o].keadaan # "belum" <=> tunda[o].keadaan # "belum")
  <2>1. CASE UNCHANGED tunda
    BY <1>2, <2>1
  <2>2. ASSUME NEW p \in 1..MaxTunda, tunda[p].keadaan = "ada",
               tunda' = [tunda EXCEPT ![p].keadaan = "hilang"]
        PROVE  <1>3!1 /\ <1>3!2
    BY <1>2, <2>2 DEF Tunda
  <2>3. QED
    BY <1>1, <2>1, <2>2
<1>4. /\ temp' \in [1..MaxTemp -> Temp]
      /\ \A o \in 1..MaxTemp : temp'[o].untuk = temp[o].untuk
           /\ (temp'[o].keadaan # "belum" <=> temp[o].keadaan # "belum")
  <2>1. CASE UNCHANGED temp
    BY <1>2, <2>1
  <2>2. ASSUME NEW t \in 1..MaxTemp, temp[t].keadaan = "berlaku",
               temp' = [temp EXCEPT ![t].keadaan = "usang"]
        PROVE  <1>4!1 /\ <1>4!2
    BY <1>2, <2>2 DEF Temp
  <2>3. QED
    BY <1>1, <2>1, <2>2
<1>5. TundaSah' /\ Maju
  BY <1>1, <1>2, <1>3, <1>4 DEF TundaSah, Maju, Status, riwayat
<1>6. req' \in [Permintaan -> Lokal] /\ PermintaanSah'
  <2>1. \A r \in Permintaan : req[r] \in Lokal /\ Sah(req[r], Baik, terbukti, tunda, temp)
    BY DEF IInv, TypeOK, PermintaanSah
  <2>2. QED
    BY <1>1, <1>5, <2>1, SahTumbuh DEF IInv, TypeOK, PermintaanSah
<1>7. sesi' \subseteq Email /\ sesi' \subseteq Baik
  BY <1>1 DEF IInv, TypeOK, SesiHanyaAktif, Baik, riwayat
<1>8. UNCHANGED <<users, maksud, terbukti, dibatalkan, disela, tumpang, gagal>>
  BY <1>1 DEF riwayat
<1>9. QED
  BY <1>1, <1>3, <1>4, <1>5, <1>6, <1>7, <1>8, MejaSah

LEMMA IInvInit == Init => IInv
<1> SUFFICES ASSUME Init PROVE IInv
  OBVIOUS
<1>1. TypeOK
  BY TypeInit
<1>2. \A e \in Email : users[e] = TidakAda
  BY DEF Init
<1>3. TidakAda.account_status = "tidak_ada" /\ TidakAda.email_verified = FALSE
      /\ TidakAda.google_id = TanpaGoogle
  BY DEF TidakAda, Pendaftar
<1>4. TabelSah
  BY <1>2, <1>3, KonstantaAssumption DEF TabelSah, BarisSah, MilikSendiri
<1>5. PermintaanSah
  BY SahBebas DEF Init, PermintaanSah
<1>6. TundaSah /\ TempSah /\ SesiHanyaAktif
  BY DEF Init, TundaSah, TempSah, SesiHanyaAktif
<1>7. QED
  BY <1>1, <1>4, <1>5, <1>6 DEF IInv

LEMMA LangkahMaju ==
  ASSUME IInv, [Next]_vars
  PROVE  IInv' /\ Maju
<1>1. ASSUME NEW r \in Permintaan, Terima(r)
      PROVE  IInv' /\ Maju
  BY <1>1, PendaftaranSah, MasukSah, OAuthSah, LanjutanSah DEF Terima
<1>2. ASSUME NEW r \in Permintaan, Lanjut(r)
      PROVE  IInv' /\ Maju
  BY <1>2, LangkahSah, BuatSah, BatalkanSah, TulisSah, TabelLainSah DEF Lanjut
<1>3. QED
  BY <1>1, <1>2, LuarSah DEF Next

LEMMA Dijaga == Spec => []IInv
<1>1. IInv /\ [Next]_vars => IInv'
  BY LangkahMaju
<1>2. QED
  BY <1>1, IInvInit, PTL DEF Spec

\* Every row, request and table entry has its type.
THEOREM TypeCorrect == Spec => []TypeOK
<1>1. IInv => TypeOK
  BY DEF IInv
<1>2. QED
  BY <1>1, Dijaga, PTL

\* An account is active exactly when its e-mail is verified, and a parent's only
\* after the owner of the address proved it by a code or by Google.
THEOREM AktifTerbukti == Spec => []AktifBerartiTerbukti
<1>1. IInv => AktifBerartiTerbukti
  BY DEF IInv, TabelSah, BarisSah, AktifBerartiTerbukti, Status
<1>2. QED
  BY <1>1, Dijaga, PTL

\* No flow issues a session for an account that is not active, but it may be rolled
\* back once it has one.
THEOREM SesiAktif == Spec => []SesiHanyaAktif
<1>1. IInv => SesiHanyaAktif
  BY DEF IInv
<1>2. QED
  BY <1>1, Dijaga, PTL

----------------------------------------------------------------------------
(* What overlapping and failing requests leave behind.                     *)

\* Request r goes on as q: it is done, keeps its address, or began, and then the
\* address is noted if another request is about it.
Berganti(r, q) ==
  /\ Menjadi(r, q) /\ q \in Lokal
  /\ q = Bebas \/ (req[r].pc # "bebas" /\ q.e = req[r].e) \/ Bertemu(q.e) \subseteq tumpang'

\* The records of overlaps and failures only grow.
Tercatat == tumpang \subseteq tumpang' /\ gagal \subseteq gagal'

PcBiasa == {"bebas", "kirim", "buat", "periksa", "cari", "sesi", "tunda", "hapus", "verifikasi"}

\* The steps that change none of the tables but that of the codes, and that start none
\* of the sequences of calls in which a copy, a pending session or a temp token is used.
Biasa(r) ==
  /\ UNCHANGED <<users, maksud, dibatalkan, disela, tunda, temp>>
  /\ Tercatat
  /\ \E q \in Lokal : Berganti(r, q) /\ q.pc \in PcBiasa
  /\ req[r].pc # "cabut"

LEMMA BebasPc == Bebas.pc = "bebas" /\ Bebas \in Lokal
  BY BarisTetap DEF Bebas

LEMMA MulaiBerganti ==
  ASSUME NEW r \in Permintaan, NEW e \in Email, NEW q \in Lokal, Mulai(r, e, q)
  PROVE  /\ \E p \in Lokal : Berganti(r, p) /\ p.pc = q.pc
              /\ (q.pc # "bebas" => p = [q EXCEPT !.e = e])
         /\ UNCHANGED <<users, kode, tunda, temp, sesi, terbukti, maksud, dibatalkan, disela, gagal>>
         /\ Tercatat /\ req[r] = Bebas
<1> DEFINE p == IF q.pc = "bebas" THEN Bebas ELSE [q EXCEPT !.e = e]
<1>1. p \in Lokal
  BY BebasPc DEF Lokal
<1>2. Menjadi(r, p) /\ tumpang' = tumpang \cup Bertemu(e) /\ req[r] = Bebas
      /\ UNCHANGED <<users, kode, tunda, temp, sesi, terbukti, maksud, dibatalkan, disela, gagal>>
  BY DEF Mulai
<1>3. p.pc = q.pc /\ (q.pc # "bebas" => p = [q EXCEPT !.e = e] /\ p.e = e) /\ (q.pc = "bebas" => p = Bebas)
  BY BebasPc DEF Lokal
<1> HIDE DEF p
<1>4. Berganti(r, p)
  BY <1>1, <1>2, <1>3 DEF Berganti
<1>5. QED
  BY <1>1, <1>2, <1>3, <1>4 DEF Tercatat

LEMMA KeBerganti ==
  ASSUME IInv, NEW r \in Permintaan, req[r].pc # "bebas", Ke(r, "bebas")
  PROVE  Berganti(r, Bebas)
  BY BebasPc DEF Ke, Berganti

LEMMA KePcBerganti ==
  ASSUME IInv, NEW r \in Permintaan, req[r].pc # "bebas",
         NEW pc \in {"batal", "kirim", "hapus", "verifikasi", "cari", "tautkan", "tunda", "lepas",
                     "baca", "lengkapi", "pengguna", "simpan", "cabut", "sesi"}, Ke(r, pc)
  PROVE  \E q \in Lokal : Berganti(r, q) /\ q.pc = pc /\ q.e = req[r].e /\ q.p = req[r].p
           /\ q.t = req[r].t /\ q.g = req[r].g /\ q.salin = req[r].salin
<1> DEFINE q == [req[r] EXCEPT !.pc = pc]
<1>1. req[r] \in Lokal
  BY DEF IInv, TypeOK
<1>2. q \in Lokal /\ q.pc = pc /\ q.e = req[r].e /\ q.p = req[r].p
      /\ q.t = req[r].t /\ q.g = req[r].g /\ q.salin = req[r].salin
  BY <1>1 DEF Lokal
<1>3. Menjadi(r, q)
  BY DEF Ke
<1> HIDE DEF q
<1>4. Berganti(r, q)
  BY <1>2, <1>3 DEF Berganti
<1>5. QED
  BY <1>2, <1>4

LEMMA MulaiBiasa ==
  ASSUME IInv, NEW r \in Permintaan, NEW e \in Email, NEW q \in Lokal, Mulai(r, e, q), q.pc \in PcBiasa
  PROVE  Biasa(r)
  BY MulaiBerganti, BebasPc DEF Biasa

LEMMA BiasaAwal ==
  ASSUME IInv, NEW r \in Permintaan, NEW e \in Email,
         \/ Register(r, e) \/ ResendOTP(r, e) \/ VerifyOTP(r, e)
         \/ \E role \in {"internal", "super_admin"} : BuatPetugas(r, e, role)
         \/ \E s \in Sandi : Login(r, e, s) \/ PusatLogin(r, e, s)
  PROVE  Biasa(r)
<1>1. ASSUME NEW pc \in {"kirim", "periksa", "sesi"}
      PROVE  Di(pc) \in Lokal /\ Di(pc).pc \in PcBiasa
  BY TypeDi DEF Di, Bebas, PcBiasa
<1>2. ASSUME NEW b \in Baris
      PROVE  [Di("buat") EXCEPT !.salin = b] \in Lokal /\ [Di("buat") EXCEPT !.salin = b].pc \in PcBiasa
  BY TypeDi DEF Di, Bebas, PcBiasa
<1>3. Bebas \in Lokal /\ Bebas.pc \in PcBiasa
  BY BebasPc DEF PcBiasa
<1>4. CASE Register(r, e)
  <2>1. \/ Mulai(r, e, Bebas) \/ Mulai(r, e, Di("kirim"))
        \/ Mulai(r, e, [Di("buat") EXCEPT !.salin = Pendaftar])
    BY <1>4 DEF Register
  <2>2. QED
    BY <1>1, <1>2, <1>3, <2>1, BarisTetap, MulaiBiasa
<1>5. CASE ResendOTP(r, e) \/ VerifyOTP(r, e)
  BY <1>1, <1>3, <1>5, MulaiBiasa DEF ResendOTP, VerifyOTP
<1>6. ASSUME NEW role \in {"internal", "super_admin"}, BuatPetugas(r, e, role)
      PROVE  Biasa(r)
  <2>1. \/ Mulai(r, e, Bebas) \/ Mulai(r, e, [Di("buat") EXCEPT !.salin = Petugas(role)])
    BY <1>6 DEF BuatPetugas
  <2>2. QED
    BY <1>2, <1>3, <2>1, BarisTetap, MulaiBiasa
<1>7. ASSUME NEW s \in Sandi, Login(r, e, s) \/ PusatLogin(r, e, s)
      PROVE  Biasa(r)
  <2>1. Mulai(r, e, Bebas) \/ Mulai(r, e, Di("sesi"))
    BY <1>7 DEF Login, PusatLogin
  <2>2. QED
    BY <1>1, <1>3, <2>1, MulaiBiasa
<1>8. QED
  BY <1>4, <1>5, <1>6, <1>7

LEMMA BiasaOAuth ==
  ASSUME IInv, NEW r \in Permintaan, NEW g \in Google, OAuth(r, g)
  PROVE  Biasa(r)
<1> DEFINE e == EmailGoogle[g]
           milik == {f \in Email : users[f].google_id = g}
<1>1. e \in Email
  BY KonstantaAssumption
<1>2. PICK q \in IF milik = {} THEN {Di("cari")}
                 ELSE {[Di(SetelahOAuth(users[f])) EXCEPT !.salin = users[f]] : f \in milik} :
        Menjadi(r, [q EXCEPT !.e = e, !.g = g])
  BY DEF OAuth
<1> DEFINE p == [q EXCEPT !.e = e, !.g = g]
<1>3. UNCHANGED <<users, maksud, dibatalkan, disela, tunda, temp, gagal>> /\ tumpang' = tumpang \cup Bertemu(e)
      /\ req[r] = Bebas
  BY DEF OAuth
<1>4. q \in Lokal /\ q.pc \in {"cari", "sesi", "tunda"}
  <2>1. CASE milik = {}
    <3>1. q = Di("cari")
      BY <1>2, <2>1
    <3>2. Di("cari") \in Lokal
      BY TypeDi
    <3>3. QED
      BY <3>1, <3>2 DEF Di, Bebas
  <2>2. CASE milik # {}
    <3>1. PICK f \in milik : q = [Di(SetelahOAuth(users[f])) EXCEPT !.salin = users[f]]
      BY <1>2, <2>2
    <3>2. users[f] \in Baris
      BY <3>1 DEF IInv, TypeOK
    <3>3. SetelahOAuth(users[f]) \in {"sesi", "tunda"}
      BY DEF SetelahOAuth
    <3>4. q \in Lokal
      BY <3>1, <3>2, <3>3, TypeDi
    <3>5. q.pc = SetelahOAuth(users[f])
      BY <3>1 DEF Di, Bebas
    <3>6. QED
      BY <3>3, <3>4, <3>5
  <2>3. QED
    BY <2>1, <2>2
<1>5. p \in Lokal /\ p.pc = q.pc /\ p.e = e
  BY <1>1, <1>4 DEF Lokal
<1>6. Menjadi(r, p)
  BY <1>2
<1> HIDE DEF p, milik
<1>7. Berganti(r, p)
  BY <1>3, <1>5, <1>6 DEF Berganti
<1>8. QED
  BY <1>3, <1>4, <1>5, <1>7, BebasPc DEF Biasa, Tercatat, PcBiasa

LEMMA BiasaLanjut ==
  ASSUME IInv, NEW r \in Permintaan, Generate(r) \/ PeriksaKode(r) \/ HapusKode(r) \/ IssueSession(r)
  PROVE  Biasa(r)
<1>1. UNCHANGED <<users, maksud, dibatalkan, disela, tunda, temp>> /\ Tercatat
      /\ req[r].pc \in {"kirim", "periksa", "hapus", "sesi"}
  BY DEF Generate, PeriksaKode, HapusKode, IssueSession, riwayat, Tercatat
<1>2. \/ Menjadi(r, Bebas) \/ Ke(r, "bebas") \/ Ke(r, "hapus") \/ Ke(r, "verifikasi")
  BY DEF Generate, PeriksaKode, HapusKode, IssueSession
<1>3. \E q \in Lokal : Berganti(r, q) /\ q.pc \in PcBiasa
  <2>1. CASE Menjadi(r, Bebas) \/ Ke(r, "bebas")
    BY <2>1, BebasPc DEF Ke, Berganti, PcBiasa
  <2>2. ASSUME NEW pc \in {"hapus", "verifikasi"}, Ke(r, pc)
        PROVE  \E q \in Lokal : Berganti(r, q) /\ q.pc \in PcBiasa
    <3>1. req[r].pc # "bebas" /\ pc \in PcBiasa
      BY <1>1 DEF PcBiasa
    <3>2. \E q \in Lokal : Berganti(r, q) /\ q.pc = pc
      BY <2>2, <3>1, KePcBerganti
    <3>3. QED
      BY <3>1, <3>2
  <2>3. QED
    BY <1>2, <2>1, <2>2
<1>4. QED
  BY <1>1, <1>3 DEF Biasa

\* Request r goes on at pc with its address, its pending session and its temp token.
LanjutKe(r, pc) ==
  \E q \in Lokal : Berganti(r, q) /\ q.pc = pc
    /\ (pc # "bebas" => q.e = req[r].e /\ q.p = req[r].p /\ q.t = req[r].t)

LEMMA KeLanjut ==
  ASSUME IInv, NEW r \in Permintaan, req[r].pc # "bebas",
         NEW pc \in {"bebas", "batal", "kirim", "hapus", "verifikasi", "cari", "tautkan", "tunda", "lepas",
                     "baca", "lengkapi", "pengguna", "simpan", "cabut", "sesi"}, Ke(r, pc)
  PROVE  LanjutKe(r, pc)
<1>1. CASE pc = "bebas"
  BY <1>1, KeBerganti, BebasPc DEF LanjutKe
<1>2. CASE pc # "bebas"
  <2>1. \E q \in Lokal : Berganti(r, q) /\ q.pc = pc /\ q.e = req[r].e /\ q.p = req[r].p /\ q.t = req[r].t
    BY <1>2, KePcBerganti
  <2>2. QED
    BY <2>1 DEF LanjutKe
<1>3. QED
  BY <1>1, <1>2

\* Where the steps that write a row go.
LEMMA TulisLanjut ==
  ASSUME IInv, NEW r \in Permintaan
  PROVE  /\ Create(r) => \E pc \in {"bebas", "batal", "kirim", "sesi"} : LanjutKe(r, pc)
         /\ SetEmailVerified(r) => LanjutKe(r, "sesi")
         /\ Tautkan(r) => \E pc \in {"sesi", "tunda"} : LanjutKe(r, pc)
         /\ Lengkapi(r) => LanjutKe(r, "sesi")
         /\ BuatPengguna(r) => \E pc \in {"bebas", "sesi"} : LanjutKe(r, pc)
         /\ UpdatePasswordAndActivate(r) => LanjutKe(r, "cabut")
<1>1. CASE Create(r)
  <2>1. req[r].pc # "bebas" /\ \E pc \in {"bebas", "batal", "kirim", "sesi"} : Ke(r, pc)
    BY <1>1 DEF Create, Buat, SetelahBuat
  <2>2. QED
    BY <1>1, <2>1, KeLanjut DEF Create, SetEmailVerified, Tautkan, Lengkapi, BuatPengguna, UpdatePasswordAndActivate
<1>2. CASE SetEmailVerified(r)
  BY <1>2, KeLanjut DEF Create, SetEmailVerified, Tautkan, Lengkapi, BuatPengguna, UpdatePasswordAndActivate
<1>3. CASE Tautkan(r)
  <2>1. req[r].pc # "bebas" /\ \E pc \in {"sesi", "tunda"} : Ke(r, pc)
    BY <1>3 DEF Tautkan, SetelahOAuth
  <2>2. QED
    BY <1>3, <2>1, KeLanjut DEF Create, SetEmailVerified, Tautkan, Lengkapi, BuatPengguna, UpdatePasswordAndActivate
<1>4. CASE Lengkapi(r)
  BY <1>4, KeLanjut DEF Create, SetEmailVerified, Tautkan, Lengkapi, BuatPengguna, UpdatePasswordAndActivate
<1>5. CASE BuatPengguna(r)
  <2>1. req[r].pc # "bebas" /\ \E pc \in {"bebas", "sesi"} : Ke(r, pc)
    BY <1>5 DEF BuatPengguna, Buat
  <2>2. QED
    BY <1>5, <2>1, KeLanjut DEF Create, SetEmailVerified, Tautkan, Lengkapi, BuatPengguna, UpdatePasswordAndActivate
<1>6. CASE UpdatePasswordAndActivate(r)
  BY <1>6, KeLanjut DEF Create, SetEmailVerified, Tautkan, Lengkapi, BuatPengguna, UpdatePasswordAndActivate
<1>7. QED
  BY <1>1, <1>2, <1>3, <1>4, <1>5, <1>6

\* Where the other steps go.
LEMMA LainLanjut ==
  ASSUME IInv, NEW r \in Permintaan
  PROVE  /\ CariEmail(r) => \E pc \in {"tautkan", "tunda"} : LanjutKe(r, pc)
         /\ SavePendingOAuth(r) \/ Batalkan(r) => LanjutKe(r, "bebas")
         /\ HapusTunda(r) => \E pc \in {"baca", "pengguna"} : LanjutKe(r, pc)
         /\ BacaPengguna(r) => LanjutKe(r, "lengkapi")
         /\ (\E s \in Sandi : BacaSandi(r, s)) => \E pc \in {"bebas", "simpan"} : LanjutKe(r, pc)
         /\ CabutTemp(r) => LanjutKe(r, "sesi")
         /\ Gagal(r) => \/ LanjutKe(r, "bebas")
                        \/ req[r].pc = "hapus" /\ LanjutKe(r, "verifikasi")
                        \/ req[r].pc = "lepas" /\ \E pc \in {"baca", "pengguna"} : LanjutKe(r, pc)
                        \/ req[r].pc = "cabut" /\ LanjutKe(r, "sesi")
<1>1. req[r] \in Lokal /\ Sah(req[r], Baik, terbukti, tunda, temp)
  BY DEF IInv, TypeOK, PermintaanSah
<1>2. ASSUME Menjadi(r, Bebas)
      PROVE  LanjutKe(r, "bebas")
  BY <1>2, BebasPc DEF LanjutKe, Berganti
<1>3. ASSUME req[r].pc # "bebas",
             NEW pc \in {"tautkan", "tunda", "lengkapi", "simpan"}, NEW b \in Baris,
             Menjadi(r, [req[r] EXCEPT !.pc = pc, !.salin = b])
      PROVE  LanjutKe(r, pc)
  <2> DEFINE q == [req[r] EXCEPT !.pc = pc, !.salin = b]
  <2>1. q \in Lokal /\ q.pc = pc /\ q.e = req[r].e /\ q.p = req[r].p /\ q.t = req[r].t
    BY <1>1 DEF Lokal
  <2>2. Menjadi(r, q)
    BY <1>3
  <2> HIDE DEF q
  <2>3. Berganti(r, q)
    BY <1>3, <2>1, <2>2 DEF Berganti
  <2>4. QED
    BY <2>1, <2>3 DEF LanjutKe
<1>4. ASSUME CariEmail(r)
      PROVE  \E pc \in {"tautkan", "tunda"} : LanjutKe(r, pc)
  <2>1. req[r].e \in Email /\ req[r].g \in Google
    BY <1>1, <1>4 DEF CariEmail, Sah
  <2>2. users[req[r].e] \in Baris /\ Ditautkan(users[req[r].e], req[r].g) \in Baris
    BY <2>1, BarisBaru DEF IInv, TypeOK
  <2>3. CASE Ada(req[r].e)
    <3>1. req[r].pc # "bebas" /\
          Menjadi(r, [req[r] EXCEPT !.pc = "tautkan", !.salin = Ditautkan(users[req[r].e], req[r].g)])
      BY <1>4, <2>3 DEF CariEmail
    <3>2. LanjutKe(r, "tautkan")
      BY <1>3, <2>2, <3>1
    <3>3. QED
      BY <3>2
  <2>4. CASE ~Ada(req[r].e)
    <3>1. req[r].pc # "bebas" /\ Ke(r, "tunda")
      BY <1>4, <2>4 DEF CariEmail, Ke
    <3>2. QED
      BY <3>1, KeLanjut
  <2>5. QED
    BY <2>3, <2>4
<1>5. ASSUME SavePendingOAuth(r) \/ Batalkan(r)
      PROVE  LanjutKe(r, "bebas")
  BY <1>2, <1>5 DEF SavePendingOAuth, Batalkan
<1>6. ASSUME HapusTunda(r)
      PROVE  \E pc \in {"baca", "pengguna"} : LanjutKe(r, pc)
  <2>1. req[r].pc # "bebas" /\ \E pc \in {"baca", "pengguna"} : Ke(r, pc)
    BY <1>6 DEF HapusTunda, SetelahLepas
  <2>2. QED
    BY <2>1, KeLanjut
<1>7. ASSUME BacaPengguna(r)
      PROVE  LanjutKe(r, "lengkapi")
  <2>1. req[r].e \in Email /\ req[r].g \in Google
    BY <1>1, <1>7 DEF BacaPengguna, Sah
  <2>2. Dilengkapi(users[req[r].e], req[r].g) \in Baris
    BY <2>1, BarisBaru DEF IInv, TypeOK
  <2>3. req[r].pc # "bebas" /\
        Menjadi(r, [req[r] EXCEPT !.pc = "lengkapi", !.salin = Dilengkapi(users[req[r].e], req[r].g)])
    BY <1>7 DEF BacaPengguna
  <2>4. QED
    BY <1>3, <2>2, <2>3
<1>8. ASSUME NEW s \in Sandi, BacaSandi(r, s)
      PROVE  \E pc \in {"bebas", "simpan"} : LanjutKe(r, pc)
  <2>1. users[req[r].e] \in Baris /\ req[r].pc # "bebas"
    BY <1>1, <1>8 DEF BacaSandi, Sah, IInv, TypeOK
  <2>2. Menjadi(r, Bebas) \/ Menjadi(r, [req[r] EXCEPT !.pc = "simpan", !.salin = users[req[r].e]])
    BY <1>8 DEF BacaSandi
  <2>3. CASE Menjadi(r, Bebas)
    BY <1>2, <2>3
  <2>4. CASE Menjadi(r, [req[r] EXCEPT !.pc = "simpan", !.salin = users[req[r].e]])
    <3>1. LanjutKe(r, "simpan")
      BY <1>3, <2>1, <2>4
    <3>2. QED
      BY <3>1
  <2>5. QED
    BY <2>2, <2>3, <2>4
<1>9. ASSUME CabutTemp(r)
      PROVE  LanjutKe(r, "sesi")
  BY <1>9, KeLanjut DEF CabutTemp
<1>10. ASSUME Gagal(r)
       PROVE  \/ LanjutKe(r, "bebas")
              \/ req[r].pc = "hapus" /\ LanjutKe(r, "verifikasi")
              \/ req[r].pc = "lepas" /\ \E pc \in {"baca", "pengguna"} : LanjutKe(r, pc)
              \/ req[r].pc = "cabut" /\ LanjutKe(r, "sesi")
  <2>1. \/ Menjadi(r, Bebas)
        \/ req[r].pc = "hapus" /\ Ke(r, "verifikasi")
        \/ req[r].pc = "lepas" /\ \E pc \in {"baca", "pengguna"} : Ke(r, pc)
        \/ req[r].pc = "cabut" /\ Ke(r, "sesi")
    BY <1>10 DEF Gagal, SetelahLepas
  <2>2. CASE Menjadi(r, Bebas)
    BY <1>2, <2>2
  <2>3. CASE req[r].pc = "hapus" /\ Ke(r, "verifikasi")
    BY <2>3, KeLanjut
  <2>4. CASE req[r].pc = "lepas" /\ \E pc \in {"baca", "pengguna"} : Ke(r, pc)
    BY <2>4, KeLanjut
  <2>5. CASE req[r].pc = "cabut" /\ Ke(r, "sesi")
    BY <2>5, KeLanjut
  <2>6. QED
    BY <2>1, <2>2, <2>3, <2>4, <2>5
<1>11. QED
  BY <1>4, <1>5, <1>6, <1>7, <1>8, <1>9, <1>10

\* A request that begins with a pending session, or with a temp token.
LEMMA LanjutanMulai ==
  ASSUME IInv, NEW r \in Permintaan
  PROVE  /\ \A p \in 1..MaxTunda : CompleteOAuth(r, p) =>
              \E q \in Lokal : Berganti(r, q) /\ q.pc = "lepas" /\ q.p = p
         /\ \A t \in 1..MaxTemp, s \in Sandi : ForceUpdatePassword(r, t, s) =>
              \E q \in Lokal : Berganti(r, q) /\ q.pc = "ganti" /\ q.t = t
                /\ tumpang' = tumpang \cup Bertemu(temp[t].untuk)
<1>1. ASSUME NEW p \in 1..MaxTunda, CompleteOAuth(r, p)
      PROVE  \E q \in Lokal : Berganti(r, q) /\ q.pc = "lepas" /\ q.p = p
  <2> DEFINE q == [Di("lepas") EXCEPT !.g = tunda[p].g, !.p = p]
             e == EmailGoogle[tunda[p].g]
  <2>1. tunda[p].g \in Google
    BY <1>1 DEF CompleteOAuth, IInv, TundaSah
  <2>2. e \in Email
    BY <2>1, KonstantaAssumption
  <2>3. q \in Lokal
    BY <2>1, TypeDi
  <2>4. q.pc = "lepas" /\ [q EXCEPT !.e = e].p = p
    BY DEF Di, Bebas
  <2>5. Mulai(r, e, q)
    BY <1>1 DEF CompleteOAuth
  <2> HIDE DEF q, e
  <2>6. PICK b \in Lokal : Berganti(r, b) /\ b.pc = q.pc /\ (q.pc # "bebas" => b = [q EXCEPT !.e = e])
    BY <2>2, <2>3, <2>5, MulaiBerganti
  <2>7. QED
    BY <2>4, <2>6
<1>2. ASSUME NEW t \in 1..MaxTemp, NEW s \in Sandi, ForceUpdatePassword(r, t, s)
      PROVE  \E q \in Lokal : Berganti(r, q) /\ q.pc = "ganti" /\ q.t = t
                /\ tumpang' = tumpang \cup Bertemu(temp[t].untuk)
  <2> DEFINE q == [Di("ganti") EXCEPT !.t = t, !.sandi = s]
             e == temp[t].untuk
  <2>1. e \in Email
    BY <1>2 DEF ForceUpdatePassword, IInv, TempSah
  <2>2. q \in Lokal
    BY TypeDi
  <2>3. q.pc = "ganti" /\ q.t = t /\ [q EXCEPT !.e = e].t = t
    BY DEF Di, Bebas
  <2>4. Mulai(r, e, q)
    BY <1>2 DEF ForceUpdatePassword
  <2>5. tumpang' = tumpang \cup Bertemu(temp[t].untuk)
    BY <1>2 DEF ForceUpdatePassword, Mulai
  <2> HIDE DEF q, e
  <2>6. QED
    BY <2>1, <2>2, <2>3, <2>4, <2>5, MulaiBerganti
<1>3. QED
  BY <1>1, <1>2

\* The copies that are saved whole are of the row as it is, and no update was lost,
\* unless a row was written under such a copy.
Setia ==
  \A e \in Email : e \notin disela =>
    /\ users[e] = maksud[e]
    /\ \A r \in Permintaan : req[r].e = e =>
         /\ req[r].pc = "tautkan" => req[r].salin = Ditautkan(users[e], req[r].g)
         /\ req[r].pc = "lengkapi" => req[r].salin = Dilengkapi(users[e], req[r].g)

\* Of an account one request at most may roll it back, and none after it was done.
BatalSah ==
  /\ \A e \in dibatalkan : Status(e) # "tidak_ada"
  /\ \A r \in Permintaan : req[r].pc = "batal" =>
       /\ Status(req[r].e) # "tidak_ada" /\ req[r].e \notin dibatalkan
       /\ \A s \in Permintaan : req[s].pc = "batal" /\ req[s].e = req[r].e => s = r

\* Of an address without an overlap at most one request is in progress.
Sendirian ==
  \A e \in Email : e \notin tumpang =>
    \A r, s \in Permintaan :
      req[r].pc # "bebas" /\ req[s].pc # "bebas" /\ req[r].e = e /\ req[s].e = e => r = s

\* A pending session with no overlap and no failure: completed once at most, and not
\* yet while it can be found or a request works with it.
TundaBersih ==
  \A p \in 1..MaxTunda :
    IF tunda[p].keadaan = "belum" THEN tunda[p].ditukar = 0
    ELSE EmailGoogle[tunda[p].g] \notin tumpang \cup gagal =>
      /\ tunda[p].ditukar < 2
      /\ tunda[p].keadaan = "ada" => tunda[p].ditukar = 0
      /\ \A r \in Permintaan :
           req[r].pc \in {"lepas", "baca", "lengkapi", "pengguna"} /\ req[r].p = p =>
             tunda[p].ditukar = 0 /\ (req[r].pc # "lepas" => tunda[p].keadaan = "hilang")

\* A temp token with no overlap and no failure: used once at most, and then revoked or
\* about to be.
TempBersih ==
  \A t \in 1..MaxTemp :
    IF temp[t].keadaan = "belum" THEN temp[t].dipakai = 0
    ELSE temp[t].untuk \notin tumpang \cup gagal =>
      /\ temp[t].dipakai < 2
      /\ temp[t].keadaan = "berlaku" /\ temp[t].dipakai # 0 =>
           \E r \in Permintaan : req[r].pc = "cabut" /\ req[r].t = t
      /\ \A r \in Permintaan :
           req[r].pc \in {"ganti", "simpan"} /\ req[r].t = t => temp[t].dipakai = 0

LEMMA InternalLoginTerbagi ==
  ASSUME IInv, NEW r \in Permintaan, NEW e \in Email, NEW s \in Sandi, InternalLogin(r, e, s)
  PROVE  \/ Biasa(r)
         \/ /\ UNCHANGED <<users, kode, tunda, req, riwayat>>
            /\ \E t \in 1..MaxTemp :
                 /\ temp[t].keadaan = "belum"
                 /\ temp' = [temp EXCEPT ![t] = [untuk |-> e, keadaan |-> "berlaku", dipakai |-> 0]]
<1>1. CASE SandiCocok(e, s, "internal") /\ ~users[e].is_password_updated
  BY <1>1 DEF InternalLogin
<1>2. CASE ~(SandiCocok(e, s, "internal") /\ ~users[e].is_password_updated)
  <2>1. Mulai(r, e, Bebas) \/ Mulai(r, e, Di("sesi"))
    BY <1>2 DEF InternalLogin
  <2>2. Di("sesi") \in Lokal /\ Di("sesi").pc \in PcBiasa /\ Bebas \in Lokal /\ Bebas.pc \in PcBiasa
    BY TypeDi, BebasPc DEF Di, Bebas, PcBiasa
  <2>3. QED
    BY <2>1, <2>2, MulaiBiasa
<1>3. QED
  BY <1>1, <1>2

\* A step is an ordinary one, or the next call of a request that holds something, or a
\* change of the tables of Redis.
Khusus(r) ==
  \/ Create(r) \/ Batalkan(r) \/ SetEmailVerified(r) \/ Tautkan(r) \/ Lengkapi(r) \/ BuatPengguna(r)
  \/ UpdatePasswordAndActivate(r) \/ CariEmail(r) \/ SavePendingOAuth(r) \/ HapusTunda(r)
  \/ BacaPengguna(r) \/ (\E s \in Sandi : BacaSandi(r, s)) \/ CabutTemp(r) \/ Gagal(r)
  \/ (\E p \in 1..MaxTunda : CompleteOAuth(r, p))
  \/ (\E t \in 1..MaxTemp, s \in Sandi : ForceUpdatePassword(r, t, s))

TempBaru ==
  /\ UNCHANGED <<users, kode, tunda, req, riwayat>>
  /\ \E t \in 1..MaxTemp, e \in Email :
       /\ temp[t].keadaan = "belum"
       /\ temp' = [temp EXCEPT ![t] = [untuk |-> e, keadaan |-> "berlaku", dipakai |-> 0]]

Luar ==
  \/ UNCHANGED vars \/ TempBaru
  \/ \E e \in Email : KodeHilang(e)
  \/ \E p \in 1..MaxTunda : TundaHilang(p)
  \/ \E t \in 1..MaxTemp : TempUsang(t)

LEMMA Pembagian ==
  ASSUME IInv, [Next]_vars
  PROVE  Luar \/ \E r \in Permintaan : Biasa(r) \/ Khusus(r)
<1>1. ASSUME NEW r \in Permintaan, NEW e \in Email,
             \/ Register(r, e) \/ ResendOTP(r, e) \/ VerifyOTP(r, e)
             \/ \E role \in {"internal", "super_admin"} : BuatPetugas(r, e, role)
             \/ \E s \in Sandi : Login(r, e, s) \/ PusatLogin(r, e, s) \/ InternalLogin(r, e, s)
      PROVE  Biasa(r) \/ TempBaru
  <2>1. CASE \E s \in Sandi : InternalLogin(r, e, s)
    BY <2>1, InternalLoginTerbagi DEF TempBaru
  <2>2. QED
    BY <1>1, <2>1, BiasaAwal
<1>2. ASSUME NEW r \in Permintaan, Terima(r)
      PROVE  Biasa(r) \/ Khusus(r) \/ TempBaru
  BY <1>1, <1>2, BiasaOAuth DEF Terima, Khusus
<1>3. ASSUME NEW r \in Permintaan, Lanjut(r)
      PROVE  Biasa(r) \/ Khusus(r)
  BY <1>3, BiasaLanjut DEF Lanjut, Khusus
<1>4. QED
  BY <1>2, <1>3 DEF Next, Luar

\* Whatever the step, what overlapped or failed is noted.
LEMMA Bentuk ==
  ASSUME IInv, [Next]_vars
  PROVE  Tercatat /\ (UNCHANGED req \/ \E r \in Permintaan, q \in Lokal : Berganti(r, q))
<1>1. CASE Luar
  BY <1>1 DEF Luar, vars, riwayat, TempBaru, KodeHilang, TundaHilang, TempUsang, Tercatat
<1>2. ASSUME NEW r \in Permintaan, Biasa(r)
      PROVE  Tercatat /\ \E q \in Lokal : Berganti(r, q)
  BY <1>2 DEF Biasa
<1>3. ASSUME NEW r \in Permintaan, Khusus(r)
      PROVE  Tercatat /\ \E q \in Lokal : Berganti(r, q)
  <2>1. Tercatat
    BY <1>3 DEF Khusus, Create, Batalkan, SetEmailVerified, Tautkan, Lengkapi, BuatPengguna,
      UpdatePasswordAndActivate, CariEmail, SavePendingOAuth, HapusTunda, BacaPengguna, BacaSandi,
      CabutTemp, Gagal, CompleteOAuth, ForceUpdatePassword, Mulai, riwayat, Tercatat
  <2>2. ASSUME NEW pc, LanjutKe(r, pc)
        PROVE  \E q \in Lokal : Berganti(r, q)
    BY <2>2 DEF LanjutKe
  <2>3. QED
    BY <1>3, <2>1, <2>2, TulisLanjut, LainLanjut, LanjutanMulai DEF Khusus
<1>4. QED
  BY <1>1, <1>2, <1>3, Pembagian

LEMMA SendirianTetap ==
  ASSUME IInv, Sendirian, [Next]_vars
  PROVE  Sendirian'
<1>1. Tercatat
  BY Bentuk
<1>2. CASE UNCHANGED req
  BY <1>1, <1>2 DEF Sendirian, Tercatat
<1>3. ASSUME NEW r \in Permintaan, NEW q \in Lokal, Berganti(r, q)
      PROVE  Sendirian'
  <2>1. req \in [Permintaan -> Lokal] /\ req' = [req EXCEPT ![r] = q]
    BY <1>3 DEF Berganti, Menjadi, IInv, TypeOK
  <2>2. ASSUME NEW e \in Email, e \notin tumpang', NEW s \in Permintaan, s # r, req'[s].pc # "bebas",
               req'[s].e = e, q.pc # "bebas", q.e = e
        PROVE  FALSE
    <3>1. req'[s] = req[s]
      BY <2>1, <2>2
    <3>2. e \in Bertemu(e) /\ e \notin tumpang
      BY <1>1, <2>2, <3>1 DEF Bertemu, Tercatat
    <3>3. req[r].pc # "bebas" /\ req[r].e = e
      BY <1>3, <2>2, <3>2, BebasPc DEF Berganti
    <3>4. QED
      BY <2>2, <3>1, <3>2, <3>3 DEF Sendirian
  <2>3. ASSUME NEW e \in Email, e \notin tumpang', NEW s \in Permintaan, NEW u \in Permintaan,
               req'[s].pc # "bebas", req'[u].pc # "bebas", req'[s].e = e, req'[u].e = e
        PROVE  s = u
    <3>1. CASE s = r /\ u # r
      BY <2>1, <2>2, <2>3, <3>1
    <3>2. CASE s # r /\ u = r
      BY <2>1, <2>2, <2>3, <3>2
    <3>3. CASE s # r /\ u # r
      <4>1. req'[s] = req[s] /\ req'[u] = req[u] /\ e \notin tumpang
        BY <1>1, <2>1, <2>3, <3>3 DEF Tercatat
      <4>2. QED
        BY <2>3, <4>1 DEF Sendirian
    <3>4. QED
      BY <3>1, <3>2, <3>3
  <2>4. QED
    BY <2>3 DEF Sendirian
<1>4. QED
  BY <1>2, <1>3, Bentuk

\* A request that goes on without a copy to save.
LEMMA SetiaLewat ==
  ASSUME IInv, Setia, UNCHANGED <<users, maksud, disela>>, NEW r \in Permintaan, NEW q \in Lokal,
         Berganti(r, q), q.pc \notin {"tautkan", "lengkapi"}
  PROVE  Setia'
<1>1. req' = [req EXCEPT ![r] = q] /\ req \in [Permintaan -> Lokal]
  BY DEF Berganti, Menjadi, IInv, TypeOK
<1>2. ASSUME NEW e \in Email, e \notin disela, NEW s \in Permintaan, req'[s].e = e
      PROVE  /\ req'[s].pc = "tautkan" => req'[s].salin = Ditautkan(users[e], req'[s].g)
             /\ req'[s].pc = "lengkapi" => req'[s].salin = Dilengkapi(users[e], req'[s].g)
  <2>1. CASE s = r
    BY <1>1, <2>1
  <2>2. CASE s # r
    BY <1>1, <1>2, <2>2 DEF Setia
  <2>3. QED
    BY <2>1, <2>2
<1>3. ASSUME NEW e \in Email, e \notin disela
      PROVE  users[e] = maksud[e]
  BY <1>3 DEF Setia
<1>4. users' = users /\ maksud' = maksud /\ disela' = disela
  OBVIOUS
<1>5. QED
  BY <1>2, <1>3, <1>4 DEF Setia

\* A request that writes a row, as it should be if it is as it should be.
LEMMA SetiaTulis ==
  ASSUME IInv, Setia, NEW r \in Permintaan, req[r].e \in Email, NEW baris, NEW sendiri,
         Tulis(r, baris, sendiri), req[r].e \notin disela => baris = sendiri, NEW q \in Lokal,
         Berganti(r, q), q.pc \notin {"tautkan", "lengkapi"}
  PROVE  Setia'
<1> DEFINE f == req[r].e
<1>1. req' = [req EXCEPT ![r] = q] /\ req \in [Permintaan -> Lokal]
  BY DEF Berganti, Menjadi, IInv, TypeOK
<1>2. /\ users' = [users EXCEPT ![f] = baris] /\ users \in [Email -> Baris]
      /\ maksud' = [maksud EXCEPT ![f] = sendiri] /\ maksud \in [Email -> Baris]
      /\ disela \subseteq disela' /\ disela' \subseteq disela \cup {f}
      /\ f \notin disela' => \A s \in Permintaan : s # r /\ req[s].e = f => req[s].pc \notin {"tautkan", "lengkapi"}
  BY DEF Tulis, IInv, TypeOK
<1>3. ASSUME NEW e \in Email, e \notin disela', NEW s \in Permintaan, req'[s].e = e,
             req'[s].pc \in {"tautkan", "lengkapi"}
      PROVE  e # f /\ s # r
  BY <1>1, <1>2, <1>3
<1>4. ASSUME NEW e \in Email, e \notin disela', e # f
      PROVE  /\ users'[e] = maksud'[e]
             /\ \A s \in Permintaan : req'[s].e = e =>
                  /\ req'[s].pc = "tautkan" => req'[s].salin = Ditautkan(users'[e], req'[s].g)
                  /\ req'[s].pc = "lengkapi" => req'[s].salin = Dilengkapi(users'[e], req'[s].g)
  <2>1. users'[e] = users[e] /\ maksud'[e] = maksud[e] /\ e \notin disela
    BY <1>2, <1>4
  <2>2. users[e] = maksud[e]
    BY <2>1 DEF Setia
  <2>3. ASSUME NEW s \in Permintaan, req'[s].e = e, req'[s].pc \in {"tautkan", "lengkapi"}
        PROVE  /\ req'[s].pc = "tautkan" => req'[s].salin = Ditautkan(users[e], req'[s].g)
               /\ req'[s].pc = "lengkapi" => req'[s].salin = Dilengkapi(users[e], req'[s].g)
    <3>1. req'[s] = req[s]
      BY <1>1, <1>3, <1>4, <2>3
    <3>2. QED
      BY <2>1, <2>3, <3>1 DEF Setia
  <2>4. QED
    BY <2>1, <2>2, <2>3
<1>5. ASSUME f \notin disela'
      PROVE  users'[f] = maksud'[f]
  BY <1>2, <1>5
<1>6. QED
  BY <1>3, <1>4, <1>5 DEF Setia

LEMMA SetiaBaca ==
  ASSUME IInv, Setia, NEW r \in Permintaan, CariEmail(r) \/ BacaPengguna(r)
  PROVE  Setia'
<1> DEFINE f == req[r].e
           h == req[r].g
<1>1. req[r] \in Lokal /\ Sah(req[r], Baik, terbukti, tunda, temp) /\ req \in [Permintaan -> Lokal]
  BY DEF IInv, TypeOK, PermintaanSah
<1>2. UNCHANGED <<users, maksud, disela>>
  BY DEF CariEmail, BacaPengguna, riwayat
<1>3. PICK q \in {[req[r] EXCEPT !.pc = "tautkan", !.salin = Ditautkan(users[f], h)],
                  [req[r] EXCEPT !.pc = "tunda"],
                  [req[r] EXCEPT !.pc = "lengkapi", !.salin = Dilengkapi(users[f], h)]} :
             req' = [req EXCEPT ![r] = q]
  BY DEF CariEmail, BacaPengguna, Menjadi
<1>4. /\ q.e = f /\ q.g = h
      /\ q.pc = "tautkan" => q.salin = Ditautkan(users[f], h)
      /\ q.pc = "lengkapi" => q.salin = Dilengkapi(users[f], h)
  BY <1>1, <1>3 DEF Lokal
<1>5. ASSUME NEW e \in Email, e \notin disela, NEW s \in Permintaan, req'[s].e = e
      PROVE  /\ req'[s].pc = "tautkan" => req'[s].salin = Ditautkan(users[e], req'[s].g)
             /\ req'[s].pc = "lengkapi" => req'[s].salin = Dilengkapi(users[e], req'[s].g)
  <2>1. CASE s = r
    <3>1. req'[s] = q
      BY <1>1, <1>3, <2>1
    <3>2. QED
      BY <1>4, <1>5, <3>1
  <2>2. CASE s # r
    BY <1>1, <1>3, <1>5, <2>2 DEF Setia
  <2>3. QED
    BY <2>1, <2>2
<1>6. ASSUME NEW e \in Email, e \notin disela
      PROVE  users[e] = maksud[e]
  BY <1>6 DEF Setia
<1>7. users' = users /\ maksud' = maksud /\ disela' = disela
  BY <1>2
<1>8. QED
  BY <1>5, <1>6, <1>7 DEF Setia

LEMMA SetiaTetap ==
  ASSUME IInv, Setia, [Next]_vars
  PROVE  Setia'
<1>1. CASE Luar
  <2>1. UNCHANGED <<users, maksud, disela, req>>
    BY <1>1 DEF Luar, vars, riwayat, TempBaru, KodeHilang, TundaHilang, TempUsang
  <2>2. QED
    BY <2>1 DEF Setia
<1>2. ASSUME NEW r \in Permintaan, Biasa(r)
      PROVE  Setia'
  BY <1>2, SetiaLewat DEF Biasa, PcBiasa
<1>3. ASSUME NEW r \in Permintaan, Khusus(r)
      PROVE  Setia'
  <2>1. ASSUME UNCHANGED <<users, maksud, disela>>, NEW pc, pc \notin {"tautkan", "lengkapi"}, LanjutKe(r, pc)
        PROVE  Setia'
    BY <2>1, SetiaLewat DEF LanjutKe
  <2>2. ASSUME NEW baris, NEW sendiri, req[r].e \in Email, Tulis(r, baris, sendiri),
               req[r].e \notin disela => baris = sendiri,
               NEW pc, pc \notin {"tautkan", "lengkapi"}, LanjutKe(r, pc)
        PROVE  Setia'
    BY <2>2, SetiaTulis DEF LanjutKe
  <2>3. Sah(req[r], Baik, terbukti, tunda, temp)
    BY DEF IInv, PermintaanSah
  <2>4. req[r].pc # "bebas" => req[r].e \in Email
    BY <2>3 DEF Sah
  <2>5. CASE CariEmail(r) \/ BacaPengguna(r)
    BY <2>5, SetiaBaca
  <2>6. CASE Create(r)
    <3>1. PICK pc \in {"bebas", "batal", "kirim", "sesi"} : LanjutKe(r, pc)
      BY <2>6, TulisLanjut
    <3>2. UNCHANGED <<users, maksud, disela>> \/ Tulis(r, req[r].salin, req[r].salin)
      BY <2>6 DEF Create, Buat
    <3>3. req[r].e \in Email
      BY <2>4, <2>6 DEF Create
    <3>4. QED
      BY <2>1, <2>2, <3>1, <3>2, <3>3
  <2>7. CASE BuatPengguna(r)
    <3>1. PICK pc \in {"bebas", "sesi"} : LanjutKe(r, pc)
      BY <2>7, TulisLanjut
    <3>2. UNCHANGED <<users, maksud, disela>> \/ Tulis(r, PenggunaGoogle(req[r].g), PenggunaGoogle(req[r].g))
      BY <2>7 DEF BuatPengguna, Buat
    <3>3. req[r].e \in Email
      BY <2>4, <2>7 DEF BuatPengguna
    <3>4. QED
      BY <2>1, <2>2, <3>1, <3>2, <3>3
  <2>8. CASE SetEmailVerified(r)
    <3>1. LanjutKe(r, "sesi") /\ req[r].e \in Email
          /\ Tulis(r, Terverifikasi(users[req[r].e]), Terverifikasi(maksud[req[r].e]))
      BY <2>4, <2>8, TulisLanjut DEF SetEmailVerified
    <3>2. req[r].e \notin disela => Terverifikasi(users[req[r].e]) = Terverifikasi(maksud[req[r].e])
      BY <3>1 DEF Setia
    <3>3. QED
      BY <2>2, <3>1, <3>2
  <2>9. CASE Tautkan(r)
    <3>1. PICK pc \in {"sesi", "tunda"} : LanjutKe(r, pc)
      BY <2>9, TulisLanjut
    <3>2. req[r].e \in Email /\ Tulis(r, req[r].salin, Ditautkan(maksud[req[r].e], req[r].g))
      BY <2>4, <2>9 DEF Tautkan
    <3>3. req[r].e \notin disela => req[r].salin = Ditautkan(maksud[req[r].e], req[r].g)
      BY <2>9, <3>2 DEF Setia, Tautkan
    <3>4. QED
      BY <2>2, <3>1, <3>2, <3>3
  <2>10. CASE Lengkapi(r)
    <3>1. LanjutKe(r, "sesi") /\ req[r].e \in Email
          /\ Tulis(r, req[r].salin, Dilengkapi(maksud[req[r].e], req[r].g))
      BY <2>4, <2>10, TulisLanjut DEF Lengkapi
    <3>2. req[r].e \notin disela => req[r].salin = Dilengkapi(maksud[req[r].e], req[r].g)
      BY <2>10, <3>1 DEF Setia, Lengkapi
    <3>3. QED
      BY <2>2, <3>1, <3>2
  <2>11. CASE UpdatePasswordAndActivate(r)
    <3>1. LanjutKe(r, "cabut") /\ req[r].e \in Email
          /\ Tulis(r, SandiBaru(users[req[r].e], req[r].sandi), SandiBaru(maksud[req[r].e], req[r].sandi))
      BY <2>4, <2>11, TulisLanjut DEF UpdatePasswordAndActivate
    <3>2. req[r].e \notin disela =>
            SandiBaru(users[req[r].e], req[r].sandi) = SandiBaru(maksud[req[r].e], req[r].sandi)
      BY <3>1 DEF Setia
    <3>3. QED
      BY <2>2, <3>1, <3>2
  <2>12. CASE SavePendingOAuth(r) \/ HapusTunda(r) \/ CabutTemp(r) \/ Gagal(r)
              \/ \E s \in Sandi : BacaSandi(r, s)
    <3>1. UNCHANGED <<users, maksud, disela>>
      BY <2>12 DEF SavePendingOAuth, HapusTunda, CabutTemp, Gagal, BacaSandi, riwayat
    <3>2. \E pc \in {"bebas", "baca", "pengguna", "sesi", "verifikasi", "simpan"} : LanjutKe(r, pc)
      BY <2>12, LainLanjut
    <3>3. QED
      BY <2>1, <3>1, <3>2
  <2>13. CASE (\E p \in 1..MaxTunda : CompleteOAuth(r, p))
              \/ (\E t \in 1..MaxTemp, s \in Sandi : ForceUpdatePassword(r, t, s))
    <3>1. UNCHANGED <<users, maksud, disela>>
      BY <2>13 DEF CompleteOAuth, ForceUpdatePassword, Mulai
    <3>2. \E q \in Lokal : Berganti(r, q) /\ q.pc \in {"lepas", "ganti"}
      BY <2>13, LanjutanMulai
    <3>3. QED
      BY <3>1, <3>2, SetiaLewat
  <2>14. CASE Batalkan(r)
    <3>1. LanjutKe(r, "bebas") /\ req[r].e \in Email
      BY <2>4, <2>14, LainLanjut DEF Batalkan
    <3>2. UNCHANGED <<users, maksud, disela>> \/ Tulis(r, Kosong, Kosong)
      BY <2>14 DEF Batalkan
    <3>3. QED
      BY <2>1, <2>2, <3>1, <3>2
  <2>15. QED
    BY <1>3, <2>14, <2>5, <2>6, <2>7, <2>8, <2>9, <2>10, <2>11, <2>12, <2>13 DEF Khusus
<1>4. QED
  BY <1>1, <1>2, <1>3, Pembagian

MenukarPc == {"lepas", "baca", "lengkapi", "pengguna"}

\* A step that leaves the pending sessions alone.
LEMMA TundaPindah ==
  ASSUME IInv, TundaBersih, Tercatat, UNCHANGED tunda, NEW r \in Permintaan, NEW q \in Lokal, Berganti(r, q),
         \/ q.pc \notin MenukarPc
         \/ EmailGoogle[tunda[q.p].g] \in tumpang' \cup gagal'
         \/ tunda[q.p].ditukar = 0 /\ (q.pc # "lepas" => tunda[q.p].keadaan = "hilang")
  PROVE  TundaBersih'
<1>1. req' = [req EXCEPT ![r] = q] /\ req \in [Permintaan -> Lokal] /\ tunda' = tunda
  BY DEF Berganti, Menjadi, IInv, TypeOK
<1>2. ASSUME NEW p \in 1..MaxTunda, tunda[p].keadaan # "belum",
             EmailGoogle[tunda[p].g] \notin tumpang' \cup gagal'
      PROVE  /\ tunda[p].ditukar < 2
             /\ tunda[p].keadaan = "ada" => tunda[p].ditukar = 0
             /\ \A s \in Permintaan : req'[s].pc \in MenukarPc /\ req'[s].p = p =>
                  tunda[p].ditukar = 0 /\ (req'[s].pc # "lepas" => tunda[p].keadaan = "hilang")
  <2>1. EmailGoogle[tunda[p].g] \notin tumpang \cup gagal
    BY <1>2 DEF Tercatat
  <2>2. ASSUME NEW s \in Permintaan, req'[s].pc \in MenukarPc, req'[s].p = p
        PROVE  tunda[p].ditukar = 0 /\ (req'[s].pc # "lepas" => tunda[p].keadaan = "hilang")
    <3>1. CASE s = r
      BY <1>1, <1>2, <2>2, <3>1
    <3>2. CASE s # r
      BY <1>1, <1>2, <2>1, <2>2, <3>2 DEF TundaBersih, MenukarPc
    <3>3. QED
      BY <3>1, <3>2
  <2>3. QED
    BY <1>2, <2>1, <2>2 DEF TundaBersih
<1>3. QED
  BY <1>1, <1>2 DEF TundaBersih, MenukarPc

\* Request r leaves "lepas": its pending session is gone.
LEMMA TundaLepas ==
  ASSUME IInv, TundaBersih, NEW r \in Permintaan, HapusTunda(r)
  PROVE  TundaBersih'
<1> DEFINE p == req[r].p
<1>1. req[r].pc = "lepas" /\ tunda' = [tunda EXCEPT ![p].keadaan = "hilang"] /\ UNCHANGED <<tumpang, gagal>>
  BY DEF HapusTunda, riwayat
<1>2. PICK q \in Lokal : Berganti(r, q) /\ q.pc \in {"baca", "pengguna"} /\ q.p = p
  BY LainLanjut DEF LanjutKe
<1>3. req' = [req EXCEPT ![r] = q] /\ req \in [Permintaan -> Lokal] /\ tunda \in [1..MaxTunda -> Tunda]
  BY <1>2 DEF Berganti, Menjadi, IInv, TypeOK
<1>4. p \in 1..MaxTunda /\ tunda[p].keadaan # "belum"
  BY <1>1 DEF IInv, PermintaanSah, Sah
<1>5. /\ tunda'[p].keadaan = "hilang" /\ tunda'[p].g = tunda[p].g /\ tunda'[p].ditukar = tunda[p].ditukar
      /\ \A o \in 1..MaxTunda : o # p => tunda'[o] = tunda[o]
  BY <1>1, <1>3, <1>4 DEF Tunda
<1>6. ASSUME NEW o \in 1..MaxTunda, o # p
      PROVE  IF tunda'[o].keadaan = "belum" THEN tunda'[o].ditukar = 0
             ELSE EmailGoogle[tunda'[o].g] \notin tumpang' \cup gagal' =>
               /\ tunda'[o].ditukar < 2
               /\ tunda'[o].keadaan = "ada" => tunda'[o].ditukar = 0
               /\ \A s \in Permintaan : req'[s].pc \in MenukarPc /\ req'[s].p = o =>
                    tunda'[o].ditukar = 0 /\ (req'[s].pc # "lepas" => tunda'[o].keadaan = "hilang")
  <2>1. \A s \in Permintaan : req'[s].p = o => req'[s] = req[s]
    BY <1>2, <1>3, <1>6
  <2>2. tunda'[o] = tunda[o]
    BY <1>5, <1>6
  <2>3. QED
    BY <1>1, <2>1, <2>2 DEF TundaBersih, MenukarPc
<1>7. ASSUME EmailGoogle[tunda'[p].g] \notin tumpang' \cup gagal'
      PROVE  tunda'[p].ditukar = 0
  BY <1>1, <1>4, <1>5, <1>7 DEF TundaBersih
<1>8. QED
  BY <1>4, <1>5, <1>6, <1>7 DEF TundaBersih, MenukarPc

\* Request r completes the sign-in: it is the only one at the pending session.
LEMMA TundaTukar ==
  ASSUME IInv, TundaBersih, Sendirian, NEW r \in Permintaan, Lengkapi(r) \/ BuatPengguna(r)
  PROVE  TundaBersih'
<1> DEFINE p == req[r].p
<1>1. req[r].pc \in {"lengkapi", "pengguna"} /\ UNCHANGED <<tumpang, gagal>> /\ (UNCHANGED tunda \/ Ditukar(p))
  BY DEF Lengkapi, BuatPengguna
<1>2. PICK q \in Lokal : Berganti(r, q) /\ q.pc \in {"bebas", "sesi"}
  BY TulisLanjut DEF LanjutKe
<1>3. CASE UNCHANGED tunda
  <2>1. Tercatat /\ q.pc \notin MenukarPc
    BY <1>1, <1>2 DEF Tercatat, MenukarPc
  <2>2. QED
    BY <1>2, <1>3, <2>1, TundaPindah
<1>4. CASE Ditukar(p)
  <2>1. req' = [req EXCEPT ![r] = q] /\ req \in [Permintaan -> Lokal] /\ tunda \in [1..MaxTunda -> Tunda]
    BY <1>2 DEF Berganti, Menjadi, IInv, TypeOK
  <2>2. p \in 1..MaxTunda /\ tunda[p].keadaan # "belum" /\ req[r].e = EmailGoogle[tunda[p].g] /\ req[r].e \in Email
    BY <1>1 DEF IInv, PermintaanSah, Sah
  <2>3. /\ tunda'[p].keadaan = tunda[p].keadaan /\ tunda'[p].g = tunda[p].g
        /\ tunda[p].ditukar = 0 => tunda'[p].ditukar = 1
        /\ \A o \in 1..MaxTunda : o # p => tunda'[o] = tunda[o]
    BY <1>4, <2>1, <2>2 DEF Ditukar, Tunda
  <2>4. ASSUME NEW o \in 1..MaxTunda, o # p
        PROVE  IF tunda'[o].keadaan = "belum" THEN tunda'[o].ditukar = 0
               ELSE EmailGoogle[tunda'[o].g] \notin tumpang' \cup gagal' =>
                 /\ tunda'[o].ditukar < 2
                 /\ tunda'[o].keadaan = "ada" => tunda'[o].ditukar = 0
                 /\ \A s \in Permintaan : req'[s].pc \in MenukarPc /\ req'[s].p = o =>
                      tunda'[o].ditukar = 0 /\ (req'[s].pc # "lepas" => tunda'[o].keadaan = "hilang")
    <3>1. \A s \in Permintaan : req'[s].pc \in MenukarPc => req'[s] = req[s]
      BY <1>2, <2>1 DEF MenukarPc
    <3>2. tunda'[o] = tunda[o]
      BY <2>3, <2>4
    <3>3. QED
      BY <1>1, <3>1, <3>2 DEF TundaBersih, MenukarPc
  <2>5. ASSUME EmailGoogle[tunda'[p].g] \notin tumpang' \cup gagal'
        PROVE  /\ tunda'[p].ditukar = 1 /\ tunda'[p].keadaan = "hilang"
               /\ \A s \in Permintaan : req'[s].pc \in MenukarPc => req'[s].p # p
    <3>1. EmailGoogle[tunda[p].g] \notin tumpang \cup gagal
      BY <1>1, <2>3, <2>5
    <3>2. tunda[p].ditukar = 0 /\ tunda[p].keadaan = "hilang"
      BY <1>1, <2>2, <3>1 DEF TundaBersih
    <3>3. ASSUME NEW s \in Permintaan, req'[s].pc \in MenukarPc, req'[s].p = p
          PROVE  FALSE
      <4>1. s # r /\ req'[s] = req[s]
        BY <1>2, <2>1, <3>3 DEF MenukarPc
      <4>2. req[s].e = EmailGoogle[tunda[p].g] /\ req[s].pc # "bebas"
        BY <3>3, <4>1 DEF IInv, PermintaanSah, Sah, MenukarPc
      <4>3. QED
        BY <1>1, <2>2, <3>1, <4>1, <4>2 DEF Sendirian
    <3>4. QED
      BY <2>3, <3>2, <3>3
  <2>6. QED
    BY <2>2, <2>3, <2>4, <2>5 DEF TundaBersih, MenukarPc
<1>5. QED
  BY <1>1, <1>3, <1>4

\* A pending session is made, or expires.
LEMMA TundaTabel ==
  ASSUME IInv, TundaBersih, (\E r \in Permintaan : SavePendingOAuth(r)) \/ \E p \in 1..MaxTunda : TundaHilang(p)
  PROVE  TundaBersih'
<1>1. tunda \in [1..MaxTunda -> Tunda] /\ req \in [Permintaan -> Lokal]
  BY DEF IInv, TypeOK
<1>2. PICK p \in 1..MaxTunda :
        \/ /\ tunda[p].keadaan = "belum"
           /\ \E g, b : tunda' = [tunda EXCEPT ![p] =
                [g |-> g, existing |-> b, keadaan |-> "ada", ditukar |-> 0]]
        \/ tunda[p].keadaan = "ada" /\ tunda' = [tunda EXCEPT ![p].keadaan = "hilang"]
  BY DEF SavePendingOAuth, TundaHilang
<1>3. UNCHANGED <<tumpang, gagal>>
  BY DEF SavePendingOAuth, TundaHilang, riwayat
<1>4. \A s \in Permintaan : req'[s] = req[s] \/ req'[s] = Bebas
  BY <1>1 DEF SavePendingOAuth, TundaHilang, Menjadi
<1>5. /\ tunda[p].keadaan = "ada" => tunda'[p].keadaan = "hilang" /\ tunda'[p].g = tunda[p].g
           /\ tunda'[p].ditukar = tunda[p].ditukar
      /\ tunda[p].keadaan # "ada" => tunda'[p].keadaan = "ada" /\ tunda'[p].ditukar = 0 /\ tunda[p].keadaan = "belum"
      /\ \A o \in 1..MaxTunda : o # p => tunda'[o] = tunda[o]
  <2>1. CASE tunda[p].keadaan = "ada"
    <3>1. tunda' = [tunda EXCEPT ![p].keadaan = "hilang"]
      BY <1>2, <2>1
    <3>2. QED
      BY <1>1, <2>1, <3>1 DEF Tunda
  <2>2. CASE tunda[p].keadaan # "ada"
    <3>1. PICK g, b : tunda' = [tunda EXCEPT ![p] =
                [g |-> g, existing |-> b, keadaan |-> "ada", ditukar |-> 0]]
      BY <1>2, <2>2
    <3>2. QED
      BY <1>1, <1>2, <2>2, <3>1
  <2>3. QED
    BY <2>1, <2>2
<1>6. \A s \in Permintaan : req'[s].pc \in MenukarPc => req'[s] = req[s]
  BY <1>4, BebasPc DEF MenukarPc
<1>7. ASSUME NEW o \in 1..MaxTunda, o # p
      PROVE  IF tunda'[o].keadaan = "belum" THEN tunda'[o].ditukar = 0
             ELSE EmailGoogle[tunda'[o].g] \notin tumpang' \cup gagal' =>
               /\ tunda'[o].ditukar < 2
               /\ tunda'[o].keadaan = "ada" => tunda'[o].ditukar = 0
               /\ \A s \in Permintaan : req'[s].pc \in MenukarPc /\ req'[s].p = o =>
                    tunda'[o].ditukar = 0 /\ (req'[s].pc # "lepas" => tunda'[o].keadaan = "hilang")
  <2>1. tunda'[o] = tunda[o]
    BY <1>5, <1>7
  <2>2. QED
    BY <1>3, <1>6, <2>1 DEF TundaBersih, MenukarPc
<1>8. CASE tunda[p].keadaan = "ada"
  <2>1. ASSUME EmailGoogle[tunda'[p].g] \notin tumpang' \cup gagal'
        PROVE  tunda'[p].ditukar = 0
    BY <1>3, <1>5, <1>8, <2>1 DEF TundaBersih
  <2>2. QED
    BY <1>5, <1>7, <1>8, <2>1 DEF TundaBersih, MenukarPc
<1>9. CASE tunda[p].keadaan # "ada"
  <2>1. ASSUME NEW s \in Permintaan, req'[s].pc \in MenukarPc
        PROVE  req'[s].p # p
    BY <1>5, <1>6, <1>9, <2>1 DEF IInv, PermintaanSah, Sah, MenukarPc
  <2>2. QED
    BY <1>5, <1>7, <1>9, <2>1 DEF TundaBersih, MenukarPc
<1>10. QED
  BY <1>8, <1>9

LEMMA TundaBersihTetap ==
  ASSUME IInv, TundaBersih, Sendirian, [Next]_vars
  PROVE  TundaBersih'
<1>1. Tercatat
  BY Bentuk
<1>2. CASE Luar
  <2>1. CASE \E p \in 1..MaxTunda : TundaHilang(p)
    BY <2>1, TundaTabel
  <2>2. CASE UNCHANGED <<tunda, req>>
    BY <1>1, <2>2 DEF TundaBersih, Tercatat
  <2>3. QED
    BY <1>2, <2>1, <2>2 DEF Luar, vars, TempBaru, KodeHilang, TempUsang
<1>3. ASSUME NEW r \in Permintaan, Biasa(r)
      PROVE  TundaBersih'
  BY <1>1, <1>3, TundaPindah DEF Biasa, PcBiasa, MenukarPc
<1>4. ASSUME NEW r \in Permintaan, Khusus(r)
      PROVE  TundaBersih'
  <2>1. ASSUME UNCHANGED tunda, NEW pc, pc \notin MenukarPc, LanjutKe(r, pc)
        PROVE  TundaBersih'
    BY <1>1, <2>1, TundaPindah DEF LanjutKe
  <2>2. Sah(req[r], Baik, terbukti, tunda, temp)
    BY DEF IInv, PermintaanSah
  <2>3. CASE Lengkapi(r) \/ BuatPengguna(r)
    BY <2>3, TundaTukar
  <2>4. CASE HapusTunda(r)
    BY <2>4, TundaLepas
  <2>5. CASE SavePendingOAuth(r)
    BY <2>5, TundaTabel
  <2>6. CASE \/ Create(r) \/ Batalkan(r) \/ SetEmailVerified(r) \/ Tautkan(r)
             \/ UpdatePasswordAndActivate(r) \/ CariEmail(r) \/ CabutTemp(r)
             \/ \E s \in Sandi : BacaSandi(r, s)
    <3>1. UNCHANGED tunda
      BY <2>6 DEF Create, Batalkan, SetEmailVerified, Tautkan, UpdatePasswordAndActivate, CariEmail,
        CabutTemp, BacaSandi
    <3>2. \E pc \in {"bebas", "batal", "kirim", "sesi", "tunda", "cabut", "tautkan", "simpan"} :
            LanjutKe(r, pc)
      BY <2>6, TulisLanjut, LainLanjut
    <3>3. QED
      BY <2>1, <3>1, <3>2 DEF MenukarPc
  <2>7. CASE BacaPengguna(r)
    <3>1. UNCHANGED tunda /\ req[r].pc = "baca" /\ req[r].p \in 1..MaxTunda /\ tunda[req[r].p].keadaan # "belum"
      BY <2>2, <2>7 DEF BacaPengguna, Sah
    <3>2. PICK q \in Lokal : Berganti(r, q) /\ q.pc = "lengkapi" /\ q.p = req[r].p
      BY <2>7, LainLanjut DEF LanjutKe
    <3>3. \/ EmailGoogle[tunda[q.p].g] \in tumpang' \cup gagal'
          \/ tunda[q.p].ditukar = 0 /\ tunda[q.p].keadaan = "hilang"
      BY <1>1, <3>1, <3>2 DEF TundaBersih, Tercatat
    <3>4. QED
      BY <1>1, <3>1, <3>2, <3>3, TundaPindah
  <2>8. CASE Gagal(r)
    <3>1. UNCHANGED tunda /\ gagal' = gagal \cup {req[r].e}
      BY <2>8 DEF Gagal
    <3>2. CASE req[r].pc = "lepas" /\ \E pc \in {"baca", "pengguna"} : LanjutKe(r, pc)
      <4>1. PICK q \in Lokal : Berganti(r, q) /\ q.p = req[r].p
        BY <3>2 DEF LanjutKe
      <4>2. EmailGoogle[tunda[q.p].g] = req[r].e
        BY <2>2, <3>2, <4>1 DEF Sah
      <4>3. QED
        BY <1>1, <3>1, <4>1, <4>2, TundaPindah
    <3>3. CASE \E pc \in {"bebas", "verifikasi", "sesi"} : LanjutKe(r, pc)
      BY <2>1, <3>1, <3>3 DEF MenukarPc
    <3>4. QED
      BY <2>8, <3>2, <3>3, LainLanjut
  <2>9. ASSUME NEW p \in 1..MaxTunda, CompleteOAuth(r, p)
        PROVE  TundaBersih'
    <3>1. UNCHANGED tunda /\ tunda[p].keadaan = "ada"
      BY <2>9 DEF CompleteOAuth, Mulai
    <3>2. PICK q \in Lokal : Berganti(r, q) /\ q.pc = "lepas" /\ q.p = p
      BY <2>9, LanjutanMulai
    <3>3. EmailGoogle[tunda[p].g] \in tumpang' \cup gagal' \/ tunda[p].ditukar = 0
      BY <1>1, <3>1 DEF TundaBersih, Tercatat
    <3>4. QED
      BY <1>1, <3>1, <3>2, <3>3, TundaPindah
  <2>10. CASE \E t \in 1..MaxTemp, s \in Sandi : ForceUpdatePassword(r, t, s)
    <3>1. UNCHANGED tunda
      BY <2>10 DEF ForceUpdatePassword, Mulai
    <3>2. PICK q \in Lokal : Berganti(r, q) /\ q.pc = "ganti"
      BY <2>10, LanjutanMulai
    <3>3. QED
      BY <1>1, <3>1, <3>2, TundaPindah DEF MenukarPc
  <2>11. QED
    BY <1>4, <2>3, <2>4, <2>5, <2>6, <2>7, <2>8, <2>9, <2>10 DEF Khusus
<1>5. QED
  BY <1>2, <1>3, <1>4, Pembagian

MemakaiPc == {"ganti", "simpan"}

\* A step that leaves the temp tokens alone.
LEMMA TempPindah ==
  ASSUME IInv, TempBersih, Tercatat, UNCHANGED temp, NEW r \in Permintaan, NEW q \in Lokal, Berganti(r, q),
         \/ q.pc \notin MemakaiPc
         \/ temp[q.t].untuk \in tumpang' \cup gagal'
         \/ temp[q.t].dipakai = 0,
         req[r].pc = "cabut" => temp[req[r].t].untuk \in tumpang' \cup gagal'
  PROVE  TempBersih'
<1>1. req' = [req EXCEPT ![r] = q] /\ req \in [Permintaan -> Lokal] /\ temp' = temp
  BY DEF Berganti, Menjadi, IInv, TypeOK
<1>2. ASSUME NEW t \in 1..MaxTemp, temp[t].keadaan # "belum",
             temp[t].untuk \notin tumpang' \cup gagal'
      PROVE  /\ temp[t].dipakai < 2
             /\ temp[t].keadaan = "berlaku" /\ temp[t].dipakai # 0 =>
                  \E s \in Permintaan : req'[s].pc = "cabut" /\ req'[s].t = t
             /\ \A s \in Permintaan : req'[s].pc \in MemakaiPc /\ req'[s].t = t => temp[t].dipakai = 0
  <2>1. temp[t].untuk \notin tumpang \cup gagal
    BY <1>2 DEF Tercatat
  <2>2. ASSUME NEW s \in Permintaan, req'[s].pc \in MemakaiPc, req'[s].t = t
        PROVE  temp[t].dipakai = 0
    <3>1. CASE s = r
      BY <1>1, <1>2, <2>2, <3>1
    <3>2. CASE s # r
      BY <1>1, <1>2, <2>1, <2>2, <3>2 DEF TempBersih, MemakaiPc
    <3>3. QED
      BY <3>1, <3>2
  <2>3. ASSUME temp[t].keadaan = "berlaku", temp[t].dipakai # 0
        PROVE  \E s \in Permintaan : req'[s].pc = "cabut" /\ req'[s].t = t
    <3>1. PICK s \in Permintaan : req[s].pc = "cabut" /\ req[s].t = t
      BY <1>2, <2>1, <2>3 DEF TempBersih
    <3>2. s # r
      BY <1>2, <3>1
    <3>3. QED
      BY <1>1, <3>1, <3>2
  <2>4. QED
    BY <1>2, <2>1, <2>2, <2>3 DEF TempBersih
<1>3. QED
  BY <1>1, <1>2 DEF TempBersih, MemakaiPc

\* Request r changes the password: it is the only one at the temp token.
LEMMA TempPakai ==
  ASSUME IInv, TempBersih, Sendirian, NEW r \in Permintaan, UpdatePasswordAndActivate(r)
  PROVE  TempBersih'
<1> DEFINE t == req[r].t
<1>1. req[r].pc = "simpan" /\ UNCHANGED <<tumpang, gagal>>
      /\ temp' = [temp EXCEPT ![t].dipakai = IF @ < 2 THEN @ + 1 ELSE 2]
  BY DEF UpdatePasswordAndActivate
<1>2. PICK q \in Lokal : Berganti(r, q) /\ q.pc = "cabut" /\ q.t = t
  BY TulisLanjut DEF LanjutKe
<1>3. req' = [req EXCEPT ![r] = q] /\ req \in [Permintaan -> Lokal] /\ temp \in [1..MaxTemp -> Temp]
  BY <1>2 DEF Berganti, Menjadi, IInv, TypeOK
<1>4. t \in 1..MaxTemp /\ temp[t].keadaan # "belum" /\ temp[t].untuk = req[r].e /\ req[r].e \in Email
  BY <1>1 DEF IInv, PermintaanSah, Sah
<1>5. /\ temp'[t].keadaan = temp[t].keadaan /\ temp'[t].untuk = temp[t].untuk
      /\ temp[t].dipakai = 0 => temp'[t].dipakai = 1
      /\ \A o \in 1..MaxTemp : o # t => temp'[o] = temp[o]
  BY <1>1, <1>3, <1>4 DEF Temp
<1>6. ASSUME NEW o \in 1..MaxTemp, o # t
      PROVE  IF temp'[o].keadaan = "belum" THEN temp'[o].dipakai = 0
             ELSE temp'[o].untuk \notin tumpang' \cup gagal' =>
               /\ temp'[o].dipakai < 2
               /\ temp'[o].keadaan = "berlaku" /\ temp'[o].dipakai # 0 =>
                    \E s \in Permintaan : req'[s].pc = "cabut" /\ req'[s].t = o
               /\ \A s \in Permintaan : req'[s].pc \in MemakaiPc /\ req'[s].t = o => temp'[o].dipakai = 0
  <2>1. \A s \in Permintaan : (req'[s].t = o \/ req[s].t = o) => req'[s] = req[s]
    BY <1>2, <1>3, <1>6
  <2>2. temp'[o] = temp[o]
    BY <1>5, <1>6
  <2>3. ASSUME temp'[o].keadaan # "belum", temp'[o].untuk \notin tumpang' \cup gagal',
               temp'[o].keadaan = "berlaku", temp'[o].dipakai # 0
        PROVE  \E s \in Permintaan : req'[s].pc = "cabut" /\ req'[s].t = o
    <3>1. PICK s \in Permintaan : req[s].pc = "cabut" /\ req[s].t = o
      BY <1>1, <2>2, <2>3 DEF TempBersih
    <3>2. QED
      BY <2>1, <3>1
  <2>4. ASSUME temp'[o].keadaan # "belum", temp'[o].untuk \notin tumpang' \cup gagal'
        PROVE  /\ temp'[o].dipakai < 2
               /\ \A s \in Permintaan : req'[s].pc \in MemakaiPc /\ req'[s].t = o => temp'[o].dipakai = 0
    <3>1. temp[o].keadaan # "belum" /\ temp[o].untuk \notin tumpang \cup gagal
      BY <1>1, <2>2, <2>4
    <3>2. /\ temp[o].dipakai < 2
          /\ \A s \in Permintaan : req[s].pc \in MemakaiPc /\ req[s].t = o => temp[o].dipakai = 0
      BY <3>1 DEF TempBersih, MemakaiPc
    <3>3. QED
      BY <2>1, <2>2, <3>2
  <2>5. temp'[o].keadaan = "belum" => temp'[o].dipakai = 0
    BY <2>2 DEF TempBersih
  <2>6. QED
    BY <2>3, <2>4, <2>5
<1>7. ASSUME temp'[t].untuk \notin tumpang' \cup gagal'
      PROVE  /\ temp'[t].dipakai = 1
             /\ \A s \in Permintaan : req'[s].pc \in MemakaiPc => req'[s].t # t
  <2>1. temp[t].untuk \notin tumpang \cup gagal
    BY <1>1, <1>5, <1>7
  <2>2. temp[t].dipakai = 0
    BY <1>1, <1>4, <2>1 DEF TempBersih
  <2>3. ASSUME NEW s \in Permintaan, req'[s].pc \in MemakaiPc, req'[s].t = t
        PROVE  FALSE
    <3>1. s # r /\ req'[s] = req[s]
      BY <1>2, <1>3, <2>3 DEF MemakaiPc
    <3>2. req[s].e = temp[t].untuk /\ req[s].pc # "bebas"
      BY <2>3, <3>1 DEF IInv, PermintaanSah, Sah, MemakaiPc
    <3>3. QED
      BY <1>1, <1>4, <2>1, <3>1, <3>2 DEF Sendirian
  <2>4. QED
    BY <1>5, <2>2, <2>3
<1>8. req'[r].pc = "cabut" /\ req'[r].t = t
  BY <1>2, <1>3
<1>9. QED
  BY <1>4, <1>5, <1>6, <1>7, <1>8 DEF TempBersih, MemakaiPc

\* The state of one temp token goes from "belum" or "berlaku" to another.
LEMMA TempKeadaan ==
  ASSUME IInv, TempBersih, UNCHANGED <<tumpang, gagal>>, NEW t \in 1..MaxTemp,
         \/ /\ temp[t].keadaan = "belum"
            /\ \E e \in Email : temp' = [temp EXCEPT ![t] = [untuk |-> e, keadaan |-> "berlaku", dipakai |-> 0]]
         \/ /\ temp[t].keadaan # "belum"
            /\ \E k \in {"hitam", "usang"} :
                 \/ temp' = [temp EXCEPT ![t].keadaan = k]
                 \/ temp' = temp /\ temp[t].keadaan # "berlaku",
         \/ UNCHANGED req
         \/ \E r \in Permintaan, q \in Lokal :
              Berganti(r, q) /\ req[r].pc = "cabut" /\ req[r].t = t /\ q.pc = "sesi"
  PROVE  TempBersih'
<1>1. temp \in [1..MaxTemp -> Temp] /\ req \in [Permintaan -> Lokal]
  BY DEF IInv, TypeOK
<1>2. /\ temp[t].keadaan = "belum" => temp'[t].keadaan = "berlaku" /\ temp'[t].dipakai = 0
      /\ temp[t].keadaan # "belum" => temp'[t].keadaan \notin {"belum", "berlaku"}
           /\ temp'[t].dipakai = temp[t].dipakai /\ temp'[t].untuk = temp[t].untuk
      /\ \A o \in 1..MaxTemp : o # t => temp'[o] = temp[o]
  <2>1. CASE temp[t].keadaan = "belum"
    <3>1. PICK e \in Email : temp' = [temp EXCEPT ![t] = [untuk |-> e, keadaan |-> "berlaku", dipakai |-> 0]]
      BY <2>1
    <3>2. QED
      BY <1>1, <2>1, <3>1
  <2>2. CASE temp[t].keadaan # "belum"
    <3>1. PICK k \in {"hitam", "usang"} :
            \/ temp' = [temp EXCEPT ![t].keadaan = k]
            \/ temp' = temp /\ temp[t].keadaan # "berlaku"
      BY <2>2
    <3>2. CASE temp' = [temp EXCEPT ![t].keadaan = k]
      BY <1>1, <2>2, <3>2 DEF Temp
    <3>3. CASE temp' = temp /\ temp[t].keadaan # "berlaku"
      BY <2>2, <3>3
    <3>4. QED
      BY <3>1, <3>2, <3>3
  <2>3. QED
    BY <2>1, <2>2
<1>3. \A s \in Permintaan : req'[s] = req[s] \/ (req[s].pc = "cabut" /\ req[s].t = t /\ req'[s].pc = "sesi")
  <2>1. CASE UNCHANGED req
    BY <2>1
  <2>2. CASE \E r \in Permintaan, q \in Lokal :
               Berganti(r, q) /\ req[r].pc = "cabut" /\ req[r].t = t /\ q.pc = "sesi"
    BY <1>1, <2>2 DEF Berganti, Menjadi
  <2>3. QED
    BY <2>1, <2>2
<1>4. \A s \in Permintaan : req'[s].pc \in MemakaiPc => req'[s] = req[s]
  BY <1>3 DEF MemakaiPc
<1>5. ASSUME NEW o \in 1..MaxTemp, o # t
      PROVE  IF temp'[o].keadaan = "belum" THEN temp'[o].dipakai = 0
             ELSE temp'[o].untuk \notin tumpang' \cup gagal' =>
               /\ temp'[o].dipakai < 2
               /\ temp'[o].keadaan = "berlaku" /\ temp'[o].dipakai # 0 =>
                    \E s \in Permintaan : req'[s].pc = "cabut" /\ req'[s].t = o
               /\ \A s \in Permintaan : req'[s].pc \in MemakaiPc /\ req'[s].t = o => temp'[o].dipakai = 0
  <2>1. temp'[o] = temp[o]
    BY <1>2, <1>5
  <2>2. ASSUME temp'[o].keadaan # "belum", temp'[o].untuk \notin tumpang' \cup gagal',
               temp'[o].keadaan = "berlaku", temp'[o].dipakai # 0
        PROVE  \E s \in Permintaan : req'[s].pc = "cabut" /\ req'[s].t = o
    <3>1. PICK s \in Permintaan : req[s].pc = "cabut" /\ req[s].t = o
      BY <2>1, <2>2 DEF TempBersih
    <3>2. QED
      BY <1>3, <1>5, <3>1
  <2>3. QED
    BY <1>4, <2>1, <2>2 DEF TempBersih, MemakaiPc
<1>6. CASE temp[t].keadaan = "belum"
  <2>1. ASSUME NEW s \in Permintaan, req'[s].pc \in MemakaiPc
        PROVE  req'[s].t # t
    BY <1>4, <1>6, <2>1 DEF IInv, PermintaanSah, Sah, MemakaiPc
  <2>2. QED
    BY <1>2, <1>5, <1>6, <2>1 DEF TempBersih, MemakaiPc
<1>7. CASE temp[t].keadaan # "belum"
  <2>1. ASSUME temp'[t].untuk \notin tumpang' \cup gagal'
        PROVE  /\ temp'[t].dipakai < 2
               /\ \A s \in Permintaan : req'[s].pc \in MemakaiPc /\ req'[s].t = t => temp'[t].dipakai = 0
    BY <1>2, <1>4, <1>7, <2>1 DEF TempBersih, MemakaiPc
  <2>2. QED
    BY <1>2, <1>5, <1>7, <2>1 DEF TempBersih, MemakaiPc
<1>8. QED
  BY <1>6, <1>7

LEMMA TempBersihTetap ==
  ASSUME IInv, TempBersih, Sendirian, [Next]_vars
  PROVE  TempBersih'
<1>1. Tercatat
  BY Bentuk
<1>2. CASE Luar
  <2>1. CASE TempBaru
    BY <2>1, TempKeadaan DEF TempBaru, riwayat
  <2>2. ASSUME NEW t \in 1..MaxTemp, TempUsang(t)
        PROVE  TempBersih'
    BY <2>2, TempKeadaan DEF TempUsang, riwayat
  <2>3. CASE UNCHANGED <<temp, req>>
    BY <1>1, <2>3 DEF TempBersih, Tercatat
  <2>4. QED
    BY <1>2, <2>1, <2>2, <2>3 DEF Luar, vars, KodeHilang, TundaHilang
<1>3. ASSUME NEW r \in Permintaan, Biasa(r)
      PROVE  TempBersih'
  BY <1>1, <1>3, TempPindah DEF Biasa, PcBiasa, MemakaiPc
<1>4. ASSUME NEW r \in Permintaan, Khusus(r)
      PROVE  TempBersih'
  <2>1. ASSUME UNCHANGED temp, req[r].pc # "cabut", NEW pc, pc \notin MemakaiPc, LanjutKe(r, pc)
        PROVE  TempBersih'
    BY <1>1, <2>1, TempPindah DEF LanjutKe
  <2>2. Sah(req[r], Baik, terbukti, tunda, temp)
    BY DEF IInv, PermintaanSah
  <2>3. CASE UpdatePasswordAndActivate(r)
    BY <2>3, TempPakai
  <2>4. CASE CabutTemp(r)
    <3>1. /\ temp' = [temp EXCEPT ![req[r].t].keadaan = IF @ = "berlaku" THEN "hitam" ELSE @]
          /\ UNCHANGED <<tumpang, gagal>> /\ req[r].pc = "cabut"
      BY <2>4 DEF CabutTemp, riwayat
    <3>2. req[r].t \in 1..MaxTemp /\ temp[req[r].t].keadaan # "belum" /\ temp \in [1..MaxTemp -> Temp]
      BY <2>2, <3>1 DEF Sah, IInv, TypeOK
    <3>3. \/ temp' = [temp EXCEPT ![req[r].t].keadaan = "hitam"]
          \/ temp' = temp /\ temp[req[r].t].keadaan # "berlaku"
      <4>1. CASE temp[req[r].t].keadaan = "berlaku"
        BY <3>1, <4>1
      <4>2. CASE temp[req[r].t].keadaan # "berlaku"
        BY <3>1, <3>2, <4>2 DEF Temp
      <4>3. QED
        BY <4>1, <4>2
    <3>4. \E q \in Lokal : Berganti(r, q) /\ q.pc = "sesi"
      BY <2>4, LainLanjut DEF LanjutKe
    <3>5. QED
      BY <3>1, <3>2, <3>3, <3>4, TempKeadaan
  <2>5. CASE \/ Create(r) \/ Batalkan(r) \/ SetEmailVerified(r) \/ Tautkan(r) \/ Lengkapi(r)
             \/ BuatPengguna(r) \/ CariEmail(r) \/ SavePendingOAuth(r) \/ HapusTunda(r)
             \/ BacaPengguna(r)
    <3>1. UNCHANGED temp /\ req[r].pc # "cabut"
      BY <2>5 DEF Create, Batalkan, SetEmailVerified, Tautkan, Lengkapi, BuatPengguna, CariEmail,
        SavePendingOAuth, HapusTunda, BacaPengguna
    <3>2. \E pc \in {"bebas", "batal", "kirim", "sesi", "tunda", "tautkan", "baca", "pengguna", "lengkapi"} :
            LanjutKe(r, pc)
      BY <2>5, TulisLanjut, LainLanjut
    <3>3. QED
      BY <2>1, <3>1, <3>2 DEF MemakaiPc
  <2>6. CASE \E s \in Sandi : BacaSandi(r, s)
    <3>1. UNCHANGED temp /\ req[r].pc = "ganti" /\ req[r].t \in 1..MaxTemp /\ temp[req[r].t].keadaan # "belum"
      BY <2>2, <2>6 DEF BacaSandi, Sah
    <3>2. PICK q \in Lokal : Berganti(r, q) /\ (q.pc = "bebas" \/ q.t = req[r].t)
      BY <2>6, LainLanjut DEF LanjutKe
    <3>3. \/ temp[req[r].t].untuk \in tumpang' \cup gagal'
          \/ temp[req[r].t].dipakai = 0
      BY <1>1, <3>1 DEF TempBersih, Tercatat
    <3>4. QED
      BY <1>1, <3>1, <3>2, <3>3, TempPindah DEF MemakaiPc
  <2>7. CASE Gagal(r)
    <3>1. UNCHANGED temp /\ gagal' = gagal \cup {req[r].e}
      BY <2>7 DEF Gagal
    <3>2. req[r].pc = "cabut" => temp[req[r].t].untuk \in tumpang' \cup gagal'
      BY <2>2, <3>1 DEF Sah
    <3>3. \E pc \in {"bebas", "verifikasi", "baca", "pengguna", "sesi"} : LanjutKe(r, pc)
      BY <2>7, LainLanjut
    <3>4. PICK q \in Lokal : Berganti(r, q) /\ q.pc \notin MemakaiPc
      BY <3>3 DEF LanjutKe, MemakaiPc
    <3>5. QED
      BY <1>1, <3>1, <3>2, <3>4, TempPindah
  <2>8. CASE \E p \in 1..MaxTunda : CompleteOAuth(r, p)
    <3>1. UNCHANGED temp /\ req[r].pc # "cabut"
      BY <2>8, BebasPc DEF CompleteOAuth, Mulai
    <3>2. PICK q \in Lokal : Berganti(r, q) /\ q.pc = "lepas"
      BY <2>8, LanjutanMulai
    <3>3. QED
      BY <1>1, <3>1, <3>2, TempPindah DEF MemakaiPc
  <2>9. ASSUME NEW t \in 1..MaxTemp, NEW s \in Sandi, ForceUpdatePassword(r, t, s)
        PROVE  TempBersih'
    <3>1. UNCHANGED temp /\ temp[t].keadaan = "berlaku" /\ req[r].pc # "cabut"
      BY <2>9, BebasPc DEF ForceUpdatePassword, Mulai
    <3>2. PICK q \in Lokal : Berganti(r, q) /\ q.t = t /\ tumpang' = tumpang \cup Bertemu(temp[t].untuk)
      BY <2>9, LanjutanMulai
    <3>3. ASSUME temp[t].untuk \notin tumpang' \cup gagal', temp[t].dipakai # 0
          PROVE  FALSE
      <4>1. PICK u \in Permintaan : req[u].pc = "cabut" /\ req[u].t = t
        BY <1>1, <3>1, <3>3 DEF TempBersih, Tercatat
      <4>2. req[u].e = temp[t].untuk
        BY <4>1 DEF IInv, PermintaanSah, Sah
      <4>3. QED
        BY <3>2, <3>3, <4>2 DEF Bertemu
    <3>4. QED
      BY <1>1, <3>1, <3>2, <3>3, TempPindah
  <2>10. QED
    BY <1>4, <2>3, <2>4, <2>5, <2>6, <2>7, <2>8, <2>9 DEF Khusus
<1>5. QED
  BY <1>2, <1>3, <1>4, Pembagian

LEMMA BatalTetap ==
  ASSUME IInv, BatalSah, [Next]_vars
  PROVE  BatalSah'
<1>1. Maju /\ dibatalkan \subseteq Email /\ req \in [Permintaan -> Lokal]
  BY LangkahMaju DEF IInv, TypeOK
<1>2. ASSUME NEW e \in Email, Status(e) # "tidak_ada"
      PROVE  Status(e)' # "tidak_ada"
  BY <1>1, <1>2 DEF Maju, Status
<1>3. \A r \in Permintaan : req[r].pc = "batal" => req[r].e \in Email
  BY DEF IInv, PermintaanSah, Sah
<1>4. ASSUME NEW r \in Permintaan, NEW q \in Lokal, Berganti(r, q), q.pc # "batal", UNCHANGED dibatalkan
      PROVE  BatalSah'
  <2>1. req' = [req EXCEPT ![r] = q]
    BY <1>4 DEF Berganti, Menjadi
  <2>2. ASSUME NEW s \in Permintaan, req'[s].pc = "batal"
        PROVE  s # r /\ req'[s] = req[s]
    BY <1>1, <1>4, <2>1, <2>2
  <2>3. QED
    BY <1>1, <1>2, <1>3, <1>4, <2>2 DEF BatalSah
<1>5. CASE Luar
  <2>1. UNCHANGED <<dibatalkan, req>>
    BY <1>5 DEF Luar, vars, riwayat, TempBaru, KodeHilang, TundaHilang, TempUsang
  <2>2. QED
    BY <1>1, <1>2, <1>3, <2>1 DEF BatalSah
<1>6. ASSUME NEW r \in Permintaan, Biasa(r)
      PROVE  BatalSah'
  BY <1>4, <1>6 DEF Biasa, PcBiasa
<1>7. ASSUME NEW r \in Permintaan, Khusus(r)
      PROVE  BatalSah'
  <2>1. ASSUME NEW pc, pc # "batal", LanjutKe(r, pc), UNCHANGED dibatalkan
        PROVE  BatalSah'
    BY <1>4, <2>1 DEF LanjutKe
  <2>2. CASE Create(r)
    <3>1. PICK pc \in {"bebas", "batal", "kirim", "sesi"} : LanjutKe(r, pc)
      BY <2>2, TulisLanjut
    <3>2. CASE pc = "batal"
      <4>1. PICK q \in Lokal : req' = [req EXCEPT ![r] = q] /\ q.pc = "batal" /\ q.e = req[r].e
        BY <3>1, <3>2 DEF LanjutKe, Berganti, Menjadi
      <4>2. req'[r] # Bebas
        BY <1>1, <4>1, BebasPc
      <4>3. ~Ke(r, "bebas")
        BY <1>1, <4>2, BebasPc DEF Ke, Menjadi
      <4>4. Status(req[r].e) = "tidak_ada" /\ Tulis(r, req[r].salin, req[r].salin) /\ UNCHANGED dibatalkan
            /\ req[r].pc = "buat"
        BY <2>2, <4>3 DEF Create, Buat
      <4>5. req[r].e \in Email /\ req[r].salin.account_status # "tidak_ada"
        <5>1. req[r].e \in Email /\ req[r].salin \in {Pendaftar, Petugas("internal"), Petugas("super_admin")}
          BY <4>4 DEF IInv, PermintaanSah, Sah
        <5>2. /\ Pendaftar.account_status = "pending_verification"
              /\ \A role : Petugas(role).account_status = "active"
          BY DEF Pendaftar, Petugas
        <5>3. QED
          BY <5>1, <5>2
      <4>6. Status(req[r].e)' # "tidak_ada"
        <5>1. users'[req[r].e] = req[r].salin
          BY <4>4, <4>5 DEF Tulis, IInv, TypeOK
        <5>2. QED
          BY <1>1, <4>1, <4>5, <5>1 DEF Status
      <4>7. QED
        BY <1>1, <1>2, <1>3, <4>1, <4>4, <4>5, <4>6 DEF BatalSah
    <3>3. QED
      BY <2>1, <2>2, <3>1, <3>2 DEF Create
  <2>3. CASE Batalkan(r)
    <3>1. req' = [req EXCEPT ![r] = Bebas] /\ dibatalkan \subseteq dibatalkan'
          /\ dibatalkan' \subseteq dibatalkan \cup {req[r].e} /\ req[r].pc = "batal"
      BY <2>3 DEF Batalkan, Menjadi
    <3>2. ASSUME NEW s \in Permintaan, req'[s].pc = "batal"
          PROVE  s # r /\ req'[s] = req[s] /\ req[s].e # req[r].e
      BY <1>1, <3>1, <3>2, BebasPc DEF BatalSah
    <3>3. QED
      BY <1>1, <1>2, <1>3, <3>1, <3>2 DEF BatalSah
  <2>4. CASE \/ SetEmailVerified(r) \/ Tautkan(r) \/ Lengkapi(r) \/ BuatPengguna(r)
             \/ UpdatePasswordAndActivate(r) \/ CariEmail(r) \/ SavePendingOAuth(r) \/ HapusTunda(r)
             \/ BacaPengguna(r) \/ (\E s \in Sandi : BacaSandi(r, s)) \/ CabutTemp(r) \/ Gagal(r)
    <3>1. UNCHANGED dibatalkan
      BY <2>4 DEF SetEmailVerified, Tautkan, Lengkapi, BuatPengguna, UpdatePasswordAndActivate, CariEmail,
        SavePendingOAuth, HapusTunda, BacaPengguna, BacaSandi, CabutTemp, Gagal, riwayat
    <3>2. \E pc \in {"bebas", "sesi", "tunda", "cabut", "tautkan", "baca", "pengguna", "lengkapi", "verifikasi", "simpan"} : LanjutKe(r, pc)
      BY <2>4, TulisLanjut, LainLanjut
    <3>3. QED
      BY <2>1, <3>1, <3>2
  <2>5. CASE (\E p \in 1..MaxTunda : CompleteOAuth(r, p))
             \/ (\E t \in 1..MaxTemp, s \in Sandi : ForceUpdatePassword(r, t, s))
    <3>1. UNCHANGED dibatalkan
      BY <2>5 DEF CompleteOAuth, ForceUpdatePassword, Mulai
    <3>2. \E q \in Lokal : Berganti(r, q) /\ q.pc \in {"lepas", "ganti"}
      BY <2>5, LanjutanMulai
    <3>3. QED
      BY <1>4, <3>1, <3>2
  <2>6. QED
    BY <1>7, <2>2, <2>3, <2>4, <2>5 DEF Khusus
<1>8. QED
  BY <1>5, <1>6, <1>7, Pembagian

LEMMA BersihInit == Init => BatalSah /\ Setia /\ Sendirian /\ TundaBersih /\ TempBersih
  BY BebasPc DEF Init, BatalSah, Setia, Sendirian, TundaBersih, TempBersih

LEMMA DijagaPula == Spec => [](BatalSah /\ Setia /\ Sendirian /\ TundaBersih /\ TempBersih)
<1>1. IInv /\ BatalSah /\ Setia /\ Sendirian /\ TundaBersih /\ TempBersih /\ [Next]_vars =>
        BatalSah' /\ Setia' /\ Sendirian' /\ TundaBersih' /\ TempBersih'
  BY BatalTetap, SetiaTetap, SendirianTetap, TundaBersihTetap, TempBersihTetap
<1>2. QED
  BY <1>1, BersihInit, Dijaga, PTL DEF Spec

\* An active account stays active and no row disappears, except in the one step in
\* which the request that made the account takes it back.
THEOREM AkunMaju == Spec => TetapAktif
<1>1. IInv /\ BatalSah /\ [Next]_vars =>
        [\A e \in Email :
           /\ Status(e) = "active" =>
                users'[e].account_status = "active" \/ e \in dibatalkan' \ dibatalkan
           /\ Status(e) # "tidak_ada" => users'[e].account_status # "tidak_ada"]_vars
  BY LangkahMaju DEF Maju, Membatalkan, BatalSah
<1>2. QED
  BY <1>1, Dijaga, DijagaPula, PTL DEF Spec, TetapAktif

\* An update of an account is lost only to a Google sign-in that read the row before
\* it and saved it after.
THEOREM GoogleMenimpa == Spec => []HanyaGoogleMenimpa
<1>1. Setia => HanyaGoogleMenimpa
  BY DEF Setia, HanyaGoogleMenimpa
<1>2. QED
  BY <1>1, DijagaPula, PTL

\* A pending session completes one sign-in, unless requests for the account
\* overlapped or one failed.
THEOREM TundaSekali == Spec => []TundaSekaliPakai
<1>1. IInv /\ TundaBersih => TundaSekaliPakai
  <2>1. ASSUME IInv, TundaBersih, NEW p \in 1..MaxTunda, tunda[p].ditukar > 1
        PROVE  EmailGoogle[tunda[p].g] \in tumpang \cup gagal
    <3>1. tunda[p].ditukar \in 0..2
      BY <2>1 DEF IInv, TypeOK, Tunda
    <3>2. QED
      BY <2>1, <3>1 DEF TundaBersih
  <2>2. QED
    BY <2>1 DEF TundaSekaliPakai
<1>2. QED
  BY <1>1, Dijaga, DijagaPula, PTL

\* A temp token changes a password once, unless requests for the account overlapped
\* or one failed.
THEOREM TempSekali == Spec => []TempSekaliPakai
<1>1. IInv /\ TempBersih => TempSekaliPakai
  <2>1. ASSUME IInv, TempBersih, NEW t \in 1..MaxTemp, temp[t].dipakai > 1
        PROVE  temp[t].untuk \in tumpang \cup gagal
    <3>1. temp[t].dipakai \in 0..2
      BY <2>1 DEF IInv, TypeOK, Temp
    <3>2. QED
      BY <2>1, <3>1 DEF TempBersih
  <2>2. QED
    BY <2>1 DEF TempSekaliPakai
<1>2. QED
  BY <1>1, Dijaga, DijagaPula, PTL
=============================================================================
