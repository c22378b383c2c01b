----------------------------- MODULE ApiProofs -----------------------------
(***************************************************************************)
(* Theorems about Api, for any number of accounts, schools and lessons.    *)
(* Rujukan and DataLengkap are not inductive: a row that is registered     *)
(* again must not have had an administrator, and what a school's status    *)
(* may become depends on what the routes let it be.  IInv adds that only   *)
(* an active school has an administrator.                                  *)
(***************************************************************************)
EXTENDS Api, TLAPS

\* Only approval names an administrator, and no route takes a school out of
\* operation; a school that was registered has an e-mail.
SekolahSah ==
  \A s \in SekolahID :
    /\ sekolah[s].status # "nonaktif"
    /\ sekolah[s].status # "aktif" => sekolah[s].admin = Tiada
    /\ sekolah[s].status # "tidak_ada" => sekolah[s].email \in Email

TabelSah ==
  /\ users \in [Email -> Akun] /\ sekolah \in [SekolahID -> Baris]
  /\ pendidik \in [Email -> SekolahID \cup {Tiada}]
  /\ jadwal \in [SekolahID \X Slot -> Email \cup {Tiada}]

JawabanSah == jawab.kode \in 200..500 /\ jawab.peran \in Role \cup {"tidak_ada", "tamu"}

\* What is not in the tables.
SementaraSah ==
  /\ sesi \subseteq Email /\ kode \subseteq Email /\ temp \subseteq Email /\ gagal \subseteq Email
  /\ tunda \subseteq Email \X BOOLEAN
  /\ JawabanSah

IInv == TypeOK /\ SekolahSah /\ Rujukan /\ DataLengkap

\* What the theorems say of a step: it keeps IInv, a refusal leaves the tables as
\* they were, the tables change at the hands of the roles they should, and a
\* rejected school stays as it was.
RefusalSah == jawab'.kode \in 400..499 => UNCHANGED tabel

PeranSah ==
  /\ pendidik' # pendidik \/ jadwal' # jadwal => jawab'.peran = "admin_sekolah"
  /\ \A s \in SekolahID :
       sekolah[s].status \notin {"tidak_ada", "ditolak"} /\ sekolah'[s] # sekolah[s]
         => jawab'.peran = "super_admin"

BuntuSah ==
  \A s \in SekolahID : sekolah[s].status = "ditolak" => sekolah'[s] = sekolah[s]

Aman == IInv' /\ RefusalSah /\ PeranSah /\ BuntuSah

----------------------------------------------------------------------------
(* The answers, and steps that leave the tables alone or touch one account. *)

LEMMA TypeUraian == TypeOK <=> TabelSah /\ SementaraSah
  BY DEF TypeOK, TabelSah, SementaraSah, JawabanSah

LEMMA JawabSah ==
  ASSUME IInv, NEW a \in Email \cup {Tiada}, NEW nomor \in 200..500, Jawab(a, nomor)
  PROVE  /\ jawab'.kode = nomor
         /\ JawabanSah'
         /\ a # Tiada => jawab'.peran = users[a].role
<1>1. a # Tiada => a \in Email /\ users[a].role \in Role \cup {"tidak_ada"}
  BY DEF IInv, TypeOK, Akun
<1>2. QED
  BY <1>1 DEF Jawab, JawabanSah

LEMMA JawabTamu ==
  ASSUME IInv, NEW nomor \in 200..500, Jawab(Tiada, nomor)
  PROVE  /\ jawab'.kode = nomor
         /\ JawabanSah'
<1>1. Tiada \in Email \cup {Tiada}
  OBVIOUS
<1>2. QED
  BY <1>1, JawabSah

LEMMA JawabTertentu ==
  ASSUME IInv
  PROVE  /\ \A nomor \in {200, 201, 202, 409, 400, 429, 500} :
              Jawab(Tiada, nomor) =>
                /\ jawab'.kode = nomor
                /\ JawabanSah'
         /\ \A nomor \in {200, 201, 202, 500} : nomor \notin 400..499
<1>1. \A nomor \in {200, 201, 202, 409, 400, 429, 500} : nomor \in 200..500
  OBVIOUS
<1>2. \A nomor \in {200, 201, 202, 500} : nomor \notin 400..499
  OBVIOUS
<1>3. ASSUME NEW nomor \in {200, 201, 202, 409, 400, 429, 500}, Jawab(Tiada, nomor)
      PROVE  /\ jawab'.kode = nomor
             /\ JawabanSah'
  <2>1. nomor \in 200..500
    BY <1>1
  <2>2. Jawab(Tiada, nomor)
    BY <1>3
  <2>3. QED
    BY <2>1, <2>2, JawabTamu
<1>4. QED
  BY <1>2, <1>3

LEMMA EmailBukanTiada == ASSUME NEW e \in Email PROVE e # Tiada
  BY KonstantaAssumption

LEMMA SekolahBukanTiada == ASSUME NEW s \in SekolahID PROVE s # Tiada
  BY KonstantaAssumption

LEMMA BuntuTetap == ASSUME UNCHANGED sekolah PROVE BuntuSah
  BY DEF BuntuSah

\* The tables stay: everything about them stays.
LEMMA TabelTetap ==
  ASSUME IInv, UNCHANGED tabel, gagal \subseteq gagal', SementaraSah'
  PROVE  Aman
<1>1. UNCHANGED users /\ UNCHANGED sekolah /\ UNCHANGED pendidik /\ UNCHANGED jadwal
  BY DEF tabel
<1>2. TypeOK'
  BY <1>1, TypeUraian DEF IInv, TabelSah, TypeOK, SementaraSah, JawabanSah
<1>3. SekolahSah'
  BY <1>1 DEF IInv, SekolahSah
<1>4. Rujukan'
  BY <1>1 DEF IInv, Rujukan, Guru
<1>5. DataLengkap'
  BY <1>1 DEF IInv, DataLengkap, Guru, SekolahAdmin
<1>6. PeranSah
  BY <1>1 DEF PeranSah
<1>7. QED
  BY <1>1, <1>2, <1>3, <1>4, <1>5, <1>6, BuntuTetap DEF IInv, Aman, RefusalSah

LEMMA HanyaSah ==
  ASSUME IInv, NEW a \in Email \cup {Tiada}, NEW nomor \in 200..500, Hanya(a, nomor)
  PROVE  Aman
<1>1. UNCHANGED tabel /\ gagal' = gagal
  BY DEF Hanya
<1>2. SementaraSah'
  BY JawabSah DEF Hanya, redis, IInv, TypeOK, SementaraSah
<1>3. QED
  BY <1>1, <1>2, TabelTetap

LEMMA HanyaTertentu ==
  ASSUME IInv, NEW a \in Email \cup {Tiada},
         NEW nomor \in {200, 400, 401, 403, 404, 409, 429, 500}, Hanya(a, nomor)
  PROVE  Aman
<1>1. nomor \in 200..500
  OBVIOUS
<1>2. QED
  BY <1>1, HanyaSah

\* One account changes: it is made, or keeps its role, its password and, once it is
\* active, that.  An account of the staff is made alone only by a request that fails.
LEMMA SatuAkun ==
  ASSUME IInv, NEW e \in Email, NEW u \in Akun,
         users' = [users EXCEPT ![e] = u], UNCHANGED <<sekolah, pendidik, jadwal>>,
         gagal \subseteq gagal', SementaraSah', jawab'.kode \notin 400..499,
         Ada(e) => /\ u.role = users[e].role /\ u.sandi = users[e].sandi
                   /\ users[e].aktif => u.aktif,
         ~Ada(e) => u.role \notin Internal \/ e \in gagal'
  PROVE  Aman
<1>1. users \in [Email -> Akun] /\ TabelSah /\ SekolahSah /\ Rujukan /\ DataLengkap
  BY TypeUraian DEF IInv, TypeOK
<1>2. users'[e] = u /\ \A f \in Email : f # e => users'[f] = users[f]
  BY <1>1
<1>3. /\ sekolah' = sekolah /\ pendidik' = pendidik /\ jadwal' = jadwal
      /\ Guru' = Guru /\ \A f : SekolahAdmin(f)' = SekolahAdmin(f)
  BY DEF Guru, SekolahAdmin
<1>4. TypeOK'
  <2>1. TabelSah'
    BY <1>1, <1>3 DEF TabelSah
  <2>2. QED
    BY <2>1 DEF TypeOK, TabelSah, SementaraSah, JawabanSah, JawabanSah
<1>5. SekolahSah'
  BY <1>1, <1>3 DEF SekolahSah
<1>6. Rujukan'
  <2>1. ASSUME NEW f \in Guru
        PROVE  /\ users'[f].role = "tenaga_pendidik" /\ users'[f].aktif
               /\ sekolah'[pendidik'[f]].admin # Tiada
    <3>1. /\ f \in Email /\ users[f].role = "tenaga_pendidik" /\ users[f].aktif
          /\ sekolah[pendidik[f]].admin # Tiada
      BY <1>1, <2>1 DEF Rujukan, Guru
    <3>2. QED
      BY <1>2, <1>3, <3>1 DEF Ada
  <2>2. ASSUME NEW s \in SekolahID, sekolah[s].admin # Tiada
        PROVE  users'[sekolah[s].admin].role = "admin_sekolah"
    <3>1. sekolah[s].admin \in Email /\ users[sekolah[s].admin].role = "admin_sekolah"
      BY <1>1, <2>2 DEF Rujukan, TabelSah, Baris
    <3>2. QED
      BY <1>2, <3>1 DEF Ada
  <2>3. \A p \in DOMAIN jadwal : jadwal[p] # Tiada => pendidik[jadwal[p]] = p[1]
    BY <1>1 DEF Rujukan
  <2>4. QED
    BY <1>3, <2>1, <2>2, <2>3 DEF Rujukan
<1>7. DataLengkap'
  <2>1. ASSUME NEW f \in Email, f \notin gagal'
        PROVE  /\ users'[f].role = "tenaga_pendidik" => f \in Guru
               /\ users'[f].role = "admin_sekolah" => SekolahAdmin(f) # {}
               /\ users'[f].role \in Internal => users'[f].sandi
    <3>1. f \notin gagal
      BY <2>1
    <3>2. /\ users[f].role = "tenaga_pendidik" => f \in Guru
          /\ users[f].role = "admin_sekolah" => SekolahAdmin(f) # {}
          /\ users[f].role \in Internal => users[f].sandi
      BY <1>1, <3>1 DEF DataLengkap
    <3>3. CASE f # e
      BY <1>2, <3>2, <3>3
    <3>4. CASE f = e
      BY <1>2, <2>1, <3>2, <3>4 DEF Internal
    <3>5. QED
      BY <3>3, <3>4
  <2>2. QED
    BY <1>3, <2>1 DEF DataLengkap
<1>8. PeranSah /\ RefusalSah
  BY <1>3 DEF PeranSah, RefusalSah
<1>9. QED
  BY <1>3, <1>4, <1>5, <1>6, <1>7, <1>8, BuntuTetap DEF IInv, Aman

\* The end of a sign-in.
LEMMA MasukSah ==
  ASSUME IInv, NEW e \in Email, Masuk(e)
  PROVE  /\ sesi' \subseteq Email /\ jawab'.kode \in {200, 500}
         /\ JawabanSah'
<1>1. sesi \subseteq Email
  BY DEF IInv, TypeOK
<1>2. CASE sesi' = sesi \cup {e} /\ Jawab(Tiada, 200)
  <2>1. sesi' \subseteq Email
    BY <1>1, <1>2
  <2>2. QED
    BY <1>2, <2>1, JawabTertentu
<1>3. CASE UNCHANGED sesi /\ Jawab(Tiada, 500)
  <2>1. sesi' \subseteq Email
    BY <1>1, <1>3
  <2>2. QED
    BY <1>3, <2>1, JawabTertentu
<1>4. QED
  BY <1>2, <1>3 DEF Masuk

LEMMA KirimKodeSah ==
  ASSUME IInv, NEW e \in Email, KirimKode(e), UNCHANGED <<tabel, tunda, temp, sesi, gagal>>
  PROVE  Aman
<1>1. /\ kode' \subseteq Email
      /\ JawabanSah'
  <2>1. kode \subseteq Email
    BY DEF IInv, TypeOK
  <2>2. CASE kode' = kode \cup {e} /\ Jawab(Tiada, 200)
    <3>1. kode' \subseteq Email
      BY <2>1, <2>2
    <3>2. QED
      BY <2>2, <3>1, JawabTertentu
  <2>3. CASE UNCHANGED kode /\ \E nomor \in {429, 500} : Jawab(Tiada, nomor)
    <3>1. kode' \subseteq Email
      BY <2>1, <2>3
    <3>2. QED
      BY <2>3, <3>1, JawabTertentu
  <2>4. QED
    BY <2>2, <2>3 DEF KirimKode
<1>2. SementaraSah'
  BY <1>1 DEF IInv, TypeOK, SementaraSah
<1>3. QED
  BY <1>2, TabelTetap


----------------------------------------------------------------------------
(* Accounts and sessions.                                                  *)

LEMMA AkunSah ==
  ASSUME IInv, NEW e \in Email
  PROVE  /\ users[e] \in Akun
         /\ \A u \in Akun :
              /\ [u EXCEPT !.aktif = TRUE] \in Akun
              /\ [u EXCEPT !.aktif = TRUE].role = u.role
              /\ [u EXCEPT !.aktif = TRUE].sandi = u.sandi
              /\ [u EXCEPT !.aktif = TRUE].aktif
              /\ [u EXCEPT !.berganti = TRUE] \in Akun
              /\ [u EXCEPT !.berganti = TRUE].role = u.role
              /\ [u EXCEPT !.berganti = TRUE].sandi = u.sandi
              /\ [u EXCEPT !.berganti = TRUE].aktif = u.aktif
<1>1. users[e] \in Akun
  BY DEF IInv, TypeOK
<1>2. ASSUME NEW u \in Akun
      PROVE  /\ [u EXCEPT !.aktif = TRUE] \in Akun
             /\ [u EXCEPT !.aktif = TRUE].role = u.role
             /\ [u EXCEPT !.aktif = TRUE].sandi = u.sandi
             /\ [u EXCEPT !.aktif = TRUE].aktif
  BY DEF Akun
<1>3. ASSUME NEW u \in Akun
      PROVE  /\ [u EXCEPT !.berganti = TRUE] \in Akun
             /\ [u EXCEPT !.berganti = TRUE].role = u.role
             /\ [u EXCEPT !.berganti = TRUE].sandi = u.sandi
             /\ [u EXCEPT !.berganti = TRUE].aktif = u.aktif
  BY DEF Akun
<1>4. QED
  BY <1>1, <1>2, <1>3

LEMMA PendaftarSah ==
  /\ Pendaftar \in Akun /\ Pendaftar.role = "wali_murid"
  /\ [Pendaftar EXCEPT !.aktif = TRUE, !.sandi = FALSE] \in Akun
  /\ [Pendaftar EXCEPT !.aktif = TRUE, !.sandi = FALSE].role = "wali_murid"
  /\ "wali_murid" \notin Internal
  BY DEF Pendaftar, Akun, Role, Internal

LEMMA RegisterSah == ASSUME IInv, NEW e \in Email, Register(e) PROVE Aman
<1>1. CASE Ada(e) /\ users[e].aktif /\ Hanya(Tiada, 409)
  BY <1>1, HanyaTertentu
<1>2. CASE KirimKode(e) /\ UNCHANGED <<tabel, tunda, temp, sesi, gagal>>
  BY <1>2, KirimKodeSah
<1>3. CASE /\ ~Ada(e) /\ users' = [users EXCEPT ![e] = Pendaftar]
           /\ \/ kode' = kode \cup {e} /\ Jawab(Tiada, 201) /\ UNCHANGED gagal
              \/ UNCHANGED kode /\ Jawab(Tiada, 500) /\ gagal' = gagal \cup {e}
           /\ UNCHANGED <<sekolah, pendidik, jadwal, tunda, temp, sesi>>
  <2>1. kode' \subseteq Email /\ gagal \subseteq gagal' /\ gagal' \subseteq Email
    BY <1>3 DEF IInv, TypeOK
  <2>2. /\ JawabanSah'
        /\ jawab'.kode \notin 400..499
    BY <1>3, JawabTertentu
  <2>3. SementaraSah'
    BY <1>3, <2>1, <2>2 DEF IInv, TypeOK, SementaraSah
  <2>4. PICK u \in Akun : users' = [users EXCEPT ![e] = u] /\ u.role \notin Internal
    BY <1>3, PendaftarSah
  <2>5. QED
    BY <1>3, <2>1, <2>2, <2>3, <2>4, SatuAkun
<1>4. QED
  BY <1>1, <1>2, <1>3 DEF Register

LEMMA ResendOTPSah == ASSUME IInv, NEW e \in Email, ResendOTP(e) PROVE Aman
  BY KirimKodeSah, HanyaTertentu DEF ResendOTP

LEMMA VerifyOTPSah == ASSUME IInv, NEW e \in Email, VerifyOTP(e) PROVE Aman
<1>1. CASE Hanya(Tiada, IF Ada(e) /\ users[e].aktif THEN 500 ELSE 400)
  BY <1>1, HanyaTertentu
<1>2. CASE /\ Ada(e) /\ kode' = kode \ {e}
           /\ \/ Jawab(Tiada, 400) /\ UNCHANGED <<users, sesi>>
              \/ Jawab(Tiada, 500) /\ UNCHANGED <<users, sesi>>
              \/ users' = [users EXCEPT ![e].aktif = TRUE] /\ Masuk(e)
           /\ UNCHANGED <<sekolah, pendidik, jadwal, tunda, temp, gagal>>
  <2>1. kode' \subseteq Email
    BY <1>2 DEF IInv, TypeOK
  <2>2. CASE (Jawab(Tiada, 400) \/ Jawab(Tiada, 500)) /\ UNCHANGED <<users, sesi>>
    <3>1. JawabanSah'
      BY <2>2, JawabTertentu
    <3>2. SementaraSah'
      BY <1>2, <2>1, <2>2, <3>1 DEF IInv, TypeOK, SementaraSah
    <3>3. UNCHANGED tabel /\ gagal \subseteq gagal'
      BY <1>2, <2>2 DEF tabel
    <3>4. QED
      BY <3>2, <3>3, TabelTetap
  <2>3. CASE users' = [users EXCEPT ![e].aktif = TRUE] /\ Masuk(e)
    <3>1. /\ sesi' \subseteq Email /\ jawab'.kode \in {200, 500}
          /\ JawabanSah'
      BY <2>3, MasukSah
    <3>2. SementaraSah'
      BY <1>2, <2>1, <3>1 DEF IInv, TypeOK, SementaraSah
    <3>3. jawab'.kode \notin 400..499
      BY <3>1
    <3>4. PICK u \in Akun : /\ users' = [users EXCEPT ![e] = u]
                            /\ u.role = users[e].role /\ u.sandi = users[e].sandi /\ u.aktif
      BY <2>3, AkunSah
    <3>5. QED
      BY <1>2, <3>2, <3>3, <3>4, SatuAkun
  <2>4. QED
    BY <1>2, <2>2, <2>3
<1>3. QED
  BY <1>1, <1>2 DEF VerifyOTP

LEMMA MasukSaja ==
  ASSUME IInv, NEW e \in Email, Masuk(e), UNCHANGED <<tabel, redis, gagal>>
  PROVE  Aman
<1>1. /\ sesi' \subseteq Email
      /\ JawabanSah'
  BY MasukSah
<1>2. SementaraSah'
  BY <1>1 DEF IInv, TypeOK, SementaraSah, redis
<1>3. QED
  BY <1>2, TabelTetap

LEMMA LoginSah == ASSUME IInv, NEW e \in Email, NEW peran, Login(e, peran) PROVE Aman
<1>1. CASE Hanya(Tiada, 401) \/ Hanya(Tiada, 403)
  BY <1>1, HanyaTertentu
<1>2. CASE Masuk(e) /\ UNCHANGED <<tabel, redis, gagal>>
  BY <1>2, MasukSaja
<1>3. QED
  BY <1>1, <1>2 DEF Login

LEMMA InternalLoginSah == ASSUME IInv, NEW e \in Email, InternalLogin(e) PROVE Aman
<1>1. CASE Hanya(Tiada, 401)
  BY <1>1, HanyaTertentu
<1>2. CASE Jawab(Tiada, 202) /\ temp' = temp \cup {e} /\ UNCHANGED <<tabel, kode, tunda, sesi, gagal>>
  <2>1. JawabanSah'
    BY <1>2, JawabTertentu
  <2>2. temp' \subseteq Email
    BY <1>2 DEF IInv, TypeOK
  <2>3. SementaraSah'
    BY <1>2, <2>1, <2>2 DEF IInv, TypeOK, SementaraSah
  <2>4. QED
    BY <1>2, <2>3, TabelTetap
<1>3. CASE Login(e, Internal)
  BY <1>3, LoginSah
<1>4. QED
  BY <1>1, <1>2, <1>3 DEF InternalLogin

LEMMA ForceUpdatePasswordSah ==
  ASSUME IInv, NEW e \in Email, ForceUpdatePassword(e)
  PROVE  Aman
<1>1. CASE \E nomor \in {400, 401, 500} : Hanya(Tiada, nomor)
  BY <1>1, HanyaTertentu
<1>2. CASE /\ users[e].role \in Internal
           /\ users' = [users EXCEPT ![e].berganti = TRUE]
           /\ temp' \in {temp, temp \ {e}}
           /\ Masuk(e)
           /\ UNCHANGED <<sekolah, pendidik, jadwal, kode, tunda, gagal>>
  <2>1. /\ sesi' \subseteq Email /\ jawab'.kode \in {200, 500}
        /\ JawabanSah'
    BY <1>2, MasukSah
  <2>2. temp' \subseteq Email
    BY <1>2 DEF IInv, TypeOK
  <2>3. SementaraSah'
    BY <1>2, <2>1, <2>2 DEF IInv, TypeOK, SementaraSah
  <2>4. jawab'.kode \notin 400..499
    BY <2>1
  <2>5. PICK u \in Akun : /\ users' = [users EXCEPT ![e] = u]
                          /\ u.role = users[e].role /\ u.sandi = users[e].sandi
                          /\ u.aktif = users[e].aktif
    BY <1>2, AkunSah
  <2>6. Ada(e)
    BY <1>2 DEF Ada, Internal
  <2>7. QED
    BY <1>2, <2>3, <2>4, <2>5, <2>6, SatuAkun
<1>3. QED
  BY <1>1, <1>2 DEF ForceUpdatePassword

LEMMA OAuthSah == ASSUME IInv, NEW e \in Email, OAuth(e) PROVE Aman
<1>1. CASE Hanya(Tiada, 401)
  BY <1>1, HanyaTertentu
<1>2. CASE /\ users' = IF Ada(e) THEN [users EXCEPT ![e].aktif = TRUE] ELSE users
           /\ IF users[e].wa
                THEN Masuk(e) /\ UNCHANGED tunda
                ELSE /\ UNCHANGED sesi
                     /\ \/ tunda' = tunda \cup {<<e, Ada(e)>>} /\ Jawab(Tiada, 202)
                        \/ UNCHANGED tunda /\ Jawab(Tiada, 500)
           /\ UNCHANGED <<sekolah, pendidik, jadwal, kode, temp, gagal>>
  <2>1. /\ sesi' \subseteq Email
        /\ JawabanSah'
        /\ jawab'.kode \in {200, 202, 500}
    <3>1. CASE Masuk(e)
      BY <3>1, MasukSah
    <3>2. CASE UNCHANGED sesi /\ (Jawab(Tiada, 202) \/ Jawab(Tiada, 500))
      <4>1. sesi' \subseteq Email
        BY <3>2 DEF IInv, TypeOK
      <4>2. QED
        BY <3>2, <4>1, JawabTertentu
    <3>3. QED
      BY <1>2, <3>1, <3>2
  <2>2. tunda' \subseteq Email \X BOOLEAN
    <3>1. Ada(e) \in BOOLEAN
      BY DEF Ada
    <3>2. tunda \subseteq Email \X BOOLEAN
      BY DEF IInv, TypeOK
    <3>3. tunda' = tunda \/ tunda' = tunda \cup {<<e, Ada(e)>>}
      BY <1>2
    <3>4. QED
      BY <3>1, <3>2, <3>3
  <2>3. SementaraSah'
    BY <1>2, <2>1, <2>2 DEF IInv, TypeOK, SementaraSah
  <2>4. jawab'.kode \notin 400..499
    BY <2>1
  <2>5. CASE Ada(e)
    <3>1. PICK u \in Akun : /\ users' = [users EXCEPT ![e] = u]
                            /\ u.role = users[e].role /\ u.sandi = users[e].sandi /\ u.aktif
      BY <1>2, <2>5, AkunSah
    <3>2. QED
      BY <1>2, <2>3, <2>4, <2>5, <3>1, SatuAkun
  <2>6. CASE ~Ada(e)
    <3>1. UNCHANGED tabel /\ gagal \subseteq gagal'
      BY <1>2, <2>6 DEF tabel
    <3>2. QED
      BY <2>3, <3>1, TabelTetap
  <2>7. QED
    BY <2>5, <2>6
<1>3. QED
  BY <1>1, <1>2 DEF OAuth

LEMMA CompleteOAuthSah ==
  ASSUME IInv, NEW e \in Email, NEW ada \in BOOLEAN, CompleteOAuth(e, ada)
  PROVE  Aman
<1>1. tunda' \subseteq Email \X BOOLEAN
  BY DEF CompleteOAuth, IInv, TypeOK
<1>2. UNCHANGED <<sekolah, pendidik, jadwal, kode, temp, gagal>>
  BY DEF CompleteOAuth
<1>3. CASE (Jawab(Tiada, 409) \/ Jawab(Tiada, 500)) /\ UNCHANGED <<users, sesi>>
  <2>1. JawabanSah'
    BY <1>3, JawabTertentu
  <2>2. SementaraSah'
    BY <1>1, <1>2, <1>3, <2>1 DEF IInv, TypeOK, SementaraSah
  <2>3. UNCHANGED tabel /\ gagal \subseteq gagal'
    BY <1>2, <1>3 DEF tabel
  <2>4. QED
    BY <2>2, <2>3, TabelTetap
<1>4. CASE /\ ada \/ ~Ada(e)
           /\ users' = [users EXCEPT ![e] =
                IF ada THEN [@ EXCEPT !.aktif = TRUE, !.wa = TRUE]
                ELSE [Pendaftar EXCEPT !.aktif = TRUE, !.sandi = FALSE]]
           /\ Masuk(e)
  <2>1. /\ sesi' \subseteq Email /\ jawab'.kode \in {200, 500}
        /\ JawabanSah'
    BY <1>4, MasukSah
  <2>2. SementaraSah'
    BY <1>1, <1>2, <2>1 DEF IInv, TypeOK, SementaraSah
  <2>3. jawab'.kode \notin 400..499
    BY <2>1
  <2>4. CASE ada
    <3> DEFINE u == [users[e] EXCEPT !.aktif = TRUE, !.wa = TRUE]
    <3>1. u \in Akun /\ u.role = users[e].role /\ u.sandi = users[e].sandi /\ u.aktif
      BY AkunSah DEF Akun
    <3>2. users' = [users EXCEPT ![e] = u]
      BY <1>4, <2>4
    <3>3. ~Ada(e) => u.role \notin Internal
      BY <3>1 DEF Ada, Internal
    <3>4. QED
      <4> HIDE DEF u
      <4> QED BY <1>2, <2>2, <2>3, <3>1, <3>2, <3>3, SatuAkun
  <2>5. CASE ~ada
    <3>1. users' = [users EXCEPT ![e] = [Pendaftar EXCEPT !.aktif = TRUE, !.sandi = FALSE]]
      BY <1>4, <2>5
    <3>2. QED
      BY <1>2, <1>4, <2>2, <2>3, <2>5, <3>1, PendaftarSah, SatuAkun
  <2>6. QED
    BY <2>4, <2>5
<1>5. QED
  BY <1>3, <1>4 DEF CompleteOAuth

LEMMA LogoutSah == ASSUME IInv, NEW e \in Email, Logout(e) PROVE Aman
<1>1. JawabanSah'
  BY JawabTertentu DEF Logout
<1>2. SementaraSah'
  BY <1>1 DEF Logout, redis, IInv, TypeOK, SementaraSah
<1>3. QED
  BY <1>2, TabelTetap DEF Logout

LEMMA UsangSah == ASSUME IInv, Usang PROVE Aman
<1>1. UNCHANGED <<tabel, jawab, gagal>>
  BY DEF Usang
<1>2. /\ sesi' \subseteq sesi /\ kode' \subseteq kode /\ tunda' \subseteq tunda /\ temp' \subseteq temp
  BY DEF Usang, redis
<1>3. SementaraSah'
  BY <1>1, <1>2 DEF IInv, TypeOK, SementaraSah, JawabanSah
<1>4. QED
  BY <1>1, <1>3, TabelTetap


----------------------------------------------------------------------------
(* Schools.                                                                *)

LEMMA BolehSah ==
  ASSUME NEW a, NEW grup, Boleh(a, grup)
  PROVE  /\ grup = "sekolah" => users[a].role = "admin_sekolah"
         /\ grup = "verifikasi" => users[a].role = "super_admin"
  BY DEF Boleh, PeranRute

\* A row that had no administrator changes, and still has none.
LEMMA SekolahSaja ==
  ASSUME IInv, NEW s \in SekolahID, NEW b \in Baris,
         sekolah' = [sekolah EXCEPT ![s] = b],
         UNCHANGED <<users, pendidik, jadwal, redis, sesi, gagal>>,
         b.admin = sekolah[s].admin, b.email \in Email,
         <<sekolah[s].status, b.status>> \in
           {<<"tidak_ada", "pengajuan">>, <<"pengajuan", "menunggu_verifikasi">>,
            <<"pengajuan", "ditolak">>, <<"menunggu_verifikasi", "ditolak">>},
         JawabanSah', jawab'.kode \notin 400..499,
         sekolah[s].status = "tidak_ada" \/ jawab'.peran = "super_admin"
  PROVE  Aman
<1>1. TabelSah /\ SementaraSah /\ SekolahSah /\ Rujukan /\ DataLengkap
  BY TypeUraian DEF IInv
<1>2. sekolah'[s] = b /\ \A t \in SekolahID : t # s => sekolah'[t] = sekolah[t]
  BY <1>1 DEF TabelSah
<1>3. /\ \A t \in SekolahID : sekolah'[t].admin = sekolah[t].admin
      /\ users' = users /\ pendidik' = pendidik /\ jadwal' = jadwal /\ gagal' = gagal
  BY <1>2
<1>4. Guru' = Guru /\ \A f : SekolahAdmin(f)' = SekolahAdmin(f)
  BY <1>3 DEF Guru, SekolahAdmin
<1>5. b.status \in {"pengajuan", "menunggu_verifikasi", "ditolak"} /\ sekolah[s].status # "aktif"
  OBVIOUS
<1>6. TypeOK'
  <2>1. TabelSah'
    BY <1>1, <1>3 DEF TabelSah
  <2>2. SementaraSah'
    BY <1>1, <1>3 DEF SementaraSah, redis
  <2>3. QED
    BY <2>1, <2>2 DEF TypeOK, TabelSah, SementaraSah, JawabanSah
<1>7. SekolahSah'
  BY <1>1, <1>2, <1>5 DEF SekolahSah
<1>8. Rujukan'
  <2>1. \A e \in Guru : pendidik[e] \in SekolahID
    BY <1>1 DEF Guru, TabelSah
  <2>2. QED
    BY <1>1, <1>3, <1>4, <2>1 DEF Rujukan
<1>9. DataLengkap'
  BY <1>1, <1>3, <1>4 DEF DataLengkap
<1>10. PeranSah /\ RefusalSah
  BY <1>2, <1>3 DEF PeranSah, RefusalSah
<1>11. BuntuSah
  BY <1>2, <1>5 DEF BuntuSah
<1>12. QED
  BY <1>6, <1>7, <1>8, <1>9, <1>10, <1>11 DEF Aman, IInv

LEMMA PengajuanBaruSah ==
  ASSUME IInv, NEW a \in Email, NEW e \in Email, PengajuanBaru(a, e)
  PROVE  Aman
<1>1. CASE Hanya(a, 409)
  BY <1>1, HanyaTertentu
<1>2. CASE /\ \E s \in SekolahID :
                /\ sekolah[s].status = "tidak_ada"
                /\ sekolah' = [sekolah EXCEPT ![s] =
                     [status |-> "pengajuan", email |-> e, admin |-> Tiada]]
           /\ Jawab(a, 201)
           /\ UNCHANGED <<users, pendidik, jadwal, redis, sesi, gagal>>
  <2>1. PICK s \in SekolahID :
          /\ sekolah[s].status = "tidak_ada"
          /\ sekolah' = [sekolah EXCEPT ![s] =
               [status |-> "pengajuan", email |-> e, admin |-> Tiada]]
    BY <1>2
  <2> DEFINE b == [status |-> "pengajuan", email |-> e, admin |-> Tiada]
  <2>2. b \in Baris /\ b.admin = Tiada /\ b.email \in Email /\ b.status = "pengajuan"
    BY DEF Baris, Status
  <2>3. sekolah[s].admin = Tiada
    BY <2>1 DEF IInv, SekolahSah
  <2>4. 201 \in 200..500 /\ 201 \notin 400..499
    OBVIOUS
  <2>5. JawabanSah' /\ jawab'.kode \notin 400..499
    BY <1>2, <2>4, JawabSah
  <2>6. sekolah' = [sekolah EXCEPT ![s] = b]
    BY <2>1
  <2>7. QED
    <3> HIDE DEF b
    <3> QED BY <1>2, <2>1, <2>2, <2>3, <2>5, <2>6, SekolahSaja
<1>3. QED
  BY <1>1, <1>2 DEF PengajuanBaru

\* No school that has an administrator was rejected: nobody gets to submit again.
LEMMA PengajuanUlangSah ==
  ASSUME IInv, NEW a \in Email, NEW e \in Email, PengajuanUlang(a, e)
  PROVE  Aman
<1>1. {s \in SekolahAdmin(a) : sekolah[s].status = "ditolak"} = {}
  BY EmailBukanTiada DEF IInv, SekolahSah, SekolahAdmin
<1>2. Hanya(a, 404) \/ Hanya(a, 400)
  BY <1>1 DEF PengajuanUlang
<1>3. QED
  BY <1>2, HanyaTertentu


LEMMA PetugasSah ==
  ASSUME NEW role \in Role
  PROVE  /\ Petugas(role) \in Akun /\ Petugas(role).role = role
         /\ Petugas(role).aktif /\ Petugas(role).sandi
         /\ \A sandi \in BOOLEAN :
              /\ [Petugas(role) EXCEPT !.sandi = sandi] \in Akun
              /\ [Petugas(role) EXCEPT !.sandi = sandi].role = role
  BY DEF Petugas, Akun

\* The account and the row of an approved school.
LEMMA DisetujuiSah ==
  ASSUME IInv, NEW s \in SekolahID, sekolah[s].status = "menunggu_verifikasi",
         NEW e, e = sekolah[s].email, ~Ada(e),
         users' = [users EXCEPT ![e] = Petugas("admin_sekolah")],
         sekolah' = [sekolah EXCEPT ![s] = Disetujui(@)],
         UNCHANGED <<pendidik, jadwal, redis, sesi, gagal>>,
         JawabanSah', jawab'.kode \notin 400..499, jawab'.peran = "super_admin"
  PROVE  Aman
<1> DEFINE b == Disetujui(sekolah[s])
           u == Petugas("admin_sekolah")
<1>1. TabelSah /\ SementaraSah /\ SekolahSah /\ Rujukan /\ DataLengkap
  BY TypeUraian DEF IInv
<1>2. e \in Email /\ e # Tiada /\ sekolah[s] \in Baris /\ sekolah[s].admin = Tiada
  <2>1. e \in Email /\ sekolah[s] \in Baris /\ sekolah[s].admin = Tiada
    BY <1>1 DEF SekolahSah, TabelSah
  <2>2. QED
    BY <2>1, EmailBukanTiada
<1>3. b \in Baris /\ b.status = "aktif" /\ b.admin = e /\ b.email = e
  BY <1>2 DEF Disetujui, Baris, Status
<1>4. u \in Akun /\ u.role = "admin_sekolah" /\ u.aktif /\ u.sandi
  <2>1. "admin_sekolah" \in Role
    BY DEF Role
  <2>2. QED
    BY <2>1, PetugasSah
<1>5. sekolah' = [sekolah EXCEPT ![s] = b] /\ users' = [users EXCEPT ![e] = u]
  OBVIOUS
<1> HIDE DEF b, u
<1>6. /\ sekolah'[s] = b /\ \A t \in SekolahID : t # s => sekolah'[t] = sekolah[t]
      /\ users'[e] = u /\ \A f \in Email : f # e => users'[f] = users[f]
  BY <1>1, <1>2, <1>5 DEF TabelSah
<1>7. pendidik' = pendidik /\ jadwal' = jadwal /\ gagal' = gagal /\ Guru' = Guru
  BY DEF Guru
<1>8. \A f : f # Tiada => SekolahAdmin(f) \subseteq SekolahAdmin(f)'
  BY <1>2, <1>6 DEF SekolahAdmin
<1>9. \A t \in SekolahID : sekolah[t].admin # e
  BY <1>1, <1>2 DEF Rujukan, Ada
<1>10. TypeOK'
  <2>1. TabelSah'
    BY <1>1, <1>2, <1>3, <1>4, <1>5, <1>7 DEF TabelSah
  <2>2. SementaraSah'
    BY <1>1 DEF SementaraSah, redis
  <2>3. QED
    BY <2>1, <2>2 DEF TypeOK, TabelSah, SementaraSah, JawabanSah
<1>11. SekolahSah'
  BY <1>1, <1>2, <1>3, <1>6 DEF SekolahSah
<1>12. Rujukan'
  <2>1. ASSUME NEW f \in Guru
        PROVE  /\ users'[f].role = "tenaga_pendidik" /\ users'[f].aktif
               /\ sekolah'[pendidik[f]].admin # Tiada
    <3>1. /\ f \in Email /\ users[f].role = "tenaga_pendidik" /\ users[f].aktif
          /\ sekolah[pendidik[f]].admin # Tiada /\ pendidik[f] \in SekolahID
      BY <1>1, <2>1 DEF Rujukan, Guru, TabelSah
    <3>2. f # e
      BY <3>1 DEF Ada
    <3>3. QED
      BY <1>2, <1>6, <3>1, <3>2
  <2>2. ASSUME NEW t \in SekolahID, sekolah'[t].admin # Tiada
        PROVE  users'[sekolah'[t].admin].role = "admin_sekolah"
    <3>1. CASE t = s
      BY <1>3, <1>4, <1>6, <3>1
    <3>2. CASE t # s
      <4>1. /\ sekolah'[t] = sekolah[t] /\ sekolah[t].admin \in Email
            /\ users[sekolah[t].admin].role = "admin_sekolah"
        BY <1>1, <1>6, <2>2, <3>2 DEF Rujukan, TabelSah, Baris
      <4>2. QED
        BY <1>6, <1>9, <4>1
    <3>3. QED
      BY <3>1, <3>2
  <2>3. \A p \in DOMAIN jadwal : jadwal[p] # Tiada => pendidik[jadwal[p]] = p[1]
    BY <1>1 DEF Rujukan
  <2>4. QED
    BY <1>7, <2>1, <2>2, <2>3 DEF Rujukan
<1>13. DataLengkap'
  <2>1. ASSUME NEW f \in Email, f \notin gagal
        PROVE  /\ users'[f].role = "tenaga_pendidik" => f \in Guru
               /\ users'[f].role = "admin_sekolah" => SekolahAdmin(f)' # {}
               /\ users'[f].role \in Internal => users'[f].sandi
    <3>1. CASE f = e
      <4>1. s \in SekolahAdmin(e)'
        BY <1>3, <1>6 DEF SekolahAdmin
      <4>2. QED
        BY <1>4, <1>6, <3>1, <4>1
    <3>2. CASE f # e
      <4>1. /\ users[f].role = "tenaga_pendidik" => f \in Guru
            /\ users[f].role = "admin_sekolah" => SekolahAdmin(f) # {}
            /\ users[f].role \in Internal => users[f].sandi
        BY <1>1, <2>1 DEF DataLengkap
      <4>2. f # Tiada
        BY EmailBukanTiada
      <4>3. QED
        BY <1>6, <1>8, <3>2, <4>1, <4>2
    <3>3. QED
      BY <3>1, <3>2
  <2>2. QED
    BY <1>7, <2>1 DEF DataLengkap
<1>14. PeranSah /\ RefusalSah
  BY <1>7 DEF PeranSah, RefusalSah
<1>15. BuntuSah
  BY <1>1, <1>3, <1>5 DEF BuntuSah
<1>16. QED
  BY <1>10, <1>11, <1>12, <1>13, <1>14, <1>15 DEF Aman, IInv

LEMMA AktifkanSah ==
  ASSUME IInv, NEW a \in Email, users[a].role = "super_admin", NEW s \in SekolahID,
         sekolah[s].status = "menunggu_verifikasi", Aktifkan(a, s)
  PROVE  Aman
<1> DEFINE e == sekolah[s].email
<1>1. e \in Email
  BY DEF IInv, SekolahSah
<1>2. CASE Hanya(a, 500)
  BY <1>2, HanyaTertentu
<1>3. CASE /\ ~Ada(e)
           /\ \E dikirim \in BOOLEAN :
                users' = [users EXCEPT ![e] = [Petugas("admin_sekolah") EXCEPT !.sandi = dikirim]]
           /\ Jawab(a, 500) /\ gagal' = gagal \cup {e} /\ UNCHANGED sekolah
           /\ UNCHANGED <<pendidik, jadwal, redis, sesi>>
  <2>1. 500 \in 200..500 /\ 500 \notin 400..499
    OBVIOUS
  <2>2. JawabanSah' /\ jawab'.kode \notin 400..499
    BY <1>3, <2>1, JawabSah
  <2>3. gagal \subseteq gagal' /\ gagal' \subseteq Email /\ e \in gagal'
    BY <1>1, <1>3 DEF IInv, TypeOK
  <2>4. SementaraSah'
    BY <1>3, <2>2, <2>3 DEF IInv, TypeOK, SementaraSah, redis
  <2>5. "admin_sekolah" \in Role
    BY DEF Role
  <2>6. PICK u \in Akun : users' = [users EXCEPT ![e] = u]
    BY <1>3, <2>5, PetugasSah
  <2>7. QED
    <3> HIDE DEF e
    <3> QED BY <1>1, <1>3, <2>2, <2>3, <2>4, <2>6, SatuAkun
<1>4. CASE /\ ~Ada(e)
           /\ users' = [users EXCEPT ![e] = Petugas("admin_sekolah")]
           /\ sekolah' = [sekolah EXCEPT ![s] = Disetujui(@)]
           /\ Jawab(a, 200) /\ UNCHANGED gagal
           /\ UNCHANGED <<pendidik, jadwal, redis, sesi>>
  <2>1. 200 \in 200..500 /\ 200 \notin 400..499 /\ a # Tiada
    BY EmailBukanTiada
  <2>2. JawabanSah' /\ jawab'.kode \notin 400..499 /\ jawab'.peran = "super_admin"
    BY <1>4, <2>1, JawabSah
  <2>3. QED
    BY <1>4, <2>2, DisetujuiSah
<1>5. QED
  BY <1>2, <1>3, <1>4 DEF Aktifkan

LEMMA VerifikasiSah ==
  ASSUME IInv, NEW a \in Email, NEW s \in SekolahID,
         NEW baru \in {"menunggu_verifikasi", "aktif", "ditolak"}, Verifikasi(a, s, baru)
  PROVE  Aman
<1> DEFINE lama == sekolah[s].status
<1>1. users[a].role = "super_admin"
  BY BolehSah DEF Verifikasi
<1>2. /\ lama \in Status \cup {"tidak_ada"} /\ lama # "nonaktif" /\ sekolah[s] \in Baris
      /\ lama # "tidak_ada" => sekolah[s].email \in Email
  BY DEF IInv, TypeOK, SekolahSah, Baris
<1>3. CASE Hanya(a, 404) \/ Hanya(a, 400)
  BY <1>3, HanyaTertentu
<1>4. CASE lama = "menunggu_verifikasi" /\ baru = "aktif" /\ Aktifkan(a, s)
  BY <1>1, <1>4, AktifkanSah
<1>5. CASE /\ lama # "tidak_ada" /\ baru \in validStatusTransitions[lama]
           /\ ~(lama = "menunggu_verifikasi" /\ baru = "aktif")
           /\ sekolah' = [sekolah EXCEPT ![s].status = baru]
           /\ Jawab(a, 200)
           /\ UNCHANGED <<users, pendidik, jadwal, redis, sesi, gagal>>
  <2> DEFINE b == [sekolah[s] EXCEPT !.status = baru]
  <2>1. <<lama, baru>> \in {<<"pengajuan", "menunggu_verifikasi">>, <<"pengajuan", "ditolak">>,
                            <<"menunggu_verifikasi", "ditolak">>}
    <3>1. CASE lama = "pengajuan"
      BY <1>5, <3>1 DEF validStatusTransitions
    <3>2. CASE lama = "menunggu_verifikasi"
      BY <1>5, <3>2 DEF validStatusTransitions
    <3>3. CASE lama \in {"aktif", "ditolak"}
      BY <1>5, <3>3 DEF validStatusTransitions
    <3>4. QED
      BY <1>2, <1>5, <3>1, <3>2, <3>3 DEF Status
  <2>2. b \in Baris /\ b.status = baru /\ b.admin = sekolah[s].admin /\ b.email = sekolah[s].email
    BY <1>2 DEF Baris, Status
  <2>3. sekolah' = [sekolah EXCEPT ![s] = b]
    BY <1>5
  <2>4. 200 \in 200..500 /\ 200 \notin 400..499 /\ a # Tiada
    BY EmailBukanTiada
  <2>5. JawabanSah' /\ jawab'.kode \notin 400..499 /\ jawab'.peran = "super_admin"
    BY <1>1, <1>5, <2>4, JawabSah
  <2>6. b.email \in Email
    BY <1>2, <1>5, <2>2
  <2>7. QED
    <3> HIDE DEF b
    <3> QED BY <1>5, <2>1, <2>2, <2>3, <2>5, <2>6, SekolahSaja
<1> DEFINE boleh == validStatusTransitions[lama]
<1>0. (CASE lama = "tidak_ada" -> Hanya(a, 404)
        [] lama # "tidak_ada" /\ baru \notin boleh -> Hanya(a, 400)
        [] lama = "menunggu_verifikasi" /\ baru = "aktif" -> Aktifkan(a, s)
        [] OTHER -> /\ sekolah' = [sekolah EXCEPT ![s].status = baru]
                    /\ Jawab(a, 200)
                    /\ UNCHANGED <<users, pendidik, jadwal, redis, sesi, gagal>>)
  BY DEF Verifikasi
<1>00. lama = "menunggu_verifikasi" => "aktif" \in boleh
  BY DEF validStatusTransitions
<1> HIDE DEF lama, boleh
<1>6. CASE lama = "tidak_ada"
  <2>1. Hanya(a, 404)
    BY <1>0, <1>6
  <2>2. QED
    BY <1>3, <2>1
<1>7. CASE lama # "tidak_ada" /\ baru \notin boleh
  <2>1. Hanya(a, 400)
    BY <1>0, <1>00, <1>7
  <2>2. QED
    BY <1>3, <2>1
<1>8. CASE /\ lama = "menunggu_verifikasi" /\ baru = "aktif"
           /\ baru \in boleh
  <2>1. Aktifkan(a, s)
    BY <1>0, <1>8
  <2>2. QED
    BY <1>4, <1>8, <2>1
<1>9. CASE /\ lama # "tidak_ada" /\ baru \in boleh
           /\ ~(lama = "menunggu_verifikasi" /\ baru = "aktif")
  <2>1. /\ sekolah' = [sekolah EXCEPT ![s].status = baru]
        /\ Jawab(a, 200)
        /\ UNCHANGED <<users, pendidik, jadwal, redis, sesi, gagal>>
    BY <1>0, <1>9
  <2>2. QED
    BY <1>5, <1>9, <2>1 DEF boleh
<1>10. QED
  BY <1>6, <1>7, <1>8, <1>9


----------------------------------------------------------------------------
(* Teachers and lessons.                                                   *)

\* A teacher is stored with its account, for the school of an administrator.
LEMMA PendidikBaru ==
  ASSUME IInv, NEW e \in Email, ~Ada(e), NEW s \in SekolahID, sekolah[s].admin # Tiada,
         users' = [users EXCEPT ![e] = Petugas("tenaga_pendidik")],
         pendidik' = [pendidik EXCEPT ![e] = s],
         UNCHANGED <<sekolah, jadwal, redis, sesi, gagal>>,
         JawabanSah', jawab'.kode \notin 400..499, jawab'.peran = "admin_sekolah"
  PROVE  Aman
<1> DEFINE u == Petugas("tenaga_pendidik")
<1>1. TabelSah /\ SementaraSah /\ SekolahSah /\ Rujukan /\ DataLengkap
  BY TypeUraian DEF IInv
<1>2. u \in Akun /\ u.role = "tenaga_pendidik" /\ u.aktif /\ u.sandi
  <2>1. "tenaga_pendidik" \in Role
    BY DEF Role
  <2>2. QED
    BY <2>1, PetugasSah
<1>3. users' = [users EXCEPT ![e] = u]
  OBVIOUS
<1> HIDE DEF u
<1>4. /\ users'[e] = u /\ \A f \in Email : f # e => users'[f] = users[f]
      /\ pendidik'[e] = s /\ \A f \in Email : f # e => pendidik'[f] = pendidik[f]
  BY <1>1, <1>3 DEF TabelSah
<1>5. /\ sekolah' = sekolah /\ jadwal' = jadwal /\ gagal' = gagal
      /\ \A f : SekolahAdmin(f)' = SekolahAdmin(f)
  BY DEF SekolahAdmin
<1>6. s # Tiada
  BY SekolahBukanTiada
<1>7. e \notin Guru
  BY <1>1 DEF Rujukan, Ada
<1>8. Guru' = Guru \cup {e}
  BY <1>4, <1>6 DEF Guru
<1>9. TypeOK'
  <2>1. TabelSah'
    BY <1>1, <1>2, <1>3, <1>5 DEF TabelSah
  <2>2. SementaraSah'
    BY <1>1 DEF SementaraSah, redis
  <2>3. QED
    BY <2>1, <2>2 DEF TypeOK, TabelSah, SementaraSah, JawabanSah
<1>10. SekolahSah'
  BY <1>1, <1>5 DEF SekolahSah
<1>11. Rujukan'
  <2>1. ASSUME NEW f \in Guru'
        PROVE  /\ users'[f].role = "tenaga_pendidik" /\ users'[f].aktif
               /\ sekolah'[pendidik'[f]].admin # Tiada
    <3>1. CASE f = e
      BY <1>2, <1>4, <1>5, <3>1
    <3>2. CASE f # e
      <4>1. f \in Guru /\ f \in Email
        BY <1>8, <2>1, <3>2 DEF Guru
      <4>2. QED
        BY <1>1, <1>4, <1>5, <3>2, <4>1 DEF Rujukan
    <3>3. QED
      BY <3>1, <3>2
  <2>2. ASSUME NEW t \in SekolahID, sekolah[t].admin # Tiada
        PROVE  users'[sekolah[t].admin].role = "admin_sekolah"
    <3>1. sekolah[t].admin \in Email /\ users[sekolah[t].admin].role = "admin_sekolah"
      BY <1>1, <2>2 DEF Rujukan, TabelSah, Baris
    <3>2. sekolah[t].admin # e
      BY <3>1 DEF Ada
    <3>3. QED
      BY <1>4, <3>1, <3>2
  <2>3. ASSUME NEW p \in DOMAIN jadwal, jadwal[p] # Tiada
        PROVE  pendidik'[jadwal[p]] = p[1]
    <3>1. pendidik[jadwal[p]] = p[1] /\ p[1] \in SekolahID /\ jadwal[p] \in Email
      BY <1>1, <2>3 DEF Rujukan, TabelSah
    <3>2. p[1] # Tiada
      BY <3>1, SekolahBukanTiada
    <3>3. jadwal[p] \in Guru
      BY <3>1, <3>2 DEF Guru
    <3>4. jadwal[p] # e
      BY <1>7, <3>3
    <3>5. QED
      BY <1>4, <3>1, <3>4
  <2>4. QED
    BY <1>5, <2>1, <2>2, <2>3 DEF Rujukan
<1>12. DataLengkap'
  <2>1. ASSUME NEW f \in Email, f \notin gagal
        PROVE  /\ users'[f].role = "tenaga_pendidik" => f \in Guru'
               /\ users'[f].role = "admin_sekolah" => SekolahAdmin(f) # {}
               /\ users'[f].role \in Internal => users'[f].sandi
    <3>1. CASE f = e
      BY <1>2, <1>4, <1>8, <3>1
    <3>2. CASE f # e
      BY <1>1, <1>4, <1>8, <2>1, <3>2 DEF DataLengkap
    <3>3. QED
      BY <3>1, <3>2
  <2>2. QED
    BY <1>5, <2>1 DEF DataLengkap
<1>13. PeranSah /\ RefusalSah
  BY <1>5 DEF PeranSah, RefusalSah
<1>14. QED
  BY <1>5, <1>9, <1>10, <1>11, <1>12, <1>13, BuntuTetap DEF Aman, IInv

LEMMA TambahPendidikSah ==
  ASSUME IInv, NEW a \in Email, NEW e \in Email, TambahPendidik(a, e)
  PROVE  Aman
<1>1. users[a].role = "admin_sekolah" /\ a # Tiada
  BY BolehSah, EmailBukanTiada DEF TambahPendidik
<1>2. CASE Hanya(a, 500) \/ Hanya(a, 409)
  BY <1>2, HanyaTertentu
<1>3. CASE /\ ~Ada(e)
           /\ users' = [users EXCEPT ![e] = [Petugas("tenaga_pendidik") EXCEPT !.sandi = FALSE]]
           /\ Jawab(a, 500) /\ gagal' = gagal \cup {e}
           /\ UNCHANGED <<sekolah, pendidik, jadwal, redis, sesi>>
  <2>1. 500 \in 200..500 /\ 500 \notin 400..499
    OBVIOUS
  <2>2. JawabanSah' /\ jawab'.kode \notin 400..499
    BY <1>3, <2>1, JawabSah
  <2>3. gagal \subseteq gagal' /\ gagal' \subseteq Email /\ e \in gagal'
    BY <1>3 DEF IInv, TypeOK
  <2>4. SementaraSah'
    BY <1>3, <2>2, <2>3 DEF IInv, TypeOK, SementaraSah, redis
  <2>5. "tenaga_pendidik" \in Role
    BY DEF Role
  <2>6. PICK u \in Akun : users' = [users EXCEPT ![e] = u]
    BY <1>3, <2>5, PetugasSah
  <2>7. QED
    BY <1>3, <2>2, <2>3, <2>4, <2>6, SatuAkun
<1>4. CASE /\ ~Ada(e)
           /\ users' = [users EXCEPT ![e] = Petugas("tenaga_pendidik")]
           /\ \E s \in SekolahAdmin(a) : pendidik' = [pendidik EXCEPT ![e] = s]
           /\ Jawab(a, 201)
           /\ UNCHANGED <<sekolah, jadwal, redis, sesi, gagal>>
  <2>1. 201 \in 200..500 /\ 201 \notin 400..499
    OBVIOUS
  <2>2. JawabanSah' /\ jawab'.kode \notin 400..499 /\ jawab'.peran = "admin_sekolah"
    BY <1>1, <1>4, <2>1, JawabSah
  <2>3. PICK s \in SekolahID : sekolah[s].admin = a /\ pendidik' = [pendidik EXCEPT ![e] = s]
    BY <1>4 DEF SekolahAdmin
  <2>4. QED
    BY <1>1, <1>4, <2>2, <2>3, PendidikBaru
<1>5. QED
  <2>1. CASE SekolahAdmin(a) = {}
    BY <1>2, <2>1 DEF TambahPendidik
  <2>2. CASE SekolahAdmin(a) # {} /\ Ada(e)
    BY <1>2, <2>2 DEF TambahPendidik
  <2>3. CASE SekolahAdmin(a) # {} /\ ~Ada(e)
    BY <1>2, <1>3, <1>4, <2>3 DEF TambahPendidik
  <2>4. QED
    BY <2>1, <2>2, <2>3

LEMMA MenjadwalSah ==
  ASSUME IInv, NEW a \in Email, users[a].role = "admin_sekolah", NEW baru,
         NEW nomor, nomor \in 200..500, nomor \notin 400..499, Menjadwal(a, baru, nomor)
  PROVE  /\ jadwal' = baru
         /\ UNCHANGED <<users, sekolah, pendidik, redis, sesi, gagal>>
         /\ JawabanSah' /\ jawab'.kode \notin 400..499 /\ jawab'.peran = "admin_sekolah"
<1>1. Jawab(a, nomor) /\ a \in Email \cup {Tiada} /\ a # Tiada
  BY EmailBukanTiada DEF Menjadwal
<1>2. JawabanSah' /\ jawab'.peran = "admin_sekolah"
  BY <1>1, JawabSah
<1>3. jawab'.kode = nomor
  BY <1>1, JawabSah
<1>4. jawab'.kode \notin 400..499
  BY <1>3
<1>5. QED
  BY <1>2, <1>4 DEF Menjadwal

\* Lessons change, each of a school and of a teacher of that school.
LEMMA JadwalSaja ==
  ASSUME IInv,
         NEW baru \in [SekolahID \X Slot -> Email \cup {Tiada}], jadwal' = baru,
         \A p \in SekolahID \X Slot : baru[p] # Tiada => pendidik[baru[p]] = p[1],
         UNCHANGED <<users, sekolah, pendidik, redis, sesi, gagal>>,
         JawabanSah', jawab'.kode \notin 400..499, jawab'.peran = "admin_sekolah"
  PROVE  Aman
<1>1. TabelSah /\ SementaraSah /\ SekolahSah /\ Rujukan /\ DataLengkap
  BY TypeUraian DEF IInv
<1>2. /\ users' = users /\ sekolah' = sekolah /\ pendidik' = pendidik /\ gagal' = gagal
      /\ jadwal' = baru /\ Guru' = Guru /\ \A f : SekolahAdmin(f)' = SekolahAdmin(f)
  BY DEF Guru, SekolahAdmin
<1>5. TypeOK'
  <2>1. TabelSah'
    BY <1>1, <1>2 DEF TabelSah
  <2>2. SementaraSah'
    BY <1>1 DEF SementaraSah, redis
  <2>3. QED
    BY <2>1, <2>2 DEF TypeOK, TabelSah, SementaraSah, JawabanSah
<1>6. SekolahSah'
  BY <1>1, <1>2 DEF SekolahSah
<1>7. Rujukan'
  BY <1>1, <1>2 DEF Rujukan
<1>8. DataLengkap'
  BY <1>1, <1>2 DEF DataLengkap
<1>9. PeranSah /\ RefusalSah
  BY <1>2 DEF PeranSah, RefusalSah
<1>10. QED
  BY <1>2, <1>5, <1>6, <1>7, <1>8, <1>9, BuntuTetap DEF Aman, IInv

\* The lessons of IInv, as functions.
LEMMA JadwalIsi ==
  ASSUME IInv
  PROVE  /\ jadwal \in [SekolahID \X Slot -> Email \cup {Tiada}]
         /\ \A p \in SekolahID \X Slot : jadwal[p] # Tiada => pendidik[jadwal[p]] = p[1]
  BY DEF IInv, TypeOK, Rujukan

LEMMA SekolahSayaSah ==
  ASSUME NEW a, NEW s \in SekolahSaya(a)
  PROVE  s \in SekolahID /\ users[a].role = "admin_sekolah"
  BY BolehSah DEF SekolahSaya, SekolahAdmin

LEMMA TambahJadwalSah ==
  ASSUME IInv, NEW a \in Email, NEW e \in Email, NEW w \in Slot, TambahJadwal(a, e, w)
  PROVE  Aman
<1>1. CASE \E nomor \in {404, 409, 500} : Hanya(a, nomor)
  BY <1>1, HanyaTertentu
<1>2. ASSUME NEW s \in SekolahSaya(a), e \in Guru, pendidik[e] = s,
             Menjadwal(a, [jadwal EXCEPT ![<<s, w>>] = e], 201)
      PROVE  Aman
  <2> DEFINE baru == [jadwal EXCEPT ![<<s, w>>] = e]
  <2>1. s \in SekolahID /\ users[a].role = "admin_sekolah"
    BY SekolahSayaSah
  <2>2. /\ baru \in [SekolahID \X Slot -> Email \cup {Tiada}]
        /\ \A p \in SekolahID \X Slot : baru[p] = IF p = <<s, w>> THEN e ELSE jadwal[p]
    BY <2>1, JadwalIsi
  <2>3. /\ jadwal' = baru
        /\ UNCHANGED <<users, sekolah, pendidik, redis, sesi, gagal>>
        /\ JawabanSah' /\ jawab'.kode \notin 400..499 /\ jawab'.peran = "admin_sekolah"
    <3>1. Menjadwal(a, baru, 201)
      BY <1>2
    <3>2. 201 \in 200..500 /\ 201 \notin 400..499
      OBVIOUS
    <3>3. QED
      <4> HIDE DEF baru
      <4> QED BY <2>1, <3>1, <3>2, MenjadwalSah
  <2>4. \A p \in SekolahID \X Slot : baru[p] # Tiada => pendidik[baru[p]] = p[1]
    <3> HIDE DEF baru
    <3> QED BY <1>2, <2>2, JadwalIsi
  <2>5. QED
    <3> HIDE DEF baru
    <3> QED BY <2>1, <2>2, <2>3, <2>4, JadwalSaja
<1>3. CASE TanpaSekolah(a)
  BY <1>1, <1>3 DEF TanpaSekolah
<1>4. ASSUME NEW s \in SekolahSaya(a),
             CASE e \notin Guru -> Hanya(a, 404)
               [] e \in Guru /\ pendidik[e] # s -> Hanya(a, 500)
               [] e \in Guru /\ pendidik[e] = s /\ jadwal[<<s, w>>] # Tiada -> Hanya(a, 409)
               [] OTHER -> Menjadwal(a, [jadwal EXCEPT ![<<s, w>>] = e], 201)
      PROVE  Aman
  <2>1. CASE e \notin Guru
    BY <1>1, <1>4, <2>1
  <2>2. CASE e \in Guru /\ pendidik[e] # s
    BY <1>1, <1>4, <2>2
  <2>3. CASE e \in Guru /\ pendidik[e] = s /\ jadwal[<<s, w>>] # Tiada
    BY <1>1, <1>4, <2>3
  <2>4. CASE e \in Guru /\ pendidik[e] = s /\ ~(jadwal[<<s, w>>] # Tiada)
    BY <1>2, <1>4, <2>4
  <2>5. QED
    BY <2>1, <2>2, <2>3, <2>4
<1>5. QED
  BY <1>3, <1>4 DEF TambahJadwal

LEMMA UpdateJadwalSah ==
  ASSUME IInv, NEW a \in Email, NEW t \in SekolahID, NEW w \in Slot, NEW w2 \in Slot,
         UpdateJadwal(a, t, w, w2)
  PROVE  Aman
<1>1. CASE \E nomor \in {400, 409, 500} : Hanya(a, nomor)
  BY <1>1, HanyaTertentu
<1>2. ASSUME NEW s \in SekolahSaya(a),
             Menjadwal(a, [jadwal EXCEPT ![<<t, w>>] = Tiada, ![<<t, w2>>] = jadwal[<<t, w>>]], 200)
      PROVE  Aman
  <2> DEFINE baru == [jadwal EXCEPT ![<<t, w>>] = Tiada, ![<<t, w2>>] = jadwal[<<t, w>>]]
  <2>1. users[a].role = "admin_sekolah"
    BY SekolahSayaSah
  <2>2. jadwal[<<t, w>>] \in Email \cup {Tiada} /\ (jadwal[<<t, w>>] # Tiada => pendidik[jadwal[<<t, w>>]] = t)
    <3>1. <<t, w>> \in SekolahID \X Slot /\ <<t, w>>[1] = t
      OBVIOUS
    <3>2. QED
      BY <3>1, JadwalIsi
  <2>3. /\ baru \in [SekolahID \X Slot -> Email \cup {Tiada}]
        /\ \A p \in SekolahID \X Slot :
             baru[p] \in {Tiada, jadwal[p]} \/ (p = <<t, w2>> /\ baru[p] = jadwal[<<t, w>>])
    <3> DEFINE kosong == [jadwal EXCEPT ![<<t, w>>] = Tiada]
    <3>1. /\ kosong \in [SekolahID \X Slot -> Email \cup {Tiada}]
          /\ \A p \in SekolahID \X Slot : kosong[p] \in {Tiada, jadwal[p]}
      BY JadwalIsi
    <3>2. baru = [kosong EXCEPT ![<<t, w2>>] = jadwal[<<t, w>>]]
      OBVIOUS
    <3>3. QED
      <4> DEFINE isi == jadwal[<<t, w>>]
                 ke == <<t, w2>>
      <4>1. ke \in SekolahID \X Slot /\ isi \in Email \cup {Tiada} /\ baru = [kosong EXCEPT ![ke] = isi]
        BY <2>2, <3>2
      <4> HIDE DEF baru, kosong, isi, ke
      <4>2. baru \in [SekolahID \X Slot -> Email \cup {Tiada}]
        BY <3>1, <4>1
      <4>3. ASSUME NEW p \in SekolahID \X Slot
            PROVE  baru[p] \in {Tiada, jadwal[p]} \/ (p = ke /\ baru[p] = isi)
        <5>1. CASE p = ke
          BY <3>1, <4>1, <5>1
        <5>2. CASE p # ke
          <6>1. baru[p] = kosong[p]
            BY <3>1, <4>1, <5>2
          <6>2. QED
            BY <3>1, <6>1
        <5>3. QED
          BY <5>1, <5>2
      <4>4. QED
        BY <4>2, <4>3 DEF isi, ke
  <2>4. /\ jadwal' = baru
        /\ UNCHANGED <<users, sekolah, pendidik, redis, sesi, gagal>>
        /\ JawabanSah' /\ jawab'.kode \notin 400..499 /\ jawab'.peran = "admin_sekolah"
    <3>1. Menjadwal(a, baru, 200)
      BY <1>2
    <3>2. 200 \in 200..500 /\ 200 \notin 400..499
      OBVIOUS
    <3>3. QED
      <4> HIDE DEF baru
      <4> QED BY <2>1, <3>1, <3>2, MenjadwalSah
  <2>5. \A p \in SekolahID \X Slot : baru[p] # Tiada => pendidik[baru[p]] = p[1]
    <3> HIDE DEF baru
    <3> QED BY <2>2, <2>3, JadwalIsi
  <2>6. QED
    <3> HIDE DEF baru
    <3> QED BY <2>1, <2>3, <2>4, <2>5, JadwalSaja
<1>3. CASE TanpaSekolah(a)
  BY <1>1, <1>3 DEF TanpaSekolah
<1>4. ASSUME NEW s \in SekolahSaya(a),
             CASE jadwal[<<t, w>>] = Tiada -> Hanya(a, 400)
               [] jadwal[<<t, w>>] # Tiada /\ t # s -> Hanya(a, 500)
               [] t = s /\ jadwal[<<t, w>>] # Tiada /\ w2 # w /\ jadwal[<<t, w2>>] # Tiada -> Hanya(a, 409)
               [] OTHER -> Menjadwal(a, [jadwal EXCEPT ![<<t, w>>] = Tiada, ![<<t, w2>>] = jadwal[<<t, w>>]], 200)
      PROVE  Aman
  <2>1. CASE jadwal[<<t, w>>] = Tiada
    BY <1>1, <1>4, <2>1
  <2>2. CASE jadwal[<<t, w>>] # Tiada /\ t # s
    BY <1>1, <1>4, <2>2
  <2>3. CASE t = s /\ jadwal[<<t, w>>] # Tiada /\ w2 # w /\ jadwal[<<t, w2>>] # Tiada
    BY <1>1, <1>4, <2>3
  <2>4. CASE t = s /\ jadwal[<<t, w>>] # Tiada /\ ~(w2 # w /\ jadwal[<<t, w2>>] # Tiada)
    BY <1>2, <1>4, <2>4
  <2>5. QED
    BY <2>1, <2>2, <2>3, <2>4
<1>5. QED
  BY <1>3, <1>4 DEF UpdateJadwal

LEMMA DeleteJadwalSah ==
  ASSUME IInv, NEW a \in Email, NEW t \in SekolahID, NEW w \in Slot, DeleteJadwal(a, t, w)
  PROVE  Aman
<1>1. CASE \E nomor \in {400, 500} : Hanya(a, nomor)
  BY <1>1, HanyaTertentu
<1>2. ASSUME NEW s \in SekolahSaya(a), Menjadwal(a, [jadwal EXCEPT ![<<t, w>>] = Tiada], 200)
      PROVE  Aman
  <2> DEFINE baru == [jadwal EXCEPT ![<<t, w>>] = Tiada]
  <2>1. users[a].role = "admin_sekolah"
    BY SekolahSayaSah
  <2>2. /\ baru \in [SekolahID \X Slot -> Email \cup {Tiada}]
        /\ \A p \in SekolahID \X Slot : baru[p] \in {Tiada, jadwal[p]}
    BY JadwalIsi
  <2>3. /\ jadwal' = baru
        /\ UNCHANGED <<users, sekolah, pendidik, redis, sesi, gagal>>
        /\ JawabanSah' /\ jawab'.kode \notin 400..499 /\ jawab'.peran = "admin_sekolah"
    <3>1. Menjadwal(a, baru, 200)
      BY <1>2
    <3>2. 200 \in 200..500 /\ 200 \notin 400..499
      OBVIOUS
    <3>3. QED
      <4> HIDE DEF baru
      <4> QED BY <2>1, <3>1, <3>2, MenjadwalSah
  <2>4. \A p \in SekolahID \X Slot : baru[p] # Tiada => pendidik[baru[p]] = p[1]
    <3> HIDE DEF baru
    <3> QED BY <2>2, JadwalIsi
  <2>5. QED
    <3> HIDE DEF baru
    <3> QED BY <2>1, <2>2, <2>3, <2>4, JadwalSaja
<1>3. CASE TanpaSekolah(a)
  BY <1>1, <1>3 DEF TanpaSekolah
<1>4. ASSUME NEW s \in SekolahSaya(a),
             CASE jadwal[<<t, w>>] = Tiada -> Hanya(a, 400)
               [] jadwal[<<t, w>>] # Tiada /\ t # s -> Hanya(a, 500)
               [] OTHER -> Menjadwal(a, [jadwal EXCEPT ![<<t, w>>] = Tiada], 200)
      PROVE  Aman
  <2>1. CASE jadwal[<<t, w>>] = Tiada
    BY <1>1, <1>4, <2>1
  <2>2. CASE jadwal[<<t, w>>] # Tiada /\ t # s
    BY <1>1, <1>4, <2>2
  <2>3. CASE jadwal[<<t, w>>] # Tiada /\ t = s
    BY <1>2, <1>4, <2>3
  <2>4. QED
    BY <2>1, <2>2, <2>3
<1>5. QED
  BY <1>3, <1>4 DEF DeleteJadwal


----------------------------------------------------------------------------
(* Every request.                                                          *)

LEMMA IInvInit == ASSUME Init PROVE IInv
<1>1. /\ {Pusat, Kepala} \subseteq Email /\ Pusat # Kepala /\ SekolahAwal \in SekolahID
      /\ Kepala # Tiada /\ Tiada \notin Email
  BY KonstantaAssumption
<1>2. /\ \A role \in {"super_admin", "admin_sekolah"} :
           Petugas(role) \in Akun /\ Petugas(role).role = role /\ Petugas(role).sandi
      /\ BelumAkun \in Akun /\ BelumAkun.role = "tidak_ada"
  <2>1. \A role \in {"super_admin", "admin_sekolah"} : role \in Role
    BY DEF Role
  <2>2. BelumAkun \in Akun /\ BelumAkun.role = "tidak_ada"
    BY DEF BelumAkun, Pendaftar, Akun, Role
  <2>3. QED
    BY <2>1, <2>2, PetugasSah
<1>3. /\ users \in [Email -> Akun]
      /\ \A e \in Email : users[e] = IF e = Pusat THEN Petugas("super_admin")
                                     ELSE IF e = Kepala THEN Petugas("admin_sekolah") ELSE BelumAkun
  <2>1. \A e \in Email : users[e] = IF e = Pusat THEN Petugas("super_admin")
                                    ELSE IF e = Kepala THEN Petugas("admin_sekolah") ELSE BelumAkun
    BY <1>1 DEF Init
  <2>2. \A e \in Email : users[e] \in Akun
    BY <1>2, <2>1
  <2>3. users = [e \in Email |-> users[e]]
    BY DEF Init
  <2>4. QED
    BY <2>1, <2>2, <2>3
<1> DEFINE awal == [status |-> "aktif", email |-> Kepala, admin |-> Kepala]
<1>4. /\ awal \in Baris /\ awal.status = "aktif" /\ awal.admin = Kepala /\ awal.email = Kepala
      /\ BelumSekolah \in Baris /\ BelumSekolah.status = "tidak_ada" /\ BelumSekolah.admin = Tiada
  BY <1>1 DEF Baris, Status, BelumSekolah
<1>5. sekolah = [s \in SekolahID |-> IF s = SekolahAwal THEN awal ELSE BelumSekolah]
  BY DEF Init
<1> HIDE DEF awal
<1>6. /\ sekolah \in [SekolahID -> Baris]
      /\ sekolah[SekolahAwal] = awal
      /\ \A s \in SekolahID : sekolah[s] = awal \/ sekolah[s] = BelumSekolah
  BY <1>1, <1>4, <1>5
<1>7. /\ pendidik \in [Email -> SekolahID \cup {Tiada}] /\ Guru = {}
      /\ jadwal \in [SekolahID \X Slot -> Email \cup {Tiada}]
      /\ \A p \in DOMAIN jadwal : jadwal[p] = Tiada
  BY DEF Init, Guru
<1>8. TypeOK
  <2>1. JawabanSah
    <3>1. jawab.kode = 200 /\ jawab.peran = "tamu"
      BY DEF Init
    <3>2. 200 \in 200..500
      OBVIOUS
    <3>3. QED
      BY <3>1, <3>2 DEF JawabanSah
  <2>2. SementaraSah
    BY <2>1 DEF Init, SementaraSah
  <2>3. QED
    BY <1>3, <1>6, <1>7, <2>2, TypeUraian DEF TabelSah
<1>9. SekolahSah
  BY <1>1, <1>4, <1>6 DEF SekolahSah
<1>10. users[Kepala].role = "admin_sekolah"
  BY <1>1, <1>2, <1>3
<1>11. Rujukan
  <2>1. \A s \in SekolahID : sekolah[s].admin \in {Tiada, Kepala}
    BY <1>4, <1>6
  <2>2. QED
    BY <1>7, <1>10, <2>1 DEF Rujukan
<1>12. DataLengkap
  <2>1. ASSUME NEW e \in Email
        PROVE  /\ users[e].role # "tenaga_pendidik"
               /\ users[e].role = "admin_sekolah" => SekolahAdmin(e) # {}
               /\ users[e].role \in Internal => users[e].sandi
    <3>1. CASE e = Kepala
      <4>1. SekolahAwal \in SekolahAdmin(e)
        BY <1>1, <1>4, <1>6, <3>1 DEF SekolahAdmin
      <4>2. QED
        BY <1>1, <1>2, <1>3, <3>1, <4>1
    <3>2. CASE e # Kepala
      BY <1>2, <1>3, <3>2 DEF Internal
    <3>3. QED
      BY <3>1, <3>2
  <2>2. QED
    BY <2>1 DEF DataLengkap
<1>13. QED
  BY <1>8, <1>9, <1>11, <1>12 DEF IInv

\* The rest of the routes only answer.
LEMMA HanyaJawab ==
  ASSUME IInv, NEW a \in Email \cup {Tiada},
         \E nomor \in {200, 400, 401, 403, 404, 409, 429, 500} : Hanya(a, nomor)
  PROVE  Aman
  BY HanyaTertentu

LEMMA AplikasiSah == ASSUME IInv, NEW e \in Email, Aplikasi(e) PROVE Aman
  BY RegisterSah, ResendOTPSah, VerifyOTPSah, LoginSah, OAuthSah, CompleteOAuthSah DEF Aplikasi

LEMMA KantorSah == ASSUME IInv, NEW e \in Email, Kantor(e) PROVE Aman
<1>1. CASE Refresh(e)
  BY <1>1, HanyaJawab DEF Refresh
<1>2. CASE Me(e)
  BY <1>2, HanyaJawab DEF Me
<1>3. CASE PusatLogin(e)
  BY <1>3, LoginSah DEF PusatLogin
<1>4. QED
  BY <1>1, <1>2, <1>3, InternalLoginSah, ForceUpdatePasswordSah, LogoutSah DEF Kantor

LEMMA AdminSekolahSah == ASSUME IInv, NEW a \in Email, AdminSekolah(a) PROVE Aman
<1>1. CASE UploadDokumen(a) \/ MySekolah(a)
  BY <1>1, HanyaJawab DEF UploadDokumen, MySekolah
<1>2. CASE DaftarPendidik(a) \/ DaftarJadwal(a)
  BY <1>2, HanyaJawab DEF DaftarPendidik, DaftarJadwal
<1>3. ASSUME NEW e \in Email, UpdatePendidik(a, e) PROVE Aman
  BY <1>3, HanyaJawab DEF UpdatePendidik
<1>4. CASE \E e \in Email :
             PengajuanBaru(a, e) \/ PengajuanUlang(a, e) \/ TambahPendidik(a, e) \/ UpdatePendidik(a, e)
  BY <1>3, <1>4, PengajuanBaruSah, PengajuanUlangSah, TambahPendidikSah
<1>5. CASE \E w \in Slot :
             \/ \E e \in Email : TambahJadwal(a, e, w)
             \/ \E t \in SekolahID : DeleteJadwal(a, t, w) \/ \E w2 \in Slot : UpdateJadwal(a, t, w, w2)
  BY <1>5, TambahJadwalSah, DeleteJadwalSah, UpdateJadwalSah
<1>6. QED
  BY <1>1, <1>2, <1>4, <1>5 DEF AdminSekolah

LEMMA SuperAdminSah == ASSUME IInv, NEW a \in Email, SuperAdmin(a) PROVE Aman
<1>1. ASSUME NEW s \in SekolahID, Detail(a, s) PROVE Aman
  BY <1>1, HanyaJawab DEF Detail
<1>2. QED
  BY <1>1, VerifikasiSah DEF SuperAdmin

LEMMA LangkahSah == ASSUME IInv, Langkah PROVE Aman
<1>1. CASE Ditolak
  <2>1. Tiada \in Email \cup {Tiada}
    OBVIOUS
  <2>2. QED
    BY <1>1, <2>1, HanyaJawab DEF Ditolak
<1>2. CASE Usang
  BY <1>2, UsangSah
<1>3. ASSUME NEW e \in Warga, Aplikasi(e) PROVE Aman
  <2>1. e \in Email
    BY KonstantaAssumption
  <2>2. QED
    BY <1>3, <2>1, AplikasiSah
<1>4. ASSUME NEW a \in Email, Kantor(a) PROVE Aman
  BY <1>4, KantorSah
<1>5. ASSUME NEW a \in Email, AdminSekolah(a) PROVE Aman
  BY <1>5, AdminSekolahSah
<1>6. ASSUME NEW a \in Email, SuperAdmin(a) PROVE Aman
  BY <1>6, SuperAdminSah
<1>7. ASSUME NEW a \in Email, MyJadwalHarian(a) PROVE Aman
  BY <1>7, HanyaJawab DEF MyJadwalHarian
<1>8. ASSUME NEW a \in Email, MyJadwalMingguIni(a) PROVE Aman
  BY <1>8, HanyaJawab DEF MyJadwalMingguIni
<1>9. ASSUME NEW a \in Email, NEW grup, TakBoleh(a, grup) PROVE Aman
  BY <1>9, HanyaJawab DEF TakBoleh
<1>10. QED
  BY <1>1, <1>2, <1>3, <1>4, <1>5, <1>6, <1>7, <1>8, <1>9 DEF Langkah

LEMMA DiamSah ==
  ASSUME IInv, UNCHANGED vars
  PROVE  IInv' /\ BuntuSah
<1>1. UNCHANGED tabel /\ gagal \subseteq gagal'
  BY DEF vars
<1>2. SementaraSah'
  BY DEF vars, redis, IInv, TypeOK, SementaraSah, JawabanSah
<1>3. QED
  BY <1>1, <1>2, TabelTetap DEF Aman

LEMMA NextSah ==
  ASSUME IInv, [Next]_vars
  PROVE  IInv' /\ BuntuSah /\ [RefusalSah]_vars /\ [PeranSah]_vars
  BY LangkahSah, DiamSah DEF Next, Aman

THEOREM Selalu == Spec => []IInv
<1>1. Init => IInv
  BY IInvInit
<1>2. IInv /\ [Next]_vars => IInv'
  BY NextSah
<1>3. QED
  BY <1>1, <1>2, PTL DEF Spec

\* The tables and what Redis holds keep their types, whatever requests are served.
THEOREM TypeCorrect == Spec => []TypeOK
<1>1. IInv => TypeOK
  BY DEF IInv
<1>2. QED
  BY <1>1, Selalu, PTL

\* Whatever requests are served, however they fail and at which call, teachers refer
\* to schools in operation, schools to their administrators, and lessons to teachers
\* of their own school, though nothing but the handlers holds the tables together.
THEOREM RujukanBenar == Spec => []Rujukan
<1>1. IInv => Rujukan
  BY DEF IInv
<1>2. QED
  BY <1>1, Selalu, PTL

\* sekolah.go:394-410, pendidik.go:115-160: only a request that answered 500 leaves
\* an account of the staff without its school, its teacher or its password.
THEOREM Lengkap == Spec => []DataLengkap
<1>1. IInv => DataLengkap
  BY DEF IInv
<1>2. QED
  BY <1>1, Selalu, PTL

\* Whatever came before, a request that is refused leaves the tables as they were.
THEOREM TanpaBekas == Spec => DitolakTanpaBekas
<1>1. IInv /\ [Next]_vars => [jawab'.kode \in 400..499 => UNCHANGED tabel]_vars
  BY NextSah DEF RefusalSah
<1>2. QED
  BY <1>1, Selalu, PTL DEF Spec, DitolakTanpaBekas

\* docs/API_DOCUMENTATION.md:24-29, 304-331: teachers, lessons and the course of a
\* registration change only at the hands of the roles that decide on them.
THEOREM Peran == Spec => SesuaiPeran
<1>1. IInv /\ [Next]_vars =>
        [/\ pendidik' # pendidik \/ jadwal' # jadwal => jawab'.peran = "admin_sekolah"
         /\ \A s \in SekolahID :
              sekolah[s].status \notin {"tidak_ada", "ditolak"} /\ sekolah'[s] # sekolah[s]
                => jawab'.peran = "super_admin"]_vars
  BY NextSah DEF PeranSah
<1>2. QED
  BY <1>1, Selalu, PTL DEF Spec, SesuaiPeran

\* Whatever requests are served, the row of a school that was rejected never changes
\* again: docs/API_DOCUMENTATION.md:76 promises its administrator that it can.
THEOREM Buntu == Spec => DitolakBuntu
<1>1. IInv /\ [Next]_vars =>
        [\A s \in SekolahID : sekolah[s].status = "ditolak" => sekolah'[s] = sekolah[s]]_vars
  BY NextSah DEF BuntuSah
<1>2. QED
  BY <1>1, Selalu, PTL DEF Spec, DitolakBuntu
=============================================================================
