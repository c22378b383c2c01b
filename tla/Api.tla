---------------------------------- MODULE Api ----------------------------------
(***************************************************************************)
(* The system as cmd/api/main.go routes it: accounts, sessions, schools,   *)
(* teachers and lessons behind one API.  A step is one request served by   *)
(* its middleware, handler and services, with its answer; the components'  *)
(* own modules (Akun, Sekolah, Pendidik, Jadwal, Otp, Sesi) interleave the *)
(* calls of requests.  Here a request that fails leaves what the calls     *)
(* before the failing one wrote.  Handlers no route reaches                *)
(* (PengajuanBaruLengkap, Update, DokumenLegalitas, RegisterSuperAdmin,    *)
(* MyProfile, UpdateMyProfile) are no actions.                             *)
(*                                                                         *)
(* Accounts are named by their e-mail, which the repository normalises.  A *)
(* session stands for its tokens.  gagal is not in the program.            *)
(***************************************************************************)
EXTENDS Naturals, FiniteSets

CONSTANTS
  Email,        \* e-mail addresses of people and schools
  SekolahID,    \* keys of table sekolah
  Slot,         \* times of a week at which lessons do not overlap
  Pusat,        \* the first super administrator
  Kepala,       \* the administrator of SekolahAwal
  SekolahAwal,  \* the school the database starts with
  Tiada,        \* no row, or nobody signed in
  Warga,        \* bound: addresses that use the parents' app and Google
  MaxSementara  \* bound: sessions, codes, pending sessions and temp tokens in all

ASSUME KonstantaAssumption ==
  /\ {Pusat, Kepala} \subseteq Email /\ Pusat # Kepala /\ SekolahAwal \in SekolahID
  /\ Tiada \notin Email \cup SekolahID /\ Warga \subseteq Email /\ MaxSementara \in Nat

VARIABLES
  users,      \* table users
  sekolah,    \* table sekolah
  pendidik,   \* table pendidik, by the e-mail of the account
  jadwal,     \* table pendidik_jadwal: the teacher at each time of each school
  sesi,       \* accounts with a session
  kode,       \* addresses for which Redis holds a one-time code
  tunda,      \* pending OAuth sessions in Redis
  temp,       \* accounts with a temp token
  jawab,      \* the last answer, and the role of its caller
  gagal       \* accounts that a request made before it answered 500

tabel == <<users, sekolah, pendidik, jadwal>>
redis == <<kode, tunda, temp>>
vars == <<tabel, redis, sesi, jawab, gagal>>

Role == {"wali_murid", "admin_sekolah", "tenaga_pendidik", "super_admin"}

Status == {"pengajuan", "menunggu_verifikasi", "aktif", "nonaktif", "ditolak"}

\* sandi: somebody was given the password; berganti: is_password_updated.
Akun == [role : Role \cup {"tidak_ada"}, aktif : BOOLEAN, wa : BOOLEAN,
         sandi : BOOLEAN, berganti : BOOLEAN]

Baris == [status : Status \cup {"tidak_ada"}, email : Email \cup {Tiada},
          admin : Email \cup {Tiada}]

\* What Register inserts.
Pendaftar ==
  [role |-> "wali_murid", aktif |-> FALSE, wa |-> TRUE, sandi |-> TRUE, berganti |-> FALSE]

\* What Verifikasi and TambahPendidik insert, and the first accounts.
Petugas(role) ==
  [role |-> role, aktif |-> TRUE, wa |-> FALSE, sandi |-> TRUE, berganti |-> role = "super_admin"]

BelumAkun == [Pendaftar EXCEPT !.role = "tidak_ada", !.wa = FALSE, !.sandi = FALSE]

BelumSekolah == [status |-> "tidak_ada", email |-> Tiada, admin |-> Tiada]

TypeOK ==
  /\ users \in [Email -> Akun] /\ sekolah \in [SekolahID -> Baris]
  /\ pendidik \in [Email -> SekolahID \cup {Tiada}]
  /\ jadwal \in [SekolahID \X Slot -> Email \cup {Tiada}]
  /\ sesi \subseteq Email /\ kode \subseteq Email /\ temp \subseteq Email /\ gagal \subseteq Email
  /\ tunda \subseteq Email \X BOOLEAN
  /\ jawab.kode \in 200..500 /\ jawab.peran \in Role \cup {"tidak_ada", "tamu"}

\* A database with a super administrator and one school: the routes need an
\* administrator to register a school.
Init ==
  /\ users = [e \in Email |-> CASE e = Pusat  -> Petugas("super_admin")
                                [] e = Kepala -> Petugas("admin_sekolah")
                                [] OTHER      -> BelumAkun]
  /\ sekolah = [s \in SekolahID |->
                  IF s = SekolahAwal THEN [status |-> "aktif", email |-> Kepala, admin |-> Kepala]
                  ELSE BelumSekolah]
  /\ pendidik = [e \in Email |-> Tiada]
  /\ jadwal = [p \in SekolahID \X Slot |-> Tiada]
  /\ sesi = {} /\ kode = {} /\ tunda = {} /\ temp = {} /\ gagal = {}
  /\ jawab = [kode |-> 200, peran |-> "tamu"]

----------------------------------------------------------------------------
Ada(e) == users[e].role # "tidak_ada"

Jawab(a, nomor) ==
  jawab' = [kode |-> nomor, peran |-> IF a = Tiada THEN "tamu" ELSE users[a].role]

\* An answer of a request that changed nothing.
Hanya(a, nomor) == Jawab(a, nomor) /\ UNCHANGED <<tabel, redis, sesi, gagal>>

\* IssueSession: the last call of a sign-in, which may fail.
Masuk(e) ==
  \/ sesi' = sesi \cup {e} /\ Jawab(Tiada, 200)
  \/ UNCHANGED sesi /\ Jawab(Tiada, 500)

\* Mutant: verification is left to the schools.
PeranRute_Longgar ==
  [sekolah |-> "admin_sekolah", verifikasi |-> "admin_sekolah", pengajar |-> "tenaga_pendidik"]

\* The groups of the protected routes.
PeranRute ==
  [sekolah |-> "admin_sekolah", verifikasi |-> "super_admin", pengajar |-> "tenaga_pendidik"]

\* RequireAuth and RequireRole let account a through.
Boleh(a, grup) == a \in sesi /\ Ada(a) /\ users[a].role = PeranRute[grup]

TakBoleh(a, grup) ==
  \/ (a \notin sesi \/ ~Ada(a)) /\ Hanya(a, 401)
  \/ a \in sesi /\ Ada(a) /\ users[a].role # PeranRute[grup] /\ Hanya(a, 403)

\* A request that the limiter, the binding of its body or its first query turns
\* away; GET /sekolah/tracking/:tracking_code answers 400, the handler reads the
\* query instead of the path.
Ditolak == \E nomor \in {400, 429, 500} : Hanya(Tiada, nomor)

----------------------------------------------------------------------------
(* Accounts and sessions.                                                  *)

KirimKode(e) ==
  \/ kode' = kode \cup {e} /\ Jawab(Tiada, 200)
  \/ UNCHANGED kode /\ \E nomor \in {429, 500} : Jawab(Tiada, nomor)

\* A new account and its code, or a new code for a pending account.
Register(e) ==
  \/ Ada(e) /\ users[e].aktif /\ Hanya(Tiada, 409)
  \/ /\ Ada(e) /\ ~users[e].aktif /\ KirimKode(e)
     /\ UNCHANGED <<tabel, tunda, temp, sesi, gagal>>
  \/ /\ ~Ada(e) /\ users' = [users EXCEPT ![e] = Pendaftar]
     /\ \/ kode' = kode \cup {e} /\ Jawab(Tiada, 201) /\ UNCHANGED gagal
        \/ UNCHANGED kode /\ Jawab(Tiada, 500) /\ gagal' = gagal \cup {e}
     /\ UNCHANGED <<sekolah, pendidik, jadwal, tunda, temp, sesi>>

ResendOTP(e) ==
  IF Ada(e) /\ ~users[e].aktif
    THEN KirimKode(e) /\ UNCHANGED <<tabel, tunda, temp, sesi, gagal>>
    ELSE Hanya(Tiada, 200)

\* An unknown address, an account that is active, a wrong code (which may end the
\* code), or the right one.
VerifyOTP(e) ==
  \/ Hanya(Tiada, IF Ada(e) /\ users[e].aktif THEN 500 ELSE 400)
  \/ /\ Ada(e) /\ ~users[e].aktif /\ e \in kode /\ kode' = kode \ {e}
     /\ \/ Jawab(Tiada, 400) /\ UNCHANGED <<users, sesi>>
        \/ Jawab(Tiada, 500) /\ UNCHANGED <<users, sesi>>
        \/ users' = [users EXCEPT ![e].aktif = TRUE] /\ Masuk(e)
     /\ UNCHANGED <<sekolah, pendidik, jadwal, tunda, temp, gagal>>

\* Login, PusatLogin and InternalLogin: a wrong password, or one that was given out.
Login(e, peran) ==
  \/ Hanya(Tiada, 401)
  \/ /\ users[e].role \in peran /\ users[e].sandi
     /\ IF users[e].aktif THEN Masuk(e) /\ UNCHANGED <<tabel, redis, gagal>> ELSE Hanya(Tiada, 403)

PusatLogin(e) == Login(e, {"super_admin"})

Internal == {"admin_sekolah", "tenaga_pendidik"}

\* A temp token, as long as the password is the one that was mailed.
InternalLogin(e) ==
  IF users[e].role \in Internal /\ users[e].sandi /\ users[e].aktif /\ ~users[e].berganti
    THEN \/ Hanya(Tiada, 401)
         \/ Jawab(Tiada, 202) /\ temp' = temp \cup {e} /\ UNCHANGED <<tabel, kode, tunda, sesi, gagal>>
    ELSE Login(e, Internal)

\* Passwords it does not accept, a failing update, or the new password and the end
\* of the temp token, unless the revocation fails.
ForceUpdatePassword(e) ==
  \/ \E nomor \in {400, 401, 500} : Hanya(Tiada, nomor)
  \/ /\ e \in temp /\ users[e].role \in Internal /\ users[e].sandi
     /\ users' = [users EXCEPT ![e].berganti = TRUE]
     /\ temp' \in {temp, temp \ {e}}
     /\ Masuk(e)
     /\ UNCHANGED <<sekolah, pendidik, jadwal, kode, tunda, gagal>>

\* An account of the address is linked and thereby active; one that has a WhatsApp
\* number is signed in, any other has to give one.
OAuth(e) ==
  \/ Hanya(Tiada, 401)
  \/ /\ users' = IF Ada(e) THEN [users EXCEPT ![e].aktif = TRUE] ELSE users
     /\ IF users[e].wa
          THEN Masuk(e) /\ UNCHANGED tunda
          ELSE /\ UNCHANGED sesi
               /\ \/ tunda' = tunda \cup {<<e, Ada(e)>>} /\ Jawab(Tiada, 202)
                  \/ UNCHANGED tunda /\ Jawab(Tiada, 500)
     /\ UNCHANGED <<sekolah, pendidik, jadwal, kode, temp, gagal>>

\* The pending session is used up whatever comes of it.
CompleteOAuth(e, ada) ==
  /\ <<e, ada>> \in tunda
  /\ tunda' = tunda \ {<<e, ada>>}
  /\ \/ ~ada /\ Ada(e) /\ Jawab(Tiada, 409) /\ UNCHANGED <<users, sesi>>
     \/ /\ ada \/ ~Ada(e)
        /\ users' = [users EXCEPT ![e] =
             IF ada THEN [@ EXCEPT !.aktif = TRUE, !.wa = TRUE]
             ELSE [Pendaftar EXCEPT !.aktif = TRUE, !.sandi = FALSE]]
        /\ Masuk(e)
     \/ Jawab(Tiada, 500) /\ UNCHANGED <<users, sesi>>
  /\ UNCHANGED <<sekolah, pendidik, jadwal, kode, temp, gagal>>

\* A session goes on with new tokens.
Refresh(e) == Hanya(Tiada, IF e \in sesi /\ Ada(e) THEN 200 ELSE 401)

\* Me and StatusVerifikasi answer whoever is signed in.
Me(e) == e \in sesi /\ Ada(e) /\ Hanya(e, 200)

\* Logout of a session, whose answer is always 200.
Logout(e) ==
  /\ sesi' = sesi \ {e}
  /\ Jawab(Tiada, 200)
  /\ UNCHANGED <<tabel, redis, gagal>>

\* Sessions, codes, pending sessions and temp tokens end by themselves.
Usang ==
  /\ \/ (\E e \in sesi : sesi' = sesi \ {e}) /\ UNCHANGED redis
     \/ (\E e \in kode : kode' = kode \ {e}) /\ UNCHANGED <<sesi, tunda, temp>>
     \/ (\E p \in tunda : tunda' = tunda \ {p}) /\ UNCHANGED <<sesi, kode, temp>>
     \/ (\E e \in temp : temp' = temp \ {e}) /\ UNCHANGED <<sesi, kode, tunda>>
  /\ UNCHANGED <<tabel, jawab, gagal>>

----------------------------------------------------------------------------
(* Schools.                                                                *)

\* FindByAdminID.
SekolahAdmin(a) == {s \in SekolahID : sekolah[s].admin = a}

EmailSekolah == {sekolah[s].email : s \in SekolahID}

PengajuanBaru(a, e) ==
  /\ Boleh(a, "sekolah")
  /\ IF e \in EmailSekolah THEN Hanya(a, 409)
     ELSE /\ \E s \in SekolahID :
               /\ sekolah[s].status = "tidak_ada"
               /\ sekolah' = [sekolah EXCEPT ![s] =
                    [status |-> "pengajuan", email |-> e, admin |-> Tiada]]
          /\ Jawab(a, 201)
          /\ UNCHANGED <<users, pendidik, jadwal, redis, sesi, gagal>>

\* The handler asks for a parameter that the route calls by another name.
UploadDokumen(a) == Boleh(a, "sekolah") /\ Hanya(a, 400)

\* MySekolah, and UpdateMySekolah, which changes no column kept here.
MySekolah(a) == Boleh(a, "sekolah") /\ Hanya(a, IF SekolahAdmin(a) = {} THEN 404 ELSE 200)

\* List and Detail of the super administrator.
Detail(a, s) ==
  Boleh(a, "verifikasi") /\ Hanya(a, IF sekolah[s].status = "tidak_ada" THEN 404 ELSE 200)

\* The school of the administrator, if it was rejected, submits again.
PengajuanUlang(a, e) ==
  /\ Boleh(a, "sekolah")
  /\ LET ditolak == {s \in SekolahAdmin(a) : sekolah[s].status = "ditolak"}
     IN IF ditolak = {} THEN Hanya(a, IF SekolahAdmin(a) = {} THEN 404 ELSE 400)
        ELSE /\ sekolah' = [s \in SekolahID |->
                  IF s \in ditolak THEN [sekolah[s] EXCEPT !.status = "pengajuan", !.email = e]
                  ELSE sekolah[s]]
             /\ Jawab(a, 200)
             /\ UNCHANGED <<users, pendidik, jadwal, redis, sesi, gagal>>

\* Mutant: a rejected school may be approved after all.
validStatusTransitions_Ditolak ==
  [pengajuan |-> {"menunggu_verifikasi", "ditolak"}, menunggu_verifikasi |-> {"aktif", "ditolak"},
   aktif |-> {"nonaktif"}, nonaktif |-> {"aktif"}, ditolak |-> {"aktif"}]

validStatusTransitions ==
  [pengajuan |-> {"menunggu_verifikasi", "ditolak"}, menunggu_verifikasi |-> {"aktif", "ditolak"},
   aktif |-> {"nonaktif"}, nonaktif |-> {"aktif"}, ditolak |-> {"pengajuan"}]

\* Mutant: the administrator is not stored.
Disetujui_TanpaAdmin(baris) == [baris EXCEPT !.status = "aktif"]

Disetujui(baris) == [baris EXCEPT !.status = "aktif", !.admin = baris.email]

\* The first activation: the account, the mail with its password, the row.  It
\* may end after any of them; an account of the address ends it at once.
Aktifkan(a, s) ==
  LET e == sekolah[s].email
  IN IF Ada(e) THEN Hanya(a, 500)
     ELSE /\ \/ /\ \E dikirim \in BOOLEAN :
                     users' = [users EXCEPT ![e] = [Petugas("admin_sekolah") EXCEPT !.sandi = dikirim]]
                /\ Jawab(a, 500) /\ gagal' = gagal \cup {e} /\ UNCHANGED sekolah
             \/ /\ users' = [users EXCEPT ![e] = Petugas("admin_sekolah")]
                /\ sekolah' = [sekolah EXCEPT ![s] = Disetujui(@)]
                /\ Jawab(a, 200) /\ UNCHANGED gagal
          /\ UNCHANGED <<pendidik, jadwal, redis, sesi>>

\* The binding lets three statuses through.
Verifikasi(a, s, baru) ==
  /\ Boleh(a, "verifikasi")
  /\ LET lama == sekolah[s].status
     IN CASE lama = "tidak_ada" -> Hanya(a, 404)
          [] lama # "tidak_ada" /\ baru \notin validStatusTransitions[lama] -> Hanya(a, 400)
          [] lama = "menunggu_verifikasi" /\ baru = "aktif" -> Aktifkan(a, s)
          [] OTHER -> /\ sekolah' = [sekolah EXCEPT ![s].status = baru]
                      /\ Jawab(a, 200)
                      /\ UNCHANGED <<users, pendidik, jadwal, redis, sesi, gagal>>

----------------------------------------------------------------------------
(* Teachers and lessons.                                                   *)

Guru == {e \in Email : pendidik[e] # Tiada}

\* Mutant: the number is looked up once the account is there.
TambahPendidik_PeriksaTerlambat(a, e) ==
  /\ Boleh(a, "sekolah")
  /\ CASE SekolahAdmin(a) = {} -> Hanya(a, 500)
       [] Ada(e) -> Hanya(a, 409)
       [] OTHER ->
            /\ users' = [users EXCEPT ![e] = Petugas("tenaga_pendidik")]
            /\ \/ Jawab(a, 409) /\ gagal' = gagal \cup {e} /\ UNCHANGED pendidik
               \/ /\ Jawab(a, 201) /\ UNCHANGED gagal
                  /\ \E s \in SekolahAdmin(a) : pendidik' = [pendidik EXCEPT ![e] = s]
            /\ UNCHANGED <<sekolah, jadwal, redis, sesi>>

\* The account, then the teacher; the password is in the answer.  Between them a
\* date that cannot be read ends the request, and an insert that fails, whose
\* rollback blanks the row of the account: of an account that is taken back its
\* address knows nothing, as after any other 500 before the account; the third
\* branch is the account that stays, when the rollback is refused or none was tried
\* (see Pendidik).
TambahPendidik(a, e) ==
  /\ Boleh(a, "sekolah")
  /\ CASE SekolahAdmin(a) = {} -> Hanya(a, 500)
       [] Ada(e) -> Hanya(a, 409)
       [] OTHER ->
            \/ Guru # {} /\ Hanya(a, 409)
            \/ Hanya(a, 500)
            \/ /\ users' = [users EXCEPT ![e] = [Petugas("tenaga_pendidik") EXCEPT !.sandi = FALSE]]
               /\ Jawab(a, 500) /\ gagal' = gagal \cup {e}
               /\ UNCHANGED <<sekolah, pendidik, jadwal, redis, sesi>>
            \/ /\ users' = [users EXCEPT ![e] = Petugas("tenaga_pendidik")]
               /\ \E s \in SekolahAdmin(a) : pendidik' = [pendidik EXCEPT ![e] = s]
               /\ Jawab(a, 201)
               /\ UNCHANGED <<sekolah, jadwal, redis, sesi, gagal>>

\* Detail, Update and UpdateStatus of a teacher, whose columns are in Pendidik.
UpdatePendidik(a, e) == Boleh(a, "sekolah") /\ Hanya(a, IF e \in Guru THEN 200 ELSE 404)

\* List of the teachers of the administrator's school.
DaftarPendidik(a) == Boleh(a, "sekolah") /\ Hanya(a, IF SekolahAdmin(a) = {} THEN 500 ELSE 200)

\* GetMySekolah: lessons are those of the administrator's own school.
TanpaSekolah(a) == Boleh(a, "sekolah") /\ SekolahAdmin(a) = {} /\ Hanya(a, 500)

SekolahSaya(a) == IF Boleh(a, "sekolah") THEN SekolahAdmin(a) ELSE {}

Menjadwal(a, baru, nomor) ==
  /\ jadwal' = baru
  /\ Jawab(a, nomor)
  /\ UNCHANGED <<users, sekolah, pendidik, redis, sesi, gagal>>

\* Mutant: any teacher will do.
TambahJadwal_LintasSekolah(a, e, w) ==
  \/ TanpaSekolah(a)
  \/ \E s \in SekolahSaya(a) :
       CASE e \notin Guru -> Hanya(a, 404)
         [] jadwal[<<s, w>>] # Tiada -> Hanya(a, 409)
         [] OTHER -> Menjadwal(a, [jadwal EXCEPT ![<<s, w>>] = e], 201)

TambahJadwal(a, e, w) ==
  \/ TanpaSekolah(a)
  \/ \E s \in SekolahSaya(a) :
       CASE e \notin Guru -> Hanya(a, 404)
         [] e \in Guru /\ pendidik[e] # s -> Hanya(a, 500)
         [] e \in Guru /\ pendidik[e] = s /\ jadwal[<<s, w>>] # Tiada -> Hanya(a, 409)
         [] OTHER -> Menjadwal(a, [jadwal EXCEPT ![<<s, w>>] = e], 201)

\* ListJadwal, for any teacher.
DaftarJadwal(a) == Boleh(a, "sekolah") /\ Hanya(a, 200)

\* The lesson at time w of school t moves to time w2.
UpdateJadwal(a, t, w, w2) ==
  \/ TanpaSekolah(a)
  \/ \E s \in SekolahSaya(a) :
       CASE jadwal[<<t, w>>] = Tiada -> Hanya(a, 400)
         [] jadwal[<<t, w>>] # Tiada /\ t # s -> Hanya(a, 500)
         [] t = s /\ jadwal[<<t, w>>] # Tiada /\ w2 # w /\ jadwal[<<t, w2>>] # Tiada -> Hanya(a, 409)
         [] OTHER -> Menjadwal(a, [jadwal EXCEPT ![<<t, w>>] = Tiada, ![<<t, w2>>] = jadwal[<<t, w>>]], 200)

DeleteJadwal(a, t, w) ==
  \/ TanpaSekolah(a)
  \/ \E s \in SekolahSaya(a) :
       CASE jadwal[<<t, w>>] = Tiada -> Hanya(a, 400)
         [] jadwal[<<t, w>>] # Tiada /\ t # s -> Hanya(a, 500)
         [] OTHER -> Menjadwal(a, [jadwal EXCEPT ![<<t, w>>] = Tiada], 200)

\* A teacher's lessons of a day, which fails without a date.
MyJadwalHarian(a) ==
  /\ Boleh(a, "pengajar")
  /\ \E nomor \in IF a \in Guru THEN {200, 500} ELSE {404} : Hanya(a, nomor)

\* A teacher's lessons of the week.
MyJadwalMingguIni(a) == Boleh(a, "pengajar") /\ Hanya(a, IF a \in Guru THEN 200 ELSE 404)

----------------------------------------------------------------------------
Aplikasi(e) ==
  \/ Register(e) \/ ResendOTP(e) \/ VerifyOTP(e) \/ Login(e, Role)
  \/ OAuth(e) \/ \E ada \in BOOLEAN : CompleteOAuth(e, ada)

Kantor(e) ==
  \/ PusatLogin(e) \/ InternalLogin(e) \/ ForceUpdatePassword(e)
  \/ Refresh(e) \/ Me(e) \/ Logout(e)

AdminSekolah(a) ==
  \/ UploadDokumen(a) \/ MySekolah(a) \/ DaftarPendidik(a) \/ DaftarJadwal(a)
  \/ \E e \in Email : PengajuanBaru(a, e) \/ PengajuanUlang(a, e) \/ TambahPendidik(a, e) \/ UpdatePendidik(a, e)
  \/ \E w \in Slot :
       \/ \E e \in Email : TambahJadwal(a, e, w)
       \/ \E t \in SekolahID : DeleteJadwal(a, t, w) \/ \E w2 \in Slot : UpdateJadwal(a, t, w, w2)

SuperAdmin(a) ==
  \E s \in SekolahID :
    Detail(a, s) \/ \E baru \in {"menunggu_verifikasi", "aktif", "ditolak"} : Verifikasi(a, s, baru)

Batas ==
  Cardinality(sesi) + Cardinality(kode) + Cardinality(tunda) + Cardinality(temp) <= MaxSementara

Langkah ==
  \/ Ditolak \/ Usang
  \/ \E e \in Warga : Aplikasi(e)
  \/ \E a \in Email :
       \/ Kantor(a) \/ AdminSekolah(a) \/ SuperAdmin(a) \/ MyJadwalHarian(a) \/ MyJadwalMingguIni(a)
       \/ \E grup \in DOMAIN PeranRute : TakBoleh(a, grup)

Next == Langkah /\ Batas'

Spec == Init /\ [][Next]_vars

----------------------------------------------------------------------------
\* The tables refer to one another rightly, though no foreign keys and no
\* transactions hold them together: a teacher has an active account of that role
\* and a school with an administrator, a lesson a teacher of its own school.
Rujukan ==
  /\ \A e \in Guru :
       /\ users[e].role = "tenaga_pendidik" /\ users[e].aktif
       /\ sekolah[pendidik[e]].admin # Tiada
  /\ \A s \in SekolahID :
       sekolah[s].admin # Tiada => users[sekolah[s].admin].role = "admin_sekolah"
  /\ \A p \in DOMAIN jadwal : jadwal[p] # Tiada => pendidik[jadwal[p]] = p[1]

\* An account of a school or of a teacher lacks its school or its teacher, or nobody
\* has its password, only if the request that made it answered 500
\* (sekolah.go:394-410, pendidik.go:115-160): after any other answer the routes
\* find what the account belongs to.
DataLengkap ==
  \A e \in Email \ gagal :
    /\ users[e].role = "tenaga_pendidik" => e \in Guru
    /\ users[e].role = "admin_sekolah" => SekolahAdmin(e) # {}
    /\ users[e].role \in Internal => users[e].sandi

\* A request that is refused (4xx) leaves the tables as they were, wherever in its
\* handler the refusal comes; only a 500 may leave a part behind.
DitolakTanpaBekas == [][jawab'.kode \in 400..499 => UNCHANGED tabel]_vars

\* docs/API_DOCUMENTATION.md:24-29, 304-331: who decides on schools, and who keeps
\* their teachers and lessons.  A school gets its administrator no other way.
SesuaiPeran ==
  [][/\ pendidik' # pendidik \/ jadwal' # jadwal => jawab'.peran = "admin_sekolah"
     /\ \A s \in SekolahID :
          sekolah[s].status \notin {"tidak_ada", "ditolak"} /\ sekolah'[s] # sekolah[s]
            => jawab'.peran = "super_admin"]_vars

\* A school that was rejected stays as it was: PengajuanUlang finds the school by its
\* administrator (handler/sekolah.go:533), whom only an approval names
\* (sekolah.go:401), and the transition from ditolak is none Verifikasi takes.
DitolakBuntu ==
  [][\A s \in SekolahID : sekolah[s].status = "ditolak" => sekolah'[s] = sekolah[s]]_vars

\* The diagram and table of docs/API_DOCUMENTATION.md:38-78: a registration begins at
\* menunggu_verifikasi (49, 134), and pengajuan only follows ditolak (78).
DiagramDokumen ==
  {<<"tidak_ada", "menunggu_verifikasi">>, <<"menunggu_verifikasi", "aktif">>,
   <<"menunggu_verifikasi", "ditolak">>, <<"ditolak", "pengajuan">>,
   <<"pengajuan", "menunggu_verifikasi">>, <<"pengajuan", "nonaktif">>,
   <<"aktif", "nonaktif">>, <<"nonaktif", "aktif">>}

\* docs/API_DOCUMENTATION.md:38-78: a school's status changes along the diagram.
AlurDokumen ==
  [][\A s \in SekolahID :
       sekolah'[s].status # sekolah[s].status
         => <<sekolah[s].status, sekolah'[s].status>> \in DiagramDokumen]_vars
============================================================================
