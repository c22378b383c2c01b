-------------------------------- MODULE Akun --------------------------------
(***************************************************************************)
(* The accounts: the rows of table users and every operation that creates  *)
(* or changes one, from internal/service/mobile_auth.go (Register,         *)
(* VerifyOTP, ResendOTP, Login, OAuth, CompleteOAuth) and                  *)
(* internal/service/internal_auth.go (PusatLogin, InternalLogin,           *)
(* ForceUpdatePassword, RegisterSuperAdmin), and of the accounts that the  *)
(* services of schools and teachers make.  A step is one database          *)
(* statement or Redis command; overlapping requests interleave.            *)
(*                                                                         *)
(* users is indexed by the e-mail an account was made for.  A row is saved *)
(* whole by the Google sign-in, from a copy it read before, and by the     *)
(* rollback of TambahPendidik, which leaves it nothing but its key; the    *)
(* other updates name their columns.  Bound: an address whose account was  *)
(* rolled back is not registered again.  Of the one-time codes only their  *)
(* existence is kept (Otp has the rest), of the refresh tokens only that a *)
(* session was issued (Sesi has the rest).  The variables of riwayat are   *)
(* not in the program: they record what happened, for the properties.      *)
(***************************************************************************)
EXTENDS Naturals

CONSTANTS
  Permintaan,    \* requests in progress at the same time
  Email,         \* normalised e-mail addresses
  Google,        \* Google accounts (the sub of an ID token)
  EmailGoogle,   \* the verified address of each Google account
  TanpaGoogle,   \* google_id is NULL
  MaxSandi,      \* bound: passwords
  MaxTunda,      \* bound: pending OAuth sessions in a behaviour
  MaxTemp        \* bound: temp tokens in a behaviour

ASSUME KonstantaAssumption ==
  /\ EmailGoogle \in [Google -> Email] /\ TanpaGoogle \notin Google
  /\ MaxSandi \in Nat \ {0} /\ MaxTunda \in Nat /\ MaxTemp \in Nat

VARIABLES
  users,      \* table users
  kode,       \* addresses for which Redis holds a one-time code
  tunda,      \* the pending OAuth sessions of Redis
  temp,       \* the temp tokens
  req,        \* the local state of every request
  sesi,       \* addresses a session was issued for
  terbukti,   \* addresses whose owner proved them, by a code or by Google
  maksud,     \* users, had every update read and written the row at once
  dibatalkan, \* addresses whose account was rolled back
  disela,     \* addresses whose row was written while a request held a copy to save
  tumpang,    \* addresses of which two requests overlapped
  gagal       \* addresses of which a call failed or a request was cut off

riwayat == <<sesi, terbukti, maksud, dibatalkan, disela, tumpang, gagal>>
vars == <<users, kode, tunda, temp, req, riwayat>>

Sandi == 1..MaxSandi

\* email: the row has the address it was made for.  "internal" is admin_sekolah or
\* tenaga_pendidik; a password is a number, 0 none.
Baris == [email : BOOLEAN, account_status : {"tidak_ada", "pending_verification", "active", ""},
          email_verified : BOOLEAN, google_id : Google \cup {TanpaGoogle},
          no_whatsapp : BOOLEAN, provider : {"email", "google", ""},
          role : {"wali_murid", "internal", "super_admin", ""},
          password : 0..MaxSandi, is_password_updated : BOOLEAN]

\* Mutant: a status no other operation knows.
Pendaftar_Salah ==
  [email |-> TRUE, account_status |-> "pending", email_verified |-> FALSE,
   google_id |-> TanpaGoogle, no_whatsapp |-> TRUE, provider |-> "email",
   role |-> "wali_murid", password |-> 1, is_password_updated |-> FALSE]

\* What Register inserts.
Pendaftar ==
  [email |-> TRUE, account_status |-> "pending_verification", email_verified |-> FALSE,
   google_id |-> TanpaGoogle, no_whatsapp |-> TRUE, provider |-> "email",
   role |-> "wali_murid", password |-> 1, is_password_updated |-> FALSE]

TidakAda ==
  [Pendaftar EXCEPT !.email = FALSE, !.account_status = "tidak_ada", !.password = 0]

\* model.User{ID: user.ID}, saved whole: every other column is empty.
Kosong ==
  [TidakAda EXCEPT !.account_status = "", !.no_whatsapp = FALSE, !.provider = "", !.role = ""]

\* What CompleteOAuth inserts for a Google account without a user.
PenggunaGoogle(g) ==
  [Pendaftar EXCEPT !.account_status = "active", !.email_verified = TRUE,
                    !.google_id = g, !.provider = "google", !.password = 0]

\* What RegisterSuperAdmin inserts, and the services of schools and teachers.
Petugas(role) ==
  [Pendaftar EXCEPT !.account_status = "active", !.email_verified = TRUE,
                    !.no_whatsapp = FALSE, !.role = role,
                    !.is_password_updated = (role = "super_admin")]

\* A pending OAuth session: whose, and whether there was a user to complete.
Tunda == [g : Google \cup {TanpaGoogle}, existing : BOOLEAN,
          keadaan : {"belum", "ada", "hilang"}, ditukar : 0..2]

\* A temp token: whose, and how often it has changed a password.
Temp == [untuk : Email \cup {TanpaGoogle},
         keadaan : {"belum", "berlaku", "hitam", "usang"}, dipakai : 0..2]

\* salin is the row the request holds: read, or to be inserted; g, p, t and
\* sandi are the Google account, the pending session, the temp token and the
\* new password it works with.
Lokal == [pc : {"bebas", "buat", "batal", "kirim", "periksa", "hapus", "verifikasi", "cari",
                "tautkan", "tunda", "lepas", "baca", "lengkapi", "pengguna", "ganti", "simpan",
                "cabut", "sesi"},
          e : Email \cup {TanpaGoogle}, salin : Baris, g : Google \cup {TanpaGoogle},
          p : 0..MaxTunda, t : 0..MaxTemp, sandi : 0..MaxSandi]

Bebas == [pc |-> "bebas", e |-> TanpaGoogle, salin |-> TidakAda, g |-> TanpaGoogle,
          p |-> 0, t |-> 0, sandi |-> 0]

TypeOK ==
  /\ users \in [Email -> Baris] /\ maksud \in [Email -> Baris]
  /\ kode \subseteq Email
  /\ tunda \in [1..MaxTunda -> Tunda] /\ temp \in [1..MaxTemp -> Temp]
  /\ req \in [Permintaan -> Lokal]
  /\ sesi \subseteq Email /\ terbukti \subseteq Email /\ disela \subseteq Email
  /\ dibatalkan \subseteq Email /\ tumpang \subseteq Email /\ gagal \subseteq Email

Init ==
  /\ users = [e \in Email |-> TidakAda] /\ maksud = users
  /\ kode = {}
  /\ tunda = [p \in 1..MaxTunda |->
                [g |-> TanpaGoogle, existing |-> FALSE, keadaan |-> "belum", ditukar |-> 0]]
  /\ temp = [t \in 1..MaxTemp |-> [untuk |-> TanpaGoogle, keadaan |-> "belum", dipakai |-> 0]]
  /\ req = [r \in Permintaan |-> Bebas]
  /\ sesi = {} /\ terbukti = {} /\ dibatalkan = {} /\ disela = {} /\ tumpang = {} /\ gagal = {}

----------------------------------------------------------------------------
\* FindByEmail finds a row.
Ada(e) == users[e].email

Status(e) == users[e].account_status

Menjadi(r, q) == req' = [req EXCEPT ![r] = q]

\* Request r goes on at pc, or is done.
Ke(r, pc) == Menjadi(r, IF pc = "bebas" THEN Bebas ELSE [req[r] EXCEPT !.pc = pc])

\* The address, if a request about it is in progress.
Bertemu(e) == {req[s].e : s \in Permintaan} \cap {e}

\* Request r begins, about address e: its first call leaves it as q.
Mulai(r, e, q) ==
  /\ req[r] = Bebas
  /\ Menjadi(r, IF q.pc = "bebas" THEN Bebas ELSE [q EXCEPT !.e = e])
  /\ tumpang' = tumpang \cup Bertemu(e)
  /\ UNCHANGED <<users, kode, tunda, temp, sesi, terbukti, maksud, dibatalkan, disela, gagal>>

Di(pc) == [Bebas EXCEPT !.pc = pc]

\* Request r writes the row of its address: the program writes baris, where
\* sendiri is what its update makes of the row as it should be by now.
Tulis(r, baris, sendiri) ==
  LET e == req[r].e
  IN /\ users' = [users EXCEPT ![e] = baris]
     /\ maksud' = [maksud EXCEPT ![e] = sendiri]
     /\ disela' = IF \E s \in Permintaan \ {r} :
                       req[s].e = e /\ req[s].pc \in {"tautkan", "lengkapi"}
                    THEN disela \cup {e} ELSE disela

\* UserRepository.Create, and what may come after it.
Buat(r, baris, lanjut) ==
  IF Ada(req[r].e)
    THEN Ke(r, "bebas") /\ UNCHANGED <<users, maksud, disela>>
    ELSE /\ Status(req[r].e) = "tidak_ada"
         /\ \E pc \in lanjut : Ke(r, pc)
         /\ Tulis(r, baris, baris)

\* IssueSession and issueSession, the last call of every sign-in.
IssueSession(r) ==
  /\ req[r].pc = "sesi"
  /\ sesi' = sesi \cup {req[r].e}
  /\ Menjadi(r, Bebas)
  /\ UNCHANGED <<users, kode, tunda, temp, terbukti, maksud, dibatalkan, disela, tumpang, gagal>>

----------------------------------------------------------------------------
(* Registration with a password, and the one-time code.                    *)

\* Register reads the row by its e-mail.
Register(r, e) ==
  Mulai(r, e, CASE ~Ada(e)              -> [Di("buat") EXCEPT !.salin = Pendaftar]
                [] Status(e) = "active" -> Bebas
                [] OTHER                -> Di("kirim"))

\* RegisterSuperAdmin, Verifikasi and TambahPendidik look for the e-mail first.
BuatPetugas(r, e, role) ==
  Mulai(r, e, IF Ada(e) THEN Bebas ELSE [Di("buat") EXCEPT !.salin = Petugas(role)])

SetelahBuat(baris) ==
  CASE baris.role = "wali_murid"  -> {"kirim"}
    [] baris.role = "super_admin" -> {"sesi"}
    [] OTHER                      -> {"bebas", "batal"}

Create(r) ==
  /\ req[r].pc = "buat"
  /\ Buat(r, req[r].salin, SetelahBuat(req[r].salin))
  /\ UNCHANGED <<kode, tunda, temp, sesi, terbukti, dibatalkan, tumpang, gagal>>

\* TambahPendidik could not insert the teacher of the account: the whole row is saved,
\* with an e-mail that only one row can have.  The error is dropped.
Batalkan(r) ==
  /\ req[r].pc = "batal"
  /\ IF \E f \in Email \ {req[r].e} : Status(f) # "tidak_ada" /\ ~Ada(f)
       THEN UNCHANGED <<users, maksud, dibatalkan, disela>>
       ELSE Tulis(r, Kosong, Kosong) /\ dibatalkan' = dibatalkan \cup {req[r].e}
  /\ Menjadi(r, Bebas)
  /\ UNCHANGED <<kode, tunda, temp, sesi, terbukti, tumpang, gagal>>

ResendOTP(r, e) ==
  Mulai(r, e, IF Status(e) = "pending_verification" THEN Di("kirim") ELSE Bebas)

\* OTPService.Generate; it answers ErrOTPResendWait during the cooldown.
Generate(r) ==
  /\ req[r].pc = "kirim"
  /\ kode' \in {kode, kode \cup {req[r].e}}
  /\ Menjadi(r, Bebas)
  /\ UNCHANGED <<users, tunda, temp, riwayat>>

VerifyOTP(r, e) ==
  Mulai(r, e, IF Status(e) = "pending_verification" THEN Di("periksa") ELSE Bebas)

\* Mutant: any answer will do.
PeriksaKode_Longgar(r) ==
  /\ req[r].pc = "periksa"
  /\ Ke(r, "hapus")
  /\ UNCHANGED <<users, kode, tunda, temp, riwayat>>

\* OTPService.Verify: GET, a wrong answer, or the right one and its DEL.
PeriksaKode(r) ==
  /\ req[r].pc = "periksa"
  /\ \/ Ke(r, "bebas") /\ UNCHANGED terbukti
     \/ req[r].e \in kode /\ Ke(r, "hapus") /\ terbukti' = terbukti \cup {req[r].e}
  /\ UNCHANGED <<users, kode, tunda, temp, sesi, maksud, dibatalkan, disela, tumpang, gagal>>

HapusKode(r) ==
  /\ req[r].pc = "hapus"
  /\ kode' = kode \ {req[r].e}
  /\ Ke(r, "verifikasi")
  /\ UNCHANGED <<users, tunda, temp, riwayat>>

Terverifikasi(baris) ==
  [baris EXCEPT !.email_verified = TRUE, !.account_status = "active"]

\* UserRepository.SetEmailVerified
SetEmailVerified(r) ==
  /\ req[r].pc = "verifikasi"
  /\ Tulis(r, Terverifikasi(users[req[r].e]), Terverifikasi(maksud[req[r].e]))
  /\ Ke(r, "sesi")
  /\ UNCHANGED <<kode, tunda, temp, sesi, terbukti, dibatalkan, tumpang, gagal>>

\* A code expires, or is deleted after too many wrong answers.
KodeHilang(e) ==
  /\ e \in kode
  /\ kode' = kode \ {e}
  /\ UNCHANGED <<users, tunda, temp, req, riwayat>>

\* Mutant: the status is not looked at.
Login_TanpaStatus(r, e, sandi) ==
  Mulai(r, e, IF users[e].provider = "email" /\ users[e].password = sandi
                THEN Di("sesi") ELSE Bebas)

\* Login takes any role.
Login(r, e, sandi) ==
  Mulai(r, e, IF users[e].provider = "email" /\ users[e].password = sandi
                 /\ Status(e) = "active"
                THEN Di("sesi") ELSE Bebas)

----------------------------------------------------------------------------
(* The Google sign-in.                                                     *)

\* Where OAuth goes with the user it found or linked.
SetelahOAuth(baris) ==
  IF baris.no_whatsapp /\ baris.account_status = "active" THEN "sesi" ELSE "tunda"

\* ValidateIDToken, then FindByGoogleID.
OAuth(r, g) ==
  LET e == EmailGoogle[g]
      milik == {f \in Email : users[f].google_id = g}
  IN /\ req[r] = Bebas
     /\ \E q \in IF milik = {} THEN {Di("cari")}
                 ELSE {[Di(SetelahOAuth(users[f])) EXCEPT !.salin = users[f]] : f \in milik} :
          Menjadi(r, [q EXCEPT !.e = e, !.g = g])
     /\ tumpang' = tumpang \cup Bertemu(e)
     /\ terbukti' = terbukti \cup {e}
     /\ UNCHANGED <<users, kode, tunda, temp, sesi, maksud, dibatalkan, disela, gagal>>

\* Mutant: a pending account stays pending.
Ditautkan_Pending(baris, g) == [baris EXCEPT !.google_id = g, !.email_verified = TRUE]

Ditautkan(baris, g) ==
  [Terverifikasi(baris) EXCEPT !.google_id = g]

\* FindByEmail.
CariEmail(r) ==
  /\ req[r].pc = "cari"
  /\ Menjadi(r, IF Ada(req[r].e)
                  THEN [req[r] EXCEPT !.pc = "tautkan", !.salin = Ditautkan(users[req[r].e], req[r].g)]
                  ELSE [req[r] EXCEPT !.pc = "tunda"])
  /\ UNCHANGED <<users, kode, tunda, temp, riwayat>>

\* UserRepository.Update, the row as it was read with its Google account.
Tautkan(r) ==
  /\ req[r].pc = "tautkan"
  /\ Tulis(r, req[r].salin, Ditautkan(maksud[req[r].e], req[r].g))
  /\ Ke(r, SetelahOAuth(req[r].salin))
  /\ UNCHANGED <<kode, tunda, temp, sesi, terbukti, dibatalkan, tumpang, gagal>>

SavePendingOAuth(r) ==
  /\ req[r].pc = "tunda"
  /\ \E p \in 1..MaxTunda :
       /\ tunda[p].keadaan = "belum" /\ \A o \in 1..p - 1 : tunda[o].keadaan # "belum"
       /\ tunda' = [tunda EXCEPT ![p] =
            [g |-> req[r].g, existing |-> req[r].salin # TidakAda, keadaan |-> "ada", ditukar |-> 0]]
  /\ Menjadi(r, Bebas)
  /\ UNCHANGED <<users, kode, temp, riwayat>>

\* GetPendingOAuth: GET, then DEL.
CompleteOAuth(r, p) ==
  /\ tunda[p].keadaan = "ada"
  /\ Mulai(r, EmailGoogle[tunda[p].g], [Di("lepas") EXCEPT !.g = tunda[p].g, !.p = p])

SetelahLepas(p) == IF tunda[p].existing THEN "baca" ELSE "pengguna"

\* Mutant: the pending session stays until it expires.
HapusTunda_Tetap(r) ==
  /\ req[r].pc = "lepas"
  /\ Ke(r, SetelahLepas(req[r].p))
  /\ UNCHANGED <<users, kode, tunda, temp, riwayat>>

HapusTunda(r) ==
  /\ req[r].pc = "lepas"
  /\ tunda' = [tunda EXCEPT ![req[r].p].keadaan = "hilang"]
  /\ Ke(r, SetelahLepas(req[r].p))
  /\ UNCHANGED <<users, kode, temp, riwayat>>

\* email_verified and the status are set again, the Google account only if none is.
Dilengkapi(baris, g) ==
  [Terverifikasi(baris) EXCEPT !.no_whatsapp = TRUE,
     !.google_id = IF @ = TanpaGoogle THEN g ELSE @]

BacaPengguna(r) ==
  /\ req[r].pc = "baca"
  /\ Menjadi(r, [req[r] EXCEPT !.pc = "lengkapi", !.salin = Dilengkapi(users[req[r].e], req[r].g)])
  /\ UNCHANGED <<users, kode, tunda, temp, riwayat>>

Ditukar(p) == tunda' = [tunda EXCEPT ![p].ditukar = IF @ < 2 THEN @ + 1 ELSE 2]

Lengkapi(r) ==
  /\ req[r].pc = "lengkapi"
  /\ Tulis(r, req[r].salin, Dilengkapi(maksud[req[r].e], req[r].g))
  /\ Ditukar(req[r].p)
  /\ Ke(r, "sesi")
  /\ UNCHANGED <<kode, temp, sesi, terbukti, dibatalkan, tumpang, gagal>>

BuatPengguna(r) ==
  /\ req[r].pc = "pengguna"
  /\ Buat(r, PenggunaGoogle(req[r].g), {"sesi"})
  /\ IF Ada(req[r].e) THEN UNCHANGED tunda ELSE Ditukar(req[r].p)
  /\ UNCHANGED <<kode, temp, sesi, terbukti, dibatalkan, tumpang, gagal>>

\* oauthSessionTTL has passed.
TundaHilang(p) ==
  /\ tunda[p].keadaan = "ada"
  /\ tunda' = [tunda EXCEPT ![p].keadaan = "hilang"]
  /\ UNCHANGED <<users, kode, temp, req, riwayat>>

----------------------------------------------------------------------------
(* The accounts of the schools and of the super administrators.            *)

SandiCocok(e, sandi, peran) ==
  users[e].role = peran /\ users[e].password = sandi /\ Status(e) = "active"

PusatLogin(r, e, sandi) ==
  Mulai(r, e, IF SandiCocok(e, sandi, "super_admin") THEN Di("sesi") ELSE Bebas)

\* The password given out by mail is good for a temp token only.
InternalLogin(r, e, sandi) ==
  IF SandiCocok(e, sandi, "internal") /\ ~users[e].is_password_updated
    THEN \E t \in 1..MaxTemp :
           /\ req[r] = Bebas
           /\ temp[t].keadaan = "belum" /\ \A o \in 1..t - 1 : temp[o].keadaan # "belum"
           /\ temp' = [temp EXCEPT ![t] = [untuk |-> e, keadaan |-> "berlaku", dipakai |-> 0]]
           /\ UNCHANGED <<users, kode, tunda, req, riwayat>>
    ELSE Mulai(r, e, IF SandiCocok(e, sandi, "internal") THEN Di("sesi") ELSE Bebas)

\* ValidateTempToken; the new password differs from the old one the caller gives,
\* which BacaSandi compares with the stored one.
ForceUpdatePassword(r, t, sandi) ==
  /\ temp[t].keadaan = "berlaku"
  /\ Mulai(r, temp[t].untuk, [Di("ganti") EXCEPT !.t = t, !.sandi = sandi])

\* FindByID has the stored password, which must be the old one and not the new.
BacaSandi(r, lama) ==
  /\ req[r].pc = "ganti"
  /\ LET baris == users[req[r].e]
     IN Menjadi(r, IF baris.role = "internal" /\ baris.password = lama /\ lama # req[r].sandi
                     THEN [req[r] EXCEPT !.pc = "simpan", !.salin = baris] ELSE Bebas)
  /\ UNCHANGED <<users, kode, tunda, temp, riwayat>>

SandiBaru(baris, sandi) ==
  [baris EXCEPT !.password = sandi, !.is_password_updated = TRUE]

\* Mutant: the row that was read is saved whole.
UpdatePasswordAndActivate_Save(r) ==
  /\ req[r].pc = "simpan"
  /\ LET e == req[r].e
     IN Tulis(r, SandiBaru(req[r].salin, req[r].sandi), SandiBaru(maksud[e], req[r].sandi))
  /\ temp' = [temp EXCEPT ![req[r].t].dipakai = IF @ < 2 THEN @ + 1 ELSE 2]
  /\ Ke(r, "cabut")
  /\ UNCHANGED <<kode, tunda, sesi, terbukti, dibatalkan, tumpang, gagal>>

UpdatePasswordAndActivate(r) ==
  /\ req[r].pc = "simpan"
  /\ LET e == req[r].e
     IN Tulis(r, SandiBaru(users[e], req[r].sandi), SandiBaru(maksud[e], req[r].sandi))
  /\ temp' = [temp EXCEPT ![req[r].t].dipakai = IF @ < 2 THEN @ + 1 ELSE 2]
  /\ Ke(r, "cabut")
  /\ UNCHANGED <<kode, tunda, sesi, terbukti, dibatalkan, tumpang, gagal>>

\* Mutant: the temp token is good until it expires.
CabutTemp_Tetap(r) ==
  /\ req[r].pc = "cabut"
  /\ Ke(r, "sesi")
  /\ UNCHANGED <<users, kode, tunda, temp, riwayat>>

\* RevokeByToken, whose error is dropped.
CabutTemp(r) ==
  /\ req[r].pc = "cabut"
  /\ temp' = [temp EXCEPT ![req[r].t].keadaan = IF @ = "berlaku" THEN "hitam" ELSE @]
  /\ Ke(r, "sesi")
  /\ UNCHANGED <<users, kode, tunda, riwayat>>

\* TempTokenLifetime has passed.
TempUsang(t) ==
  /\ temp[t].keadaan = "berlaku"
  /\ temp' = [temp EXCEPT ![t].keadaan = "usang"]
  /\ UNCHANGED <<users, kode, tunda, req, riwayat>>

----------------------------------------------------------------------------
\* A request stops before its next call: the call failed, or the process went
\* down.  Of the deletions of the code and of the pending session and of the
\* revocation of the temp token the errors are dropped: the request goes on.
Gagal(r) ==
  /\ req[r] # Bebas
  /\ \/ Menjadi(r, Bebas)
     \/ req[r].pc = "hapus" /\ Ke(r, "verifikasi")
     \/ req[r].pc = "lepas" /\ Ke(r, SetelahLepas(req[r].p))
     \/ req[r].pc = "cabut" /\ Ke(r, "sesi")
  /\ gagal' = gagal \cup {req[r].e}
  /\ UNCHANGED <<users, kode, tunda, temp, sesi, terbukti, maksud, dibatalkan, disela, tumpang>>

Terima(r) ==
  \/ \E e \in Email :
       \/ Register(r, e) \/ ResendOTP(r, e) \/ VerifyOTP(r, e)
       \/ \E role \in {"internal", "super_admin"} : BuatPetugas(r, e, role)
       \/ \E s \in Sandi : Login(r, e, s) \/ PusatLogin(r, e, s) \/ InternalLogin(r, e, s)
  \/ \E g \in Google : OAuth(r, g)
  \/ \E p \in 1..MaxTunda : CompleteOAuth(r, p)
  \/ \E t \in 1..MaxTemp, s \in Sandi : ForceUpdatePassword(r, t, s)

Lanjut(r) ==
  \/ Create(r) \/ Batalkan(r) \/ Generate(r)
  \/ PeriksaKode(r) \/ HapusKode(r) \/ SetEmailVerified(r)
  \/ CariEmail(r) \/ Tautkan(r) \/ SavePendingOAuth(r)
  \/ HapusTunda(r) \/ BacaPengguna(r) \/ Lengkapi(r) \/ BuatPengguna(r)
  \/ (\E s \in Sandi : BacaSandi(r, s)) \/ UpdatePasswordAndActivate(r) \/ CabutTemp(r)
  \/ IssueSession(r) \/ Gagal(r)

Next ==
  \/ \E r \in Permintaan : Terima(r) \/ Lanjut(r)
  \/ \E e \in Email : KodeHilang(e)
  \/ \E p \in 1..MaxTunda : TundaHilang(p)
  \/ \E t \in 1..MaxTemp : TempUsang(t)

Spec == Init /\ [][Next]_vars

----------------------------------------------------------------------------
\* Whatever overlaps or fails, an account is active exactly when its e-mail is
\* verified (SetEmailVerified, repository/user.go:95, and the sign-in with Google
\* set both), and a parent's account only after the owner of the address proved
\* it, by a code or by Google.
AktifBerartiTerbukti ==
  \A e \in Email :
    /\ Status(e) = "active" <=> users[e].email_verified
    /\ Status(e) = "active" /\ users[e].role = "wali_murid" => e \in terbukti

\* An account never goes back: no save of a row read earlier makes an active
\* account pending or empty, or a row disappear.  The one step that does is the
\* rollback of TambahPendidik (pendidik.go:158), on the account its request made.
TetapAktif ==
  [][\A e \in Email :
       /\ Status(e) = "active" =>
            users'[e].account_status = "active" \/ e \in dibatalkan' \ dibatalkan
       /\ Status(e) # "tidak_ada" => users'[e].account_status # "tidak_ada"]_vars

\* No flow issues a session for an account that is not active, whichever rows it
\* decided on, also when the update that activates the account has failed; an
\* account that is rolled back may have a session from before.
SesiHanyaAktif == \A e \in sesi \ dibatalkan : Status(e) = "active"

\* An update of an account is lost only to a Google sign-in that read the row
\* before it and saved it after (mobile_auth.go:266-282, 345-359): the other
\* requests write the columns they change, or take the whole account back.
HanyaGoogleMenimpa == \A e \in Email : users[e] # maksud[e] => e \in disela

\* "retrieves and deletes pending OAuth session (single-use)" (otp.go:156): a
\* pending session completes one sign-in, unless requests for the account
\* overlapped or one failed.
TundaSekaliPakai ==
  \A p \in 1..MaxTunda :
    tunda[p].ditukar > 1 => EmailGoogle[tunda[p].g] \in tumpang \cup gagal

\* README.md:194, "temp_token dicabut otomatis" after the password was updated: a
\* temp token changes a password once, unless requests for the account overlapped
\* or one failed.
TempSekaliPakai ==
  \A t \in 1..MaxTemp : temp[t].dipakai > 1 => temp[t].untuk \in tumpang \cup gagal

----------------------------------------------------------------------------
(* What comments say and the code does not keep when requests overlap.     *)

\* "Delete immediately - single use" (otp.go:169): a pending session completes one
\* sign-in, unless a call failed.
TundaHanyaSekali ==
  \A p \in 1..MaxTunda : tunda[p].ditukar > 1 => EmailGoogle[tunda[p].g] \in gagal

\* "Revoke temp token after use" (internal_auth.go:144): a temp token changes a
\* password once, unless a call failed.
TempHanyaSekali == \A t \in 1..MaxTemp : temp[t].dipakai > 1 => temp[t].untuk \in gagal
============================================================================
