# SIMAS backend: TLA+ models, model checking and proofs

SIMAS is a Go service (gin, gorm/PostgreSQL, Redis, S3, SMTP) in which schools
register, upload their legal documents and are approved by super admins, and in
which school administrators, teachers and mobile users sign in. This directory
models its stateful parts in TLA+, checks them with TLC on small instances and
proves the main invariants with TLAPS for every size. Names follow the source;
comments in the modules cite `src/internal` where no path is given.

Every HTTP request runs in a goroutine of its own and does its database, Redis,
storage and mail calls one at a time, **outside any transaction**. The models
therefore take one call as one step: requests interleave between their calls,
work on copies they read earlier, and may end before any call (an error, a
cancelled context, a crash), in which case nothing is rolled back.

## Inventory

| Component | State | Operations | Hard behaviour | What makes it correct | Model |
|---|---|---|---|---|---|
| Registration workflow (`service/sekolah.go`, `repository/sekolah.go`, `handler/sekolah.go`) | tables `sekolah`, `sekolah_state_log`; accounts in `users`; documents in S3; mails | PengajuanBaru(Lengkap), UploadDokumen, Verifikasi, PengajuanUlang, UpdateMySekolah, UpdateSekolah | `Update` is gorm's `Save`: it writes every column of a copy read earlier; account, mail, row and log are separate calls | status moves only as the service's own checks allow, but for the Save of a stale copy; a school has an administrator exactly when it is (de)activated, who has an account and its password; the row refers to all documents or none | `Sekolah`, `SekolahAlur`, `SekolahProofs` |
| OTPService (`service/otp.go`) | two Redis keys per e-mail with expiry | Generate, Verify | read-modify-write of the entry, TTL asked for separately, errors dropped, keys that expire meanwhile | attempts bounded, a code accepted once and only while it is the last one, resend cooldown, never a key without expiry, every code ends | `Otp`, `OtpProofs` |
| Teaching timetable (`service/pendidik.go:321-446`) | table `pendidik_jadwal` | TambahJadwal, UpdateJadwal, DeleteJadwal | the clash query and the write are two statements; times are compared as text | two lessons of a school meet only through a write between check and store, or through times that do not sort as text; deleted lessons stay deleted | `Jadwal`, `JadwalProofs` |
| Teachers (`service/pendidik.go:48-319`) | tables `pendidik`, `users`, `sekolah.jumlah_pendidik` | TambahPendidik, UpdatePendidik, UpdatePendidikStatus | three tables without a transaction, a counter recomputed and saved with the whole school row | no account without a teacher, the counter counts, the last decision on a status stands | `Pendidik`, `PendidikProofs` |
| Mobile authentication (`service/mobile_auth.go`) | `users`, pending OAuth sessions in Redis | Register, VerifyOTP, ResendOTP, Login, OAuth, CompleteOAuth, Refresh | whole-row saves of stale user rows, single-use session read by GET then DEL | no update is lost but to a Google sign-in that overlaps it; an account is active only if its address was proved, and stays so unless TambahPendidik rolls it back; a pending session is used once; no session for an account that is not active | `Akun`, `AkunProofs` |
| Internal authentication (`service/internal_auth.go`) | `users` | PusatLogin, InternalLogin, ForceUpdatePassword, RegisterSuperAdmin | the revocation of the temp token may fail after the password was changed | a temporary token changes a password once | `Akun`, `AkunProofs` |
| Token sessions (`auth/jwt.go`, `repository/refresh_token.go`, `handler/auth.go` Logout) | `refresh_tokens`, Redis blacklist | IssueSession, Refresh, Logout, Validate | validate, store and revoke are three statements; blacklist errors are dropped | a blacklisted access token stays refused; a rotated token ends revoked; a refresh token has at most one successor; logout ends the session | `Sesi`, `SesiProofs` |
| Rate limiter (`middleware/rate_limit.go`) | one Redis counter per rule and client | Limit | INCR and EXPIRE are two commands, the second's error is dropped | a bounded number of requests per window; a client is let in again | `RateLimit`, `RateLimitProofs` |
| Router, auth middleware and handlers (`cmd/api/main.go`, `middleware/auth.go`, `handler/*.go`) | none of their own | the routes, their groups and roles, their answers | a refusal may come after a write; which role reaches which table is spread over route groups; the tables are tied by no foreign key | tables refer to one another rightly, a refused request leaves nothing behind, each role changes its own tables only | `Api`, `ApiProofs` |
| Password and Google checks, mailer, S3 client, configuration, logger | none that changes, or external | | | | left out, or appear as the inputs and effects of the modules above |

The components meet in the `users` table (approval, teacher creation and mobile
registration all create accounts under one unique e-mail), in the `sekolah` row
(the registration workflow and the teacher counter both save it whole), in Redis
(the OTP and session keys) and in the mailer, to which a mail is handed over
asynchronously and which reports nothing back. The modules of the components
interleave the calls of requests; `Api` composes the components behind the router,
one whole request at a time.

## Modules

### Sekolah, the registration workflow

| TLA+ | Code |
|---|---|
| `sekolah` | table `sekolah`: status, documents, `admin_sekolah_id`, e-mail; `NULL` where no row exists |
| `pengguna` | table `users`: the role of the account of an e-mail (accounts are named by e-mail) |
| `berkas` | the objects under the legal-document keys of a school |
| `riwayat` | the schools whose activation has an entry in `sekolah_state_log` |
| `surat` | the mails of an approval handed to `Mailer.SendAsync` |
| `req` | per request: the operation, the next call, the key and **the copy of the row** it works on, the files left to upload |

`PengajuanBaru`, `UploadDokumen`, `Verifikasi`, `PengajuanUlang`,
`UpdateMySekolah` and `UpdateSekolah` are the handlers up to their first write:
they read, decide and keep the copy. `BuatSekolah`, `UnggahBerkas`, `BuatAkun`,
`KirimKredensial`, `Simpan`, `CatatRiwayat` and `Kabari` are the calls that
follow, in the order of the code. `Gagal` ends a request before any call.
`DaftarLain` is an account created by another service. The log insert may fail
and the request goes on (every caller ignores the error).

`PengajuanUlang` is modelled as the service offers it, by tracking code. Its only
handler first looks for a school administered by the caller, which a rejected
school does not have (`AktifPunyaAdmin`), so the model allows more than the router
does; what is shown of it covers the router, which `Api` models.

NPSN, checked and unique like the e-mail, is folded into it; descriptive columns,
notices to super admins, rejection mails and read-only endpoints are left out.

`SekolahAlur` is the abstract workflow of the service's own checks:
`validStatusTransitions` (`service/sekolah.go:39-45`), the conditions of an upload
(188) and of a resubmission (625), one indivisible step per decision, and an
administrator assigned in the very step that approves the school. `nonaktif` is left
out, because the binding of the request lets nobody ask for it. It is **not** the
diagram of `docs/API_DOCUMENTATION.md:38-78`, which the code contradicts (see
*Claims the code does not keep*).
`MengikutiAlur` says that every step of `Sekolah` is a step of it, through
`Alur == INSTANCE SekolahAlur WITH ...`, with one exception: a `Simpan` of a copy
whose row has moved since it was read (`Basi`, by the history `asal` of that read).
Such a Save writes whatever the copy holds, and `sekolah_transisi` shows what
becomes of an approval then.

`NextRute` and `SpecRute` are the same handlers as `main.go:188-218` routes them:
without `PengajuanBaruLengkap`, whose handler no route names, and `UploadDokumen`,
whose handler answers 400 (see *Findings without a run*).

### Otp, one-time codes of one e-mail

`entri` is the key `otp:<email>` (which code, attempts, remaining time),
`cooldown` the remaining time of `otp:cooldown:<email>`. A step is one Redis
command: `Generate` (EXISTS), `SimpanKode` and `SimpanJeda` (the pipelined SETs),
`Verify` (GET and the decision on the entry), `HapusMaks`, `BacaTTL`,
`SimpanSalah`, `HapusKode`, `HapusJeda`. `Gagal` lets a command have no effect
(most errors are dropped and the request goes on) or a request end early. `Tick`
ages the keys. `salah`, `diterima`, `usia` and `terganggu` record what happened,
for the properties.

### Jadwal, the timetable

`jadwal` is the table, `pernah` the keys handed out so far, `req` the requests
between the clash query and their write. `Beririsan` is the WHERE clause of
`CheckTabrakan`; `Urutan` is the order the database compares times by (text),
`Waktu` the time of day a text stands for, so that the property can speak about
time while the code compares text. A request that reads (`Membaca`) relies on the
tables as they are; one that writes (`SelesaiMenulis`) makes every other request of
its school `usang`, until that request reads again; `tercela` are the keys whose lesson
was stored by such a request. `TabrakanBersebab` says that a clash has one of two
reasons: a lesson stored so, or texts that do not sort as the times they stand for.

### Sesi, the sessions of one user

`token` holds the rows of `refresh_tokens`, `sisa` the remaining life of each
access token, `hitam` that of its `blacklist:<jti>` key. A session number names a
row and the access token issued with it. `IssueSession` is a sign-in; `Refresh`,
`SimpanBaru` and `CabutLama` are Validate, Store and Revoke of the refresh
handler; `Logout`, `Hitamkan`, `CariRefresh` and `CabutKeluar` the check and SET
of the access token and the Validate and Revoke of the refresh token. `Gagal`
ends a request before any of these calls, or lets the SET fail and the logout go
on. `Usang` expires a row, `Tick` ages tokens and keys. The chain of a token
(`rantai`) and its predecessor (`pendahulu`) are kept for the properties, like
`keluar`, `tamat`, `gagal` and `tumpang`; `replaced_by_id`, which the code writes
and never reads, is left out.

A Redis that does not answer makes `JWTManager.Validate` accept a blacklisted
token (`auth/jwt.go:94`); `AksesSah` is Validate with a Redis that answers. Logout
also blacklists a refresh or temporary token given as bearer; the model follows
access tokens only, and of these the ones in `Akses`, since no access token has a
bearing on another.

### Akun, the accounts

| TLA+ | Code |
|---|---|
| `users` | table `users`, by e-mail: status, verification, Google account, provider, role, password, whether it was changed |
| `kode` | the addresses with a key `otp:<email>` (`Otp` has the rest) |
| `tunda` | the pending OAuth sessions of Redis: whose, and whether a user existed |
| `temp` | the temporary tokens: valid, blacklisted or expired |
| `req` | per request: the next call, the address, **the copy of the row** and what it works with |
| `sesi`, `terbukti`, `maksud`, `disela`, `tumpang`, `gagal`, `dibatalkan` | history: sessions issued, addresses proved, the row as it were had every update been atomic, what overlapped or failed, and whose account was rolled back |

`Register`, `ResendOTP`, `VerifyOTP`, `Login`, `OAuth`, `CompleteOAuth`,
`PusatLogin`, `InternalLogin`, `ForceUpdatePassword` and `BuatPetugas`
(the accounts made by RegisterSuperAdmin, Verifikasi and TambahPendidik) are the flows
up to their first query; the actions after them are the calls that follow, named after
the repository or the OTP service where it has a name. Three statements save a whole
row: `Tautkan` and `Lengkapi` a row read earlier, and `Batalkan`, the rollback of
TambahPendidik (`service/pendidik.go:158`), a user with nothing but its key. It
blanks status, role, password and e-mail of the account, which nobody finds by its
address any more; there it counts as gone (`dibatalkan`), and a second blank row
is refused, because e-mails are unique. `SetEmailVerified` and
`UpdatePasswordAndActivate` write their columns only. `Gagal` ends a request before
a call, or loses a deletion whose error the code drops. `KodeHilang`, `TundaHilang`
and `TempUsang` are expiries. A bound of the model: an address that was rolled back is
not registered again, since an account is named by its address.

The password of an account is a number, so that the right, the old and the new one
are told apart. Telephone numbers appear as whether there is one.

### Pendidik, the teachers

`users`, `pendidik` and `sekolah` are the three tables TambahPendidik writes without
a transaction: an account, a teacher under its key, and the school's count of
teachers together with its other columns (`profil`), since the row is saved whole.
`TambahPendidik` reads the school; `CekEmail`, `CekNomor`, `BuatAkun`, `BuatBaris`,
`Batalkan` and `TambahJumlah` are its queries, inserts, rollback and the save of
the school. `UpdatePendidik` (with UpdateMyProfile) and `UpdatePendidikStatus`
read a teacher that `SimpanGuru` and `SimpanStatus` save whole; `BacaSekolah`,
`Hitung` and `SimpanJumlah` recount. `BacaProfil` and `SimpanProfil` stand for
the school's own services, which save the same row. NIP and NUPTK are one number; the
empty string is a value of its own, because it passes the check for duplicates and
is stored, and unique. The rollback (`Batalkan`) is a save of a user with nothing
but its key, as in the code; what it leaves is an account with an empty e-mail,
unique like every other.

### Api, the routed system

One step is one request: limiter, middleware, handler and services with their
answer in `jawab`. Where a call may fail in the middle, a disjunct leaves what the
calls before wrote and answers 500; `gagal` remembers the account such a request
made. `users`, `sekolah`, `pendidik` and `jadwal` are the tables with the columns
that tie them together, `kode`, `tunda` and `temp` what Redis and the clients
hold, `sesi` the accounts with a session. `PeranRute` is the role of each route
group, `Boleh` and `TakBoleh` are RequireAuth and RequireRole. Handlers no route
reaches are no actions (PengajuanBaruLengkap, Update, DokumenLegalitas,
RegisterSuperAdmin, MyProfile, UpdateMyProfile), and a handler that answers 400
whatever it is sent is modelled as that (UploadDokumen). `Init` has a super
administrator and one school with its administrator, because the routes need
the first to approve and the second to register a school. `DitolakBuntu` says what the
routes make of a rejected school; `AlurDokumen` is the documented diagram, which they
do not follow.

### RateLimit, one rule for one client

`hitung` and `ttl` are the Redis counter and its expiry, where `Selamanya` means
that it has none. `Incr` is INCR and, unless it read 1, the answer; `Expire` is
the EXPIRE of the request that read 1, and its answer. `Gagal` is a command that
fails or a request that is cut off; `Tick` is time. `lolos` counts the requests
let through per unit of time over the last window.

### Proof and model-checking modules

`SekolahProofs`, `AkunProofs`, `PendidikProofs`, `ApiProofs`, `OtpProofs`,
`JadwalProofs`, `SesiProofs` and `RateLimitProofs` hold the theorems; the modules
whose names begin with `MC` the instances. Operators
commented as *mutant* are deliberate bugs; replacing the operator after them by one
of them makes TLC report the property named in `PROJECT.json`, which shows that the
property can fail.

## Runs

All state spaces are explored completely; there are no state constraints.
Deadlock is checked in every passing run; `sekolah_transisi` does not check it, since
its one school and one address may have nothing left to ask for. Symmetry sets permute model values no
definition names, and only in runs of safety properties. The largest runs, `akun`
(2.5 million states), `sekolah` (2.3 million), `pendidik` (2.1 million) and `jadwal`
(1.8 million), take one to three minutes each. The run `api` has a VIEW without
`jawab`: no action and no invariant reads the last answer, and the properties of
steps look only at the new one.

| Run | Checks | Instance | Shows |
|---|---|---|---|
| `sekolah` | `TypeOK`, `AktifPunyaAdmin`, `AdminMilikSekolah`, `AdminDapatMasuk`, `DiumumkanSetelahKredensial` | 2 schools, 2 e-mails, 1 document, 2 requests | stale whole-row writes, cut-off requests and foreign accounts never mix status, administrator, account and credentials of different versions |
| `sekolah_alur` | `DokumenUtuh`, `MengikutiAlur` | 1 school, 2 e-mails, 2 documents, 2 requests | the steps of the service's own checks, overlap and failures included; uploads that break off after any file |
| `sekolah_transisi` | `PersetujuanTetap` (violated) | 1 school, 2 requests, the routed handlers (`SpecRute`) | a late Save of a rejection undoes an approval that was mailed |
| `akun` | `TypeOK`, `AktifBerartiTerbukti`, `SesiHanyaAktif`, `HanyaGoogleMenimpa`, `TundaSekaliPakai`, `TempSekaliPakai`, `TetapAktif` | 2 requests, 1 address, 2 Google accounts of it, 2 passwords, 1 pending session, 1 temporary token, failures | what survives whole-row saves of stale copies and the rollback, and what is used once |
| `pendidik` | `JumlahSesuai`, `KredensialBerakun`, `YatimBersebab`, `StatusTerakhir`, `ProfilTetap` | 1 school, 2 requests, 2 e-mails, 2 accounts, NIP empty or given, failures | which discrepancies between the tables can arise, and from what |
| `api` | `Rujukan`, `DataLengkap`, `DitolakTanpaBekas`, `SesuaiPeran`, `DitolakBuntu` | 4 addresses (2 of them use the app), 2 schools, 2 times, at most 2 sessions, codes and tokens together, failures | all routes together, one request at a time |
| `otp` | `MaksPercobaan`, `SekaliPakai`, `SelaluBerbatasWaktu`, `KodeTerbaruSaja`, `JedaKirimUlang`, `KodeTamat` | 1 request, 3 attempts, TTL 3, cooldown 2, 2 codes, failures | the documented limits, for one request at a time; `SelaluBerbatasWaktu`, `KodeTerbaruSaja` and `KodeTamat` also under failures |
| `otp_percobaan` | `MaksPercobaan` (violated) | 2 requests, 2 attempts, no failures | lost attempt count |
| `jadwal` | `TabrakanBersebab` | 2 schools, 1 day, 3 texts of which one lacks its zero, 2 keys, 2 requests, failures | why lessons can clash |
| `jadwal_bertemu` | `TidakBertabrakan` (violated) | 1 school, 2 days, 3 padded times, 2 requests | check-then-insert race |
| `sesi` | `TypeOK`, `AksesKeluarDitolak`, `DigantiBerartiDicabut`, `SatuPenerus`, `TamatTuntas` | 2 requests, 3 sessions, 1 access token followed, life 2 | rotation and logout; the first three also under overlap, `AksesKeluarDitolak` also under failures |
| `laju` | `PalingBanyakDuaKali`, `KunciBerumur`, `DibukaLagi` | 3 requests, limit 2, window 3, failures | bounded bursts; a refused client is let in again |

Why the bounds are enough: every race in the code is between two requests on one
row or key, and two requests reach each of them; a third would only repeat one.
Two schools and two e-mails make every equality between schools, accounts and
addresses true in some states and false in others. Two documents give an
upload a first and a last file. Three times give lessons that overlap
fully, partly and only touch, two keys two lessons that clash, or one that is deleted
while another is moved; one text of three sorts otherwise than its time. The OTP
limits are small enough to be passed several times, and a second code is enough
to tell the last from an older one. Three sessions make a chain of two rotations,
a fork of one token, or two chains side by side; a life of two units lets the
blacklist key be set at two ages. A limit of 2 is passed by three requests at
once, and a window of 3 has a boundary, a middle and a boundary again. Accounts do
not depend on one another but through a Google account, so `Akun` has one address
with two Google accounts: the linked one and another of the same address; one
pending session and one token are enough to be used twice. With one address
`Batalkan` never meets a second blank row; the refusal is in `Pendidik`, and in the
proofs of `Akun`. Two accounts, two
e-mails and two NIPs, of which two equal ones collide and two different ones do not,
let `Pendidik` add two teachers, refuse the second or roll it back, and its one
school loses a count to two overlapping saves. `Api` has an address for each role
and, besides the two first accounts, two that may become anything: a school, its
administrator, a teacher, a parent; its second school goes through as much
of the workflow as the routes reach, and two times let a lesson move, collide, or be kept in either school.
Two sessions at a time are enough for two roles to alternate. `MaxKode`,
`MaxToken`, `MaxSandi`, `MaxTunda`, `MaxTemp`, `MaxAkun`, `MaxData`,
`MaxSementara` and the sets `JadwalID` and `Warga` are the only bounds on what the
code leaves unbounded; counters of `RateLimit` stop where no comparison tells them
apart.

**Fairness.** There are two liveness properties. `KodeTamat` says that every one-time
code goes out of force for good, although a wrong answer near its expiry gives it a
full life again; it assumes weak fairness of `Tick` alone (time passes, which nothing
in the code can prevent), so it holds also for requests that never finish.
`DibukaLagi` assumes weak fairness
of `Tick` and of `Expire(r)`
(a goroutine past its INCR gets to call EXPIRE: the scheduler is preemptive and
the call has no condition to wait for). Nothing is assumed about clients, so they
may try without end, and the promise ends with the first failed command: a lost
EXPIRE leaves a counter nobody expires (`rate_limit.go:58`).

**What the failing runs say.** They are disagreements between the code and its
documentation, listed under `findings` in `PROJECT.json`. `MaksPercobaan` holds when
verifications do not overlap, and TLC finds two that store the same count.
`TidakBertabrakan` fails for the two reasons `TabrakanBersebab` names, of which the run
shows the first. `PersetujuanTetap` is about the routed handlers: an approval creates
the account and mails the password; a rejection reads the row before the approval
saves it, and saves its own copy after it.
`PalingBanyakDuaKali` says twice the limit: the README's table reads as a limit
per window, and a fixed window that begins with the first request lets the end of
one and the beginning of the next add up.

**What the passing properties excuse.** Several name, in the history of their module,
the overlap or failure without which they hold. Each excuse is needed, and a hazard
it excuses is not caught by that property.

| Property | Excuses | Because |
|---|---|---|
| `MengikutiAlur` | `Basi`, a Save over a row that moved | every column of an old copy is written (`service/sekolah.go:408`) |
| `TabrakanBersebab` | `tercela`, texts out of order | check and store are two statements; times are text |
| `MaksPercobaan`, `SekaliPakai`, `JedaKirimUlang` | `terganggu`, and the run has one request | dropped Redis errors; GET and SET, GET and DEL, EXISTS and SET are two commands each |
| `PalingBanyakDuaKali`, `KunciBerumur`, `DibukaLagi` | `terganggu` | the error of EXPIRE is dropped (`rate_limit.go:58`) and the counter then stays for good |
| `DigantiBerartiDicabut` | a failed request of the chain | the error of Revoke is dropped (`service/mobile_auth.go:416`) |
| `SatuPenerus`, `TamatTuntas` | overlap or failure on the chain | two refreshes with one token both get a successor; a refresh that validated before a logout stores its successor after it |
| `HanyaGoogleMenimpa` | `disela`, a Google sign-in that overlaps | it saves the older row over a verification |
| `TundaSekaliPakai`, `TempSekaliPakai` | `tumpang`, `gagal` | read and removal are two calls; the error of the second is dropped |
| `TetapAktif`, `SesiHanyaAktif` | `dibatalkan` | the rollback of TambahPendidik blanks the account it made, active or not |
| `JumlahSesuai` | `kotor`, until a recount runs alone | a count taken before another request's insert is saved after it; the error of a recount is dropped |
| `YatimBersebab` | `yatim`, an earlier rollback | three tables without a transaction; an empty e-mail refuses the next rollback |
| `StatusTerakhir`, `ProfilTetap` | `tumpang`, `bentrok` | an update of a teacher's name saves the older status, a count the older profile of the school |

`AktifBerartiTerbukti`, `KredensialBerakun`, `AksesKeluarDitolak` and all properties of
`Sekolah` but `MengikutiAlur` hold whatever overlaps and fails.

## Claims the code does not keep

Besides the failing runs, the modules state these claims of comments and documents, as
properties of the given module, and TLC refutes each of them in the given instance.
They are no runs, because they say the same of the code as the excuses above.

| Claim | Module | Refuted in | By |
|---|---|---|---|
| `SekaliPakai`: "Verify checks OTP code, deletes on success" (`service/otp.go:90`) | `Otp` | `MCOtp.cfg` with `Permintaan = {r1, r2}` | two verifications that read the entry before either deletes it |
| `JedaKirimUlang`: "Cooldown resend, 60 detik" (`README.md:394`) | `Otp` | the same | two requests that find no cooldown |
| `HapusPermanen`: "Hapus jadwal mengajar" (`docs/API_DOCUMENTATION.md:329`) | `Jadwal` | `MCJadwal.cfg` | an UpdateJadwal that read the lesson before it was deleted; `Save` inserts a row that is not there (`service/pendidik.go:428`) |
| `KeluarMengakhiri`: "Revoke access token and refresh token to logout user" (`handler/auth.go:131`) | `Sesi` | `MCSesi.cfg` | a refresh that validated the token before the logout revoked it, and stored the successor |
| `TundaHanyaSekali`: "Delete immediately" (`service/otp.go:169`) | `Akun` | `MCAkun.cfg` | two completions of one pending session |
| `TempHanyaSekali`: "Revoke temp token after use" (`service/internal_auth.go:144`) | `Akun` | `MCAkun.cfg` | a change of the password that validated the token before another revoked it |
| `AlurDokumen`: the status diagram of `docs/API_DOCUMENTATION.md:38-78` | `Api` | `MCApi.cfg` | the first registration: it stores `pengajuan` (`service/sekolah.go:149`), where the document begins at `menunggu_verifikasi` (49, 134) and has `pengajuan` only after `ditolak` (78) |

A school can also reach `menunggu_verifikasi` without documents, since Verifikasi
accepts that status from a super admin (`service/sekolah.go:39-45`), against
`docs/API_DOCUMENTATION.md:74`; and `nonaktif` (77) is a status nobody can ask for.

## Findings without a run

Seen while modelling; the modules follow the code, and no run repeats them.

- An approval that fails after the account was created leaves an account, perhaps
  with its credentials mailed, for a school that is not active
  (`service/sekolah.go:394-410`); a second approval then fails, because the e-mail
  is taken. `Gagal` of `Sekolah` and `Aktifkan` of `Api` have these steps; `DataLengkap`
  shows that they are the only ones with that outcome.
- A rejected school cannot submit again through the routes: the handler looks for a
  school administered by the caller (`handler/sekolah.go:532`), which a rejected
  school does not have (`AktifPunyaAdmin`). The branch of `Api.PengajuanUlang` that
  resubmits is the code's, and no state of `Api` reaches it: `DitolakBuntu` states the
  consequence, a rejected school stays as it is. `docs/API_DOCUMENTATION.md:38-78` has
  the transition.
- The upload route is `/:id/dokumen` (`cmd/api/main.go:192`) and its handler reads
  `sekolah_id` (`handler/sekolah.go:192`): every upload answers 400. Tracking is
  `/tracking/:tracking_code` (`main.go:174`) and its handler reads the query
  (`handler/sekolah.go:262`): without the parameter repeated in the query it answers
  400.
- `POST /sekolah/lengkap` (`docs/API_DOCUMENTATION.md:88`) and
  `POST /auth/pusat/register` (`README.md:59`) are documented and not registered.
  Registering a school needs the role of a school administrator (`main.go:189-192`),
  which only an approved school has: in an empty database there is no first one.
  Teachers' own profile (`docs/API_DOCUMENTATION.md:335-336`) and a super admin's
  handling of teachers (381) have no routes either.
- Login of the mobile application has no role filter (`service/mobile_auth.go`):
  every active account with a password signs in there, also one whose mailed
  password was never changed.
- A wrong answer in the last half second of a code reads its remaining time as 0
  and gives it a full life again (`service/otp.go:119`); `KodeTamat` shows that this
  comes to an end.
- A mail is sent by a goroutine nobody waits for (`mailer/mailer.go:28`); its error is
  only logged, and no operation sends credentials again.
- The rollback of TambahPendidik saves a user with nothing but its key
  (`service/pendidik.go:158`): the account loses its e-mail, role, password
  and status instead of being removed, also when it was activated meanwhile
  (`TetapAktif` excuses it), and the unique e-mail lets that happen once.

## Proofs

`tlapm` proves the eight proof modules completely, for every value of the constants:
any number of requests, schools, addresses, accounts, codes, tokens and lessons, any
limit and any life time. Every property of a passing run is a theorem, but for the
two liveness properties.

Almost no property is inductive as it stands, for one reason: between two calls of a
request the table goes on without it, and what the request writes next depends on
what it read before. Each module therefore has an invariant `IInv` with a part
that says of a request, by the call it makes next, what the copy in its hands still
guarantees (`SalinanSah`, `PermintaanSah`, `Sah`, `Terperiksa`), next to the part
about the tables. Such a part survives the steps of others because what it relies on
is never taken back, and the proofs name what that is. For each module there is a
lemma that `Init` establishes the invariant, one per action (or group of actions)
that it is preserved, and one that puts them together for `Next`.

### Any overlap, any failure

*SekolahProofs.* `AktifPunyaAdminBenar`, `AdminMilikSekolahBenar`,
`AdminDapatMasukBenar`, `DokumenUtuhBenar`. `IInv == TypeOK /\ TabelSah /\
PermintaanSah /\ EmailBerbeda` says what holds of a row (its administrator is its own
e-mail, its account and credentials exist, its documents are all or none and stored),
says the same of every copy in flight as far as its next call requires it (a copy
about to be saved is a good row; one between account and mail is nearly so), and that
no two rows share an e-mail. Accounts, credentials and stored documents are never
taken back. `DiumumkanBenar`, that nobody is told of an activation before the
password was mailed, follows step by step from the same invariant.
`MengikutiAlurBenar` has no hypothesis about overlap either: the history `asal` is the
row a request decided on, and `JInv` adds to `IInv` that the copy in its hands is what
the code made of that row, and that no school is deactivated. A Save over a row
that is still `asal` is then a step of the abstract workflow; any other is
`Basi`, which the property excepts.

*JadwalProofs.* `TabrakanBersebabBenar`. A request that is not `usang` may rely on its
clash query (`Terperiksa`); two stored lessons that satisfy the WHERE clause have one
among them that was stored by an `usang` request (`IrisanTercela`). That a write for
another school takes nothing away rests on a key keeping its school, even when `Save`
inserts a deleted lesson again (`Pegangan`, `SatuSekolah`). Lessons with a moment in
common satisfy the clause if their texts sort as times.

*AkunProofs.* `AktifTerbukti` and `SesiAktif` rest on `IInv`: a copy about to be saved
whole is active and verified and of an address proved before, so no save makes a row
active wrongly, and none takes a row back but the rollback of TambahPendidik. `Baik`
are the accounts that are active or were rolled back, since a request that saw an
account active must expect either. `Maju` states what no step takes back (an active
account but by that rollback, a proved address, the owner of a pending session or
token). `BatalSah` says that a request about to roll back is the only one for its
account and that the account was not rolled back before; with it `Maju` gives
`AkunMaju`, that is `TetapAktif`.
`GoogleMenimpa` adds `Setia`: a copy that a
Google sign-in will save is the row as it would be without lost updates, or another
change came between and is recorded. `TundaSekali` and `TempSekali` add `Sendirian`
(requests that hold one pending session or token overlap, and are recorded as such)
and that what was used is gone, or in the hands of the one request that will delete
it (`TundaBersih`, `TempBersih`). `Pembagian` divides the steps, so that the many
actions that touch none of this are argued once.

*PendidikProofs.* `KredensialBenar`, `YatimBenar`, `StatusBenar`, `ProfilBenar`. `IInv`
says which account a request works on and that no two requests are about to give one
account its teacher or take it back, from which it follows that a rollback never
reaches an account with credentials. `JumlahBenar` adds `JInv`: a request
between the insert of a teacher and the save of the school is the only reason for a
count that is one too low, and a number in the hands of a recount is the count of the
table, unless the school is recorded as overlapped or spoilt. Counting is cardinality,
with the library's theorems about adding and removing one element. `JumlahTerbatas`
holds without such exceptions: `KInv` says that what a school stores, and what a request
may save for it, is at most the number of its teachers, active or not, because a teacher
is stored before it is counted and never leaves its school. `TypeCorrect` follows, with
the bound of the count.

*SesiProofs.* `AksesKeluarDitolakBenar` from `KeluarSah`: the blacklist key of a
logged-out token lives at least as long as the token, which is issued only once.
`DigantiBerartiDicabutBenar`, `SatuPenerusBenar` and `TamatTuntasBenar` speak of chains
without a failed request (the last two without an overlap, too) and rest on `KInv`:
the tokens of a chain follow one another, only the last one is alive, and a request on
the chain is alone with the token it replaces.

*RateLimitProofs.* `KunciBerumurBenar` is inductive together with `TypeOK`: the
counter has an expiry or a request holds the 1 it read from INCR.
`PalingBanyakDuaKaliBenar` needs the reason for the factor two. A request let through
within the last window either belongs to the present counter, of which there are at
most `Limit`, or to its predecessor; the expiry of the present counter was set after
the predecessor was gone, so by the time a third counter begins all of the first has
left the window. The invariant counts requests as a set of pairs of age and
number (`Diloloskan`), because a set has cardinality theorems, while a sum over the
window would need an induction.

*OtpProofs.* `BerbatasWaktu`: no key is ever without expiry, because a
request writes an entry back with the life it asked for, and asks only of a key that
exists or falls back to the full life. `Percobaan`, `Sekali`, `Terakhir` and `Jeda` are
below.

*ApiProofs.* One request is one step here, so it is the sequence of
requests that matters. `RujukanBenar` and `Lengkap` (`DataLengkap`) are not inductive,
because registration replaces the row of a rejected school: `SekolahSah` adds that only
an active school has an administrator, and that no route deactivates one.
`TanpaBekas`, `Peran` and `Buntu` are about single steps; each route is a lemma that
gives the invariant, the refusal, the role and what happens to rejected schools
together (`Aman`), so that a route is gone through once. `Buntu` is `DitolakBuntu`: a
rejected school has no administrator, by whom the route to resubmit would find it.

### Under a hypothesis

The limits of one-time codes hold only if certain requests do not overlap. The theorems
state that as a hypothesis, as weak as the proofs allow; `otp_percobaan` and *Claims
the code does not keep* show what happens without it.

- `Percobaan` and `Sekali`: `Spec /\ []SatuVerifikasi => ...`, where verifications of the
  address do not overlap. New codes may come at any time: a verification in progress may
  then store the old code again, but never one it has no right to, since every wrong
  answer is in the entry or in the one copy about to replace it (`SalahTercatat`), and an
  accepted code is gone and in no copy (`DiterimaHabis`).
- `Terakhir`: `Spec /\ []TakBersilang => ...`, where no verification overlaps a generation;
  verifications may overlap one another. What is stored, copied or about to be accepted
  is the last code (`Terbaru`).
- `Jeda`: `Spec /\ []PembuatSendiri => ...`, where nothing overlaps a generation. The
  cooldown key lives for what is left of the cooldown (`JedaBerjalan`). `Terakhir` holds
  whatever fails; the other three as long as no Redis command failed, which is part of
  the properties (`terganggu`). What a step does to the entry, the codes and the request
  is stated once, as `Jejak`, on which all four rest.

The hypotheses are not vacuous: `otp` runs with one request, which satisfies all three,
and explores all its states. Nothing else is under a hypothesis; what the other
properties excuse is part of them, and of their theorems.

### Assumptions about constants

Limits, windows and life times are positive, and the cooldown of a code is not longer
than its life (one minute and three, `service/otp.go:25-27`); the set of documents is
finite and not empty; `NULL`, `Tiada` and `TanpaGoogle` are values of no other type; a
Google account has one address. The bounds (`MaxKode`, `MaxToken`, `MaxAkun` and so on)
are any natural numbers.

### Only model-checked

- `KodeTamat` and `DibukaLagi`: liveness needs fairness and ENABLED, which the
  prover does not have.
- The three violations, which are TLC's counterexamples, and the refuted claims.

Nothing here needs a proof about a recursive definition.

## Plan

What could follow:

1. `SatuPenerus` and `TamatTuntas` by way of an abstract session (a chain is alive or
   ended, and has one token at a time) that `Sesi` implements for chains without overlap.
2. Shorter proofs: the lemmas of `AkunProofs` about single actions repeat one
   pattern.

## Not modelled

- `docs/docs.go` is generated by swag; `mailer/template.go` is HTML; the S3 and SMTP
  clients are protocols, of which the models keep the effect of an upload and the
  handing over of a mail.
- Hashing, password strength, the digits of a code, token signatures and Google's
  verification have no state; correct and wrong passwords, codes and tokens are
  inputs.
- Configuration, migrations, the opening of connections, the shutdown and the
  request log run once or change nothing the program reads.
- JSON binding, texts, presigned links, the columns of listings and detail views,
  and the normalisation of telephone numbers.
- What a Redis that is away means for revoked access tokens beyond
  `auth/jwt.go:94` (see `Sesi`), and the history a school lacks when its log entry
  cannot be stored: nothing reads either to decide.
