------------------------------ MODULE Pendidik ------------------------------
(***************************************************************************)
(* The teachers of a school, internal/service/pendidik.go: TambahPendidik, *)
(* UpdatePendidik, UpdatePendidikStatus and UpdateMyProfile, on three      *)
(* tables no transaction spans: users, pendidik and sekolah.  A step is    *)
(* one database statement; overlapping requests interleave.                *)
(*                                                                         *)
(* Rows are saved whole from copies read before.  A school keeps the       *)
(* number of its teachers in its row, which its own services save too.     *)
(* The variables of riwayat are not in the program: they record what       *)
(* happened, for the properties.                                           *)
(***************************************************************************)
EXTENDS Naturals, FiniteSets

CONSTANTS
  Permintaan,   \* requests in progress at the same time
  Sekolah,      \* schools, each with its administrator
  Email,        \* e-mail addresses of teachers
  Nomor,        \* NIP and NUPTK; one stands for both
  Diisi,        \* what a new teacher is given as NIP
  Tiada,        \* no school, or no e-mail
  MaxAkun,      \* bound: accounts created in a behaviour
  MaxData       \* bound: updates of the other columns of a school

ASSUME KonstantaAssumption ==
  /\ MaxAkun \in Nat /\ MaxData \in Nat /\ Tiada \notin Sekolah \cup Email \cup {""}
  /\ Diisi \subseteq Nomor \cup {"null", "kosong"}

VARIABLES
  users,        \* table users: the accounts made for teachers
  pendidik,     \* table pendidik, by account (user_id is unique)
  sekolah,      \* the rows of the schools: teachers counted, other columns
  req,          \* the local state of every request
  kredensial,   \* accounts whose credentials were sent
  maksud,       \* the status of each teacher that was decided last
  profil,       \* the other columns of the schools, likewise
  tumpang,      \* accounts whose teacher was updated by requests that overlapped
  bentrok,      \* schools of which two requests overlapped
  kotor,        \* schools with an overlap or a failure since the last recount
  yatim         \* accounts left without a teacher by a failed call or a bad date

riwayat == <<kredensial, maksud, profil, tumpang, bentrok, kotor, yatim>>
vars == <<users, pendidik, sekolah, req, riwayat>>

Akun == 1..MaxAkun

\* kosong is a NIP given as the empty string: it passes the check as if it were
\* absent, but is stored, and unique.
NIP == Nomor \cup {"null", "kosong"}

\* nonaktif stands for cuti as well: only "aktif" is told apart.
Status == {"aktif", "nonaktif"}

\* role "" with e-mail "" is what the rollback leaves of an account.
Pengguna == [email : Email \cup {Tiada, ""}, role : {"belum", "tenaga_pendidik", ""}]

Guru == [sekolah : Sekolah \cup {Tiada}, nip : NIP, status : Status]

Instansi == [jumlah : 0..MaxAkun, profil : 0..MaxData]

BelumAda == [sekolah |-> Tiada, nip |-> "null", status |-> "aktif"]

Semula == [jumlah |-> 0, profil |-> 0]

\* guru and instansi are the rows a request holds; sendiri is kept for a recount: no
\* other request about its school has overlapped it so far.
Lokal == [pc : {"bebas", "email", "nomor", "akun", "baris", "batal", "jumlah",
                "guru", "status", "sekolah", "hitung", "jumlahkan", "profil"},
          s : Sekolah \cup {Tiada}, n : 0..MaxAkun, e : Email \cup {Tiada},
          guru : Guru, instansi : Instansi, sendiri : BOOLEAN]

Bebas == [pc |-> "bebas", s |-> Tiada, n |-> 0, e |-> Tiada,
          guru |-> BelumAda, instansi |-> Semula, sendiri |-> FALSE]

TypeOK ==
  /\ users \in [Akun -> Pengguna]
  /\ pendidik \in [Akun -> Guru] /\ maksud \in [Akun -> Status]
  /\ sekolah \in [Sekolah -> Instansi] /\ profil \in [Sekolah -> 0..MaxData]
  /\ req \in [Permintaan -> Lokal]
  /\ kredensial \subseteq Akun /\ tumpang \subseteq Akun /\ yatim \subseteq Akun
  /\ bentrok \subseteq Sekolah /\ kotor \subseteq Sekolah

Init ==
  /\ users = [n \in Akun |-> [email |-> Tiada, role |-> "belum"]]
  /\ pendidik = [n \in Akun |-> BelumAda] /\ maksud = [n \in Akun |-> "aktif"]
  /\ sekolah = [s \in Sekolah |-> Semula] /\ profil = [s \in Sekolah |-> 0]
  /\ req = [r \in Permintaan |-> Bebas]
  /\ kredensial = {} /\ tumpang = {} /\ bentrok = {} /\ kotor = {} /\ yatim = {}

----------------------------------------------------------------------------
\* The accounts that have a teacher, and those of a school that count.
Terdaftar == {n \in Akun : pendidik[n].sekolah # Tiada}

Aktif(s) == {n \in Akun : pendidik[n].sekolah = s /\ pendidik[n].status = "aktif"}

\* The account Create makes next.
Berikut == {n \in Akun : users[n].role = "belum" /\ \A m \in 1..n - 1 : users[m].role # "belum"}

Sibuk(s) == {r \in Permintaan : req[r].pc # "bebas" /\ req[r].s = s}

Menjadi(r, q) == req' = [req EXCEPT ![r] = q]

Ke(r, pc) == Menjadi(r, [req[r] EXCEPT !.pc = pc])

\* Request r goes on at pc and needs its copy of the teacher no more.
Lepas(r, pc) == Menjadi(r, [req[r] EXCEPT !.pc = pc, !.guru = BelumAda])

\* Request r begins as q.
Mulai(r, q) ==
  LET lain == Sibuk(q.s)
  IN /\ req[r] = Bebas
     /\ req' = [p \in Permintaan |->
                  IF p = r THEN [q EXCEPT !.sendiri = (q.pc = "status" /\ lain = {})]
                  ELSE IF p \in lain THEN [req[p] EXCEPT !.sendiri = FALSE] ELSE req[p]]
     /\ bentrok' = IF lain = {} THEN bentrok ELSE bentrok \cup {q.s}
     /\ kotor' = IF lain = {} THEN kotor ELSE kotor \cup {q.s}
     /\ tumpang' = tumpang \cup ({q.n} \cap Akun \cap {req[p].n : p \in lain})
     /\ UNCHANGED <<users, pendidik, sekolah, kredensial, maksud, profil, yatim>>

----------------------------------------------------------------------------
(* TambahPendidik                                                          *)

\* FindByAdminID: the row of the school is read before anything else.
TambahPendidik(r, s, e, nip) ==
  Mulai(r, [Bebas EXCEPT !.pc = "email", !.s = s, !.e = e, !.instansi = sekolah[s],
                         !.guru = [BelumAda EXCEPT !.sekolah = s, !.nip = nip]])

CekEmail(r) ==
  /\ req[r].pc = "email"
  /\ IF \E n \in Akun : users[n].email = req[r].e
       THEN Menjadi(r, Bebas)
       ELSE Ke(r, IF req[r].guru.nip \in Nomor THEN "nomor" ELSE "akun")
  /\ UNCHANGED <<users, pendidik, sekolah, riwayat>>

NipDipakai(nip) == nip # "null" /\ \E n \in Terdaftar : pendidik[n].nip = nip

\* FindByNip and FindByNuptk.
CekNomor(r) ==
  /\ req[r].pc = "nomor"
  /\ IF NipDipakai(req[r].guru.nip) THEN Menjadi(r, Bebas) ELSE Ke(r, "akun")
  /\ UNCHANGED <<users, pendidik, sekolah, riwayat>>

\* UserRepository.Create; the date of birth is parsed after it.
BuatAkun(r) ==
  /\ req[r].pc = "akun"
  /\ IF \E n \in Akun : users[n].email = req[r].e
       THEN Menjadi(r, Bebas) /\ UNCHANGED <<users, yatim>>
       ELSE \E n \in Berikut :
              /\ users' = [users EXCEPT ![n] = [email |-> req[r].e, role |-> "tenaga_pendidik"]]
              /\ \/ Menjadi(r, [req[r] EXCEPT !.pc = "baris", !.n = n, !.e = Tiada]) /\ UNCHANGED yatim
                 \/ Menjadi(r, Bebas) /\ yatim' = yatim \cup {n}
  /\ UNCHANGED <<pendidik, sekolah, kredensial, maksud, profil, tumpang, bentrok, kotor>>

\* Mutant: no rollback.
BuatBaris_TanpaBatal(r) ==
  /\ req[r].pc = "baris"
  /\ IF NipDipakai(req[r].guru.nip)
       THEN Menjadi(r, Bebas) /\ UNCHANGED pendidik
       ELSE /\ pendidik' = [pendidik EXCEPT ![req[r].n] = req[r].guru]
            /\ Lepas(r, "jumlah")
  /\ UNCHANGED <<users, sekolah, riwayat>>

\* PendidikRepository.Create
BuatBaris(r) ==
  /\ req[r].pc = "baris"
  /\ IF NipDipakai(req[r].guru.nip)
       THEN Lepas(r, "batal") /\ UNCHANGED pendidik
       ELSE /\ pendidik' = [pendidik EXCEPT ![req[r].n] = req[r].guru]
            /\ Lepas(r, "jumlah")
  /\ UNCHANGED <<users, sekolah, riwayat>>

Dibatalkan == {n \in Akun : users[n].email = ""}

\* Mutant: the error is not returned.
Batalkan_Lanjut(r) ==
  /\ req[r].pc = "batal"
  /\ users' = IF Dibatalkan = {}
                THEN [users EXCEPT ![req[r].n] = [email |-> "", role |-> ""]] ELSE users
  /\ Ke(r, "jumlah")
  /\ UNCHANGED <<pendidik, sekolah, riwayat>>

\* The rollback saves a user with an id and nothing else, which the unique
\* e-mail refuses when there is such a row already; the error is dropped.
Batalkan(r) ==
  /\ req[r].pc = "batal"
  /\ users' = IF Dibatalkan = {}
                THEN [users EXCEPT ![req[r].n] = [email |-> "", role |-> ""]] ELSE users
  /\ Menjadi(r, Bebas)
  /\ UNCHANGED <<pendidik, sekolah, riwayat>>

\* Mutant: the school is not saved.
TambahJumlah_Lupa(r) ==
  /\ req[r].pc = "jumlah"
  /\ kredensial' = kredensial \cup {req[r].n}
  /\ Menjadi(r, Bebas)
  /\ UNCHANGED <<users, pendidik, sekolah, maksud, profil, tumpang, bentrok, kotor, yatim>>

\* The school as it was read, with one teacher more; then the credentials.
TambahJumlah(r) ==
  /\ req[r].pc = "jumlah"
  /\ sekolah' = [sekolah EXCEPT ![req[r].s] =
                   [req[r].instansi EXCEPT !.jumlah = @ + 1]]
  /\ kredensial' = kredensial \cup {req[r].n}
  /\ Menjadi(r, Bebas)
  /\ UNCHANGED <<users, pendidik, maksud, profil, tumpang, bentrok, kotor, yatim>>

----------------------------------------------------------------------------
(* UpdatePendidik and UpdatePendidikStatus                                 *)

BacaGuru(r, n, pc, guru) ==
  /\ n \in Terdaftar
  /\ Mulai(r, [Bebas EXCEPT !.pc = pc, !.s = pendidik[n].sekolah, !.n = n, !.guru = guru])

\* Of the other columns, which it changes, no other operation here takes notice.
\* UpdateMyProfile finds the teacher by its account and does the same.
UpdatePendidik(r, n) == BacaGuru(r, n, "guru", pendidik[n])

\* Mutant: the row is saved as new.
SimpanGuru_Baru(r) ==
  /\ req[r].pc = "guru"
  /\ pendidik' = [pendidik EXCEPT ![req[r].n] = [req[r].guru EXCEPT !.status = "aktif"]]
  /\ Menjadi(r, Bebas)
  /\ UNCHANGED <<users, sekolah, riwayat>>

SimpanGuru(r) ==
  /\ req[r].pc = "guru"
  /\ pendidik' = [pendidik EXCEPT ![req[r].n] = req[r].guru]
  /\ Menjadi(r, Bebas)
  /\ UNCHANGED <<users, sekolah, riwayat>>

UpdatePendidikStatus(r, n, status) ==
  BacaGuru(r, n, "status", [pendidik[n] EXCEPT !.status = status])

SimpanStatus(r) ==
  /\ req[r].pc = "status"
  /\ pendidik' = [pendidik EXCEPT ![req[r].n] = req[r].guru]
  /\ maksud' = [maksud EXCEPT ![req[r].n] = req[r].guru.status]
  /\ Lepas(r, "sekolah")
  /\ UNCHANGED <<users, sekolah, kredensial, profil, tumpang, bentrok, kotor, yatim>>

\* Mutant: a row with nothing but what is to change.
BacaSekolah_Kosong(r) ==
  /\ req[r].pc = "sekolah"
  /\ Menjadi(r, [req[r] EXCEPT !.pc = "hitung"])
  /\ UNCHANGED <<users, pendidik, sekolah, riwayat>>

BacaSekolah(r) ==
  /\ req[r].pc = "sekolah"
  /\ Menjadi(r, [req[r] EXCEPT !.pc = "hitung", !.instansi = sekolah[req[r].s]])
  /\ UNCHANGED <<users, pendidik, sekolah, riwayat>>

\* CountBySekolahID
Hitung(r) ==
  /\ req[r].pc = "hitung"
  /\ Menjadi(r, [req[r] EXCEPT !.pc = "jumlahkan",
                               !.instansi.jumlah = Cardinality(Aktif(req[r].s))])
  /\ UNCHANGED <<users, pendidik, sekolah, riwayat>>

\* The count of a request that was alone is right again, whatever came before.
SimpanJumlah(r) ==
  /\ req[r].pc = "jumlahkan"
  /\ sekolah' = [sekolah EXCEPT ![req[r].s] = req[r].instansi]
  /\ kotor' = IF req[r].sendiri THEN kotor \ {req[r].s} ELSE kotor
  /\ Menjadi(r, Bebas)
  /\ UNCHANGED <<users, pendidik, kredensial, maksud, profil, tumpang, bentrok, yatim>>

----------------------------------------------------------------------------
\* The services of schools read a row, change it and save it whole (Sekolah has
\* what they change).
BacaProfil(r, s) ==
  /\ profil[s] < MaxData
  /\ Mulai(r, [Bebas EXCEPT !.pc = "profil", !.s = s,
                            !.instansi = [sekolah[s] EXCEPT !.profil = profil[s] + 1]])

SimpanProfil(r) ==
  /\ req[r].pc = "profil"
  /\ sekolah' = [sekolah EXCEPT ![req[r].s] = req[r].instansi]
  /\ profil' = [profil EXCEPT ![req[r].s] = req[r].instansi.profil]
  /\ Menjadi(r, Bebas)
  /\ UNCHANGED <<users, pendidik, kredensial, maksud, tumpang, bentrok, kotor, yatim>>

\* A call has no effect: the insert of a teacher is then rolled back, the count
\* reads as 0, the errors of the two saves of a school's count are dropped.  Or
\* the process goes down and the request ends before its next call.
Gagal(r) ==
  /\ req[r] # Bebas
  /\ \/ req[r].pc = "baris" /\ Lepas(r, "batal") /\ UNCHANGED <<kredensial, yatim>>
     \/ /\ req[r].pc = "hitung"
        /\ Menjadi(r, [req[r] EXCEPT !.pc = "jumlahkan", !.instansi.jumlah = 0, !.sendiri = FALSE])
        /\ UNCHANGED <<kredensial, yatim>>
     \/ /\ req[r].pc = "jumlah" /\ Menjadi(r, Bebas)
        /\ kredensial' = kredensial \cup {req[r].n} /\ UNCHANGED yatim
     \/ /\ Menjadi(r, Bebas)
        /\ yatim' = IF req[r].pc \in {"baris", "batal"} THEN yatim \cup {req[r].n} ELSE yatim
        /\ UNCHANGED kredensial
  /\ kotor' = IF req[r].pc \in {"jumlah", "sekolah", "hitung", "jumlahkan"}
                THEN kotor \cup {req[r].s} ELSE kotor
  /\ UNCHANGED <<users, pendidik, sekolah, maksud, profil, tumpang, bentrok>>

Terima(r) ==
  \/ \E s \in Sekolah : BacaProfil(r, s) \/ \E e \in Email, nip \in Diisi : TambahPendidik(r, s, e, nip)
  \/ \E n \in Akun : UpdatePendidik(r, n) \/ \E st \in Status : UpdatePendidikStatus(r, n, st)

Lanjut(r) ==
  \/ CekEmail(r) \/ CekNomor(r) \/ BuatAkun(r) \/ BuatBaris(r) \/ Batalkan(r) \/ TambahJumlah(r)
  \/ SimpanGuru(r) \/ SimpanStatus(r) \/ BacaSekolah(r) \/ Hitung(r) \/ SimpanJumlah(r)
  \/ SimpanProfil(r) \/ Gagal(r)

Next == \E r \in Permintaan : Terima(r) \/ Lanjut(r)

Spec == Init /\ [][Next]_vars

----------------------------------------------------------------------------
\* When no request is at work on a school, jumlah_pendidik is the number of its
\* active teachers, unless requests overlapped or a call failed since the last
\* recount that ran alone (pendidik.go:162-164, 290-296): TambahPendidik counts up,
\* UpdatePendidikStatus counts again and repairs what went wrong before.
JumlahSesuai ==
  \A s \in Sekolah :
    Sibuk(s) = {} /\ s \notin kotor => sekolah[s].jumlah = Cardinality(Aktif(s))

\* Credentials are sent (pendidik.go:166) only for an account that exists, is a
\* teacher's and has a teacher, and that stays so: no later rollback, also of
\* another request, takes it away.
KredensialBerakun ==
  \A n \in kredensial : users[n].role = "tenaga_pendidik" /\ n \in Terdaftar

\* "Rollback user creation" (pendidik.go:157): an account without a teacher keeps
\* its e-mail from being registered again only if a call failed, the date could not
\* be parsed, or an earlier rollback left the empty e-mail that refuses this one.
YatimBersebab ==
  \A n \in Akun :
    users[n].role = "tenaga_pendidik" /\ n \notin Terdaftar =>
      \/ \E r \in Permintaan : req[r].n = n
      \/ n \in yatim \/ Dibatalkan # {}

\* The status of a teacher is the one decided last, unless two requests about the
\* teacher overlapped: an update of its other columns saves the status it read as
\* well (pendidik.go:210-268).
StatusTerakhir == \A n \in Akun : pendidik[n].status # maksud[n] => n \in tumpang

\* Counting teachers, which saves the whole school, undoes what the school's own
\* services wrote (its status, its documents) only if requests overlapped.
ProfilTetap == \A s \in Sekolah : sekolah[s].profil # profil[s] => s \in bentrok
============================================================================
