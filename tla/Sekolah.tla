------------------------------ MODULE Sekolah ------------------------------
(***************************************************************************)
(* The school registration workflow of internal/service/sekolah.go.        *)
(*                                                                         *)
(* Every HTTP request runs in its own goroutine and performs its database  *)
(* calls one at a time, outside any transaction.  A request first reads    *)
(* the row of the school, decides on that copy, and later writes the whole *)
(* copy back: SekolahRepository.Update is gorm's Save, which stores every  *)
(* column.  A step of this module is one call (a query, an insert, a Save, *)
(* an object upload, the hand-over of a mail); requests interleave between *)
(* their calls, and a request may be cut off before any of them.           *)
(*                                                                         *)
(* An account is named by its e-mail: users.email is unique and no code of *)
(* this workflow changes it.  NPSN, the other unique column of a school,   *)
(* is checked together with the e-mail and is folded into it.              *)
(***************************************************************************)
EXTENDS FiniteSets

CONSTANTS
  SekolahID,    \* the primary keys of table sekolah
  Email,        \* the e-mail addresses of schools and accounts
  Dokumen,      \* the legal documents a registration needs
  Permintaan,   \* the requests that can be in progress at the same time
  NULL

ASSUME DokumenAssumption == Dokumen # {} /\ IsFiniteSet(Dokumen)

VARIABLES
  sekolah,   \* table sekolah: one row per key, NULL where there is none
  pengguna,  \* table users: the role of the account of each e-mail, or NULL
  berkas,    \* object storage: the documents uploaded for each school
  riwayat,   \* table sekolah_state_log: the schools whose activation it records
  surat,     \* the <<kind, address>> mails handed to the mailer so far
  req        \* the local state of every request

vars == <<sekolah, pengguna, berkas, riwayat, surat, req>>

Status == {"pengajuan", "menunggu_verifikasi", "aktif", "nonaktif", "ditolak"}

\* Mutant: a registration without documents may be approved.
validStatusTransitions_Longgar ==
  [pengajuan           |-> {"menunggu_verifikasi", "aktif", "ditolak"},
   menunggu_verifikasi |-> {"aktif", "ditolak"},
   aktif               |-> {"nonaktif"},
   nonaktif            |-> {"aktif"},
   ditolak             |-> {"pengajuan"}]

validStatusTransitions ==
  [pengajuan           |-> {"menunggu_verifikasi", "ditolak"},
   menunggu_verifikasi |-> {"aktif", "ditolak"},
   aktif               |-> {"nonaktif"},
   nonaktif            |-> {"aktif"},
   ditolak             |-> {"pengajuan"}]

\* The only values the binding of SekolahVerifikasiRequest lets through.
StatusDiminta == {"menunggu_verifikasi", "aktif", "ditolak"}

\* The columns of a row that the workflow reads.
Row == [status: Status, dokumen: SUBSET Dokumen,
        admin: Email \cup {NULL}, email: Email]

Role == {"admin_sekolah", "lain"}

ASSUME NullAssumption == NULL \notin SekolahID \cup Email \cup Role \cup Row

\* The mails of an approval; rejections and notices to super admins have no
\* bearing on any property.
Surat == {"kredensial", "diterima"} \X Email

Versi == [status: Status, admin: Email \cup {NULL}]

\* A request: which operation it serves, the call it makes next, the key and
\* the copy of the row it works on, the files left to store.  asal is history:
\* status and administrator of the row as the request read it, until the copy
\* is stored; no step depends on it.
Operasi == {"baru", "lengkap", "unggah", "verifikasi", "ulang", "perbarui"}
Langkah == {"buat", "unggah", "akun", "kredensial", "simpan", "catat", "kabari"}

Berjalan == [op: Operasi, pc: Langkah, id: SekolahID \cup {NULL}, sek: Row,
             sisa: SUBSET Dokumen, asal: Versi \cup {NULL}]

\* The columns of row b that asal keeps.
VersiBaris(b) == [status |-> b.status, admin |-> b.admin]

Bebas == [op |-> NULL, pc |-> "bebas"]

TypeOK ==
  /\ sekolah \in [SekolahID -> Row \cup {NULL}]
  /\ pengguna \in [Email -> Role \cup {NULL}]
  /\ berkas \in [SekolahID -> SUBSET Dokumen]
  /\ riwayat \subseteq SekolahID
  /\ surat \subseteq Surat
  /\ req \in [Permintaan -> Berjalan \cup {Bebas}]

Terdaftar == {s \in SekolahID : sekolah[s] # NULL}

\* The unique index on sekolah.email admits address e in row s.
EmailUnik(s, e) == \A t \in Terdaftar \ {s} : sekolah[t].email # e

Init ==
  /\ sekolah = [s \in SekolahID |-> NULL]
  /\ pengguna = [e \in Email |-> NULL]
  /\ berkas = [s \in SekolahID |-> {}]
  /\ riwayat = {}
  /\ surat = {}
  /\ req = [r \in Permintaan |-> Bebas]

----------------------------------------------------------------------------
(* Handlers up to their first write: read, decide, keep the copy.          *)

\* Request r goes on as q.
Menjadi(r, q) == req' = [req EXCEPT ![r] = q]

Mulai(r, op, pc, id, sek, sisa) ==
  /\ req[r] = Bebas
  /\ Menjadi(r, [op |-> op, pc |-> pc, id |-> id, sek |-> sek, sisa |-> sisa,
                 asal |-> IF id = NULL THEN NULL ELSE VersiBaris(sekolah[id])])
  /\ UNCHANGED <<sekolah, pengguna, berkas, riwayat, surat>>

\* PengajuanBaru, and PengajuanBaruLengkap which continues with the upload.
PengajuanBaru(r, op, e) ==
  /\ op \in {"baru", "lengkap"}
  /\ \A t \in Terdaftar : sekolah[t].email # e
  /\ Mulai(r, op, "buat", NULL,
           [status |-> "pengajuan", dokumen |-> {}, admin |-> NULL, email |-> e],
           Dokumen)

\* Mutant: the status is not looked at.
UploadDokumen_TanpaStatus(r, s) ==
  /\ s \in Terdaftar
  /\ Mulai(r, "unggah", "unggah", s, sekolah[s], Dokumen)

UploadDokumen(r, s) ==
  /\ s \in Terdaftar
  /\ sekolah[s].status = "pengajuan"
  /\ Mulai(r, "unggah", "unggah", s, sekolah[s], Dokumen)

\* The super admin's decision, as the handler binds it.  Only the first activation creates an account.
Verifikasi(r, s, statusBaru) ==
  /\ s \in Terdaftar
  /\ statusBaru \in validStatusTransitions[sekolah[s].status]
  /\ LET pertama == statusBaru = "aktif" /\ sekolah[s].status = "menunggu_verifikasi"
     IN Mulai(r, "verifikasi", IF pertama THEN "akun" ELSE "simpan", s,
              [sekolah[s] EXCEPT !.status = statusBaru], {})

\* Mutant: the status is not looked at.
PengajuanUlang_TanpaStatus(r, s, e) ==
  /\ s \in Terdaftar
  /\ Mulai(r, "ulang", "simpan", s,
           [sekolah[s] EXCEPT !.status = "pengajuan", !.email = e, !.dokumen = {}], {})

\* A rejected school submits again: new data, possibly a new e-mail, no
\* documents.  This is the service's operation, by tracking code; its handler
\* takes the code of the school of a signed-in administrator (see Api).
PengajuanUlang(r, s, e) ==
  /\ s \in Terdaftar
  /\ sekolah[s].status = "ditolak"
  /\ Mulai(r, "ulang", "simpan", s,
           [sekolah[s] EXCEPT !.status = "pengajuan", !.email = e, !.dokumen = {}], {})

\* UpdateMySekolah finds the row by its admin and edits only descriptive
\* columns, but writes back every column of its copy.
UpdateMySekolah(r, adminID, s) ==
  /\ s \in Terdaftar
  /\ sekolah[s].admin = adminID
  /\ Mulai(r, "perbarui", "simpan", s, sekolah[s], {})

\* UpdateSekolah does the same with a row found by its key.
UpdateSekolah(r, s) ==
  /\ s \in Terdaftar
  /\ Mulai(r, "perbarui", "simpan", s, sekolah[s], {})

----------------------------------------------------------------------------
(* The calls a request makes after that.                                   *)

BuatSekolah(r) ==
  /\ req[r].pc = "buat"
  /\ EmailUnik(NULL, req[r].sek.email)
  /\ \E s \in SekolahID \ Terdaftar :
       /\ sekolah' = [sekolah EXCEPT ![s] = req[r].sek]
       /\ Menjadi(r, IF req[r].op = "lengkap"
                       THEN [req[r] EXCEPT !.pc = "unggah", !.id = s, !.asal = VersiBaris(req[r].sek)]
                       ELSE Bebas)
  /\ UNCHANGED <<pengguna, berkas, riwayat, surat>>

\* Mutant: the row is saved after the first file.
UnggahBerkas_SimpanDini(r) ==
  /\ req[r].pc = "unggah"
  /\ \E d \in req[r].sisa :
       /\ berkas' = [berkas EXCEPT ![req[r].id] = @ \cup {d}]
       /\ Menjadi(r, [req[r] EXCEPT !.sek.dokumen = @ \cup {d}, !.sisa = @ \ {d},
                                    !.pc = "simpan"])
  /\ UNCHANGED <<sekolah, pengguna, riwayat, surat>>

\* One iteration of the upload loop; the map of files is walked in any order.
UnggahBerkas(r) ==
  /\ req[r].pc = "unggah"
  /\ \E d \in req[r].sisa :
       /\ berkas' = [berkas EXCEPT ![req[r].id] = @ \cup {d}]
       /\ LET terakhir == req[r].sisa = {d}
              sek == [req[r].sek EXCEPT
                        !.dokumen = @ \cup {d},
                        !.status = IF terakhir THEN "menunggu_verifikasi" ELSE @]
          IN Menjadi(r, [req[r] EXCEPT !.sek = sek, !.sisa = @ \ {d},
                                       !.pc = IF terakhir THEN "simpan" ELSE @])
  /\ UNCHANGED <<sekolah, pengguna, riwayat, surat>>

\* What a request carries on with once it has created the account.  Mutants:
\* the row gets no administrator, or its own key for one; no password is mailed.
SetelahAkun_TanpaAdmin(q) == [q EXCEPT !.pc = "kredensial"]

SetelahAkun_TanpaSurat(q) == [q EXCEPT !.pc = "simpan", !.sek.admin = q.sek.email]

SetelahAkun_KunciSekolah(q) == [q EXCEPT !.pc = "kredensial", !.sek.admin = q.id]

SetelahAkun(q) ==
  [q EXCEPT !.pc = "kredensial", !.sek = [q.sek EXCEPT !.admin = q.sek.email]]

BuatAkun(r) ==
  /\ req[r].pc = "akun"
  /\ pengguna[req[r].sek.email] = NULL
  /\ pengguna' = [pengguna EXCEPT ![req[r].sek.email] = "admin_sekolah"]
  /\ Menjadi(r, SetelahAkun(req[r]))
  /\ UNCHANGED <<sekolah, berkas, riwayat, surat>>

KirimKredensial(r) ==
  /\ req[r].pc = "kredensial"
  /\ surat' = surat \cup {<<"kredensial", req[r].sek.email>>}
  /\ Menjadi(r, [req[r] EXCEPT !.pc = "simpan"])
  /\ UNCHANGED <<sekolah, pengguna, berkas, riwayat>>

\* SekolahRepository.Update: the whole copy replaces the row.
Simpan(r) ==
  /\ req[r].pc = "simpan"
  /\ EmailUnik(req[r].id, req[r].sek.email)
  /\ sekolah' = [sekolah EXCEPT ![req[r].id] = req[r].sek]
  /\ Menjadi(r, IF req[r].op = "perbarui"
                  THEN Bebas ELSE [req[r] EXCEPT !.pc = "catat", !.asal = NULL])
  /\ UNCHANGED <<pengguna, berkas, riwayat, surat>>

\* The insert into the log may fail; every caller carries on as if it had not.
CatatRiwayat(r) ==
  /\ req[r].pc = "catat"
  /\ \/ riwayat' = riwayat \cup {s \in SekolahID :
                              s = req[r].id /\ req[r].sek.status = "aktif"}
     \/ UNCHANGED riwayat
  /\ Menjadi(r, IF req[r].op = "verifikasi"
                  THEN [req[r] EXCEPT !.pc = "kabari"] ELSE Bebas)
  /\ UNCHANGED <<sekolah, pengguna, berkas, surat>>

Kabari(r) ==
  /\ req[r].pc = "kabari"
  /\ surat' = IF req[r].sek.status = "aktif"
                THEN surat \cup {<<"diterima", req[r].sek.email>>} ELSE surat
  /\ Menjadi(r, Bebas)
  /\ UNCHANGED <<sekolah, pengguna, berkas, riwayat>>

\* A request stops before its next call: a call returned an error (constraint,
\* storage, cancelled context), the effect landed but the answer was lost, or
\* the process went down.  Nothing is rolled back.
Gagal(r) ==
  /\ req[r] # Bebas
  /\ Menjadi(r, Bebas)
  /\ UNCHANGED <<sekolah, pengguna, berkas, riwayat, surat>>

\* Another service creates an account for the address (mobile registration,
\* Google sign-in, TambahPendidik): the users table is shared.
DaftarLain(e) ==
  /\ pengguna[e] = NULL
  /\ pengguna' = [pengguna EXCEPT ![e] = "lain"]
  /\ UNCHANGED <<sekolah, berkas, riwayat, surat, req>>

----------------------------------------------------------------------------
Terima(r) ==
  \/ \E op \in {"baru", "lengkap"}, e \in Email : PengajuanBaru(r, op, e)
  \/ \E s \in SekolahID :
       \/ UploadDokumen(r, s)
       \/ \E baru \in StatusDiminta : Verifikasi(r, s, baru)
       \/ \E e \in Email : PengajuanUlang(r, s, e) \/ UpdateMySekolah(r, e, s)
       \/ UpdateSekolah(r, s)

Lanjut(r) ==
  \/ BuatSekolah(r)
  \/ UnggahBerkas(r)
  \/ BuatAkun(r)
  \/ KirimKredensial(r)
  \/ Simpan(r)
  \/ CatatRiwayat(r)
  \/ Kabari(r)
  \/ Gagal(r)

Next ==
  \/ \E r \in Permintaan : Terima(r) \/ Lanjut(r)
  \/ \E e \in Email : DaftarLain(e)

Spec == Init /\ [][Next]_vars

\* The operations the router offers and the checks let through
\* (cmd/api/main.go:188-216): it has no route for PengajuanBaruLengkap and
\* UpdateSekolah, its upload is refused for want of files, and resubmission
\* for want of an administrator (see Api).
TerimaRute(r) ==
  \/ \E e \in Email : PengajuanBaru(r, "baru", e)
  \/ \E s \in SekolahID :
       \/ \E baru \in StatusDiminta : Verifikasi(r, s, baru)
       \/ \E e \in Email : UpdateMySekolah(r, e, s)

NextRute ==
  \/ \E r \in Permintaan : TerimaRute(r) \/ Lanjut(r)
  \/ \E e \in Email : DaftarLain(e)

SpecRute == Init /\ [][NextRute]_vars

----------------------------------------------------------------------------
(* What the workflow keeps, whatever the interleaving and the failures.    *)

\* An active or deactivated school has an administrator and no other school
\* has: the whole-row writes of stale copies never mix the status column of
\* one version with the admin column of another (sekolah.go:401, 408, 552).
AktifPunyaAdmin ==
  \A s \in Terdaftar :
    sekolah[s].status \in {"aktif", "nonaktif"} <=> sekolah[s].admin # NULL

\* The administrator signs in with the school's own address and administers no
\* other school, which FindByAdminID (repository/sekolah.go:74) relies on, even
\* though PengajuanUlang may change the address of a school.
AdminMilikSekolah ==
  /\ \A s \in Terdaftar : sekolah[s].admin \in {NULL, sekolah[s].email}
  /\ \A s, t \in Terdaftar :
       sekolah[s].admin = sekolah[t].admin /\ sekolah[s].admin # NULL => s = t

\* The administrator of a school has an account with the admin_sekolah role and
\* its password was mailed: no failure or crash between the calls of Verifikasi
\* leaves an active school whose administrator cannot sign in.
AdminDapatMasuk ==
  \A s \in Terdaftar : sekolah[s].admin # NULL =>
    /\ pengguna[sekolah[s].admin] = "admin_sekolah"
    /\ <<"kredensial", sekolah[s].admin>> \in surat

\* A row refers to all required documents or to none, only to documents that
\* are in the storage, and to none while it is (again) in pengajuan, although
\* the upload may break off after any file.
DokumenUtuh ==
  \A s \in Terdaftar :
    /\ sekolah[s].dokumen \in {{}, Dokumen}
    /\ sekolah[s].dokumen \subseteq berkas[s]
    /\ sekolah[s].status = "pengajuan" => sekolah[s].dokumen = {}

\* Nobody is told that a school is active, by mail or in its public history,
\* before an administrator account exists and its password was mailed.
DiumumkanSetelahKredensial ==
  /\ \A e \in Email : <<"diterima", e>> \in surat => <<"kredensial", e>> \in surat
  /\ riwayat # {} => \E e \in Email : pengguna[e] = "admin_sekolah" /\ <<"kredensial", e>> \in surat

----------------------------------------------------------------------------
(* Refinement.                                                             *)

Kolom(s, k) == IF s \in Terdaftar THEN sekolah[s][k] ELSE NULL

Alur == INSTANCE SekolahAlur WITH
  status <- [s \in SekolahID |-> Kolom(s, "status")],
  admin  <- [s \in SekolahID |-> Kolom(s, "admin")]

\* Status or administrator of the row have changed since request r read it.
Basi(r) == VersiBaris(sekolah[req[r].id]) # req[r].asal

\* Whatever overlaps, fails or is cut off, a school moves only by the steps the
\* service's own checks allow (sekolah.go:39, 188, 348, 625), and its
\* administrator only comes with the approval and stays.  The one exception:
\* a whole-row Save of a copy whose row has moved since it was read.
MengikutiAlur ==
  Alur!Init /\ [][Alur!Next \/ \E r \in Permintaan : Simpan(r) /\ Basi(r)]_(Alur!vars)

----------------------------------------------------------------------------
(* What the documentation says and the code does not keep.                 *)

\* An active school stays active or becomes what docs/API_DOCUMENTATION.md:77
\* and validStatusTransitions allow it to become: an approval is not taken back
\* by a decision that was taken before it.
PersetujuanTetap ==
  [][\A s \in Terdaftar : sekolah[s].status = "aktif" =>
       sekolah'[s].status \in {"aktif"} \cup validStatusTransitions["aktif"]]_vars
============================================================================
