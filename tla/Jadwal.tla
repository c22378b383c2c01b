------------------------------- MODULE Jadwal -------------------------------
(***************************************************************************)
(* The teaching timetable of internal/service/pendidik.go (321-446) over   *)
(* the table pendidik_jadwal.  A lesson is added or moved after a query    *)
(* found no other lesson of the school at that time; the query and the     *)
(* write that follows it are two calls outside any transaction.            *)
(*                                                                         *)
(* Times are varchar(5) columns, so the query compares them as text.       *)
(* Urutan is that order, Waktu the time of day a text stands for; nothing  *)
(* in the program checks the format that would make the two agree.         *)
(***************************************************************************)
EXTENDS Naturals

CONSTANTS
  JadwalID,    \* the keys of table pendidik_jadwal
  Sekolah,     \* schools
  Hari,        \* days of the week
  Jam,         \* texts sent as jam_mulai and jam_selesai
  Urutan,      \* rank of each text in the order the database compares by
  Waktu,       \* time of day each text stands for
  Permintaan,  \* requests in progress at the same time
  NULL

ASSUME JamAssumption == Urutan \in [Jam -> Nat] /\ Waktu \in [Jam -> Nat]

VARIABLES
  jadwal,  \* table pendidik_jadwal: a lesson per key, NULL where there is none
  pernah,  \* keys handed out so far; a new lesson gets a fresh one
  req,     \* the local state of every request
  usang,   \* history: requests that rely on a read or a clash query after which
           \* another request wrote a lesson of their school
  tercela  \* history: keys whose lesson was stored by such a request

vars == <<jadwal, pernah, req, usang, tercela>>

Pelajaran == [sekolah : Sekolah, hari : Hari, mulai : Jam, selesai : Jam]

ASSUME NullAssumption == NULL \notin JadwalID \cup Pelajaran

\* A request between two of its calls: the key it works on (NULL for a new
\* lesson) and the lesson it is about to store.
Berjalan == [pc : {"buat", "periksa", "simpan", "hapus"},
             id : JadwalID \cup {NULL}, baris : Pelajaran]

Bebas == [pc |-> "bebas"]

TypeOK ==
  /\ jadwal \in [JadwalID -> Pelajaran \cup {NULL}]
  /\ pernah \subseteq JadwalID
  /\ req \in [Permintaan -> Berjalan \cup {Bebas}]
  /\ usang \subseteq Permintaan
  /\ tercela \subseteq JadwalID

Ada == {i \in JadwalID : jadwal[i] # NULL}

Init ==
  /\ jadwal = [i \in JadwalID |-> NULL]
  /\ pernah = {}
  /\ req = [r \in Permintaan |-> Bebas]
  /\ usang = {}
  /\ tercela = {}

----------------------------------------------------------------------------
\* Mutant: the end of one lesson is compared with the wrong column, so that lessons
\* that begin together do not collide.
Beririsan_KolomTertukar(a, b) ==
  /\ a.sekolah = b.sekolah
  /\ a.hari = b.hari
  /\ Urutan[a.mulai] < Urutan[b.mulai]
  /\ Urutan[a.selesai] > Urutan[b.mulai]

\* The WHERE clause of CheckTabrakan on two lessons.
Beririsan(a, b) ==
  /\ a.sekolah = b.sekolah
  /\ a.hari = b.hari
  /\ Urutan[a.mulai] < Urutan[b.selesai]
  /\ Urutan[a.selesai] > Urutan[b.mulai]

\* Every stored lesson has status aktif, the only one the program writes.
CheckTabrakan(b, kecuali) == \E i \in Ada \ {kecuali} : Beririsan(jadwal[i], b)

Menjadi(r, q) == req' = [req EXCEPT ![r] = q]

\* Request r reads: what it goes on with rests on the tables as they are.
Membaca(r, q) ==
  /\ Menjadi(r, q)
  /\ usang' = usang \ {r}
  /\ UNCHANGED <<jadwal, pernah, tercela>>

\* Request r ends with a write; the other requests about its school rest on
\* older tables from now on.
SelesaiMenulis(r) ==
  /\ Menjadi(r, Bebas)
  /\ usang' = (usang \ {r}) \cup
       {p \in Permintaan \ {r} : /\ req[p] # Bebas
                                /\ req[p].baris.sekolah = req[r].baris.sekolah}

\* A lesson of a teacher of school s; teachers do not change schools.
TambahJadwal(r, b) ==
  /\ req[r] = Bebas
  /\ ~CheckTabrakan(b, NULL)
  /\ Membaca(r, [pc |-> "buat", id |-> NULL, baris |-> b])

BuatJadwal(r) ==
  /\ req[r].pc = "buat"
  /\ \E i \in JadwalID \ pernah :
       /\ jadwal' = [jadwal EXCEPT ![i] = req[r].baris]
       /\ pernah' = pernah \cup {i}
       /\ tercela' = IF r \in usang THEN tercela \cup {i} ELSE tercela
  /\ SelesaiMenulis(r)

\* FindByID, the ownership check, and the columns the request changes: a
\* change of day or time is checked first, other columns are saved at once.
UpdateJadwal(r, i, b) ==
  /\ req[r] = Bebas
  /\ i \in Ada
  /\ b.sekolah = jadwal[i].sekolah
  /\ \/ Membaca(r, [pc |-> "periksa", id |-> i, baris |-> b])
     \/ b = jadwal[i] /\ Membaca(r, [pc |-> "simpan", id |-> i, baris |-> b])

Periksa(r) ==
  /\ req[r].pc = "periksa"
  /\ Membaca(r, IF CheckTabrakan(req[r].baris, req[r].id)
                  THEN Bebas ELSE [req[r] EXCEPT !.pc = "simpan"])

\* Save writes every column; when the row is gone meanwhile it inserts it again.
\* A lesson stored as it was keeps its history.
SimpanJadwal(r) ==
  /\ req[r].pc = "simpan"
  /\ jadwal' = [jadwal EXCEPT ![req[r].id] = req[r].baris]
  /\ tercela' = IF r \in usang THEN tercela \cup {req[r].id}
                ELSE IF jadwal[req[r].id] = req[r].baris THEN tercela
                ELSE tercela \ {req[r].id}
  /\ SelesaiMenulis(r)
  /\ UNCHANGED pernah

DeleteJadwal(r, i) ==
  /\ req[r] = Bebas
  /\ i \in Ada
  /\ Membaca(r, [pc |-> "hapus", id |-> i, baris |-> jadwal[i]])

HapusJadwal(r) ==
  /\ req[r].pc = "hapus"
  /\ jadwal' = [jadwal EXCEPT ![req[r].id] = NULL]
  /\ tercela' = tercela \ {req[r].id}
  /\ SelesaiMenulis(r)
  /\ UNCHANGED pernah

\* A call fails or the process stops between two calls.
Gagal(r) ==
  /\ req[r] # Bebas
  /\ Membaca(r, Bebas)

Terima(r) ==
  \/ \E b \in Pelajaran :
       TambahJadwal(r, b) \/ \E i \in JadwalID : UpdateJadwal(r, i, b)
  \/ \E i \in JadwalID : DeleteJadwal(r, i)

Lanjut(r) ==
  BuatJadwal(r) \/ Periksa(r) \/ SimpanJadwal(r) \/ HapusJadwal(r) \/ Gagal(r)

Next == \E r \in Permintaan : Terima(r) \/ Lanjut(r)

Spec == Init /\ [][Next]_vars

----------------------------------------------------------------------------
\* Some moment of the day lies in both lessons.
Bersamaan(a, b) ==
  \E t \in {Waktu[j] : j \in Jam} :
    /\ Waktu[a.mulai] <= t /\ t < Waktu[a.selesai]
    /\ Waktu[b.mulai] <= t /\ t < Waktu[b.selesai]

\* The texts of the two lessons sort as the times they stand for, as zero-padded
\* HH:MM would.
Terurut(a, b) ==
  \A x \in {a.mulai, a.selesai}, y \in {b.mulai, b.selesai} :
    /\ Urutan[x] < Urutan[y] <=> Waktu[x] < Waktu[y]
    /\ Urutan[y] < Urutan[x] <=> Waktu[y] < Waktu[x]

Bertabrakan(i, j) ==
  /\ i # j
  /\ jadwal[i].sekolah = jadwal[j].sekolah
  /\ jadwal[i].hari = jadwal[j].hari
  /\ Bersamaan(jadwal[i], jadwal[j])

\* Two lessons of a school take place at the same moment of a day only for one of
\* two reasons: one of them was stored after another request wrote a lesson of
\* the school since its clash query or read (pendidik.go:335, 395, 429), or their
\* times are written so that they do not sort as text (repository/pendidik.go:159).
\* Sequences of additions, moves and deletions that break off leave no third.
TabrakanBersebab ==
  \A i, j \in Ada : Bertabrakan(i, j) =>
    i \in tercela \/ j \in tercela \/ ~Terurut(jadwal[i], jadwal[j])

----------------------------------------------------------------------------
(* What comments and documentation say and the code does not keep.         *)

\* No two lessons of a school take place at the same moment of the same day
\* (pendidik.go:334 and 381, "Check tabrakan jadwal").
TidakBertabrakan == \A i, j \in Ada : ~Bertabrakan(i, j)

\* A deleted lesson does not come back (docs/API_DOCUMENTATION.md:329, "Hapus
\* jadwal mengajar").
HapusPermanen == [][\A i \in pernah : jadwal[i] = NULL => jadwal'[i] = NULL]_vars
============================================================================
