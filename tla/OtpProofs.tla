----------------------------- MODULE OtpProofs -----------------------------
(***************************************************************************)
(* Theorems about Otp, for every life time, number of attempts, cooldown   *)
(* and number of codes and requests.  What a request may do to the entry   *)
(* depends on what it read of it, so IInv says of the copy in its hands    *)
(* what holds of the entry.  Each promise about one code is proved of the  *)
(* behaviours in which the program keeps it, those without the overlap     *)
(* that breaks it: of two verifications, of a verification and a           *)
(* generation, or of a generation and anything.                            *)
(***************************************************************************)
EXTENDS Otp, TLAPS

\* What a request read, or answers with, is a code that was generated; it counts
\* only answers that were still allowed, and stores no entry without expiry.
SalinanSah(q) ==
  /\ q.pc \in {"maks", "ttl", "simpan"} => q.salin.kode \in Kode
  /\ q.pc = "ttl" => q.salin.attempts < OtpMaxAttempts
  /\ q.pc = "simpan" => q.salin.ttl \in 1..OtpTTL
  /\ q.pc \in {"terima", "lepas"} => q.kode \in Kode

EntriSah == entri.ttl <= OtpTTL /\ (entri.ttl > 0 => entri.kode \in Kode)

IInv == TypeOK /\ EntriSah /\ \A r \in Permintaan : SalinanSah(req[r])

\* Where a request generates a code, and where it verifies one.
Membuat == {"buat", "jeda"}
Memeriksa == {"maks", "ttl", "simpan", "terima", "lepas"}

\* The hypotheses of the theorems about one code: verifications do not overlap;
\* no verification overlaps the generation of a code; nothing overlaps it.
SatuVerifikasi ==
  \A r, s \in Permintaan : req[r].pc \in Memeriksa /\ req[s].pc \in Memeriksa => r = s

TakBersilang ==
  \A r, s \in Permintaan : ~ (req[r].pc \in Membuat /\ req[s].pc \in Memeriksa)

PembuatSendiri ==
  \A r, s \in Permintaan : req[r].pc \in Membuat /\ req[s].pc # "bebas" => r = s

\* What is in force, read or about to be accepted is the last code.
Terbaru ==
  /\ entri.ttl > 0 => entri.kode = terakhir
  /\ \A r \in Permintaan :
       /\ req[r].pc \in {"maks", "ttl", "simpan"} => req[r].salin.kode = terakhir
       /\ req[r].pc \in {"terima", "lepas"} => req[r].kode = terakhir

Menghitung(q) == q.pc \in {"ttl", "simpan"}

\* What is in force, about to be stored or accepted was generated before.
Diterbitkan ==
  /\ entri.ttl > 0 => entri.kode <= terakhir
  /\ \A r \in Permintaan :
       /\ Menghitung(req[r]) => req[r].salin.kode <= terakhir
       /\ req[r].pc \in {"terima", "lepas"} => req[r].kode <= terakhir

\* Every wrong answer is in the entry, or in the copy that is about to replace it.
SalahTercatat ==
  /\ \A k \in Kode : salah[k] <= OtpMaxAttempts /\ (k > terakhir => salah[k] = 0)
  /\ entri.ttl > 0 => \/ salah[entri.kode] <= entri.attempts
                      \/ \E r \in Permintaan : Menghitung(req[r])
  /\ \A r \in Permintaan :
       /\ req[r].pc = "ttl" => salah[req[r].salin.kode] <= req[r].salin.attempts + 1
       /\ req[r].pc = "simpan" => salah[req[r].salin.kode] <= req[r].salin.attempts

\* A code that was accepted is in force no more, nor will a request restore it.
DiterimaHabis ==
  /\ \A k \in Kode : diterima[k] <= 1 /\ (k > terakhir => diterima[k] = 0)
  /\ entri.ttl > 0 => diterima[entri.kode] = 0
  /\ \A r \in Permintaan :
       /\ Menghitung(req[r]) => diterima[req[r].salin.kode] = 0
       /\ req[r].pc \in {"terima", "lepas"} => diterima[req[r].kode] = 0
       /\ req[r].pc = "lepas" /\ entri.ttl > 0 => entri.kode # req[r].kode

Lewat == usia[terakhir] >= OtpResendCooldown \/ diterima[terakhir] > 0

\* The cooldown key lives for what is left of the cooldown of the last code.
JedaBerjalan ==
  terakhir > 0 =>
    /\ (\A r \in Permintaan : req[r].pc # "jeda") =>
         usia[terakhir] + cooldown >= OtpResendCooldown \/ diterima[terakhir] > 0
    /\ \A r \in Permintaan : req[r].pc = "buat" => Lewat

\* Counting and the cooldown presume that every Redis call gets through.
Tercatat == Diterbitkan /\ (~terganggu => SalahTercatat /\ DiterimaHabis)

Berjeda == Terbaru /\ (~terganggu => JedaBerjalan)

----------------------------------------------------------------------------
(* IInv, for any number of requests at once.                               *)

LEMMA SatuDiKode == ASSUME NEW k \in Kode PROVE k \in 1..MaxKode /\ k \in 0..MaxKode
  BY KonstantaAssumption DEF Kode

LEMMA MenjadiSah ==
  ASSUME IInv, NEW r \in Permintaan, NEW q \in Lokal, SalinanSah(q), Menjadi(r, q)
  PROVE  req' \in [Permintaan -> Lokal] /\ \A s \in Permintaan : SalinanSah(req'[s])
  BY DEF IInv, TypeOK, Menjadi

LEMMA BebasSah == Bebas \in Lokal /\ SalinanSah(Bebas)
  BY KonstantaAssumption DEF Bebas, Lokal, TidakAda, Entri, Selamanya, SalinanSah

LEMMA MulaiSah ==
  ASSUME NEW pc \in {"buat", "jeda"}
  PROVE  [Bebas EXCEPT !.pc = pc] \in Lokal /\ SalinanSah([Bebas EXCEPT !.pc = pc])
  BY KonstantaAssumption DEF Bebas, Lokal, TidakAda, Entri, Selamanya, SalinanSah

\* What Verify reads is what the entry held, and it is judged by that.
LEMMA VerifySah ==
  ASSUME IInv, NEW r \in Permintaan, NEW kode \in 0..terakhir, Verify(r, kode)
  PROVE  IInv'
<1> DEFINE lanjut == Putusan(entri, kode)
           q == [pc |-> lanjut, kode |-> kode, salin |-> entri]
<1>1. kode \in 0..MaxKode /\ entri \in Entri /\ entri.kode \in Kode /\ entri.attempts \in Nat
  BY KonstantaAssumption DEF Verify, IInv, TypeOK, EntriSah, Entri
<1>2. /\ lanjut \in {"maks", "ttl", "terima"}
      /\ lanjut = "ttl" => entri.attempts < OtpMaxAttempts
      /\ lanjut = "terima" => kode = entri.kode
  BY <1>1, KonstantaAssumption DEF Putusan
<1>3. q \in Lokal /\ SalinanSah(q)
  <2>1. q \in Lokal
    BY <1>1, <1>2 DEF Lokal
  <2>2. q.pc = lanjut /\ q.kode = kode /\ q.salin = entri
    OBVIOUS
  <2>3. QED
    <3> HIDE DEF q, lanjut
    <3> QED BY <1>1, <1>2, <2>1, <2>2 DEF SalinanSah
<1>4. Menjadi(r, q)
  BY DEF Verify
<1>5. req' \in [Permintaan -> Lokal] /\ \A s \in Permintaan : SalinanSah(req'[s])
  <2> HIDE DEF q
  <2> QED BY <1>3, <1>4, MenjadiSah
<1>6. salah' \in [Kode -> 0..OtpMaxAttempts + 1]
  <2>1. \A n \in 0..OtpMaxAttempts + 1 : Naik(n, OtpMaxAttempts + 1) \in 0..OtpMaxAttempts + 1
    BY KonstantaAssumption DEF Naik
  <2>2. salah' = salah \/ salah' = [salah EXCEPT ![entri.kode] = Naik(@, OtpMaxAttempts + 1)]
    BY DEF Verify
  <2>3. QED
    BY <1>1, <2>1, <2>2 DEF IInv, TypeOK
<1>7. TypeOK' /\ EntriSah'
  BY <1>5, <1>6 DEF Verify, IInv, TypeOK, EntriSah
<1>8. QED
  BY <1>5, <1>7 DEF IInv

\* The remaining time that goes with a copy is never 0.
LEMMA SisaWaktuSah ==
  ASSUME IInv, NEW ttl \in JawabanTTL
  PROVE  SisaWaktu(ttl) \in 1..OtpTTL
  BY KonstantaAssumption DEF IInv, TypeOK, EntriSah, Entri, Selamanya, JawabanTTL, SisaWaktu

LEMMA HitungSah ==
  ASSUME IInv, NEW r \in Permintaan, req[r].pc = "ttl", NEW sisa \in 1..OtpTTL
  PROVE  \E q \in Lokal :
           /\ q = Dihitung(req[r], sisa)
           /\ q.pc = "simpan"
           /\ q.kode = req[r].kode
           /\ q.salin.kode = req[r].salin.kode
           /\ q.salin.attempts = req[r].salin.attempts + 1
           /\ SalinanSah(q)
<1>1. req[r] \in Lokal /\ SalinanSah(req[r])
  BY DEF IInv, TypeOK
<1> DEFINE lama == req[r].salin
           baru == [lama EXCEPT !.attempts = @ + 1, !.ttl = sisa]
           q == Dihitung(req[r], sisa)
<1>2. lama \in Entri /\ lama.kode \in Kode /\ lama.attempts < OtpMaxAttempts
  BY <1>1 DEF Lokal, SalinanSah
<1>3. sisa \in 0..Selamanya /\ lama.attempts + 1 \in 0..OtpMaxAttempts
  BY <1>2, KonstantaAssumption DEF Selamanya, Entri
<1>4. /\ baru \in Entri
      /\ baru.kode = lama.kode /\ baru.attempts = lama.attempts + 1 /\ baru.ttl = sisa
  BY <1>2, <1>3 DEF Entri
<1>5. q.salin = baru
  BY <1>1 DEF Lokal, Dihitung
<1>6. q \in Lokal /\ q.pc = "simpan" /\ q.kode = req[r].kode
  BY <1>1, <1>2, <1>3 DEF Lokal, Dihitung, Entri
<1>7. SalinanSah(q)
  <2> HIDE DEF q, baru
  <2> QED BY <1>2, <1>4, <1>5, <1>6 DEF SalinanSah
<1>8. q.salin.kode = req[r].salin.kode /\ q.salin.attempts = req[r].salin.attempts + 1
  BY <1>4, <1>5
<1>9. QED
  <2>1. q = Dihitung(req[r], sisa)
    OBVIOUS
  <2> HIDE DEF q
  <2>2. QED
    BY <1>6, <1>7, <1>8, <2>1

LEMMA TerimaSah ==
  ASSUME IInv, NEW r \in Permintaan, req[r].pc = "terima"
  PROVE  \E q \in Lokal :
           /\ q = [req[r] EXCEPT !.pc = "lepas"]
           /\ q.pc = "lepas" /\ q.kode = req[r].kode
           /\ SalinanSah(q)
<1>1. req[r] \in Lokal /\ SalinanSah(req[r])
  BY DEF IInv, TypeOK
<1> DEFINE q == [req[r] EXCEPT !.pc = "lepas"]
<1>2. q \in Lokal /\ q.pc = "lepas" /\ q.kode = req[r].kode
  BY <1>1 DEF Lokal
<1>3. SalinanSah(q)
  <2> HIDE DEF q
  <2> QED BY <1>1, <1>2 DEF SalinanSah
<1>4. QED
  BY <1>2, <1>3

\* A wrong answer stores the copy as it is: its expiry is not 0.
LEMMA SimpanSalahIsi ==
  ASSUME IInv, NEW r \in Permintaan, SimpanSalah(r)
  PROVE  /\ entri' = req[r].salin
         /\ req[r].salin \in Entri /\ req[r].salin.ttl \in 1..OtpTTL /\ req[r].salin.kode \in Kode
<1>1. req[r] \in Lokal /\ SalinanSah(req[r]) /\ req[r].pc = "simpan"
  BY DEF IInv, TypeOK, SimpanSalah
<1> DEFINE e == req[r].salin
<1>2. e \in Entri /\ e.ttl \in 1..OtpTTL /\ e.kode \in Kode
  BY <1>1 DEF Lokal, SalinanSah
<1>3. e.ttl # 0
  BY <1>2
<1>4. entri' = [e EXCEPT !.ttl = IF @ = 0 THEN Selamanya ELSE @]
  BY DEF SimpanSalah
<1>5. [e EXCEPT !.ttl = IF @ = 0 THEN Selamanya ELSE @] = e
  <2> HIDE DEF e
  <2> QED BY <1>2, <1>3 DEF Entri
<1>6. QED
  BY <1>2, <1>4, <1>5

LEMMA DiterimaType ==
  ASSUME IInv, NEW k \in Kode, diterima' = [diterima EXCEPT ![k] = Naik(@, 2)]
  PROVE  diterima' \in [Kode -> 0..2]
<1>1. \A n \in 0..2 : Naik(n, 2) \in 0..2
  BY DEF Naik
<1>2. QED
  BY <1>1 DEF IInv, TypeOK

\* One request takes a step: what it became is sound, and so is what it wrote.
LEMMA LangkahSah ==
  ASSUME IInv, NEW r \in Permintaan, Langkah(r)
  PROVE  IInv'
<1>0. req[r] \in Lokal /\ SalinanSah(req[r])
  BY DEF IInv, TypeOK
<1>1. CASE SimpanKode(r)
  <2>1. Menjadi(r, [Bebas EXCEPT !.pc = "jeda"])
    BY <1>1 DEF SimpanKode
  <2>2. req' \in [Permintaan -> Lokal] /\ \A s \in Permintaan : SalinanSah(req'[s])
    BY <2>1, MulaiSah, MenjadiSah
  <2>3. terakhir' \in Kode /\ terakhir' \in 0..MaxKode
    BY <1>1, KonstantaAssumption DEF SimpanKode, IInv, TypeOK, Kode
  <2>4. entri' \in Entri /\ EntriSah'
    BY <1>1, <2>3, KonstantaAssumption DEF SimpanKode, Entri, EntriSah, Selamanya
  <2>5. QED
    BY <1>1, <2>2, <2>3, <2>4 DEF SimpanKode, IInv, TypeOK
<1>2. CASE SimpanJeda(r)
  <2>1. req' \in [Permintaan -> Lokal] /\ \A s \in Permintaan : SalinanSah(req'[s])
    BY <1>2, BebasSah, MenjadiSah DEF SimpanJeda
  <2>2. QED
    BY <1>2, <2>1, KonstantaAssumption DEF SimpanJeda, IInv, TypeOK, EntriSah
<1>3. CASE HapusMaks(r)
  <2>1. req' \in [Permintaan -> Lokal] /\ \A s \in Permintaan : SalinanSah(req'[s])
    BY <1>3, BebasSah, MenjadiSah DEF HapusMaks
  <2>2. entri' \in Entri /\ EntriSah'
    BY <1>3, KonstantaAssumption DEF HapusMaks, TidakAda, Entri, EntriSah, Selamanya
  <2>3. QED
    BY <1>3, <2>1, <2>2 DEF HapusMaks, IInv, TypeOK
<1>4. CASE BacaTTL(r)
  <2>1. PICK ttl \in JawabanTTL :
          Menjadi(r, Dihitung(req[r], SisaWaktu(ttl)))
    BY <1>4 DEF BacaTTL
  <2>2. SisaWaktu(ttl) \in 1..OtpTTL /\ req[r].pc = "ttl"
    BY <1>4, SisaWaktuSah DEF BacaTTL
  <2>3. req' \in [Permintaan -> Lokal] /\ \A s \in Permintaan : SalinanSah(req'[s])
    BY <2>1, <2>2, HitungSah, MenjadiSah
  <2>4. QED
    BY <1>4, <2>3 DEF BacaTTL, IInv, TypeOK, EntriSah
<1>5. CASE SimpanSalah(r)
  <2>1. req' \in [Permintaan -> Lokal] /\ \A s \in Permintaan : SalinanSah(req'[s])
    BY <1>5, BebasSah, MenjadiSah DEF SimpanSalah
  <2>2. entri' \in Entri /\ EntriSah'
    BY <1>5, SimpanSalahIsi DEF EntriSah
  <2>3. QED
    BY <1>5, <2>1, <2>2 DEF SimpanSalah, IInv, TypeOK
<1>6. CASE HapusKode(r)
  <2>1. req' \in [Permintaan -> Lokal] /\ \A s \in Permintaan : SalinanSah(req'[s])
    BY <1>6, TerimaSah, MenjadiSah DEF HapusKode
  <2>2. entri' \in Entri /\ EntriSah'
    BY <1>6, KonstantaAssumption DEF HapusKode, TidakAda, Entri, EntriSah, Selamanya
  <2>3. QED
    BY <1>6, <2>1, <2>2 DEF HapusKode, IInv, TypeOK
<1>7. CASE HapusJeda(r)
  <2>1. req' \in [Permintaan -> Lokal] /\ \A s \in Permintaan : SalinanSah(req'[s])
    BY <1>7, BebasSah, MenjadiSah DEF HapusJeda
  <2>2. diterima' \in [Kode -> 0..2]
    BY <1>0, <1>7, DiterimaType DEF HapusJeda, SalinanSah
  <2>3. QED
    BY <1>7, <2>1, <2>2, KonstantaAssumption DEF HapusJeda, IInv, TypeOK, EntriSah
<1>8. CASE Gagal(r)
  <2>1. diterima' \in [Kode -> 0..2]
    BY <1>0, <1>8, DiterimaType DEF Gagal, SalinanSah, IInv, TypeOK
  <2>2. req' \in [Permintaan -> Lokal] /\ \A s \in Permintaan : SalinanSah(req'[s])
    <3>1. CASE Menjadi(r, Bebas)
      BY <3>1, BebasSah, MenjadiSah
    <3>2. CASE TanpaEfek(r)
      <4>1. CASE Menjadi(r, [Bebas EXCEPT !.pc = "buat"]) \/ Menjadi(r, [Bebas EXCEPT !.pc = "jeda"])
        BY <4>1, MulaiSah, MenjadiSah
      <4>2. CASE /\ req[r].pc = "ttl"
                 /\ Menjadi(r, Dihitung(req[r], OtpTTL))
        <5>1. OtpTTL \in 1..OtpTTL
          BY KonstantaAssumption
        <5>2. QED
          BY <4>2, <5>1, HitungSah, MenjadiSah
      <4>3. CASE req[r].pc = "terima" /\ Menjadi(r, [req[r] EXCEPT !.pc = "lepas"])
        BY <4>3, TerimaSah, MenjadiSah
      <4>4. QED
        BY <3>2, <4>1, <4>2, <4>3 DEF TanpaEfek
    <3>3. QED
      BY <1>8, <3>1, <3>2 DEF Gagal
  <2>3. QED
    BY <1>8, <2>1, <2>2 DEF Gagal, IInv, TypeOK, EntriSah
<1>9. QED
  BY <1>1, <1>2, <1>3, <1>4, <1>5, <1>6, <1>7, <1>8 DEF Langkah

\* What a unit of time does to the entry: it is as before but for its age, or gone.
LEMMA TickEntri ==
  ASSUME IInv, Tick
  PROVE  /\ entri' \in Entri /\ EntriSah'
         /\ \/ entri' = TidakAda
            \/ entri.ttl > 0 /\ entri'.kode = entri.kode /\ entri'.attempts = entri.attempts
<1>1. entri \in Entri /\ entri.ttl \in 0..OtpTTL /\ (entri.ttl > 0 => entri.kode \in Kode)
  BY KonstantaAssumption DEF IInv, TypeOK, EntriSah, Entri, Selamanya
<1>2. entri.ttl # Selamanya
  BY <1>1, KonstantaAssumption DEF Selamanya
<1>3. CASE entri.ttl \in {0, 1}
  <2>1. entri' = TidakAda
    BY <1>2, <1>3 DEF Tick
  <2>2. TidakAda \in Entri
    BY KonstantaAssumption DEF TidakAda, Entri, Selamanya
  <2>3. EntriSah'
    BY <2>1, KonstantaAssumption DEF TidakAda, EntriSah
  <2>4. QED
    BY <2>1, <2>2, <2>3
<1>4. CASE entri.ttl \notin {0, 1}
  <2>1. entri' = [entri EXCEPT !.ttl = @ - 1]
    BY <1>2, <1>4 DEF Tick
  <2>2. entri.ttl - 1 \in 0..OtpTTL /\ entri.ttl - 1 \in 0..Selamanya /\ entri.ttl > 0
    BY <1>1, <1>4, KonstantaAssumption DEF Selamanya
  <2>3. /\ entri' \in Entri
        /\ entri'.ttl = entri.ttl - 1 /\ entri'.kode = entri.kode /\ entri'.attempts = entri.attempts
    BY <1>1, <2>1, <2>2 DEF Entri
  <2>4. EntriSah'
    BY <1>1, <2>2, <2>3, KonstantaAssumption DEF EntriSah
  <2>5. QED
    BY <2>2, <2>3, <2>4
<1>5. QED
  BY <1>3, <1>4

LEMMA TickSah == ASSUME IInv, Tick PROVE IInv'
<1>1. entri' \in Entri /\ EntriSah'
  BY TickEntri
<1>2. cooldown' \in 0..OtpResendCooldown
  BY KonstantaAssumption DEF Tick, IInv, TypeOK
<1>3. usia' \in [Kode -> 0..OtpResendCooldown]
  <2>1. \A n \in 0..OtpResendCooldown : Naik(n, OtpResendCooldown) \in 0..OtpResendCooldown
    BY KonstantaAssumption DEF Naik
  <2>2. 0 \in 0..OtpResendCooldown
    BY KonstantaAssumption
  <2>3. QED
    BY <2>1, <2>2 DEF Tick, IInv, TypeOK
<1>4. QED
  BY <1>1, <1>2, <1>3 DEF Tick, IInv, TypeOK

LEMMA GenerateSah == ASSUME IInv, NEW r \in Permintaan, Generate(r) PROVE IInv'
<1>1. req' \in [Permintaan -> Lokal] /\ \A s \in Permintaan : SalinanSah(req'[s])
  BY MulaiSah, MenjadiSah DEF Generate
<1>2. QED
  BY <1>1 DEF Generate, IInv, TypeOK, EntriSah

LEMMA IInvInit == ASSUME Init PROVE IInv
<1>1. TidakAda \in Entri /\ EntriSah
  BY KonstantaAssumption DEF Init, TidakAda, Entri, Selamanya, EntriSah
<1>2. TypeOK
  <2>1. /\ 0 \in 0..OtpResendCooldown /\ 0 \in 0..MaxKode /\ 0 \in 0..2
        /\ 0 \in 0..OtpMaxAttempts + 1
    BY KonstantaAssumption
  <2>2. /\ usia \in [Kode -> 0..OtpResendCooldown] /\ salah \in [Kode -> 0..OtpMaxAttempts + 1]
        /\ diterima \in [Kode -> 0..2]
    BY <2>1 DEF Init
  <2>3. req \in [Permintaan -> Lokal]
    BY BebasSah DEF Init
  <2>4. QED
    BY <1>1, <2>1, <2>2, <2>3 DEF Init, TypeOK
<1>3. QED
  BY <1>1, <1>2, BebasSah DEF Init, IInv

LEMMA IInvNext == ASSUME IInv, [Next]_vars PROVE IInv'
<1>1. CASE UNCHANGED vars
  BY <1>1 DEF vars, IInv, TypeOK, EntriSah
<1>2. CASE Tick
  BY <1>2, TickSah
<1>3. ASSUME NEW r \in Permintaan, Generate(r) PROVE IInv'
  BY <1>3, GenerateSah
<1>4. ASSUME NEW r \in Permintaan, NEW k \in 0..terakhir, Verify(r, k) PROVE IInv'
  BY <1>4, VerifySah
<1>5. ASSUME NEW r \in Permintaan, Langkah(r) PROVE IInv'
  BY <1>5, LangkahSah
<1>6. QED
  BY <1>1, <1>2, <1>3, <1>4, <1>5 DEF Next

THEOREM Selalu == Spec => []IInv
<1>1. Init => IInv
  BY IInvInit
<1>2. IInv /\ [Next]_vars => IInv'
  BY IInvNext
<1>3. QED
  BY <1>1, <1>2, PTL DEF Spec

\* Whatever requests do at the same time, the entry, the counters and the copies
\* in the hands of requests stay within their ranges.
THEOREM TypeCorrect == Spec => []TypeOK
<1>1. IInv => TypeOK
  BY DEF IInv
<1>2. QED
  BY <1>1, Selalu, PTL

\* However requests overlap and whatever Redis calls fail, the entry never becomes
\* a key without expiry.
THEOREM BerbatasWaktu == Spec => []SelaluBerbatasWaktu
<1>1. IInv => SelaluBerbatasWaktu
  BY KonstantaAssumption DEF IInv, TypeOK, EntriSah, Entri, Selamanya, SelaluBerbatasWaktu
<1>2. QED
  BY <1>1, Selalu, PTL

----------------------------------------------------------------------------
(* What a request does to the entry and the codes in one step.             *)

\* A request that held p goes on with q: it carries a code or a copy on, counting
\* the wrong answer, but takes up no other.
Lanjut(p, q) ==
  \/ q.pc \in {"bebas", "buat", "jeda"}
  \/ /\ p.pc = "ttl" /\ q.pc = "simpan"
     /\ q.salin.kode = p.salin.kode /\ q.salin.attempts = p.salin.attempts + 1
  \/ p.pc = "terima" /\ q.pc = "lepas" /\ q.kode = p.kode

LEMMA PcMulai ==
  /\ Bebas.pc = "bebas"
  /\ \A pc \in {"buat", "jeda"} : [Bebas EXCEPT !.pc = pc].pc = pc
  BY DEF Bebas

LEMMA Ganti ==
  ASSUME IInv, NEW r \in Permintaan, NEW q, Menjadi(r, q)
  PROVE  req'[r] = q /\ \A s \in Permintaan : s # r => req'[s] = req[s]
  BY DEF IInv, TypeOK, Menjadi

\* The counters as arithmetic: what TypeOK says of them at the last code.
LEMMA Angka ==
  ASSUME IInv
  PROVE  /\ OtpTTL \in Nat /\ OtpMaxAttempts \in Nat /\ OtpResendCooldown \in Nat /\ MaxKode \in Nat
         /\ terakhir \in 0..MaxKode /\ cooldown \in 0..OtpResendCooldown
         /\ \A k \in Kode : /\ k \in Nat /\ k > 0 /\ usia[k] \in Nat /\ salah[k] \in Nat
                            /\ diterima[k] \in 0..2
         /\ terakhir > 0 => terakhir \in Kode
         /\ entri.attempts \in Nat /\ entri.ttl \in Nat
  BY KonstantaAssumption DEF IInv, TypeOK, Kode, Entri, Selamanya

Menerima(r) ==
  /\ req[r].pc = "lepas" /\ req'[r].pc = "bebas"
  /\ diterima' = [diterima EXCEPT ![req[r].kode] = Naik(@, 2)]
  /\ UNCHANGED <<entri, terakhir>>

\* What becomes of the entry.
JejakEntri(r) ==
  \/ UNCHANGED <<entri, terakhir>>
  \/ entri'.ttl = 0 /\ UNCHANGED terakhir
  \/ req[r].pc = "simpan" /\ entri' = req[r].salin /\ UNCHANGED terakhir
  \/ /\ req[r].pc = "buat" /\ terakhir' = terakhir + 1 /\ terakhir' \in Kode
     /\ entri'.kode = terakhir' /\ entri'.attempts = 0 /\ entri'.ttl > 0

\* What a step without failure makes sure of.
Utuh(r) ==
  /\ req[r].pc = "ttl" => req'[r].pc = "simpan"
  /\ req[r].pc = "simpan" => entri' = req[r].salin
  /\ req[r].pc = "jeda" => cooldown' = OtpResendCooldown
  /\ req'[r].pc = "lepas" => entri'.ttl = 0
  /\ req'[r].pc # "buat"
  /\ terakhir' # terakhir => req'[r].pc = "jeda"
  /\ cooldown' \in {cooldown, OtpResendCooldown} \/ Menerima(r)

Jejak(r) ==
  /\ Lanjut(req[r], req'[r]) /\ \A s \in Permintaan : s # r => req'[s] = req[s]
  /\ JejakEntri(r)
  /\ UNCHANGED diterima \/ Menerima(r)
  /\ UNCHANGED <<salah, usia>>
  /\ UNCHANGED terganggu \/ terganggu'
  /\ ~terganggu' => Utuh(r)

LEMMA GagalJejak ==
  ASSUME IInv, NEW r \in Permintaan, Gagal(r)
  PROVE  Jejak(r)
<1>1. terganggu' /\ UNCHANGED <<entri, cooldown, terakhir, usia, salah>>
  BY DEF Gagal
<1>2. CASE Menjadi(r, Bebas)
  BY <1>1, <1>2, Ganti, PcMulai DEF Gagal, TanpaEfek, Jejak, JejakEntri, Lanjut, Menerima
<1>3. CASE TanpaEfek(r) /\ UNCHANGED diterima
  <2>1. CASE Menjadi(r, [Bebas EXCEPT !.pc = "buat"]) \/ Menjadi(r, [Bebas EXCEPT !.pc = "jeda"])
    <3>1. PICK pc \in {"buat", "jeda"} : Menjadi(r, [Bebas EXCEPT !.pc = pc])
      BY <2>1
    <3>2. req'[r].pc = pc /\ \A s \in Permintaan : s # r => req'[s] = req[s]
      BY <3>1, Ganti, PcMulai
    <3>3. QED
      BY <1>1, <1>3, <3>2 DEF Jejak, JejakEntri, Lanjut
  <2>2. CASE req[r].pc = "ttl" /\ Menjadi(r, Dihitung(req[r], OtpTTL))
    <3>1. OtpTTL \in 1..OtpTTL
      BY KonstantaAssumption
    <3>2. PICK q \in Lokal : /\ q = Dihitung(req[r], OtpTTL) /\ q.pc = "simpan"
                             /\ q.salin.kode = req[r].salin.kode
                             /\ q.salin.attempts = req[r].salin.attempts + 1
      BY <2>2, <3>1, HitungSah
    <3>3. req'[r] = q /\ \A s \in Permintaan : s # r => req'[s] = req[s]
      BY <2>2, <3>2, Ganti
    <3>4. QED
      BY <1>1, <1>3, <2>2, <3>2, <3>3 DEF Jejak, JejakEntri, Lanjut
  <2>3. CASE req[r].pc = "terima" /\ Menjadi(r, [req[r] EXCEPT !.pc = "lepas"])
    <3>1. PICK q \in Lokal :
            q = [req[r] EXCEPT !.pc = "lepas"] /\ q.pc = "lepas" /\ q.kode = req[r].kode
      BY <2>3, TerimaSah
    <3>2. req'[r] = q /\ \A s \in Permintaan : s # r => req'[s] = req[s]
      BY <2>3, <3>1, Ganti
    <3>3. QED
      BY <1>1, <1>3, <2>3, <3>1, <3>2 DEF Jejak, JejakEntri, Lanjut
  <2>4. QED
    BY <1>3, <2>1, <2>2, <2>3 DEF TanpaEfek
<1>4. QED
  BY <1>2, <1>3 DEF Gagal

LEMMA LangkahJejak ==
  ASSUME IInv, NEW r \in Permintaan, Langkah(r)
  PROVE  Jejak(r)
<1>1. CASE SimpanKode(r)
  <2>1. req'[r].pc = "jeda" /\ \A s \in Permintaan : s # r => req'[s] = req[s]
    BY <1>1, Ganti, PcMulai DEF SimpanKode
  <2>2. terakhir' = terakhir + 1 /\ terakhir' \in Kode
    BY <1>1, Angka DEF SimpanKode, Kode
  <2>3. entri'.kode = terakhir' /\ entri'.attempts = 0 /\ entri'.ttl > 0
    BY <1>1, KonstantaAssumption DEF SimpanKode
  <2>4. JejakEntri(r) /\ Lanjut(req[r], req'[r])
    BY <1>1, <2>1, <2>2, <2>3 DEF SimpanKode, JejakEntri, Lanjut
  <2>5. QED
    BY <1>1, <2>1, <2>4 DEF SimpanKode, Jejak, Utuh
<1>2. CASE SimpanJeda(r)
  <2>1. req'[r].pc = "bebas" /\ \A s \in Permintaan : s # r => req'[s] = req[s]
    BY <1>2, Ganti, PcMulai DEF SimpanJeda
  <2>2. QED
    BY <1>2, <2>1 DEF SimpanJeda, Jejak, JejakEntri, Lanjut, Utuh
<1>3. CASE HapusMaks(r)
  <2>1. req'[r].pc = "bebas" /\ \A s \in Permintaan : s # r => req'[s] = req[s]
    BY <1>3, Ganti, PcMulai DEF HapusMaks
  <2>2. QED
    BY <1>3, <2>1 DEF HapusMaks, TidakAda, Jejak, JejakEntri, Lanjut, Utuh
<1>4. CASE BacaTTL(r)
  <2>1. PICK ttl \in JawabanTTL : Menjadi(r, Dihitung(req[r], SisaWaktu(ttl)))
    BY <1>4 DEF BacaTTL
  <2>2. PICK q \in Lokal : /\ q = Dihitung(req[r], SisaWaktu(ttl)) /\ q.pc = "simpan"
                           /\ q.salin.kode = req[r].salin.kode
                           /\ q.salin.attempts = req[r].salin.attempts + 1
    BY <1>4, SisaWaktuSah, HitungSah DEF BacaTTL
  <2>3. req'[r] = q /\ \A s \in Permintaan : s # r => req'[s] = req[s]
    BY <2>1, <2>2, Ganti
  <2>4. QED
    BY <1>4, <2>2, <2>3 DEF BacaTTL, Jejak, JejakEntri, Lanjut, Utuh
<1>5. CASE SimpanSalah(r)
  <2>1. req'[r].pc = "bebas" /\ \A s \in Permintaan : s # r => req'[s] = req[s]
    BY <1>5, Ganti, PcMulai DEF SimpanSalah
  <2>2. entri' = req[r].salin
    BY <1>5, SimpanSalahIsi
  <2>3. QED
    BY <1>5, <2>1, <2>2 DEF SimpanSalah, Jejak, JejakEntri, Lanjut, Utuh
<1>6. CASE HapusKode(r)
  <2>1. PICK q \in Lokal :
          q = [req[r] EXCEPT !.pc = "lepas"] /\ q.pc = "lepas" /\ q.kode = req[r].kode
    BY <1>6, TerimaSah DEF HapusKode
  <2>2. req'[r] = q /\ \A s \in Permintaan : s # r => req'[s] = req[s]
    BY <1>6, <2>1, Ganti DEF HapusKode
  <2>3. QED
    BY <1>6, <2>1, <2>2 DEF HapusKode, TidakAda, Jejak, JejakEntri, Lanjut, Utuh
<1>7. CASE HapusJeda(r)
  <2>1. req'[r].pc = "bebas" /\ \A s \in Permintaan : s # r => req'[s] = req[s]
    BY <1>7, Ganti, PcMulai DEF HapusJeda
  <2>2. QED
    BY <1>7, <2>1 DEF HapusJeda, Jejak, JejakEntri, Lanjut, Menerima, Utuh
<1>8. CASE Gagal(r)
  BY <1>8, GagalJejak
<1>9. QED
  BY <1>1, <1>2, <1>3, <1>4, <1>5, <1>6, <1>7, <1>8 DEF Langkah

LEMMA GenerateJejak ==
  ASSUME IInv, NEW r \in Permintaan, Generate(r)
  PROVE  /\ req[r].pc = "bebas" /\ req'[r].pc = "buat"
         /\ \A s \in Permintaan : s # r => req'[s] = req[s]
         /\ UNCHANGED <<entri, cooldown, terakhir, usia, salah, diterima, terganggu>> /\ cooldown = 0
  BY Ganti, PcMulai DEF Generate

\* What Verify read is the entry, and a code it accepts is the one in force.
LEMMA VerifyJejak ==
  ASSUME IInv, NEW r \in Permintaan, NEW kode \in 0..terakhir, Verify(r, kode)
  PROVE  /\ req[r].pc = "bebas" /\ req'[r].pc \in {"maks", "ttl", "terima"}
         /\ req'[r].salin = entri /\ (req'[r].pc = "terima" => req'[r].kode = entri.kode)
         /\ req'[r].pc = "ttl" => entri.attempts < OtpMaxAttempts
         /\ \A s \in Permintaan : s # r => req'[s] = req[s]
         /\ entri.ttl > 0 /\ entri.kode \in Kode
         /\ UNCHANGED <<entri, cooldown, terakhir, usia, diterima, terganggu>>
         /\ salah' = IF req'[r].pc = "ttl"
                       THEN [salah EXCEPT ![entri.kode] = Naik(@, OtpMaxAttempts + 1)] ELSE salah
<1> DEFINE lanjut == Putusan(entri, kode)
           q == [pc |-> lanjut, kode |-> kode, salin |-> entri]
<1>1. entri.ttl > 0 /\ entri.kode \in Kode /\ req[r].pc = "bebas"
  BY PcMulai DEF Verify, IInv, EntriSah
<1>2. /\ lanjut \in {"maks", "ttl", "terima"}
      /\ lanjut = "ttl" => entri.attempts < OtpMaxAttempts
      /\ lanjut = "terima" => kode = entri.kode
  BY Angka DEF Putusan
<1>3. q.pc = lanjut /\ q.kode = kode /\ q.salin = entri
  OBVIOUS
<1>4. Menjadi(r, q)
  BY DEF Verify
<1>5. /\ UNCHANGED <<entri, cooldown, terakhir, usia, diterima, terganggu>>
      /\ salah' = IF lanjut = "ttl" THEN [salah EXCEPT ![entri.kode] = Naik(@, OtpMaxAttempts + 1)]
                  ELSE salah
  BY DEF Verify
<1> HIDE DEF q, lanjut
<1>6. req'[r] = q /\ \A s \in Permintaan : s # r => req'[s] = req[s]
  BY <1>4, Ganti
<1>7. QED
  BY <1>1, <1>2, <1>3, <1>5, <1>6

\* What a unit of time leaves alone.
LEMMA TickJejak ==
  ASSUME IInv, Tick
  PROVE  /\ UNCHANGED <<terakhir, salah, diterima, terganggu, req>>
         /\ entri'.ttl > 0 => /\ entri.ttl > 0
                              /\ entri'.kode = entri.kode /\ entri'.attempts = entri.attempts
<1>1. entri' = TidakAda => entri'.ttl = 0
  BY DEF TidakAda
<1>2. entri'.ttl > 0 => /\ entri.ttl > 0
                        /\ entri'.kode = entri.kode /\ entri'.attempts = entri.attempts
  BY <1>1, TickEntri
<1>3. QED
  BY <1>2 DEF Tick

----------------------------------------------------------------------------
(* The last code, as long as no verification overlaps a generation.        *)

LEMMA TerbaruNext ==
  ASSUME IInv, Terbaru, TakBersilang, [Next]_vars
  PROVE  Terbaru'
<1>1. CASE UNCHANGED vars
  BY <1>1 DEF vars, Terbaru
<1>2. CASE Tick
  BY <1>2, TickJejak DEF Terbaru
<1>3. ASSUME NEW r \in Permintaan, Generate(r) PROVE Terbaru'
  BY <1>3, GenerateJejak DEF Terbaru
<1>4. ASSUME NEW r \in Permintaan, NEW k \in 0..terakhir, Verify(r, k) PROVE Terbaru'
  BY <1>4, VerifyJejak DEF Terbaru
<1>5. ASSUME NEW r \in Permintaan, Langkah(r) PROVE Terbaru'
  <2>1. Jejak(r)
    BY <1>5, LangkahJejak
  <2>2. CASE UNCHANGED terakhir
    BY <2>1, <2>2 DEF Jejak, JejakEntri, Lanjut, Terbaru
  <2>3. CASE req[r].pc = "buat" /\ entri'.kode = terakhir'
    <3>1. \A s \in Permintaan : req'[s].pc \notin Memeriksa
      BY <2>1, <2>3 DEF TakBersilang, Membuat, Memeriksa, Jejak, Lanjut
    <3>2. QED
      BY <2>3, <3>1 DEF Terbaru, Memeriksa
  <2>4. QED
    BY <2>1, <2>2, <2>3 DEF Jejak, JejakEntri
<1>6. QED
  BY <1>1, <1>2, <1>3, <1>4, <1>5 DEF Next

LEMMA TerbaruInit == ASSUME Init PROVE Terbaru
<1>1. entri.ttl = 0 /\ \A r \in Permintaan : req[r].pc = "bebas"
  BY PcMulai DEF Init, TidakAda
<1>2. QED
  BY <1>1 DEF Terbaru

\* Only a request that deleted the code it answers with accepts it.
LEMMA HanyaTerbaru ==
  ASSUME IInv, Terbaru, [Next]_vars
  PROVE  [\A k \in Kode : diterima'[k] # diterima[k] => k = terakhir]_vars
<1> SUFFICES ASSUME NEW k \in Kode, diterima'[k] # diterima[k] PROVE k = terakhir
  OBVIOUS
<1>1. PICK r \in Permintaan : Langkah(r)
  BY DEF vars, Next, Tick, Generate, Verify
<1>2. Menerima(r)
  BY <1>1, LangkahJejak DEF Jejak
<1>3. req[r].kode = terakhir
  BY <1>2 DEF Menerima, Terbaru
<1>4. QED
  BY <1>2, <1>3 DEF Menerima, IInv, TypeOK

\* otp.go:52: as long as no verification overlaps the generation of a code, only the
\* last code is accepted, whatever Redis calls fail and wherever requests are cut off.
THEOREM Terakhir == Spec /\ []TakBersilang => KodeTerbaruSaja
<1>1. Init => Terbaru
  BY TerbaruInit
<1>2. IInv /\ Terbaru /\ TakBersilang /\ [Next]_vars => Terbaru'
  BY TerbaruNext
<1>3. IInv /\ Terbaru /\ [Next]_vars =>
        [\A k \in Kode : diterima'[k] # diterima[k] => k = terakhir]_vars
  BY HanyaTerbaru
<1>4. QED
  BY <1>1, <1>2, <1>3, Selalu, PTL DEF Spec, KodeTerbaruSaja

----------------------------------------------------------------------------
(* Attempts and acceptance, as long as verifications do not overlap.       *)

LEMMA LangkahTercatat ==
  ASSUME IInv, Tercatat, SatuVerifikasi, NEW r \in Permintaan, Langkah(r)
  PROVE  Tercatat'
<1>1. Jejak(r)
  BY LangkahJejak
<1>2. /\ terakhir \in Nat /\ terakhir' \in Nat /\ terakhir <= terakhir'
      /\ \A s \in Permintaan : /\ SalinanSah(req[s])
                               /\ req[s].salin.kode \in Nat /\ req[s].kode \in Nat
      /\ entri.kode \in Nat
  <2>1. terakhir \in Nat /\ terakhir' \in Nat /\ terakhir <= terakhir'
    BY <1>1, Angka DEF Jejak, JejakEntri
  <2>2. entri.kode \in Nat
    BY Angka DEF IInv, TypeOK, Entri
  <2>3. ASSUME NEW s \in Permintaan
        PROVE  /\ SalinanSah(req[s])
               /\ req[s].salin.kode \in Nat /\ req[s].kode \in Nat
    <3>1. req[s] \in Lokal /\ SalinanSah(req[s])
      BY DEF IInv, TypeOK
    <3>2. req[s].salin \in Entri /\ req[s].kode \in Nat
      BY <3>1, Angka DEF Lokal
    <3>3. QED
      BY <3>1, <3>2, Angka DEF Entri
  <2>4. QED
    BY <2>1, <2>2, <2>3
<1>3. Diterbitkan
  BY DEF Tercatat
<1>4. Diterbitkan'
  <2>1. entri'.ttl > 0 => entri'.kode <= terakhir'
    BY <1>1, <1>2, <1>3 DEF Jejak, JejakEntri, Diterbitkan, Menghitung
  <2>2. ASSUME NEW s \in Permintaan
        PROVE  /\ Menghitung(req'[s]) => req'[s].salin.kode <= terakhir'
               /\ req'[s].pc \in {"terima", "lepas"} => req'[s].kode <= terakhir'
    <3>1. CASE s = r
      BY <1>1, <1>2, <1>3, <3>1 DEF Jejak, Lanjut, Diterbitkan, Menghitung
    <3>2. CASE s # r
      BY <1>1, <1>2, <1>3, <3>2 DEF Jejak, Diterbitkan, Menghitung
    <3>3. QED
      BY <3>1, <3>2
  <2>3. QED
    BY <2>1, <2>2 DEF Diterbitkan, Menghitung
<1>5. ASSUME ~terganggu' PROVE SalahTercatat' /\ DiterimaHabis'
  <2>1. ~terganggu /\ SalahTercatat /\ DiterimaHabis /\ Utuh(r)
    BY <1>1, <1>5 DEF Jejak, Tercatat
  <2>2. \A k \in Kode : k \in Nat /\ (k > terakhir' => k > terakhir)
    BY <1>2, Angka
  <2>3. UNCHANGED salah
    BY <1>1 DEF Jejak
  <2>4. SalahTercatat'
    <3>1. \A k \in Kode : salah'[k] <= OtpMaxAttempts /\ (k > terakhir' => salah'[k] = 0)
      BY <2>1, <2>2, <2>3 DEF SalahTercatat
    <3>2. ASSUME NEW s \in Permintaan
          PROVE  /\ req'[s].pc = "ttl" => salah'[req'[s].salin.kode] <= req'[s].salin.attempts + 1
                 /\ req'[s].pc = "simpan" => salah'[req'[s].salin.kode] <= req'[s].salin.attempts
      <4>1. CASE s = r
        BY <1>1, <2>1, <2>3, <4>1 DEF Jejak, Lanjut, SalahTercatat
      <4>2. CASE s # r
        BY <1>1, <2>1, <2>3, <4>2 DEF Jejak, SalahTercatat
      <4>3. QED
        BY <4>1, <4>2
    <3>3. ASSUME entri'.ttl > 0
          PROVE  \/ salah'[entri'.kode] <= entri'.attempts
                 \/ \E s \in Permintaan : Menghitung(req'[s])
      <4>1. CASE req[r].pc = "simpan"
        BY <2>1, <2>3, <4>1 DEF Utuh, SalahTercatat
      <4>2. CASE req[r].pc # "simpan" /\ UNCHANGED entri
        <5>1. CASE salah[entri.kode] <= entri.attempts
          BY <2>3, <4>2, <5>1
        <5>2. CASE \E s \in Permintaan : Menghitung(req[s])
          <6>1. PICK s \in Permintaan : Menghitung(req[s])
            BY <5>2
          <6>2. Menghitung(req'[s])
            BY <1>1, <2>1, <4>2, <6>1 DEF Jejak, Utuh, Menghitung
          <6>3. QED
            BY <6>2
        <5>3. QED
          BY <2>1, <3>3, <4>2, <5>1, <5>2 DEF SalahTercatat
      <4>3. CASE terakhir' = terakhir + 1 /\ terakhir' \in Kode /\ entri'.kode = terakhir'
                 /\ entri'.attempts = 0
        <5>1. salah[terakhir'] = 0
          BY <1>2, <2>1, <4>3 DEF SalahTercatat
        <5>2. QED
          BY <2>3, <4>3, <5>1
      <4>4. QED
        BY <1>1, <3>3, <4>1, <4>2, <4>3 DEF Jejak, JejakEntri
    <3>4. QED
      BY <3>1, <3>2, <3>3 DEF SalahTercatat, Menghitung
  <2>5. CASE UNCHANGED diterima
    <3>1. \A k \in Kode : diterima'[k] <= 1 /\ (k > terakhir' => diterima'[k] = 0)
      BY <2>1, <2>2, <2>5 DEF DiterimaHabis
    <3>2. entri'.ttl > 0 => diterima'[entri'.kode] = 0
      <4>1. terakhir' \in Kode /\ terakhir' = terakhir + 1 => diterima[terakhir'] = 0
        BY <1>2, <2>1 DEF DiterimaHabis
      <4>2. QED
        BY <1>1, <2>1, <2>5, <4>1 DEF Jejak, JejakEntri, DiterimaHabis, Menghitung
    <3>3. ASSUME NEW s \in Permintaan
          PROVE  /\ Menghitung(req'[s]) => diterima'[req'[s].salin.kode] = 0
                 /\ req'[s].pc \in {"terima", "lepas"} => diterima'[req'[s].kode] = 0
                 /\ req'[s].pc = "lepas" /\ entri'.ttl > 0 => entri'.kode # req'[s].kode
      <4>1. CASE s = r
        BY <1>1, <2>1, <2>5, <4>1 DEF Jejak, Lanjut, Utuh, DiterimaHabis, Menghitung
      <4>2. CASE s # r
        <5>1. req'[s] = req[s]
          BY <1>1, <4>2 DEF Jejak
        <5>2. req[s].pc = "lepas" => req[s].kode <= terakhir /\ req[r].pc # "simpan"
          BY <1>3, <4>2 DEF Diterbitkan, SatuVerifikasi, Memeriksa
        <5>3. req[s].pc = "lepas" /\ entri'.ttl > 0 => entri'.kode # req[s].kode
          <6>1. req[s].pc = "lepas" => req[s].kode # terakhir + 1
            BY <1>2, <5>2
          <6>2. QED
            BY <1>1, <2>1, <5>2, <6>1 DEF Jejak, JejakEntri, DiterimaHabis
        <5>4. QED
          BY <2>1, <2>5, <5>1, <5>3 DEF DiterimaHabis
      <4>3. QED
        BY <4>1, <4>2
    <3>4. QED
      BY <2>4, <3>1, <3>2, <3>3 DEF DiterimaHabis, Menghitung
  <2>6. CASE Menerima(r)
    <3> DEFINE c == req[r].kode
    <3>1. c \in Kode /\ c <= terakhir /\ diterima[c] = 0 /\ (entri.ttl > 0 => entri.kode # c)
      BY <1>2, <1>3, <2>1, <2>6 DEF Menerima, SalinanSah, Diterbitkan, DiterimaHabis
    <3>2. diterima'[c] = 1 /\ \A k \in Kode : k # c => diterima'[k] = diterima[k]
      BY <2>6, <3>1 DEF Menerima, IInv, TypeOK, Naik
    <3>3. \A s \in Permintaan : req'[s].pc \notin Memeriksa
      BY <1>1, <2>6 DEF Jejak, Menerima, SatuVerifikasi, Memeriksa
    <3>4. UNCHANGED <<entri, terakhir>> /\ (entri.ttl > 0 => entri.kode \in Kode)
      BY <2>6 DEF Menerima, IInv, EntriSah
    <3> HIDE DEF c
    <3>5. \A k \in Kode : diterima'[k] <= 1 /\ (k > terakhir => diterima'[k] = 0)
      <4>1. \A k \in Kode : k > terakhir => k # c
        BY <1>2, <2>2, <3>1
      <4>2. QED
        BY <2>1, <3>2, <4>1 DEF DiterimaHabis
    <3>6. entri.ttl > 0 => diterima'[entri.kode] = 0
      BY <2>1, <3>1, <3>2, <3>4 DEF DiterimaHabis
    <3>7. QED
      BY <2>4, <3>3, <3>4, <3>5, <3>6 DEF DiterimaHabis, Menghitung, Memeriksa
  <2>7. QED
    BY <1>1, <2>5, <2>6 DEF Jejak
<1>6. QED
  BY <1>4, <1>5 DEF Tercatat

\* A request that reads the entry finds all wrong answers counted, since no other one
\* is verifying.
LEMMA VerifyTercatat ==
  ASSUME IInv, Tercatat, SatuVerifikasi', NEW r \in Permintaan, NEW kode \in 0..terakhir,
         Verify(r, kode)
  PROVE  Tercatat'
<1>1. /\ req[r].pc = "bebas" /\ req'[r].pc \in {"maks", "ttl", "terima"}
      /\ req'[r].salin = entri /\ (req'[r].pc = "terima" => req'[r].kode = entri.kode)
      /\ req'[r].pc = "ttl" => entri.attempts < OtpMaxAttempts
      /\ \A s \in Permintaan : s # r => req'[s] = req[s]
      /\ entri.ttl > 0 /\ entri.kode \in Kode
      /\ UNCHANGED <<entri, cooldown, terakhir, usia, diterima, terganggu>>
      /\ salah' = IF req'[r].pc = "ttl"
                    THEN [salah EXCEPT ![entri.kode] = Naik(@, OtpMaxAttempts + 1)] ELSE salah
  BY VerifyJejak
<1>2. \A s \in Permintaan : /\ req[s].pc \notin Memeriksa
                            /\ s # r => req'[s].pc \notin Memeriksa
  BY <1>1 DEF SatuVerifikasi, Memeriksa
<1>3. Diterbitkan'
  <2>1. entri.kode <= terakhir
    BY <1>1 DEF Tercatat, Diterbitkan
  <2>2. QED
    BY <1>1, <1>2, <2>1 DEF Diterbitkan, Menghitung, Memeriksa
<1>4. ASSUME ~terganggu' PROVE SalahTercatat' /\ DiterimaHabis'
  <2>1. SalahTercatat /\ DiterimaHabis /\ entri.kode <= terakhir
    BY <1>1, <1>4 DEF Tercatat, Diterbitkan
  <2>2. salah[entri.kode] <= entri.attempts /\ salah[entri.kode] \in Nat
    BY <1>1, <1>2, <2>1, Angka DEF SalahTercatat, Menghitung, Memeriksa
  <2>3. req'[r].pc = "ttl" =>
          /\ salah'[entri.kode] <= entri.attempts + 1 /\ salah'[entri.kode] <= OtpMaxAttempts
          /\ \A k \in Kode : k # entri.kode => salah'[k] = salah[k]
    <3>1. Naik(salah[entri.kode], OtpMaxAttempts + 1) <= salah[entri.kode] + 1
      BY <2>2, Angka DEF Naik
    <3>2. Naik(salah[entri.kode], OtpMaxAttempts + 1) \in Nat
      BY <2>2, Angka DEF Naik
    <3>3. req'[r].pc = "ttl" =>
            /\ salah'[entri.kode] = Naik(salah[entri.kode], OtpMaxAttempts + 1)
            /\ \A k \in Kode : k # entri.kode => salah'[k] = salah[k]
      BY <1>1 DEF IInv, TypeOK
    <3>4. QED
      BY <1>1, <2>2, <3>1, <3>2, <3>3, Angka
  <2>4. \A k \in Kode : salah'[k] <= OtpMaxAttempts /\ (k > terakhir => salah'[k] = 0)
    <3>1. \A k \in Kode : k > terakhir => k # entri.kode
      BY <1>1, <2>1, Angka
    <3>2. QED
      BY <1>1, <2>1, <2>3, <3>1 DEF SalahTercatat
  <2>5. SalahTercatat'
    <3>1. salah'[entri.kode] <= entri.attempts \/ Menghitung(req'[r])
      BY <1>1, <2>2 DEF Menghitung
    <3>2. \A s \in Permintaan :
            /\ req'[s].pc = "ttl" => salah'[req'[s].salin.kode] <= req'[s].salin.attempts + 1
            /\ req'[s].pc # "simpan"
      BY <1>1, <1>2, <2>3 DEF Memeriksa
    <3>3. QED
      BY <1>1, <2>4, <3>1, <3>2 DEF SalahTercatat, Menghitung
  <2>6. DiterimaHabis'
    BY <1>1, <1>2, <2>1 DEF DiterimaHabis, Menghitung, Memeriksa
  <2>7. QED
    BY <2>5, <2>6
<1>5. QED
  BY <1>3, <1>4 DEF Tercatat

LEMMA TercatatNext ==
  ASSUME IInv, Tercatat, SatuVerifikasi, SatuVerifikasi', [Next]_vars
  PROVE  Tercatat'
<1>1. CASE UNCHANGED vars
  BY <1>1 DEF vars, Tercatat, Diterbitkan, SalahTercatat, DiterimaHabis, Menghitung
<1>2. CASE Tick
  <2>1. Diterbitkan'
    BY <1>2, TickJejak DEF Tercatat, Diterbitkan, Menghitung
  <2>2. ASSUME ~terganggu' PROVE SalahTercatat' /\ DiterimaHabis'
    <3>1. SalahTercatat /\ DiterimaHabis
      BY <1>2, <2>2, TickJejak DEF Tercatat
    <3>2. SalahTercatat'
      BY <1>2, <3>1, TickJejak DEF SalahTercatat, Menghitung
    <3>3. DiterimaHabis'
      BY <1>2, <3>1, TickJejak DEF DiterimaHabis, Menghitung
    <3>4. QED
      BY <3>2, <3>3
  <2>3. QED
    BY <2>1, <2>2 DEF Tercatat
<1>3. ASSUME NEW r \in Permintaan, Generate(r) PROVE Tercatat'
  <2>1. /\ req[r].pc = "bebas" /\ req'[r].pc = "buat"
        /\ \A s \in Permintaan : s # r => req'[s] = req[s]
        /\ UNCHANGED <<entri, terakhir, salah, diterima, terganggu>>
    BY <1>3, GenerateJejak
  <2>2. Diterbitkan'
    BY <2>1 DEF Tercatat, Diterbitkan, Menghitung
  <2>3. ASSUME ~terganggu' PROVE SalahTercatat' /\ DiterimaHabis'
    <3>1. SalahTercatat /\ DiterimaHabis
      BY <2>1, <2>3 DEF Tercatat
    <3>2. (\E s \in Permintaan : Menghitung(req[s])) => \E s \in Permintaan : Menghitung(req'[s])
      BY <2>1 DEF Menghitung
    <3>3. SalahTercatat'
      BY <2>1, <3>1, <3>2 DEF SalahTercatat, Menghitung
    <3>4. DiterimaHabis'
      BY <2>1, <3>1 DEF DiterimaHabis, Menghitung
    <3>5. QED
      BY <3>3, <3>4
  <2>4. QED
    BY <2>2, <2>3 DEF Tercatat
<1>4. ASSUME NEW r \in Permintaan, NEW k \in 0..terakhir, Verify(r, k) PROVE Tercatat'
  BY <1>4, VerifyTercatat
<1>5. ASSUME NEW r \in Permintaan, Langkah(r) PROVE Tercatat'
  BY <1>5, LangkahTercatat
<1>6. QED
  BY <1>1, <1>2, <1>3, <1>4, <1>5 DEF Next

LEMMA TercatatInit == ASSUME Init PROVE Tercatat
<1>1. entri.ttl = 0 /\ \A r \in Permintaan : req[r].pc = "bebas"
  BY PcMulai DEF Init, TidakAda
<1>2. \A k \in Kode : salah[k] = 0 /\ diterima[k] = 0
  BY DEF Init
<1>3. Diterbitkan
  BY <1>1 DEF Diterbitkan, Menghitung
<1>4. SalahTercatat /\ DiterimaHabis
  BY <1>1, <1>2, KonstantaAssumption DEF SalahTercatat, DiterimaHabis, Menghitung
<1>5. QED
  BY <1>3, <1>4 DEF Tercatat

THEOREM TercatatSelalu == Spec /\ []SatuVerifikasi => []Tercatat
<1>1. Init => Tercatat
  BY TercatatInit
<1>2. IInv /\ Tercatat /\ SatuVerifikasi /\ SatuVerifikasi' /\ [Next]_vars => Tercatat'
  BY TercatatNext
<1>3. QED
  BY <1>1, <1>2, Selalu, PTL DEF Spec

\* README.md:393: as long as verifications do not overlap and Redis answers, no code
\* is compared with more wrong answers than allowed, whatever the limits are and
\* however answers, expiry and new codes, also overlapping ones, alternate.
THEOREM Percobaan == Spec /\ []SatuVerifikasi => []MaksPercobaan
<1>1. Tercatat => MaksPercobaan
  BY DEF Tercatat, SalahTercatat, MaksPercobaan
<1>2. QED
  BY <1>1, TercatatSelalu, PTL

\* otp.go:90: as long as verifications do not overlap and Redis answers, a code is
\* accepted at most once.
THEOREM Sekali == Spec /\ []SatuVerifikasi => []SekaliPakai
<1>1. Tercatat => SekaliPakai
  BY DEF Tercatat, DiterimaHabis, SekaliPakai
<1>2. QED
  BY <1>1, TercatatSelalu, PTL

----------------------------------------------------------------------------
(* The cooldown, as long as nothing overlaps the generation of a code.     *)

LEMMA LangkahJeda ==
  ASSUME IInv, Terbaru, JedaBerjalan, PembuatSendiri, NEW r \in Permintaan, Jejak(r), ~terganggu'
  PROVE  JedaBerjalan'
<1>1. Utuh(r) /\ UNCHANGED usia /\ \A s \in Permintaan : s # r => req'[s] = req[s]
  BY DEF Jejak
<1>2. CASE terakhir' # terakhir
  <2>1. req'[r].pc = "jeda" /\ req[r].pc = "buat"
    BY <1>1, <1>2 DEF Utuh, Jejak, JejakEntri
  <2>2. ASSUME NEW s \in Permintaan PROVE req'[s].pc # "buat"
    BY <1>1, <2>1 DEF PembuatSendiri, Membuat
  <2>3. QED
    BY <2>1, <2>2 DEF JedaBerjalan
<1>3. CASE UNCHANGED terakhir
  <2> SUFFICES ASSUME terakhir > 0
               PROVE  JedaBerjalan'
    BY <1>3 DEF JedaBerjalan
  <2>1. terakhir \in Kode /\ usia[terakhir] \in Nat /\ cooldown \in Nat /\ OtpResendCooldown \in Nat
    BY Angka
  <2>2. /\ diterima[terakhir] > 0 => diterima'[terakhir] > 0
        /\ Menerima(r) => diterima'[terakhir] > 0
    <3>1. diterima[terakhir] \in 0..2 /\ Naik(diterima[terakhir], 2) > 0
      BY <2>1, Angka DEF Naik
    <3>2. Menerima(r) => req[r].kode = terakhir
      BY DEF Menerima, Terbaru
    <3>3. Menerima(r) => diterima'[terakhir] = Naik(diterima[terakhir], 2)
      BY <2>1, <3>2 DEF Menerima, IInv, TypeOK
    <3>4. QED
      BY <3>1, <3>3 DEF Jejak
  <2>3. ASSUME \A s \in Permintaan : req'[s].pc # "jeda"
        PROVE  usia'[terakhir] + cooldown' >= OtpResendCooldown \/ diterima'[terakhir] > 0
    <3>1. CASE cooldown' = OtpResendCooldown
      BY <1>1, <2>1, <3>1
    <3>2. CASE req[r].pc # "jeda" /\ cooldown' = cooldown
      <4>1. \A s \in Permintaan : req[s].pc # "jeda"
        BY <1>1, <2>3, <3>2
      <4>2. QED
        BY <1>1, <2>2, <3>2, <4>1 DEF JedaBerjalan
    <3>3. QED
      BY <1>1, <2>2, <3>1, <3>2 DEF Utuh
  <2>4. ASSUME NEW s \in Permintaan, req'[s].pc = "buat" PROVE Lewat'
    <3>1. s # r /\ req[s].pc = "buat"
      BY <1>1, <2>4 DEF Utuh
    <3>2. Lewat
      BY <3>1 DEF JedaBerjalan
    <3>3. QED
      BY <1>1, <1>3, <2>2, <3>2 DEF Lewat
  <2>5. QED
    BY <1>3, <2>3, <2>4 DEF JedaBerjalan
<1>4. QED
  BY <1>2, <1>3

\* A request that finds no cooldown key comes after the cooldown, since no request is
\* about to store the key.
LEMMA GenerateJeda ==
  ASSUME IInv, JedaBerjalan, PembuatSendiri', NEW r \in Permintaan, Generate(r)
  PROVE  JedaBerjalan'
<1>1. /\ req[r].pc = "bebas" /\ req'[r].pc = "buat"
      /\ \A s \in Permintaan : s # r => req'[s] = req[s]
      /\ UNCHANGED <<cooldown, terakhir, usia, diterima>> /\ cooldown = 0
  BY GenerateJejak
<1>2. \A s \in Permintaan : req[s].pc = "bebas"
  BY <1>1 DEF PembuatSendiri, Membuat
<1>3. ASSUME terakhir > 0
      PROVE  Lewat /\ (usia[terakhir] + cooldown >= OtpResendCooldown \/ diterima[terakhir] > 0)
  <2>1. usia[terakhir] + cooldown >= OtpResendCooldown \/ diterima[terakhir] > 0
    BY <1>2, <1>3 DEF JedaBerjalan
  <2>2. usia[terakhir] \in Nat
    BY <1>3, Angka
  <2>3. Lewat
    BY <1>1, <2>1, <2>2 DEF Lewat
  <2>4. QED
    BY <2>1, <2>3
<1>4. QED
  BY <1>1, <1>3 DEF JedaBerjalan, Lewat

\* A unit of time: what the cooldown key loses, the code gains in age.
LEMMA TickJeda == ASSUME IInv, JedaBerjalan, Tick PROVE JedaBerjalan'
<1>1. UNCHANGED <<terakhir, diterima, req>>
  BY TickJejak
<1>2. ASSUME terakhir > 0
      PROVE  /\ usia'[terakhir] = Naik(usia[terakhir], OtpResendCooldown)
             /\ usia[terakhir] \in 0..OtpResendCooldown
  BY <1>2, Angka DEF Tick, IInv, TypeOK
<1>3. cooldown' = IF cooldown = 0 THEN 0 ELSE cooldown - 1
  BY DEF Tick
<1>4. ASSUME terakhir > 0, usia[terakhir] >= OtpResendCooldown
      PROVE  usia'[terakhir] >= OtpResendCooldown
  BY <1>2, <1>4, Angka DEF Naik
<1>5. ASSUME terakhir > 0, usia[terakhir] + cooldown >= OtpResendCooldown
      PROVE  usia'[terakhir] + cooldown' >= OtpResendCooldown
  BY <1>2, <1>3, <1>5, Angka DEF Naik
<1>6. QED
  BY <1>1, <1>4, <1>5 DEF JedaBerjalan, Lewat

LEMMA BerjedaNext ==
  ASSUME IInv, Berjeda, PembuatSendiri, PembuatSendiri', [Next]_vars
  PROVE  Berjeda'
<1>1. TakBersilang
  BY DEF PembuatSendiri, TakBersilang, Membuat, Memeriksa
<1>2. Terbaru /\ Terbaru'
  BY <1>1, TerbaruNext DEF Berjeda
<1>3. ASSUME ~terganggu' PROVE JedaBerjalan'
  <2>1. CASE UNCHANGED vars
    BY <1>3, <2>1 DEF vars, Berjeda, JedaBerjalan, Lewat
  <2>2. CASE Tick
    BY <1>3, <2>2, TickJejak, TickJeda DEF Berjeda
  <2>3. ASSUME NEW r \in Permintaan, Generate(r) PROVE JedaBerjalan'
    BY <1>3, <2>3, GenerateJejak, GenerateJeda DEF Berjeda
  <2>4. ASSUME NEW r \in Permintaan, NEW k \in 0..terakhir, Verify(r, k) PROVE JedaBerjalan'
    <3>1. /\ req[r].pc = "bebas" /\ req'[r].pc \in {"maks", "ttl", "terima"}
          /\ \A s \in Permintaan : s # r => req'[s] = req[s]
          /\ UNCHANGED <<cooldown, terakhir, usia, diterima, terganggu>>
      BY <2>4, VerifyJejak
    <3>2. JedaBerjalan
      BY <1>3, <3>1 DEF Berjeda
    <3>3. (\A s \in Permintaan : req'[s].pc # "jeda") => \A s \in Permintaan : req[s].pc # "jeda"
      BY <3>1
    <3>4. QED
      BY <3>1, <3>2, <3>3 DEF JedaBerjalan, Lewat
  <2>5. ASSUME NEW r \in Permintaan, Langkah(r) PROVE JedaBerjalan'
    <3>1. Jejak(r)
      BY <2>5, LangkahJejak
    <3>2. JedaBerjalan
      BY <1>3, <3>1 DEF Jejak, Berjeda
    <3>3. QED
      BY <1>2, <1>3, <3>1, <3>2, LangkahJeda
  <2>6. QED
    BY <2>1, <2>2, <2>3, <2>4, <2>5 DEF Next
<1>4. QED
  BY <1>2, <1>3 DEF Berjeda

\* Only a request that found no cooldown generates a code.
LEMMA SetelahJeda ==
  ASSUME IInv, Berjeda, [Next]_vars
  PROVE  [terakhir' # terakhir /\ terakhir > 0 /\ ~terganggu =>
            usia[terakhir] >= OtpResendCooldown \/ diterima[terakhir] > 0]_vars
<1> SUFFICES ASSUME terakhir' # terakhir, terakhir > 0, ~terganggu PROVE Lewat
  BY DEF Lewat
<1>1. PICK r \in Permintaan : Langkah(r)
  BY DEF vars, Next, Tick, Generate, Verify
<1>2. req[r].pc = "buat"
  BY <1>1, LangkahJejak DEF Jejak, JejakEntri
<1>3. QED
  BY <1>2 DEF Berjeda, JedaBerjalan

\* README.md:394: as long as nothing overlaps the generation of a code and Redis
\* answers, the next code comes at least a cooldown after the last one, unless that
\* was accepted.
THEOREM Jeda == Spec /\ []PembuatSendiri => JedaKirimUlang
<1>1. Init => Berjeda
  <2>1. Init => JedaBerjalan
    BY DEF Init, JedaBerjalan
  <2>2. QED
    BY <2>1, TerbaruInit DEF Berjeda
<1>2. IInv /\ Berjeda /\ PembuatSendiri /\ PembuatSendiri' /\ [Next]_vars => Berjeda'
  BY BerjedaNext
<1>3. IInv /\ Berjeda /\ [Next]_vars =>
        [terakhir' # terakhir /\ terakhir > 0 /\ ~terganggu =>
           usia[terakhir] >= OtpResendCooldown \/ diterima[terakhir] > 0]_vars
  BY SetelahJeda
<1>4. QED
  BY <1>1, <1>2, <1>3, Selalu, PTL DEF Spec, JedaKirimUlang
============================================================================
