-------------------------------- MODULE Otp --------------------------------
(***************************************************************************)
(* OTPService of internal/service/otp.go, for one e-mail address (the keys *)
(* of two addresses never meet).  Redis holds two keys with a time to      *)
(* live: the OTP entry, rewritten as a whole by every wrong answer, and    *)
(* the resend cooldown.  A step is one Redis command; the commands of      *)
(* concurrent requests interleave, and time passes between them.           *)
(*                                                                         *)
(* Time is counted in units (a minute, say); what Tick does to a key is    *)
(* what Redis does.  The counters salah, diterima and usia and the flag    *)
(* terganggu are not in the program: they record what happened for the     *)
(* properties.                                                             *)
(***************************************************************************)
EXTENDS Naturals

CONSTANTS
  Permintaan,         \* requests in progress at the same time
  OtpTTL,             \* otpTTL
  OtpMaxAttempts,     \* otpMaxAttempts
  OtpResendCooldown,  \* otpResendCooldown
  MaxKode,            \* bound: codes generated in a behaviour
  Gangguan            \* whether Redis calls may fail

ASSUME KonstantaAssumption ==
  /\ OtpTTL \in Nat \ {0} /\ OtpMaxAttempts \in Nat \ {0}
  /\ OtpResendCooldown \in Nat \ {0} /\ OtpResendCooldown <= OtpTTL
  /\ MaxKode \in Nat /\ Gangguan \in BOOLEAN

VARIABLES
  entri,      \* the OTP key: which code, its attempts, its remaining time
  cooldown,   \* remaining time of the cooldown key, 0 when it does not exist
  terakhir,   \* number of the code generated last, 0 before the first
  usia,       \* time since each code was generated, as far as the cooldown reaches
  salah,      \* wrong answers that were compared with each code
  diterima,   \* times each code was accepted
  terganggu,  \* whether a Redis call has failed or a request was cut off
  req         \* the local state of every request

vars == <<entri, cooldown, terakhir, usia, salah, diterima, terganggu, req>>

Kode == 1..MaxKode

\* A key stored without expiry; a key with ttl 0 does not exist.
Selamanya == OtpTTL + 1

Entri == [kode : 0..MaxKode, attempts : 0..OtpMaxAttempts, ttl : 0..Selamanya]

TidakAda == [kode |-> 0, attempts |-> 0, ttl |-> 0]

\* kode is the code a request answers with or has generated, 0 a wrong answer;
\* salin is the entry it read.
Lokal == [pc : {"bebas", "buat", "jeda", "maks", "ttl", "simpan", "terima", "lepas"},
          kode : 0..MaxKode, salin : Entri]

Bebas == [pc |-> "bebas", kode |-> 0, salin |-> TidakAda]

\* The counters stop where the properties tell them apart no more.
TypeOK ==
  /\ entri \in Entri
  /\ cooldown \in 0..OtpResendCooldown
  /\ terakhir \in 0..MaxKode
  /\ usia \in [Kode -> 0..OtpResendCooldown]
  /\ salah \in [Kode -> 0..OtpMaxAttempts + 1]
  /\ diterima \in [Kode -> 0..2]
  /\ terganggu \in BOOLEAN
  /\ req \in [Permintaan -> Lokal]

Init ==
  /\ entri = TidakAda
  /\ cooldown = 0
  /\ terakhir = 0
  /\ usia = [k \in Kode |-> 0]
  /\ salah = [k \in Kode |-> 0]
  /\ diterima = [k \in Kode |-> 0]
  /\ terganggu = FALSE
  /\ req = [r \in Permintaan |-> Bebas]

Menjadi(r, q) == req' = [req EXCEPT ![r] = q]

Naik(n, batas) == IF n < batas THEN n + 1 ELSE n

----------------------------------------------------------------------------
(* Generate                                                                *)

\* Mutant: the cooldown is not consulted.
Generate_TanpaJeda(r) ==
  /\ req[r] = Bebas
  /\ terakhir < MaxKode
  /\ Menjadi(r, [Bebas EXCEPT !.pc = "buat"])
  /\ UNCHANGED <<entri, cooldown, terakhir, usia, salah, diterima, terganggu>>

\* EXISTS on the cooldown key.
Generate(r) ==
  /\ req[r] = Bebas
  /\ terakhir < MaxKode
  /\ cooldown = 0
  /\ Menjadi(r, [Bebas EXCEPT !.pc = "buat"])
  /\ UNCHANGED <<entri, cooldown, terakhir, usia, salah, diterima, terganggu>>

\* Mutant: the code is stored only when no older one is there (SET NX).
SimpanKode_NX(r) ==
  /\ req[r].pc = "buat"
  /\ terakhir < MaxKode
  /\ terakhir' = terakhir + 1
  /\ entri' = IF entri.ttl > 0 THEN entri
               ELSE [kode |-> terakhir', attempts |-> 0, ttl |-> OtpTTL]
  /\ Menjadi(r, [Bebas EXCEPT !.pc = "jeda"])
  /\ UNCHANGED <<cooldown, usia, salah, diterima, terganggu>>

\* The two SETs of the pipeline, which is no transaction.
SimpanKode(r) ==
  /\ req[r].pc = "buat"
  /\ terakhir < MaxKode
  /\ terakhir' = terakhir + 1
  /\ entri' = [kode |-> terakhir', attempts |-> 0, ttl |-> OtpTTL]
  /\ Menjadi(r, [Bebas EXCEPT !.pc = "jeda"])
  /\ UNCHANGED <<cooldown, usia, salah, diterima, terganggu>>

SimpanJeda(r) ==
  /\ req[r].pc = "jeda"
  /\ cooldown' = OtpResendCooldown
  /\ Menjadi(r, Bebas)
  /\ UNCHANGED <<entri, terakhir, usia, salah, diterima, terganggu>>

----------------------------------------------------------------------------
(* Verify                                                                  *)

\* What Verify does with the entry it read.
Putusan_LebihDari(e, kode) ==   \* Mutant: > for >=
  IF e.attempts > OtpMaxAttempts THEN "maks"
  ELSE IF kode # e.kode THEN "ttl" ELSE "terima"

Putusan(e, kode) ==
  IF e.attempts >= OtpMaxAttempts THEN "maks"
  ELSE IF kode # e.kode THEN "ttl" ELSE "terima"

\* GET, and what is decided on the entry it returned.  An absent key is
\* answered with ErrOTPExpired and changes nothing.
Verify(r, kode) ==
  /\ req[r] = Bebas
  /\ entri.ttl > 0
  /\ LET lanjut == Putusan(entri, kode)
     IN /\ Menjadi(r, [pc |-> lanjut, kode |-> kode, salin |-> entri])
        /\ salah' = IF lanjut = "ttl"
                      THEN [salah EXCEPT ![entri.kode] = Naik(@, OtpMaxAttempts + 1)]
                      ELSE salah
  /\ UNCHANGED <<entri, cooldown, terakhir, usia, diterima, terganggu>>

\* DEL after too many attempts.
HapusMaks(r) ==
  /\ req[r].pc = "maks"
  /\ entri' = TidakAda
  /\ Menjadi(r, Bebas)
  /\ UNCHANGED <<cooldown, terakhir, usia, salah, diterima, terganggu>>

\* TTL answers in whole seconds, so it says 0 when less than half a second is
\* left; it says -2 when the key is gone meanwhile.  Whatever is not positive
\* becomes a full otpTTL.
JawabanTTL == {entri.ttl} \cup (IF entri.ttl = 1 THEN {0} ELSE {})

SisaWaktu_Mentah(ttl) == ttl   \* Mutant: the answer of TTL as it is

SisaWaktu(ttl) == IF ttl = 0 THEN OtpTTL ELSE ttl

\* Mutant: the attempt is not counted.
BacaTTL_TanpaHitung(r) ==
  /\ req[r].pc = "ttl"
  /\ \E ttl \in JawabanTTL :
       Menjadi(r, [req[r] EXCEPT !.pc = "simpan", !.salin.ttl = SisaWaktu(ttl)])
  /\ UNCHANGED <<entri, cooldown, terakhir, usia, salah, diterima, terganggu>>

\* The wrong answer is counted in the copy, which will live as long as sisa.
Dihitung(q, sisa) ==
  [q EXCEPT !.pc = "simpan", !.salin.attempts = @ + 1, !.salin.ttl = sisa]

BacaTTL(r) ==
  /\ req[r].pc = "ttl"
  /\ \E ttl \in JawabanTTL : Menjadi(r, Dihitung(req[r], SisaWaktu(ttl)))
  /\ UNCHANGED <<entri, cooldown, terakhir, usia, salah, diterima, terganggu>>

\* SET of the entry read before, whatever the key holds by now.  A SET with an
\* expiry of 0 would store the key without expiry.
SimpanSalah(r) ==
  /\ req[r].pc = "simpan"
  /\ entri' = [req[r].salin EXCEPT !.ttl = IF @ = 0 THEN Selamanya ELSE @]
  /\ Menjadi(r, Bebas)
  /\ UNCHANGED <<cooldown, terakhir, usia, salah, diterima, terganggu>>

\* Mutant: an accepted code stays.
HapusKode_Tetap(r) ==
  /\ req[r].pc = "terima"
  /\ Menjadi(r, [req[r] EXCEPT !.pc = "lepas"])
  /\ UNCHANGED <<entri, cooldown, terakhir, usia, salah, diterima, terganggu>>

\* Success: DEL of the entry, then DEL of the cooldown, then the answer.
HapusKode(r) ==
  /\ req[r].pc = "terima"
  /\ entri' = TidakAda
  /\ Menjadi(r, [req[r] EXCEPT !.pc = "lepas"])
  /\ UNCHANGED <<cooldown, terakhir, usia, salah, diterima, terganggu>>

HapusJeda(r) ==
  /\ req[r].pc = "lepas"
  /\ cooldown' = 0
  /\ diterima' = [diterima EXCEPT ![req[r].kode] = Naik(@, 2)]
  /\ Menjadi(r, Bebas)
  /\ UNCHANGED <<entri, terakhir, usia, salah, terganggu>>

----------------------------------------------------------------------------
\* A Redis call has no effect.  Only a failing GET or pipeline ends the
\* request: of EXISTS, TTL, SET and DEL the errors are dropped, an EXISTS that
\* failed reads as "no cooldown" and a TTL that failed as 0.  One SET of the
\* pipeline may land without the other.
TanpaEfek(r) ==
  \/ req[r] = Bebas /\ terakhir < MaxKode /\ Menjadi(r, [Bebas EXCEPT !.pc = "buat"])
  \/ req[r].pc = "buat" /\ Menjadi(r, [Bebas EXCEPT !.pc = "jeda"])
  \/ req[r].pc = "ttl" /\ Menjadi(r, Dihitung(req[r], OtpTTL))
  \/ req[r].pc = "terima" /\ Menjadi(r, [req[r] EXCEPT !.pc = "lepas"])

\* A call fails, or the request ends before its next call (for the DEL after too
\* many attempts and the SET after a wrong answer the two are the same).
Gagal(r) ==
  /\ Gangguan
  /\ \/ TanpaEfek(r) /\ UNCHANGED diterima
     \/ req[r] # Bebas /\ Menjadi(r, Bebas) /\ UNCHANGED diterima
     \/ /\ req[r].pc = "lepas"
        /\ Menjadi(r, Bebas)
        /\ diterima' = [diterima EXCEPT ![req[r].kode] = Naik(@, 2)]
  /\ terganggu' = TRUE
  /\ UNCHANGED <<entri, cooldown, terakhir, usia, salah>>

\* A unit of time passes: both keys age, and so do the codes.
Tick ==
  /\ entri' = CASE entri.ttl = Selamanya -> entri
                [] entri.ttl \in {0, 1}  -> TidakAda
                [] OTHER                 -> [entri EXCEPT !.ttl = @ - 1]
  /\ cooldown' = IF cooldown = 0 THEN 0 ELSE cooldown - 1
  /\ usia' = [k \in Kode |-> IF k <= terakhir THEN Naik(usia[k], OtpResendCooldown) ELSE 0]
  /\ UNCHANGED <<terakhir, salah, diterima, terganggu, req>>

Langkah(r) ==
  \/ SimpanKode(r) \/ SimpanJeda(r)
  \/ HapusMaks(r) \/ BacaTTL(r) \/ SimpanSalah(r) \/ HapusKode(r) \/ HapusJeda(r)
  \/ Gagal(r)

Next ==
  \/ \E r \in Permintaan :
       Generate(r) \/ (\E k \in 0..terakhir : Verify(r, k)) \/ Langkah(r)
  \/ Tick

\* Time passes, whatever requests do.
Spec == Init /\ [][Next]_vars /\ WF_vars(Tick)

----------------------------------------------------------------------------
(* What holds for requests that do not overlap.                            *)

\* README.md:393, "Max percobaan OTP | 5x per kode": as long as every Redis call
\* gets through, no more wrong answers than that are compared with a code.
MaksPercobaan == ~terganggu => \A k \in Kode : salah[k] <= OtpMaxAttempts

\* Verify "deletes on success" (otp.go:90): as long as every Redis call gets
\* through, a code is accepted at most once.
SekaliPakai == ~terganggu => \A k \in Kode : diterima[k] <= 1

\* Generating a code replaces the one before it (otp.go:52), whatever fails:
\* only the last one is accepted.
KodeTerbaruSaja ==
  [][\A k \in Kode : diterima'[k] # diterima[k] => k = terakhir]_vars

\* README.md:394, "Cooldown resend | 60 detik": the next code comes at least a
\* cooldown after the last one, unless the last one was accepted or a call failed.
JedaKirimUlang ==
  [][terakhir' # terakhir /\ terakhir > 0 /\ ~terganggu =>
       usia[terakhir] >= OtpResendCooldown \/ diterima[terakhir] > 0]_vars

\* Whatever fails, the entry never becomes a key without expiry, although Verify
\* stores it again with a remaining time that may read as 0 (otp.go:118-122).
SelaluBerbatasWaktu == entri.ttl # Selamanya

\* Every code goes out of force in the end, whatever fails and however often it is
\* answered wrongly: a wrong answer may give it a full life again (otp.go:119), or
\* bring it back after it expired, but each of them counts.
KodeTamat == \A k \in Kode : <>[](entri.kode # k)
============================================================================
