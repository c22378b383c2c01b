----------------------------- MODULE RateLimit -----------------------------
(***************************************************************************)
(* RateLimitMiddleware.Limit of internal/middleware/rate_limit.go, for one *)
(* rule and one client address (the keys of two never meet).  INCR creates *)
(* the counter without expiry and the request that reads 1 gives it one    *)
(* with a second command.                                                  *)
(*                                                                         *)
(* lolos and terganggu are not in the program: they record, for the        *)
(* properties, how many requests were let through in each of the last      *)
(* Window units of time, and whether a command failed or a request was cut *)
(* off.                                                                    *)
(***************************************************************************)
EXTENDS Naturals, FiniteSets

CONSTANTS
  Permintaan,  \* requests of the client in progress at the same time
  Limit,       \* rule.Limit
  Window,      \* rule.Window
  Gangguan     \* whether Redis calls may fail

ASSUME AturanAssumption ==
  Limit \in Nat \ {0} /\ Window \in Nat \ {0} /\ Gangguan \in BOOLEAN

VARIABLES
  hitung,     \* the counter, 0 when the key does not exist
  ttl,        \* its remaining time, 0 when it does not exist
  lolos,      \* requests let through 0, 1, ... Window - 1 units of time ago
  req,        \* what a request that has to set the expiry read from INCR, or 0
  terganggu

vars == <<hitung, ttl, lolos, req, terganggu>>

\* A key without expiry.
Selamanya == Window + 1

\* Counting stops where no comparison tells the values apart any more.
Naik(n, batas) == IF n < batas THEN n + 1 ELSE n

Lolos == [0..Window - 1 -> 0..2 * Limit + 1]

TypeOK ==
  /\ hitung \in 0..Limit + 1
  /\ ttl \in 0..Selamanya
  /\ lolos \in Lolos
  /\ req \in [Permintaan -> 0..Limit + 1]
  /\ terganggu \in BOOLEAN

Init ==
  /\ hitung = 0
  /\ ttl = 0
  /\ lolos = [a \in 0..Window - 1 |-> 0]
  /\ req = [r \in Permintaan |-> 0]
  /\ terganggu = FALSE

\* Mutant: the request after the last is let through too.
Jawab_Lebih(n) ==
  lolos' = IF n > Limit + 1 THEN lolos
           ELSE [lolos EXCEPT ![0] = Naik(@, 2 * Limit + 1)]

\* The answer to a request that read n from INCR.
Jawab(n) ==
  lolos' = IF n > Limit THEN lolos
           ELSE [lolos EXCEPT ![0] = Naik(@, 2 * Limit + 1)]

\* Mutants: every request sets the expiry anew; none does.
Pertama_Semua(n) == TRUE

Pertama_TidakAda(n) == FALSE

\* The request that read n has to set the expiry.
Pertama(n) == n = 1

\* INCR itself.
Hitung ==
  /\ hitung' = Naik(hitung, Limit + 1)
  /\ ttl' = IF hitung = 0 THEN Selamanya ELSE ttl

Incr(r) ==
  /\ req[r] = 0
  /\ Hitung
  /\ IF Pertama(hitung') THEN req' = [req EXCEPT ![r] = hitung'] /\ UNCHANGED lolos
                         ELSE Jawab(hitung') /\ UNCHANGED req
  /\ UNCHANGED terganggu

\* The expiry a request sets.
Masa == Window

\* EXPIRE, then the answer.  It does nothing to a key that does not exist.
Expire(r) ==
  /\ req[r] > 0
  /\ ttl' = IF hitung = 0 THEN 0 ELSE Masa
  /\ Jawab(req[r])
  /\ req' = [req EXCEPT ![r] = 0]
  /\ UNCHANGED <<hitung, terganggu>>

\* An INCR that fails lets the request through, whether or not the counter was
\* raised; the error of EXPIRE is dropped; and a request may stop at any point.
Gagal(r) ==
  /\ Gangguan
  /\ Jawab(req[r]) \/ UNCHANGED lolos
  /\ \/ UNCHANGED <<hitung, ttl>>
     \/ req[r] = 0 /\ Hitung
  /\ req' = [req EXCEPT ![r] = 0]
  /\ terganggu' = TRUE

\* A unit of time passes.
Tick ==
  /\ lolos' = [a \in 0..Window - 1 |-> IF a = 0 THEN 0 ELSE lolos[a - 1]]
  /\ ttl' = IF ttl \in {0, Selamanya} THEN ttl ELSE ttl - 1
  /\ hitung' = IF ttl = 1 THEN 0 ELSE hitung
  /\ UNCHANGED <<req, terganggu>>

Next == Tick \/ \E r \in Permintaan : Incr(r) \/ Expire(r) \/ Gagal(r)

\* Time passes, and a goroutine that has set out to call EXPIRE gets to run.
Spec ==
  /\ Init /\ [][Next]_vars
  /\ WF_vars(Tick)
  /\ \A r \in Permintaan : WF_vars(Expire(r))

----------------------------------------------------------------------------
\* The requests let through less than k units of time ago, numbered within each.
Diloloskan(k) ==
  {p \in (0..Window - 1) \X (1..2 * Limit + 1) : p[1] < k /\ p[2] <= lolos[p[1]]}

Jumlah == Cardinality(Diloloskan(Window))

\* In any period as long as the window at most twice the limit is let through
\* (the end of one counter and the beginning of the next), however requests
\* overlap and however late the expiry is set, as long as no command fails.
PalingBanyakDuaKali == ~terganggu => Jumlah <= 2 * Limit

\* A counter has an expiry or a request is about to give it one, so the client
\* is not shut out for good (rate_limit.go:58), as long as no command fails.
KunciBerumur == hitung > 0 /\ ttl = Selamanya => terganggu \/ \E r \in Permintaan : req[r] > 0

\* README.md "Rate Limit": a client that is refused is let in again after a
\* window, however often it tries meanwhile, as long as no command fails.
DibukaLagi == (hitung > Limit) ~> (hitung = 0 \/ terganggu)
============================================================================
