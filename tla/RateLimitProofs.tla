-------------------------- MODULE RateLimitProofs --------------------------
(***************************************************************************)
(* Theorems about RateLimit, for every limit, window and number of         *)
(* requests.  That at most twice the limit passes within a window needs to *)
(* know how much passed since the expiry of the counter was set: IInv      *)
(* counts it as a set of requests, each with its age and a number.         *)
(***************************************************************************)
EXTENDS RateLimit, FiniteSetTheorems, TLAPS

LEMMA TypeNaik ==
  ASSUME NEW batas \in Nat, NEW n \in 0..batas
  PROVE  Naik(n, batas) \in 0..batas
  BY SMT DEF Naik

LEMMA TypeJawab ==
  ASSUME TypeOK, NEW n, Jawab(n)
  PROVE  lolos' \in Lolos
<1>1. lolos \in Lolos /\ 0 \in 0..Window - 1
  BY AturanAssumption DEF TypeOK
<1>2. 2 * Limit + 1 \in Nat /\ lolos[0] \in 0..2 * Limit + 1
  BY <1>1, AturanAssumption DEF Lolos
<1>3. Naik(lolos[0], 2 * Limit + 1) \in 0..2 * Limit + 1
  BY <1>2, TypeNaik
<1>4. CASE n > Limit
  BY <1>1, <1>4 DEF Jawab
<1>5. CASE ~(n > Limit)
  BY <1>1, <1>3, <1>5 DEF Jawab, Lolos
<1>6. QED
  BY <1>4, <1>5

LEMMA TypeHitung ==
  ASSUME TypeOK, Hitung
  PROVE  hitung' \in 0..Limit + 1 /\ ttl' \in 0..Selamanya
<1>1. Limit + 1 \in Nat /\ hitung \in 0..Limit + 1
  BY AturanAssumption DEF TypeOK
<1>2. hitung' \in 0..Limit + 1
  BY <1>1, TypeNaik DEF Hitung
<1>3. Selamanya \in 0..Selamanya
  BY AturanAssumption DEF Selamanya
<1>4. QED
  BY <1>2, <1>3 DEF Hitung, TypeOK

LEMMA TypeNext ==
  ASSUME TypeOK, [Next]_vars
  PROVE  TypeOK'
<1> USE AturanAssumption
<1>1. CASE Tick
  <2>1. lolos' \in Lolos
    BY <1>1 DEF Tick, TypeOK, Lolos
  <2>2. hitung' \in 0..Limit + 1 /\ ttl' \in 0..Selamanya
    BY <1>1 DEF Tick, TypeOK, Selamanya
  <2>3. QED
    BY <1>1, <2>1, <2>2 DEF Tick, TypeOK
<1>2. ASSUME NEW r \in Permintaan, Incr(r)
      PROVE  TypeOK'
  <2>1. hitung' \in 0..Limit + 1 /\ ttl' \in 0..Selamanya
    BY <1>2, TypeHitung DEF Incr
  <2>2. req' \in [Permintaan -> 0..Limit + 1]
    BY <1>2, <2>1 DEF Incr, TypeOK
  <2>3. lolos' \in Lolos
    BY <1>2, TypeJawab DEF Incr, TypeOK
  <2>4. QED
    BY <1>2, <2>1, <2>2, <2>3 DEF Incr, TypeOK
<1>3. ASSUME NEW r \in Permintaan, Expire(r)
      PROVE  TypeOK'
  <2>1. lolos' \in Lolos
    BY <1>3, TypeJawab DEF Expire
  <2>2. ttl' \in 0..Selamanya
    BY <1>3 DEF Expire, Selamanya, Masa
  <2>3. req' \in [Permintaan -> 0..Limit + 1]
    BY <1>3 DEF Expire, TypeOK
  <2>4. QED
    BY <1>3, <2>1, <2>2, <2>3 DEF Expire, TypeOK
<1>4. ASSUME NEW r \in Permintaan, Gagal(r)
      PROVE  TypeOK'
  <2>1. lolos' \in Lolos
    BY <1>4, TypeJawab DEF Gagal, TypeOK
  <2>2. hitung' \in 0..Limit + 1 /\ ttl' \in 0..Selamanya
    BY <1>4, TypeHitung DEF Gagal, TypeOK
  <2>3. req' \in [Permintaan -> 0..Limit + 1]
    BY <1>4 DEF Gagal, TypeOK
  <2>4. QED
    BY <1>4, <2>1, <2>2, <2>3 DEF Gagal, TypeOK
<1>5. CASE UNCHANGED vars
  BY <1>5 DEF vars, TypeOK
<1>6. QED
  BY <1>1, <1>2, <1>3, <1>4, <1>5 DEF Next

----------------------------------------------------------------------------
LEMMA TypeInit == Init => TypeOK
<1> SUFFICES ASSUME Init PROVE TypeOK
  OBVIOUS
<1>1. 0 \in 0..Limit + 1 /\ 0 \in 0..2 * Limit + 1 /\ 0 \in 0..Selamanya
  BY AturanAssumption DEF Selamanya
<1>2. lolos \in Lolos
  BY <1>1 DEF Init, Lolos
<1>3. req \in [Permintaan -> 0..Limit + 1]
  BY <1>1 DEF Init
<1>4. QED
  BY <1>1, <1>2, <1>3 DEF Init, TypeOK

\* The counter, its expiry and the record of the last window keep their types.
THEOREM TypeCorrect == Spec => []TypeOK
<1>1. QED
  BY TypeInit, TypeNext, PTL DEF Spec

LEMMA KunciNext ==
  ASSUME TypeOK, KunciBerumur, [Next]_vars
  PROVE  KunciBerumur'
<1> USE AturanAssumption
<1> SUFFICES ASSUME hitung' > 0, ttl' = Selamanya', ~terganggu'
             PROVE  \E r \in Permintaan : req'[r] > 0
  BY DEF KunciBerumur
<1> USE DEF Selamanya
<1>1. CASE Tick
  <2>1. hitung > 0 /\ ttl = Selamanya
    BY <1>1 DEF Tick, TypeOK
  <2>2. QED
    BY <1>1, <2>1 DEF Tick, KunciBerumur
<1>2. ASSUME NEW r \in Permintaan, Incr(r)
      PROVE  \E q \in Permintaan : req'[q] > 0
  <2>1. CASE hitung = 0
    <3>1. hitung' = 1
      BY <1>2, <2>1 DEF Incr, Hitung, Naik
    <3>2. req'[r] = 1
      BY <1>2, <3>1 DEF Incr, Pertama, TypeOK
    <3>3. QED
      BY <3>2
  <2>2. CASE hitung # 0
    <3>1. hitung > 0 /\ ttl = Selamanya /\ ~terganggu
      BY <1>2, <2>2 DEF Incr, Hitung, TypeOK
    <3>2. PICK q \in Permintaan : req[q] > 0
      BY <3>1 DEF KunciBerumur
    <3>3. q # r
      BY <1>2, <3>2 DEF Incr, TypeOK
    <3>4. req'[q] = req[q]
      BY <1>2, <3>3 DEF Incr, TypeOK
    <3>5. QED
      BY <3>2, <3>4
  <2>3. QED
    BY <2>1, <2>2
<1>3. ASSUME NEW r \in Permintaan, Expire(r)
      PROVE  FALSE
  BY <1>3 DEF Expire, Masa
<1>4. ASSUME NEW r \in Permintaan, Gagal(r)
      PROVE  FALSE
  BY <1>4 DEF Gagal
<1>5. CASE UNCHANGED vars
  BY <1>5 DEF vars, KunciBerumur
<1>6. QED
  BY <1>1, <1>2, <1>3, <1>4, <1>5 DEF Next

\* The client is not shut out for good as long as no command fails: a counter
\* has an expiry, or a request is about to give it one (rate_limit.go:52-60).
THEOREM KunciBerumurBenar == Spec => []KunciBerumur
<1>1. Init => TypeOK /\ KunciBerumur
  BY TypeInit DEF Init, KunciBerumur
<1>2. TypeOK /\ KunciBerumur /\ [Next]_vars => (TypeOK /\ KunciBerumur)'
  BY TypeNext, KunciNext
<1>3. QED
  BY <1>1, <1>2, PTL DEF Spec


----------------------------------------------------------------------------
(* How many requests are let through.  The counter bounds what its own     *)
(* lifetime lets through, and a counter outlives everything its            *)
(* predecessor let through, except what the predecessor's own limit admits. *)

\* Of the current counter's limit, the part that requests have taken.
Dipakai == IF hitung < Limit THEN hitung ELSE Limit

\* The request that is to set the expiry has not been answered yet.
Tertunda == IF ttl = Selamanya THEN 1 ELSE 0

\* Without failures: only the request that created a counter sets its expiry,
\* and the requests since then are within the counter's limit.
Utuh ==
  /\ \A r \in Permintaan : req[r] > 0 => req[r] = 1 /\ ttl = Selamanya
  /\ \A r, q \in Permintaan : req[r] > 0 /\ req[q] > 0 => r = q
  /\ Jumlah + Tertunda <= Limit + Dipakai
  /\ ttl \in 1..Window => Cardinality(Diloloskan(Window - ttl)) <= Dipakai

IInv ==
  /\ TypeOK
  /\ hitung = 0 <=> ttl = 0
  /\ terganggu \/ Utuh

LEMMA Terbatas ==
  ASSUME NEW D, D \subseteq (0..Window - 1) \X (1..2 * Limit + 1)
  PROVE  IsFiniteSet(D) /\ Cardinality(D) \in Nat
<1>1. Window - 1 \in Int /\ 2 * Limit + 1 \in Int
  BY AturanAssumption
<1>2. IsFiniteSet(0..Window - 1) /\ IsFiniteSet(1..2 * Limit + 1)
  BY <1>1, FS_Interval
<1>3. IsFiniteSet((0..Window - 1) \X (1..2 * Limit + 1))
  BY <1>2, FS_Product
<1>4. QED
  BY <1>3, FS_Subset, FS_CardinalityType

LEMMA Terhingga ==
  ASSUME NEW k
  PROVE  IsFiniteSet(Diloloskan(k)) /\ Cardinality(Diloloskan(k)) \in Nat
<1>1. Diloloskan(k) \subseteq (0..Window - 1) \X (1..2 * Limit + 1)
  BY DEF Diloloskan
<1>2. QED
  BY <1>1, Terbatas

LEMMA LebihLama ==
  ASSUME NEW j \in Int, NEW k \in Int, j <= k
  PROVE  Cardinality(Diloloskan(j)) <= Cardinality(Diloloskan(k))
<1>1. Diloloskan(j) \subseteq Diloloskan(k)
  BY DEF Diloloskan
<1>2. QED
  BY <1>1, Terhingga, FS_Subset

LEMMA BelumAda == Cardinality(Diloloskan(0)) = 0
<1>1. Diloloskan(0) = {}
  BY DEF Diloloskan
<1>2. QED
  BY <1>1, FS_EmptySet

\* An answer lets at most one more request through.
LEMMA JawabJumlah ==
  ASSUME TypeOK, NEW n, Jawab(n), NEW k
  PROVE  Cardinality(Diloloskan(k))' <= Cardinality(Diloloskan(k)) + 1
<1> DEFINE baru == <<0, lolos[0] + 1>>
<1>1. lolos \in Lolos /\ 0 \in 0..Window - 1 /\ lolos[0] \in Nat
  BY AturanAssumption DEF TypeOK, Lolos
<1>2. lolos' \in Lolos
  BY TypeJawab
<1>3. \A a \in 0..Window - 1 : /\ lolos[a] \in Nat /\ lolos'[a] \in Nat
                               /\ a # 0 => lolos'[a] = lolos[a]
                               /\ lolos'[0] <= lolos[0] + 1
  BY <1>1, <1>2, AturanAssumption DEF Jawab, Lolos, Naik
<1>4. Diloloskan(k)' \subseteq Diloloskan(k) \cup {baru}
  <2> SUFFICES ASSUME NEW p \in Diloloskan(k)', p \notin Diloloskan(k)
               PROVE  p = baru
    OBVIOUS
  <2>1. /\ p \in (0..Window - 1) \X (1..2 * Limit + 1) /\ p = <<p[1], p[2]>>
        /\ p[2] <= lolos'[p[1]] /\ ~(p[2] <= lolos[p[1]])
    BY DEF Diloloskan
  <2>2. p[1] \in 0..Window - 1 /\ p[2] \in Nat
    BY <2>1, AturanAssumption
  <2>3. p[1] = 0
    BY <1>3, <2>1, <2>2
  <2>4. p[2] = lolos[0] + 1
    BY <1>1, <1>3, <2>1, <2>2, <2>3
  <2>5. QED
    BY <2>1, <2>3, <2>4
<1>5. Cardinality(Diloloskan(k) \cup {baru}) <= Cardinality(Diloloskan(k)) + 1
      /\ IsFiniteSet(Diloloskan(k) \cup {baru})
  <2> HIDE DEF baru
  <2>1. PICK S : S = Diloloskan(k) /\ IsFiniteSet(S) /\ Cardinality(S) \in Nat
    BY Terhingga
  <2>2. /\ IsFiniteSet(S \cup {baru})
        /\ Cardinality(S \cup {baru}) = IF baru \in S THEN Cardinality(S) ELSE Cardinality(S) + 1
    BY <2>1, FS_AddElement
  <2>3. QED
    BY <2>1, <2>2
<1>6. PICK D : D = Diloloskan(k)'
  OBVIOUS
<1>7. Cardinality(D) <= Cardinality(Diloloskan(k) \cup {baru}) /\ IsFiniteSet(D)
  BY <1>4, <1>5, <1>6, FS_Subset
<1>8. Cardinality(D) \in Nat /\ Cardinality(Diloloskan(k) \cup {baru}) \in Nat
  BY <1>5, <1>7, FS_CardinalityType
<1>9. Cardinality(D) = Cardinality(Diloloskan(k))'
  BY <1>6
<1>10. QED
  BY <1>5, <1>7, <1>8, <1>9, Terhingga

\* When time passes every request is a unit of time older and none is added.
LEMMA TickJumlah ==
  ASSUME TypeOK, Tick, NEW k \in Int
  PROVE  Cardinality(Diloloskan(k))' <= Cardinality(Diloloskan(k - 1))
<1> DEFINE S == Diloloskan(k - 1)
           Tua(p) == <<p[1] + 1, p[2]>>
<1>1. lolos' = [a \in 0..Window - 1 |-> IF a = 0 THEN 0 ELSE lolos[a - 1]]
  BY DEF Tick
<1>2. Diloloskan(k)' \subseteq {Tua(p) : p \in S}
  <2> SUFFICES ASSUME NEW p \in Diloloskan(k)'
               PROVE  \E o \in S : p = Tua(o)
    OBVIOUS
  <2>1. /\ p \in (0..Window - 1) \X (1..2 * Limit + 1) /\ p = <<p[1], p[2]>>
        /\ p[2] <= lolos'[p[1]] /\ p[1] < k
    BY DEF Diloloskan
  <2>2. p[1] \in 0..Window - 1 /\ p[2] \in 1..2 * Limit + 1
    BY <2>1
  <2>3. p[1] # 0 /\ p[2] <= lolos[p[1] - 1]
    BY <1>1, <2>1, <2>2, AturanAssumption
  <2>4. PICK o : o = <<p[1] - 1, p[2]>>
    OBVIOUS
  <2>5. o \in (0..Window - 1) \X (1..2 * Limit + 1) /\ o[1] = p[1] - 1 /\ o[2] = p[2]
    BY <2>2, <2>3, <2>4, AturanAssumption
  <2>6. o \in S
    BY <2>1, <2>2, <2>3, <2>5, AturanAssumption DEF Diloloskan
  <2>7. p = Tua(o)
    BY <2>1, <2>2, <2>5, AturanAssumption
  <2>8. QED
    BY <2>6, <2>7
<1>3. PICK U : U = {Tua(p) : p \in S}
  OBVIOUS
<1>4. PICK f : f = [p \in S |-> Tua(p)]
  OBVIOUS
<1>5. f \in Surjection(S, U)
  BY <1>3, <1>4 DEF Surjection
<1>6. IsFiniteSet(S) /\ Cardinality(S) \in Nat
  BY Terhingga
<1>7. IsFiniteSet(U) /\ Cardinality(U) <= Cardinality(S)
  BY <1>5, <1>6, FS_Surjection
<1>8. PICK D : D = Diloloskan(k)'
  OBVIOUS
<1>9. IsFiniteSet(D) /\ Cardinality(D) <= Cardinality(U)
  BY <1>2, <1>3, <1>7, <1>8, FS_Subset
<1>10. Cardinality(D) \in Nat /\ Cardinality(U) \in Nat
  BY <1>7, <1>9, FS_CardinalityType
<1>11. Cardinality(D) = Cardinality(Diloloskan(k))'
  BY <1>8
<1>12. QED
  BY <1>6, <1>7, <1>9, <1>10, <1>11


LEMMA JumlahNat == Jumlah \in Nat /\ \A k : Cardinality(Diloloskan(k)) \in Nat
  BY Terhingga DEF Jumlah

LEMMA BilanganAksen ==
  ASSUME NEW k
  PROVE  Cardinality(Diloloskan(k))' \in Nat
<1>1. PICK D : D = Diloloskan(k)'
  OBVIOUS
<1>2. D \subseteq (0..Window - 1) \X (1..2 * Limit + 1)
  BY <1>1 DEF Diloloskan
<1>3. Cardinality(D) \in Nat
  BY <1>2, Terbatas
<1>4. QED
  BY <1>1, <1>3

LEMMA IncrUtuh ==
  ASSUME IInv, ~terganggu, NEW r \in Permintaan, Incr(r)
  PROVE  Utuh'
<1> USE AturanAssumption DEF Selamanya
<1>0. Utuh /\ hitung \in 0..Limit + 1 /\ ttl \in 0..Window + 1 /\ (hitung = 0 <=> ttl = 0)
  BY DEF IInv, TypeOK
<1>1. CASE hitung = 0
  <2>1. hitung' = 1 /\ ttl' = Selamanya /\ req' = [req EXCEPT ![r] = 1] /\ UNCHANGED lolos
    BY <1>1 DEF Incr, Hitung, Naik, Pertama
  <2>2. \A q \in Permintaan : req[q] \in 0..Limit + 1 /\ ~(req[q] > 0)
    BY <1>0, <1>1 DEF Utuh, IInv, TypeOK
  <2>3. \A q \in Permintaan : req'[q] = IF q = r THEN 1 ELSE 0
    BY <2>1, <2>2 DEF IInv, TypeOK
  <2>4. Jumlah' = Jumlah
    BY <2>1 DEF Jumlah, Diloloskan
  <2>5. Jumlah <= Limit /\ Dipakai' = 1
    BY <1>0, <1>1, <2>1, JumlahNat DEF Utuh, Dipakai, Tertunda
  <2>6. Jumlah' + Tertunda' <= Limit + Dipakai'
    <3>1. Tertunda' = 1
      BY <2>1 DEF Tertunda
    <3>2. QED
      BY <2>4, <2>5, <3>1, JumlahNat
  <2>7. ttl' \notin 1..Window
    BY <2>1
  <2>8. QED
    BY <2>1, <2>3, <2>6, <2>7 DEF Utuh
<1>2. CASE hitung # 0
  <2>1. /\ hitung' \in 2..Limit + 1 /\ ttl' = ttl /\ UNCHANGED req
        /\ Jawab(hitung') /\ hitung' = IF hitung < Limit + 1 THEN hitung + 1 ELSE hitung
    BY <1>0, <1>2 DEF Incr, Hitung, Naik, Pertama
  <2>2. ASSUME NEW k
        PROVE  Cardinality(Diloloskan(k))' - Cardinality(Diloloskan(k)) <= Dipakai' - Dipakai
    <3>1. CASE hitung' > Limit
      <4>1. UNCHANGED lolos
        BY <2>1, <3>1 DEF Jawab
      <4>2. Diloloskan(k)' = Diloloskan(k)
        BY <4>1 DEF Diloloskan
      <4>3. Dipakai' >= Dipakai /\ Dipakai' \in Nat /\ Dipakai \in Nat
        BY <1>0, <2>1, <3>1 DEF Dipakai
      <4>4. Cardinality(Diloloskan(k))' = Cardinality(Diloloskan(k))
        BY <4>2
      <4>5. QED
        BY <4>3, <4>4, JumlahNat
    <3>2. CASE ~(hitung' > Limit)
      <4>1. Dipakai' = Dipakai + 1 /\ Dipakai \in Nat
        BY <1>0, <2>1, <3>2 DEF Dipakai
      <4>2. Cardinality(Diloloskan(k))' <= Cardinality(Diloloskan(k)) + 1
        BY <2>1, JawabJumlah DEF IInv
      <4>3. QED
        BY <4>1, <4>2, JumlahNat, BilanganAksen
    <3>3. QED
      BY <3>1, <3>2
  <2>3. PICK k : k = Window - ttl
    OBVIOUS
  <2>4. Dipakai \in Nat /\ Dipakai' \in Nat
    BY <1>0, <2>1 DEF Dipakai
  <2>5. Jumlah' - Jumlah <= Dipakai' - Dipakai /\ Jumlah' \in Nat
    BY <2>2, BilanganAksen DEF Jumlah
  <2>6. Jumlah' + Tertunda' <= Limit + Dipakai'
    <3>1. Tertunda' = Tertunda /\ Tertunda \in {0, 1}
      BY <2>1 DEF Tertunda
    <3>2. Jumlah + Tertunda <= Limit + Dipakai
      BY <1>0 DEF Utuh
    <3>3. Jumlah \in Nat /\ Jumlah' \in Nat
      BY <2>5, JumlahNat
    <3>4. PICK x, y, d, e, t : /\ x = Jumlah /\ y = Jumlah' /\ d = Dipakai /\ e = Dipakai'
                               /\ t = Tertunda
      OBVIOUS
    <3>5. x + t <= Limit + d /\ y - x <= e - d
      BY <2>5, <3>2, <3>4
    <3>6. x \in Nat /\ y \in Nat /\ d \in Nat /\ e \in Nat /\ t \in {0, 1}
      BY <2>4, <3>1, <3>3, <3>4
    <3>7. y + t <= Limit + e
      BY <3>5, <3>6
    <3>8. QED
      BY <3>1, <3>4, <3>7
  <2>7. ttl \in 1..Window => Cardinality(Diloloskan(k)) <= Dipakai
    BY <1>0, <2>3 DEF Utuh
  <2>8. ttl \in 1..Window => Cardinality(Diloloskan(k))' <= Dipakai'
    BY <2>2, <2>4, <2>7, JumlahNat, BilanganAksen
  <2>9. Diloloskan(k)' = Diloloskan(Window - ttl)'
    BY <2>1, <2>3
  <2>10. QED
    BY <1>0, <2>1, <2>6, <2>8, <2>9 DEF Utuh
<1>3. QED
  BY <1>1, <1>2


LEMMA ExpireUtuh ==
  ASSUME IInv, ~terganggu, NEW r \in Permintaan, Expire(r)
  PROVE  Utuh'
<1> USE AturanAssumption DEF Selamanya
<1>0. Utuh /\ hitung \in 0..Limit + 1 /\ ttl \in 0..Window + 1 /\ (hitung = 0 <=> ttl = 0)
      /\ req \in [Permintaan -> 0..Limit + 1]
  BY DEF IInv, TypeOK
<1>1. req[r] = 1 /\ ttl = Selamanya /\ hitung # 0
  BY <1>0 DEF Utuh, Expire
<1>2. ttl' = Window /\ hitung' = hitung /\ Jawab(1) /\ req' = [req EXCEPT ![r] = 0]
  BY <1>1 DEF Expire, Masa
<1>3. \A q \in Permintaan : ~(req'[q] > 0)
  BY <1>0, <1>1, <1>2 DEF Utuh
<1>4. Jumlah' <= Jumlah + 1 /\ Jumlah' \in Nat
  BY <1>2, JawabJumlah, BilanganAksen DEF Jumlah, IInv
<1>5. Dipakai' = Dipakai /\ Dipakai \in Nat
  BY <1>0, <1>2 DEF Dipakai
<1>6. Jumlah' + Tertunda' <= Limit + Dipakai'
  <2>1. Tertunda = 1 /\ Tertunda' = 0
    BY <1>1, <1>2 DEF Tertunda
  <2>2. Jumlah + Tertunda <= Limit + Dipakai
    BY <1>0 DEF Utuh
  <2>3. Jumlah \in Nat /\ Jumlah' \in Nat
    BY <1>4, JumlahNat
  <2>4. PICK x, y, d : x = Jumlah /\ y = Jumlah' /\ d = Dipakai
    OBVIOUS
  <2>5. x \in Nat /\ y \in Nat /\ d \in Nat /\ y <= x + 1 /\ x + 1 <= Limit + d
    BY <1>4, <1>5, <2>1, <2>2, <2>3, <2>4
  <2>6. y + 0 <= Limit + d
    BY <2>5
  <2>7. QED
    BY <1>5, <2>1, <2>4, <2>6
<1>7. Cardinality(Diloloskan(Window - ttl))' <= Dipakai'
  <2>1. Diloloskan(Window - ttl)' = {}
    BY <1>2 DEF Diloloskan
  <2>2. Cardinality(Diloloskan(Window - ttl))' = 0
    BY <2>1, FS_EmptySet
  <2>3. QED
    BY <1>5, <2>2
<1>8. QED
  BY <1>3, <1>6, <1>7 DEF Utuh

LEMMA TickUtuh ==
  ASSUME IInv, ~terganggu, Tick
  PROVE  Utuh'
<1> USE AturanAssumption DEF Selamanya
<1>0. Utuh /\ hitung \in 0..Limit + 1 /\ ttl \in 0..Window + 1 /\ (hitung = 0 <=> ttl = 0)
      /\ TypeOK
  BY DEF IInv, TypeOK
<1>1. /\ req' = req
      /\ ttl' = IF ttl \in {0, Window + 1} THEN ttl ELSE ttl - 1
      /\ hitung' = IF ttl = 1 THEN 0 ELSE hitung
  BY DEF Tick
<1>2. \A k \in Int : Cardinality(Diloloskan(k))' <= Cardinality(Diloloskan(k - 1))
  BY <1>0, TickJumlah
<1>3. PICK x, y, z : x = Jumlah /\ y = Jumlah' /\ z = Cardinality(Diloloskan(Window - 1))
  OBVIOUS
<1>4. x \in Nat /\ y \in Nat /\ z \in Nat /\ y <= z /\ z <= x
  BY <1>2, <1>3, JumlahNat, BilanganAksen, LebihLama DEF Jumlah
<1>5. Dipakai \in Nat /\ Dipakai <= Limit
  BY <1>0 DEF Dipakai
<1>6. x + Tertunda <= Limit + Dipakai /\ Tertunda \in {0, 1}
  BY <1>0, <1>3 DEF Utuh, Tertunda
<1>7. CASE ttl = 1
  <2>1. z <= Dipakai
    BY <1>0, <1>3, <1>7 DEF Utuh
  <2>2. Dipakai' = 0 /\ ttl' = 0 /\ Tertunda' = 0
    BY <1>1, <1>7 DEF Dipakai, Tertunda
  <2>3. y + Tertunda' <= Limit + Dipakai'
    BY <1>4, <1>5, <2>1, <2>2
  <2>4. ttl' \notin 1..Window
    BY <2>2
  <2>5. \A q \in Permintaan : ~(req[q] > 0)
    BY <1>0, <1>7 DEF Utuh
  <2>6. QED
    BY <1>1, <1>3, <2>3, <2>4, <2>5 DEF Utuh
<1>8. CASE ttl # 1
  <2>1. Dipakai' = Dipakai
    BY <1>1, <1>8 DEF Dipakai
  <2>2. Tertunda' = Tertunda /\ (ttl' = Window + 1 <=> ttl = Window + 1)
    BY <1>0, <1>1, <1>8 DEF Tertunda
  <2>3. y + Tertunda' <= Limit + Dipakai'
    BY <1>4, <1>5, <1>6, <2>1, <2>2
  <2>4. ttl' \in 1..Window => Cardinality(Diloloskan(Window - ttl))' <= Dipakai'
    <3> SUFFICES ASSUME ttl' \in 1..Window
                 PROVE  Cardinality(Diloloskan(Window - ttl))' <= Dipakai'
      OBVIOUS
    <3>1. ttl \in 1..Window /\ ttl' = ttl - 1
      BY <1>0, <1>1, <1>8
    <3>2. PICK k : k = Window - ttl'
      OBVIOUS
    <3>3. k \in Int /\ k - 1 = Window - ttl
      BY <3>1, <3>2
    <3>4. Cardinality(Diloloskan(k - 1)) <= Dipakai
      BY <1>0, <3>1, <3>3 DEF Utuh
    <3>5. Cardinality(Diloloskan(k))' <= Dipakai
      BY <1>2, <1>5, <3>3, <3>4, JumlahNat, BilanganAksen
    <3>6. Diloloskan(k)' = Diloloskan(Window - ttl)'
      BY <3>2
    <3>7. QED
      BY <2>1, <3>5, <3>6
  <2>5. QED
    BY <1>0, <1>1, <1>3, <2>2, <2>3, <2>4 DEF Utuh
<1>9. QED
  BY <1>7, <1>8

LEMMA InvInit == Init => IInv
<1> SUFFICES ASSUME Init PROVE IInv
  OBVIOUS
<1>1. Jumlah = 0
  <2>1. Diloloskan(Window) = {}
    BY AturanAssumption DEF Diloloskan, Init
  <2>2. QED
    BY <2>1, FS_EmptySet DEF Jumlah
<1>2. ttl = 0 /\ hitung = 0 /\ \A r \in Permintaan : req[r] = 0
  BY DEF Init
<1>3. Utuh
  BY <1>1, <1>2, AturanAssumption DEF Utuh, Dipakai, Tertunda, Selamanya
<1>4. QED
  BY <1>2, <1>3, TypeInit DEF IInv

LEMMA InvNext == IInv /\ [Next]_vars => IInv'
<1> SUFFICES ASSUME IInv, [Next]_vars PROVE IInv'
  OBVIOUS
<1> USE AturanAssumption DEF Selamanya
<1>1. TypeOK'
  BY TypeNext DEF IInv
<1>2. (hitung = 0 <=> ttl = 0)'
  <2>1. hitung \in 0..Limit + 1 /\ ttl \in 0..Window + 1 /\ (hitung = 0 <=> ttl = 0)
    BY DEF IInv, TypeOK
  <2>2. CASE Tick
    BY <2>1, <2>2 DEF Tick
  <2>3. ASSUME Hitung PROVE (hitung = 0 <=> ttl = 0)'
    BY <2>1, <2>3 DEF Hitung, Naik
  <2>4. ASSUME NEW r \in Permintaan, Incr(r) PROVE (hitung = 0 <=> ttl = 0)'
    BY <2>3, <2>4 DEF Incr
  <2>5. ASSUME NEW r \in Permintaan, Expire(r) PROVE (hitung = 0 <=> ttl = 0)'
    BY <2>1, <2>5 DEF Expire, Masa
  <2>6. ASSUME NEW r \in Permintaan, Gagal(r) PROVE (hitung = 0 <=> ttl = 0)'
    BY <2>1, <2>3, <2>6 DEF Gagal
  <2>7. CASE UNCHANGED vars
    BY <2>1, <2>7 DEF vars
  <2>8. QED
    BY <2>2, <2>4, <2>5, <2>6, <2>7 DEF Next
<1>3. (terganggu \/ Utuh)'
  <2>1. CASE terganggu
    BY <2>1 DEF Next, Tick, Incr, Expire, Gagal, vars
  <2>2. CASE ~terganggu
    <3>1. CASE Tick
      BY <2>2, <3>1, TickUtuh
    <3>2. ASSUME NEW r \in Permintaan, Incr(r) \/ Expire(r) PROVE Utuh'
      BY <2>2, <3>2, IncrUtuh, ExpireUtuh
    <3>3. ASSUME NEW r \in Permintaan, Gagal(r) PROVE terganggu'
      BY <3>3 DEF Gagal
    <3>4. ASSUME UNCHANGED vars PROVE Utuh'
      <4>1. Utuh
        BY <2>2 DEF IInv
      <4>2. UNCHANGED <<hitung, ttl, lolos, req>>
        BY <3>4 DEF vars
      <4>3. Jumlah' = Jumlah /\ Dipakai' = Dipakai /\ Tertunda' = Tertunda
            /\ Cardinality(Diloloskan(Window - ttl))' = Cardinality(Diloloskan(Window - ttl))
        BY <4>2 DEF Jumlah, Dipakai, Diloloskan, Tertunda
      <4>4. QED
        BY <4>1, <4>2, <4>3 DEF Utuh
    <3>5. QED
      BY <3>1, <3>2, <3>3, <3>4 DEF Next
  <2>3. QED
    BY <2>1, <2>2
<1>4. QED
  BY <1>1, <1>2, <1>3 DEF IInv

\* In any period as long as the window at most twice the limit is let through as
\* long as no command fails, however requests overlap and however late the
\* request that created a counter sets its expiry (rate_limit.go:52-60).
THEOREM PalingBanyakDuaKaliBenar == Spec => []PalingBanyakDuaKali
<1>1. IInv => PalingBanyakDuaKali
  <2> SUFFICES ASSUME Utuh, TypeOK PROVE Jumlah <= 2 * Limit
    BY DEF IInv, PalingBanyakDuaKali
  <2>1. Dipakai \in Nat /\ Dipakai <= Limit
    BY AturanAssumption DEF Dipakai, TypeOK
  <2>2. Jumlah + Tertunda <= Limit + Dipakai /\ Tertunda \in {0, 1}
    BY DEF Utuh, Tertunda
  <2>3. QED
    BY <2>1, <2>2, JumlahNat, AturanAssumption
<1>2. QED
  BY <1>1, InvInit, InvNext, PTL DEF Spec
=============================================================================
