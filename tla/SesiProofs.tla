----------------------------- MODULE SesiProofs -----------------------------
(***************************************************************************)
(* Theorems about Sesi, for every number of requests, tokens and units of  *)
(* time.  TypeOK is not inductive: what a step reads of its token depends  *)
(* on what the request held when it began.                                 *)
(***************************************************************************)
EXTENDS Sesi, TLAPS

\* A request past its check holds the token it was given; an access token about
\* to be put on the blacklist was issued.
PermintaanSah ==
  \A r \in Permintaan :
    /\ req[r].pc \in {"simpan", "cabut", "keluar"} => req[r].rt \in Token
    /\ req[r].pc = "hitamkan" => req[r].at \in Akses \cap Terbit

\* The blacklist key of a token that was put on it lives as long as the token,
\* which is not issued a second time.
KeluarSah == keluar \subseteq Terbit /\ \A a \in keluar : hitam[a] >= sisa[a]

IInv == TypeOK /\ PermintaanSah /\ KeluarSah

----------------------------------------------------------------------------
LEMMA RantaiToken == ASSUME NEW t PROVE Rantai(t) \subseteq Token
  BY DEF Rantai

LEMMA MulaiType ==
  ASSUME IInv, NEW r \in Permintaan, NEW q \in Lokal, Mulai(r, q),
         q.pc \in {"simpan", "cabut", "keluar"} => q.rt \in Token,
         q.pc = "hitamkan" => q.at \in Akses \cap Terbit
  PROVE  IInv'
<1>1. req' = [req EXCEPT ![r] = q] /\ req \in [Permintaan -> Lokal]
  BY DEF Mulai, Menjadi, IInv, TypeOK
<1>2. req' \in [Permintaan -> Lokal]
  BY <1>1
<1>3. tumpang' \subseteq Token
  BY RantaiToken DEF Mulai, IInv, TypeOK
<1>4. TypeOK'
  BY <1>2, <1>3 DEF Mulai, IInv, TypeOK
<1>5. PermintaanSah'
  BY <1>1 DEF Mulai, IInv, PermintaanSah, Terbit
<1>6. KeluarSah'
  BY DEF Mulai, IInv, KeluarSah, Terbit
<1>7. QED
  BY <1>4, <1>5, <1>6 DEF IInv

\* A new row under a key that was not issued.
LEMMA TerbitkanSah ==
  ASSUME IInv, NEW n \in Berikut, NEW rantai \in 0..MaxToken, NEW pendahulu \in 0..MaxToken,
         Terbitkan(n, rantai, pendahulu), UNCHANGED <<hitam, keluar>>
  PROVE  /\ token' \in [Token -> Baris]
         /\ sisa' \in [Akses -> 0..MasaAkses]
         /\ Terbit \subseteq Terbit'
         /\ KeluarSah'
<1>1. n \in Token /\ n \notin Terbit
  BY DEF Berikut
<1>2. [keadaan |-> "berlaku", rantai |-> rantai, pendahulu |-> pendahulu] \in Baris
  BY DEF Baris, Keadaan
<1>3. token' \in [Token -> Baris]
  BY <1>1, <1>2 DEF Terbitkan, IInv, TypeOK
<1>4. sisa' \in [Akses -> 0..MasaAkses]
  BY MasaAssumption DEF Terbitkan, IInv, TypeOK
<1>5. Terbit \subseteq Terbit'
  BY <1>1 DEF Terbitkan, Terbit, IInv, TypeOK
<1>6. ASSUME NEW a \in keluar'
      PROVE  hitam'[a] >= sisa'[a]
  <2>1. a \in keluar /\ a \in Akses /\ a # n
    BY <1>1, <1>6 DEF IInv, TypeOK, KeluarSah
  <2>2. sisa'[a] = sisa[a] /\ hitam'[a] = hitam[a]
    BY <2>1 DEF Terbitkan
  <2>3. QED
    BY <2>1, <2>2 DEF IInv, KeluarSah
<1>7. KeluarSah'
  BY <1>5, <1>6 DEF IInv, KeluarSah
<1>8. QED
  BY <1>3, <1>4, <1>5, <1>7

\* A row that changes its state stays issued.
LEMMA CabutSah ==
  ASSUME IInv, NEW t \in Token, NEW k \in Keadaan \ {"belum"},
         token[t].keadaan # "belum" \/ k = "dicabut",
         token' = [token EXCEPT ![t].keadaan = k]
  PROVE  token' \in [Token -> Baris] /\ Terbit \subseteq Terbit'
<1>1. token' \in [Token -> Baris]
  BY DEF IInv, TypeOK, Baris
<1>2. Terbit \subseteq Terbit'
  BY DEF Terbit, IInv, TypeOK, Baris, Keadaan
<1>3. QED
  BY <1>1, <1>2

\* A request that goes on as q.
LEMMA MenjadiSah ==
  ASSUME IInv, NEW r \in Permintaan, NEW q \in Lokal, Menjadi(r, q), Terbit \subseteq Terbit',
         q.pc \in {"simpan", "cabut", "keluar"} => q.rt \in Token,
         q.pc # "hitamkan"
  PROVE  req' \in [Permintaan -> Lokal] /\ PermintaanSah'
<1>1. req' = [req EXCEPT ![r] = q] /\ req \in [Permintaan -> Lokal]
  BY DEF Menjadi, IInv, TypeOK
<1>2. QED
  BY <1>1 DEF PermintaanSah, IInv

LEMMA TetapSah ==
  ASSUME IInv, UNCHANGED req, Terbit \subseteq Terbit'
  PROVE  req' \in [Permintaan -> Lokal] /\ PermintaanSah'
  BY DEF IInv, TypeOK, PermintaanSah

LEMMA LokalSah ==
  ASSUME IInv, NEW r \in Permintaan
  PROVE  /\ req[r] \in Lokal /\ Bebas \in Lokal
         /\ [req[r] EXCEPT !.pc = "cabut"] \in Lokal
         /\ [req[r] EXCEPT !.pc = "cari"] \in Lokal
         /\ [req[r] EXCEPT !.pc = "keluar"] \in Lokal
<1>1. req[r] \in Lokal
  BY DEF IInv, TypeOK
<1>2. MaxToken \in Nat
  BY MasaAssumption
<1>3. QED
  BY <1>1, <1>2 DEF Lokal, Bebas

----------------------------------------------------------------------------
LEMMA IssueSessionSah ==
  ASSUME IInv, NEW r \in Permintaan, IssueSession(r)
  PROVE  IInv'
<1>1. PICK n \in Berikut : Terbitkan(n, n, 0)
  BY DEF IssueSession
<1>2. n \in 0..MaxToken /\ 0 \in 0..MaxToken
  BY MasaAssumption DEF Berikut, Token
<1>3. UNCHANGED <<hitam, keluar>>
  BY DEF IssueSession, catatan
<1>4. /\ token' \in [Token -> Baris] /\ sisa' \in [Akses -> 0..MasaAkses]
      /\ Terbit \subseteq Terbit' /\ KeluarSah'
  BY <1>1, <1>2, <1>3, TerbitkanSah
<1>5. req' \in [Permintaan -> Lokal] /\ PermintaanSah'
  BY <1>4, TetapSah DEF IssueSession
<1>6. TypeOK'
  BY <1>4, <1>5 DEF IssueSession, catatan, IInv, TypeOK
<1>7. QED
  BY <1>4, <1>5, <1>6 DEF IInv

LEMMA RefreshLogoutSah ==
  ASSUME IInv, NEW r \in Permintaan,
         \/ \E t \in Token : Refresh(r, t)
         \/ \E t \in Terbit \cup {0}, a \in (Terbit \cap Akses) \cup {0} : Logout(r, a, t)
  PROVE  IInv'
<1>1. MaxToken \in Nat /\ Token \subseteq 0..MaxToken /\ 0 \in 0..MaxToken
  BY MasaAssumption DEF Token
<1>2. ASSUME NEW t \in Token, Refresh(r, t)
      PROVE  IInv'
  <2>1. [pc |-> "simpan", rt |-> t, at |-> 0] \in Lokal
    BY <1>1 DEF Lokal
  <2>2. QED
    BY <1>2, <2>1, MulaiType DEF Refresh
<1>3. ASSUME NEW t \in Terbit \cup {0}, NEW a \in (Terbit \cap Akses) \cup {0}, Logout(r, a, t)
      PROVE  IInv'
  <2> DEFINE q == [pc |-> IF AksesSah(a) THEN "hitamkan" ELSE "cari", rt |-> t, at |-> a]
  <2>1. q \in Lokal
    BY <1>1 DEF Lokal, Terbit
  <2>2. q.pc = "hitamkan" => q.at \in Akses \cap Terbit
    <3>1. 0 \notin Akses
      BY MasaAssumption
    <3>2. AksesSah(a) => a \in Akses \cap Terbit
      BY <3>1 DEF AksesSah
    <3>3. QED
      BY <3>2
  <2>3. q.pc \notin {"simpan", "cabut", "keluar"}
    OBVIOUS
  <2>4. Mulai(r, q)
    BY <1>3 DEF Logout
  <2> HIDE DEF q
  <2>5. QED
    BY <2>1, <2>2, <2>3, <2>4, MulaiType
<1>4. QED
  BY <1>2, <1>3

LEMMA SimpanBaruSah ==
  ASSUME IInv, NEW r \in Permintaan, SimpanBaru(r)
  PROVE  IInv'
<1>1. PICK n \in Berikut : Terbitkan(n, token[req[r].rt].rantai, req[r].rt)
  BY DEF SimpanBaru
<1>2. req[r].rt \in Token
  BY DEF SimpanBaru, IInv, PermintaanSah
<1>3. token[req[r].rt].rantai \in 0..MaxToken /\ req[r].rt \in 0..MaxToken
  BY <1>2, LokalSah DEF IInv, TypeOK, Baris, Lokal
<1>4. UNCHANGED <<hitam, keluar>>
  BY DEF SimpanBaru, catatan
<1>5. /\ token' \in [Token -> Baris] /\ sisa' \in [Akses -> 0..MasaAkses]
      /\ Terbit \subseteq Terbit' /\ KeluarSah'
  BY <1>1, <1>3, <1>4, TerbitkanSah
<1>6. req' \in [Permintaan -> Lokal] /\ PermintaanSah'
  <2> DEFINE q == [req[r] EXCEPT !.pc = "cabut"]
  <2>1. q \in Lokal /\ q.pc = "cabut" /\ q.rt \in Token
    BY <1>2, LokalSah DEF Lokal
  <2>2. Menjadi(r, q)
    BY DEF SimpanBaru
  <2> HIDE DEF q
  <2>3. QED
    BY <1>5, <2>1, <2>2, MenjadiSah
<1>7. TypeOK'
  BY <1>5, <1>6 DEF SimpanBaru, catatan, IInv, TypeOK
<1>8. QED
  BY <1>5, <1>6, <1>7 DEF IInv

\* CabutLama and CabutKeluar: a row is revoked and the request is done.
LEMMA CabutBebas ==
  ASSUME IInv, NEW r \in Permintaan, req[r].pc \in {"cabut", "keluar"}, Cabut(req[r].rt),
         Menjadi(r, Bebas), tamat' \subseteq Token, UNCHANGED <<sisa, hitam, keluar, gagal, tumpang>>
  PROVE  IInv'
<1>1. req[r].rt \in Token
  BY DEF IInv, PermintaanSah
<1>2. token' \in [Token -> Baris] /\ Terbit \subseteq Terbit'
  <2>1. "dicabut" \in Keadaan \ {"belum"}
    BY DEF Keadaan
  <2>2. token' = [token EXCEPT ![req[r].rt].keadaan = "dicabut"]
    BY DEF Cabut
  <2>3. QED
    BY <1>1, <2>1, <2>2, CabutSah
<1>3. req' \in [Permintaan -> Lokal] /\ PermintaanSah'
  BY <1>2, LokalSah, MenjadiSah DEF Bebas
<1>4. KeluarSah'
  BY <1>2 DEF IInv, KeluarSah
<1>5. TypeOK'
  BY <1>2, <1>3 DEF IInv, TypeOK
<1>6. QED
  BY <1>3, <1>4, <1>5 DEF IInv

LEMMA HitamkanSah ==
  ASSUME IInv, NEW r \in Permintaan, Hitamkan(r)
  PROVE  IInv'
<1> DEFINE a == req[r].at
           q == [req[r] EXCEPT !.pc = "cari"]
<1>1. a \in Akses \cap Terbit
  BY DEF Hitamkan, IInv, PermintaanSah
<1>2. /\ hitam' = [hitam EXCEPT ![a] = IF sisa[a] = 0 THEN @ ELSE sisa[a]]
      /\ keluar' = keluar \cup {a} /\ Menjadi(r, q)
      /\ UNCHANGED <<token, sisa, tamat, gagal, tumpang>>
  BY DEF Hitamkan, LamaHitam
<1>3. q \in Lokal /\ q.pc = "cari"
  BY LokalSah DEF Lokal
<1> HIDE DEF a, q
<1>4. hitam' \in [Akses -> 0..MasaAkses]
  BY <1>1, <1>2 DEF IInv, TypeOK
<1>5. Terbit' = Terbit
  BY <1>2 DEF Terbit
<1>6. req' \in [Permintaan -> Lokal] /\ PermintaanSah'
  BY <1>2, <1>3, <1>5, MenjadiSah
<1>7. \A b \in keluar' : hitam'[b] >= sisa'[b]
  BY <1>1, <1>2, MasaAssumption DEF IInv, TypeOK, KeluarSah
<1>8. KeluarSah'
  BY <1>1, <1>2, <1>5, <1>7 DEF IInv, KeluarSah
<1>9. TypeOK'
  BY <1>1, <1>2, <1>4, <1>6 DEF IInv, TypeOK
<1>10. QED
  BY <1>6, <1>8, <1>9 DEF IInv

\* CariRefresh and Gagal: the request goes on, or ends, without touching a token.
LEMMA LanjutTanpaTulis ==
  ASSUME IInv, NEW r \in Permintaan, CariRefresh(r) \/ Gagal(r)
  PROVE  IInv'
<1>1. PICK q \in Lokal : /\ Menjadi(r, q) /\ q.pc # "hitamkan"
                         /\ q.pc \in {"simpan", "cabut", "keluar"} => q.rt \in Token
  <2>1. CASE CariRefresh(r) /\ RefreshSah(req[r].rt)
    <3> DEFINE q == [req[r] EXCEPT !.pc = "keluar"]
    <3>1. q \in Lokal /\ q.pc = "keluar" /\ q.rt \in Token
      BY <2>1, LokalSah DEF RefreshSah, Lokal
    <3>2. Menjadi(r, q)
      BY <2>1 DEF CariRefresh
    <3>3. QED
      BY <3>1, <3>2
  <2>2. CASE Gagal(r) /\ req[r].pc = "hitamkan"
    <3> DEFINE q == [req[r] EXCEPT !.pc = "cari"]
    <3>1. q \in Lokal /\ q.pc = "cari"
      BY LokalSah DEF Lokal
    <3>2. Menjadi(r, q)
      BY <2>2 DEF Gagal
    <3>3. QED
      BY <3>1, <3>2
  <2>3. CASE Menjadi(r, Bebas)
    BY <2>3, LokalSah DEF Bebas
  <2>4. QED
    BY <2>1, <2>2, <2>3 DEF CariRefresh, Gagal
<1>2. /\ gagal' \subseteq Token
      /\ UNCHANGED <<token, sisa, hitam, keluar, tamat, tumpang>>
  BY RantaiToken DEF CariRefresh, Gagal, catatan, IInv, TypeOK
<1>3. Terbit' = Terbit
  BY <1>2 DEF Terbit
<1>4. req' \in [Permintaan -> Lokal] /\ PermintaanSah'
  BY <1>1, <1>3, MenjadiSah
<1>5. KeluarSah'
  BY <1>2, <1>3 DEF IInv, KeluarSah
<1>6. TypeOK'
  BY <1>2, <1>4 DEF IInv, TypeOK
<1>7. QED
  BY <1>4, <1>5, <1>6 DEF IInv

LEMMA UsangSah ==
  ASSUME IInv, NEW t \in Token, Usang(t)
  PROVE  IInv'
<1>1. token' \in [Token -> Baris] /\ Terbit \subseteq Terbit'
  BY CabutSah DEF Usang, Keadaan
<1>2. UNCHANGED <<sisa, hitam, keluar, tamat, gagal, tumpang, req>>
  BY DEF Usang, catatan
<1>3. req' \in [Permintaan -> Lokal] /\ PermintaanSah'
  BY <1>1, <1>2, TetapSah
<1>4. KeluarSah'
  BY <1>1, <1>2 DEF IInv, KeluarSah
<1>5. QED
  BY <1>1, <1>2, <1>3, <1>4 DEF IInv, TypeOK

LEMMA TickSah ==
  ASSUME IInv, Tick
  PROVE  IInv'
<1>1. UNCHANGED <<token, keluar, tamat, gagal, tumpang, req>>
  BY DEF Tick, catatan
<1>2. sisa' \in [Akses -> 0..MasaAkses] /\ hitam' \in [Akses -> 0..MasaAkses]
  BY MasaAssumption DEF Tick, IInv, TypeOK
<1>3. Terbit' = Terbit
  BY <1>1 DEF Terbit
<1>4. \A a \in keluar' : hitam'[a] >= sisa'[a]
  BY <1>1, MasaAssumption DEF Tick, IInv, TypeOK, KeluarSah
<1>5. PermintaanSah' /\ KeluarSah'
  BY <1>1, <1>3, <1>4 DEF IInv, PermintaanSah, KeluarSah
<1>6. QED
  BY <1>1, <1>2, <1>5 DEF IInv, TypeOK

LEMMA IInvNext ==
  ASSUME IInv, [Next]_vars
  PROVE  IInv'
<1>1. ASSUME NEW r \in Permintaan, Terima(r)
      PROVE  IInv'
  BY <1>1, IssueSessionSah, RefreshLogoutSah DEF Terima
<1>2. ASSUME NEW r \in Permintaan, Lanjut(r)
      PROVE  IInv'
  <2>1. CASE SimpanBaru(r)
    BY <2>1, SimpanBaruSah
  <2>2. CASE CabutLama(r)
    BY <2>2, CabutBebas DEF CabutLama, catatan, IInv, TypeOK
  <2>3. CASE Hitamkan(r)
    BY <2>3, HitamkanSah
  <2>4. CASE CabutKeluar(r)
    BY <2>4, CabutBebas, RantaiToken DEF CabutKeluar, IInv, TypeOK
  <2>5. CASE CariRefresh(r) \/ Gagal(r)
    BY <2>5, LanjutTanpaTulis
  <2>6. QED
    BY <1>2, <2>1, <2>2, <2>3, <2>4, <2>5 DEF Lanjut
<1>3. ASSUME NEW t \in Token, Usang(t)
      PROVE  IInv'
  BY <1>3, UsangSah
<1>4. CASE Tick
  BY <1>4, TickSah
<1>5. CASE UNCHANGED vars
  BY <1>5 DEF vars, catatan, IInv, TypeOK, PermintaanSah, KeluarSah, Terbit
<1>6. QED
  BY <1>1, <1>2, <1>3, <1>4, <1>5 DEF Next

LEMMA IInvInit == Init => IInv
<1> SUFFICES ASSUME Init PROVE IInv
  OBVIOUS
<1>1. MaxToken \in Nat /\ MasaAkses \in Nat
  BY MasaAssumption
<1>2. token \in [Token -> Baris]
  BY <1>1 DEF Init, Baris, Keadaan
<1>3. req \in [Permintaan -> Lokal] /\ PermintaanSah
  BY <1>1 DEF Init, Lokal, Bebas, PermintaanSah
<1>4. sisa \in [Akses -> 0..MasaAkses] /\ hitam \in [Akses -> 0..MasaAkses]
  BY <1>1 DEF Init
<1>5. KeluarSah
  BY DEF Init, KeluarSah
<1>6. QED
  BY <1>2, <1>3, <1>4, <1>5 DEF Init, IInv, TypeOK

LEMMA IInvBenar == Spec => []IInv
<1>1. QED
  BY IInvInit, IInvNext, PTL DEF Spec

\* The tables, the ages of the tokens and the requests keep their types.
THEOREM TypeCorrect == Spec => []TypeOK
<1>1. IInv => TypeOK
  BY DEF IInv
<1>2. QED
  BY <1>1, IInvBenar, PTL

\* README.md:52, "Blacklist access token": an access token that a logout has put
\* on the blacklist is never accepted again, whatever overlaps, fails or expires.
THEOREM AksesKeluarDitolakBenar == Spec => []AksesKeluarDitolak
<1>1. IInv => AksesKeluarDitolak
  <2> SUFFICES ASSUME IInv, NEW a \in keluar, AksesSah(a) PROVE FALSE
    BY DEF AksesKeluarDitolak
  <2>1. a \in Akses /\ sisa[a] > 0 /\ hitam[a] = 0 /\ hitam[a] >= sisa[a]
    BY DEF AksesSah, IInv, KeluarSah
  <2>2. sisa[a] \in Nat
    BY <2>1, MasaAssumption DEF IInv, TypeOK
  <2>3. QED
    BY <2>1, <2>2
<1>2. QED
  BY <1>1, IInvBenar, PTL


----------------------------------------------------------------------------
(* The chain of a session.                                                 *)

\* Rows refer to rows: a token to the first of its chain and to the one it was
\* issued for, which is of the same chain.
RantaiSah ==
  /\ \A t \in Terbit :
       /\ token[t].rantai \in Terbit /\ token[t].pendahulu \in Terbit \cup {0}
       /\ token[t].pendahulu # 0 => token[token[t].pendahulu].rantai = token[t].rantai
  /\ tamat \subseteq Terbit
  /\ \A r \in Permintaan :
       /\ req[r].rt \in Terbit \cup {0}
       /\ req[r].pc \in {"simpan", "cabut", "keluar"} => req[r].rt # 0

\* Two requests on one chain have overlapped.
Sendirian ==
  \A r, p \in Permintaan :
    /\ r # p /\ req[r].rt \in Terbit /\ req[p].rt \in Terbit
    /\ token[req[r].rt].rantai = token[req[p].rt].rantai
    => token[req[r].rt].rantai \in tumpang

Berlaku(t) == token[t].keadaan = "berlaku"

\* Refresh has issued the next token and is about to revoke t.
Mencabut(t) == \E r \in Permintaan : req[r].pc = "cabut" /\ req[r].rt = t

\* The token another was issued for is about to be revoked, if it still refreshes.
Diganti ==
  \A n \in Terbit :
    /\ token[n].pendahulu # 0 /\ token[n].rantai \notin gagal
    /\ Berlaku(token[n].pendahulu)
    => Mencabut(token[n].pendahulu)

\* The chains nothing happened to that the code does not provide for.
Mulus == Token \ (gagal \cup tumpang)

\* Of two tokens of a chain that refresh one is about to be revoked.
SatuHidup ==
  \A t, u \in Terbit :
    /\ t # u /\ token[t].rantai = token[u].rantai /\ token[t].rantai \in Mulus
    /\ Berlaku(t) /\ Berlaku(u)
    => Mencabut(t) \/ Mencabut(u)

\* A request that is about to issue or to log out holds the last token of its chain.
Terakhir ==
  \A r \in Permintaan :
    req[r].pc \in {"simpan", "keluar"} /\ token[req[r].rt].rantai \in Mulus =>
      /\ req[r].pc = "simpan" =>
           /\ \A n \in Terbit : token[n].pendahulu # req[r].rt
           /\ token[req[r].rt].rantai \notin tamat
      /\ \A u \in Terbit :
           u # req[r].rt /\ token[u].rantai = token[req[r].rt].rantai => ~ Berlaku(u)

Penerus ==
  \A n, m \in Terbit :
    n # m /\ token[n].pendahulu # 0 /\ token[n].rantai \in Mulus =>
      token[n].pendahulu # token[m].pendahulu

Habis == \A t \in Terbit : token[t].rantai \in tamat \cap Mulus => ~ Berlaku(t)

KInv == RantaiSah /\ Sendirian /\ Diganti /\ SatuHidup /\ Terakhir /\ Penerus /\ Habis


\* KInv' from its parts, each with what it speaks of.
LEMMA TerbitAda ==
  /\ Terbit \subseteq Token /\ 0 \notin Terbit /\ 0 \notin Token
BY DEF Terbit, Token

\* The chain of a row is one number.
LEMMA SatuRantai ==
  ASSUME IInv, RantaiSah, NEW t \in Terbit
  PROVE  Rantai(t) = {token[t].rantai} /\ token[t].rantai \in Token
BY TerbitAda DEF RantaiSah, Rantai

\* A step of one request that writes no row and logs nothing out.
LEMMA TanpaTulis ==
  ASSUME IInv, KInv, NEW r \in Permintaan, NEW q, Menjadi(r, q), UNCHANGED <<token, tamat>>,
         gagal \subseteq gagal', tumpang \subseteq tumpang',
         q.rt \in Terbit \cup {0},
         q.pc \in {"simpan", "cabut", "keluar"} => q.rt # 0,
         \A p \in Permintaan \ {r} :
           q.rt \in Terbit /\ req[p].rt \in Terbit /\ token[q.rt].rantai = token[req[p].rt].rantai
             => token[q.rt].rantai \in tumpang',
         req[r].pc = "cabut" => token[req[r].rt].rantai \in gagal',
         q.pc \in {"simpan", "keluar"} /\ token[q.rt].rantai \in Mulus' =>
           /\ q.pc = "simpan" =>
                /\ \A n \in Terbit : token[n].pendahulu # q.rt
                /\ token[q.rt].rantai \notin tamat
           /\ \A u \in Terbit :
                u # q.rt /\ token[u].rantai = token[q.rt].rantai => ~ Berlaku(u)
  PROVE  KInv'
<1>1. req'[r] = q /\ \A p \in Permintaan : p # r => req'[p] = req[p]
  BY DEF Menjadi, IInv, TypeOK
<1>2. Terbit' = Terbit BY DEF Terbit, Token
<1>3. Mulus' \subseteq Mulus BY DEF Mulus, Token
<1>4. \A t : Berlaku(t)' <=> Berlaku(t) BY DEF Berlaku
<1>5. ASSUME NEW t \in Terbit, Mencabut(t), token[t].rantai \notin gagal' PROVE Mencabut(t)'
  <2>1. PICK p \in Permintaan : req[p].pc = "cabut" /\ req[p].rt = t BY <1>5 DEF Mencabut
  <2>2. p # r BY <1>5, <2>1
  <2> QED BY <1>1, <2>1, <2>2 DEF Mencabut
<1>6. RantaiSah' BY <1>1, <1>2 DEF KInv, RantaiSah
<1>7. Sendirian'
  <2> SUFFICES ASSUME NEW p1 \in Permintaan, NEW p2 \in Permintaan, p1 # p2,
                      req'[p1].rt \in Terbit, req'[p2].rt \in Terbit,
                      token[req'[p1].rt].rantai = token[req'[p2].rt].rantai
               PROVE  token[req'[p1].rt].rantai \in tumpang'
    BY <1>2 DEF Sendirian
  <2>1. CASE p1 = r BY <1>1, <2>1
  <2>2. CASE p2 = r BY <1>1, <2>2
  <2>3. CASE p1 # r /\ p2 # r BY <1>1, <2>3 DEF KInv, Sendirian
  <2> QED BY <2>1, <2>2, <2>3
<1>8. Diganti'
  <2> SUFFICES ASSUME NEW n \in Terbit, token[n].pendahulu # 0, token[n].rantai \notin gagal',
                      Berlaku(token[n].pendahulu)
               PROVE  \E p \in Permintaan : req'[p].pc = "cabut" /\ req'[p].rt = token[n].pendahulu
    BY <1>2 DEF Diganti, Mencabut, Berlaku
  <2>1. PICK t \in Terbit : t = token[n].pendahulu /\ token[t].rantai = token[n].rantai
    BY DEF KInv, RantaiSah
  <2>2. Mencabut(t) BY <2>1 DEF KInv, Diganti
  <2>3. Mencabut(t)' BY <1>5, <2>1, <2>2
  <2> QED BY <2>1, <2>3 DEF Mencabut
<1>9. SatuHidup'
  <2> SUFFICES ASSUME NEW t \in Terbit, NEW u \in Terbit, t # u, token[t].rantai = token[u].rantai,
                      token[t].rantai \in Mulus', Berlaku(t), Berlaku(u)
               PROVE  Mencabut(t)' \/ Mencabut(u)'
    BY <1>2, <1>4 DEF SatuHidup
  <2>1. Mencabut(t) \/ Mencabut(u) BY <1>3 DEF KInv, SatuHidup
  <2>2. token[t].rantai \notin gagal' BY DEF Mulus
  <2> QED BY <1>5, <2>1, <2>2
<1>10. Terakhir'
  <2> SUFFICES ASSUME NEW p \in Permintaan, req'[p].pc \in {"simpan", "keluar"},
                      token[req'[p].rt].rantai \in Mulus'
               PROVE  /\ req'[p].pc = "simpan" =>
                           /\ \A n \in Terbit : token[n].pendahulu # req'[p].rt
                           /\ token[req'[p].rt].rantai \notin tamat
                      /\ \A u \in Terbit :
                           u # req'[p].rt /\ token[u].rantai = token[req'[p].rt].rantai
                             => ~ Berlaku(u)
    BY <1>2, <1>4 DEF Terakhir
  <2>1. CASE p = r BY <1>1, <2>1
  <2>2. CASE p # r
    <3>1. req'[p] = req[p] BY <1>1, <2>2
    <3> QED BY <1>3, <3>1 DEF KInv, Terakhir
  <2> QED BY <2>1, <2>2
<1>11. Penerus' BY <1>2, <1>3 DEF KInv, Penerus
<1>12. Habis' BY <1>2, <1>3, <1>4 DEF KInv, Habis
<1> QED BY <1>6, <1>7, <1>8, <1>9, <1>10, <1>11, <1>12 DEF KInv

\* A row that refreshes no more; the request that did it is done.
LEMMA BarisTurun ==
  ASSUME IInv, KInv, NEW t \in Terbit, NEW k \in {"dicabut", "usang"},
         token' = [token EXCEPT ![t].keadaan = k], UNCHANGED <<gagal, tumpang>>,
         \/ UNCHANGED <<req, tamat>>
         \/ \E r \in Permintaan :
              /\ Menjadi(r, Bebas) /\ req[r].rt = t
              /\ \/ tamat' = tamat
                 \/ req[r].pc = "keluar" /\ tamat' = tamat \cup {token[t].rantai}
  PROVE  KInv'
<1>1. /\ \A u \in Token : token'[u].rantai = token[u].rantai /\ token'[u].pendahulu = token[u].pendahulu
      /\ \A u \in Token : u # t => token'[u] = token[u]
      /\ token'[t].keadaan = k
  BY TerbitAda DEF IInv, TypeOK, Baris
<1>2. Terbit' = Terbit
  BY <1>1, TerbitAda DEF Terbit, Token
<1>3. Mulus' = Mulus BY DEF Mulus, Token
<1>4. ~ Berlaku(t)' /\ \A u \in Token : Berlaku(u)' => u # t /\ Berlaku(u)
  BY <1>1 DEF Berlaku
<1>5. \A p \in Permintaan : req'[p] = req[p] \/ (req'[p] = Bebas /\ req[p].rt = t)
  BY DEF Menjadi, IInv, TypeOK
<1>6. tamat \subseteq tamat' /\ tamat' \subseteq tamat \cup {token[t].rantai} OBVIOUS
<1>7. Bebas.pc = "bebas" /\ Bebas.rt = 0 BY DEF Bebas
<1>8. ASSUME NEW u \in Terbit, u # t, Mencabut(u) PROVE Mencabut(u)'
  <2>1. PICK p \in Permintaan : req[p].pc = "cabut" /\ req[p].rt = u BY <1>8 DEF Mencabut
  <2>2. req'[p] = req[p] BY <1>5, <1>8, <2>1
  <2> QED BY <2>1, <2>2 DEF Mencabut
<1>9. \A u \in Terbit : u \in Token /\ token[u].rantai \in Terbit /\ token[u].pendahulu \in Terbit \cup {0}
  BY TerbitAda DEF KInv, RantaiSah
<1>10. RantaiSah'
  <2>1. tamat' \subseteq Terbit BY <1>6, <1>9 DEF KInv, RantaiSah
  <2>2. ASSUME NEW p \in Permintaan
        PROVE  /\ req'[p].rt \in Terbit \cup {0}
               /\ req'[p].pc \in {"simpan", "cabut", "keluar"} => req'[p].rt # 0
    BY <1>5, <1>7 DEF KInv, RantaiSah
  <2>3. ASSUME NEW u \in Terbit
        PROVE  /\ token'[u].rantai \in Terbit /\ token'[u].pendahulu \in Terbit \cup {0}
               /\ token'[u].pendahulu # 0 => token'[token'[u].pendahulu].rantai = token'[u].rantai
    BY <1>1, <1>9, TerbitAda DEF KInv, RantaiSah
  <2> QED BY <1>2, <2>1, <2>2, <2>3 DEF RantaiSah
<1>11. Sendirian'
  BY <1>1, <1>2, <1>5, <1>7, TerbitAda DEF KInv, Sendirian
<1>12. Diganti'
  <2> SUFFICES ASSUME NEW n \in Terbit, token'[n].pendahulu # 0, token'[n].rantai \notin gagal,
                      token'[token'[n].pendahulu].keadaan = "berlaku"
               PROVE  \E p \in Permintaan : req'[p].pc = "cabut" /\ req'[p].rt = token'[n].pendahulu
    BY <1>2 DEF Diganti, Mencabut, Berlaku
  <2>1. PICK u \in Terbit : u = token[n].pendahulu BY <1>1, <1>9
  <2>2. u = token'[n].pendahulu /\ u # t /\ Berlaku(u) BY <1>1, <1>4, <1>9, <2>1 DEF Berlaku
  <2>3. Mencabut(u) BY <1>1, <1>9, <2>1, <2>2 DEF KInv, Diganti
  <2>4. Mencabut(u)' BY <1>8, <2>2, <2>3
  <2> QED BY <2>2, <2>4 DEF Mencabut
<1>13. SatuHidup'
  <2> SUFFICES ASSUME NEW v \in Terbit, NEW u \in Terbit, v # u, token'[v].rantai = token'[u].rantai,
                      token'[v].rantai \in Mulus', Berlaku(v)', Berlaku(u)'
               PROVE  Mencabut(v)' \/ Mencabut(u)'
    BY <1>2 DEF SatuHidup
  <2>1. v # t /\ u # t /\ Berlaku(v) /\ Berlaku(u) BY <1>4, <1>9
  <2>2. Mencabut(v) \/ Mencabut(u) BY <1>1, <1>3, <1>9, <2>1 DEF KInv, SatuHidup
  <2> QED BY <1>8, <2>1, <2>2
<1>14. ASSUME NEW p \in Permintaan, req'[p].pc = "simpan", token[req[p].rt].rantai \in Mulus
       PROVE  token[req[p].rt].rantai \notin tamat'
  <2>1. req'[p] = req[p] /\ req[p].rt \in Terbit BY <1>5, <1>7, <1>14 DEF KInv, RantaiSah
  <2>2. token[req[p].rt].rantai \notin tamat BY <1>14, <2>1 DEF KInv, Terakhir
  <2>3. CASE tamat' = tamat BY <2>2, <2>3
  <2>4. CASE tamat' # tamat
    <3>1. PICK r \in Permintaan : /\ req[r].rt = t /\ req[r].pc = "keluar"
                                  /\ tamat' = tamat \cup {token[t].rantai}
      BY <2>4
    <3>2. p # r BY <1>14, <2>1, <3>1
    <3>3. token[req[p].rt].rantai # token[t].rantai
      BY <1>14, <2>1, <3>1, <3>2 DEF KInv, Sendirian, Mulus
    <3> QED BY <2>2, <3>1, <3>3
  <2> QED BY <2>3, <2>4
<1>15. Terakhir'
  <2> SUFFICES ASSUME NEW p \in Permintaan, req'[p].pc \in {"simpan", "keluar"},
                      token'[req'[p].rt].rantai \in Mulus'
               PROVE  /\ req'[p].pc = "simpan" =>
                           /\ \A n \in Terbit : token'[n].pendahulu # req'[p].rt
                           /\ token'[req'[p].rt].rantai \notin tamat'
                      /\ \A u \in Terbit :
                           u # req'[p].rt /\ token'[u].rantai = token'[req'[p].rt].rantai
                             => ~ Berlaku(u)'
    BY <1>2 DEF Terakhir
  <2>1. req'[p] = req[p] /\ req[p].rt \in Terbit BY <1>5, <1>7 DEF KInv, RantaiSah
  <2>2. token'[req[p].rt].rantai = token[req[p].rt].rantai BY <1>1, <1>9, <2>1
  <2>3. req'[p].pc = "simpan" => token[req[p].rt].rantai \notin tamat'
    BY <1>3, <1>14, <2>1, <2>2
  <2> QED BY <1>1, <1>3, <1>4, <1>9, <2>1, <2>2, <2>3 DEF KInv, Terakhir
<1>16. Penerus' BY <1>1, <1>2, <1>3, <1>9 DEF KInv, Penerus
<1>17. Habis'
  <2> SUFFICES ASSUME NEW u \in Terbit, token'[u].rantai \in tamat' \cap Mulus', Berlaku(u)'
               PROVE  FALSE
    BY <1>2 DEF Habis
  <2>1. u # t /\ Berlaku(u) /\ token[u].rantai \in Mulus BY <1>1, <1>3, <1>4, <1>9
  <2>2. token[u].rantai \notin tamat BY <2>1 DEF KInv, Habis
  <2>3. token[u].rantai \in tamat' BY <1>1, <1>9
  <2>4. PICK r \in Permintaan : /\ req[r].rt = t /\ req[r].pc = "keluar"
                                /\ tamat' = tamat \cup {token[t].rantai}
    BY <2>2, <2>3
  <2>5. token[u].rantai = token[t].rantai BY <2>2, <2>3, <2>4
  <2> QED BY <2>1, <2>4, <2>5 DEF KInv, Terakhir
<1> QED BY <1>10, <1>11, <1>12, <1>13, <1>15, <1>16, <1>17 DEF KInv


\* A new row: the first of a chain, or one a request has issued for the token it holds.
LEMMA BarisBaru ==
  ASSUME IInv, KInv, NEW n \in Berikut, NEW c, NEW d, Terbitkan(n, c, d),
         UNCHANGED <<tamat, gagal, tumpang>>,
         \/ d = 0 /\ c = n /\ UNCHANGED req
         \/ \E r \in Permintaan :
              /\ req[r].pc = "simpan" /\ req[r].rt = d /\ c = token[d].rantai
              /\ Menjadi(r, [req[r] EXCEPT !.pc = "cabut"])
  PROVE  KInv'
<1>1. n \in Token /\ n \notin Terbit /\ n # 0 BY TerbitAda DEF Berikut
<1>2. /\ \A u \in Token : u # n => token'[u] = token[u]
      /\ token'[n].keadaan = "berlaku" /\ token'[n].rantai = c /\ token'[n].pendahulu = d
  BY <1>1 DEF Terbitkan, IInv, TypeOK
<1>3. Terbit' = Terbit \cup {n}
  BY <1>1, <1>2 DEF Terbit, Token
<1>4. Mulus' = Mulus BY DEF Mulus, Token
<1>5. \A u \in Terbit : u \in Token /\ u # n /\ token'[u] = token[u] BY <1>1, <1>2, TerbitAda
<1>6. \A p \in Permintaan :
        /\ req'[p].rt = req[p].rt /\ req[p].rt \in Terbit \cup {0}
        /\ req[p].pc = "cabut" => req'[p].pc = "cabut"
        /\ req'[p].pc \in {"simpan", "keluar"} => req'[p].pc = req[p].pc
        /\ req'[p].pc \in {"simpan", "cabut", "keluar"} => req[p].rt # 0
  BY DEF Menjadi, IInv, TypeOK, Lokal, KInv, RantaiSah
<1>7. \A t : Mencabut(t) => Mencabut(t)' BY <1>6 DEF Mencabut
<1>8. CASE d = 0
  <2>1. c = n BY <1>6, <1>8, TerbitAda DEF KInv, RantaiSah
  <2>2. \A u \in Terbit : token[u].rantai \in Terbit /\ token[u].rantai # n
    BY <1>1 DEF KInv, RantaiSah
  <2>3. RantaiSah'
    <3>1. ASSUME NEW t \in Terbit' PROVE
            /\ token'[t].rantai \in Terbit' /\ token'[t].pendahulu \in Terbit' \cup {0}
            /\ token'[t].pendahulu # 0 => token'[token'[t].pendahulu].rantai = token'[t].rantai
      BY <1>2, <1>3, <1>5, <1>8, <2>1, <2>2 DEF KInv, RantaiSah
    <3> QED BY <1>3, <1>6, <3>1 DEF KInv, RantaiSah
  <2>4. Sendirian' BY <1>3, <1>5, <1>6, <1>1 DEF KInv, Sendirian
  <2>5. Diganti'
    <3> SUFFICES ASSUME NEW m \in Terbit, token[m].pendahulu # 0, token[m].rantai \notin gagal,
                        token'[token[m].pendahulu].keadaan = "berlaku"
                 PROVE  \E p \in Permintaan : req'[p].pc = "cabut" /\ req'[p].rt = token[m].pendahulu
      BY <1>2, <1>3, <1>5, <1>8 DEF Diganti, Mencabut, Berlaku
    <3>1. PICK t \in Terbit : t = token[m].pendahulu BY DEF KInv, RantaiSah
    <3>2. Mencabut(t) BY <1>5, <3>1 DEF KInv, Diganti, Berlaku
    <3>3. Mencabut(t)' BY <1>7, <3>2
    <3> QED BY <3>1, <3>3 DEF Mencabut
  <2>6. SatuHidup'
    <3> SUFFICES ASSUME NEW t \in Terbit', NEW u \in Terbit', t # u, token'[t].rantai = token'[u].rantai,
                        token'[t].rantai \in Mulus, Berlaku(t)', Berlaku(u)'
                 PROVE  Mencabut(t)' \/ Mencabut(u)'
      BY <1>4 DEF SatuHidup
    <3>1. t \in Terbit /\ u \in Terbit BY <1>2, <1>3, <1>5, <2>1, <2>2
    <3>2. Mencabut(t) \/ Mencabut(u) BY <1>5, <3>1 DEF KInv, SatuHidup, Berlaku
    <3> QED BY <1>7, <3>2
  <2>7. Terakhir'
    <3> SUFFICES ASSUME NEW p \in Permintaan, req[p].pc \in {"simpan", "keluar"},
                        req'[p].pc = req[p].pc, req[p].rt \in Terbit,
                        token[req[p].rt].rantai \in Mulus
                 PROVE  /\ req[p].pc = "simpan" =>
                             /\ \A m \in Terbit' : token'[m].pendahulu # req[p].rt
                             /\ token[req[p].rt].rantai \notin tamat
                        /\ \A u \in Terbit' :
                             u # req[p].rt /\ token'[u].rantai = token[req[p].rt].rantai
                               => ~ Berlaku(u)'
      BY <1>4, <1>5, <1>6 DEF Terakhir
    <3>1. \A m \in Terbit' : m = n \/ (m \in Terbit /\ token'[m] = token[m]) BY <1>3, <1>5
    <3>2. req[p].rt # 0 /\ token[req[p].rt].rantai # n BY <2>2, TerbitAda
    <3> QED BY <1>2, <1>8, <2>1, <3>1, <3>2 DEF KInv, Terakhir, Berlaku
  <2>8. Penerus' BY <1>2, <1>3, <1>4, <1>5, <1>8 DEF KInv, Penerus
  <2>9. Habis'
    <3>1. n \notin tamat BY <1>1 DEF KInv, RantaiSah
    <3> QED BY <1>2, <1>3, <1>4, <1>5, <2>1, <3>1 DEF KInv, Habis, Berlaku
  <2> QED BY <2>3, <2>4, <2>5, <2>6, <2>7, <2>8, <2>9 DEF KInv
<1>9. CASE d # 0
  <2>1. PICK r \in Permintaan : /\ req[r].pc = "simpan" /\ req[r].rt = d /\ c = token[d].rantai
                                /\ Menjadi(r, [req[r] EXCEPT !.pc = "cabut"])
    BY <1>9
  <2>2. d \in Terbit /\ c \in Terbit /\ token'[d] = token[d]
    BY <1>5, <1>6, <1>9, <2>1 DEF KInv, RantaiSah
  <2>3. req'[r].pc = "cabut" /\ req'[r].rt = d
    BY <2>1 DEF Menjadi, IInv, TypeOK, Lokal
  <2>4. Mencabut(d)' BY <2>3 DEF Mencabut
  <2>5. c \in Mulus =>
          /\ \A m \in Terbit : token[m].pendahulu # d
          /\ c \notin tamat
          /\ \A u \in Terbit : u # d /\ token[u].rantai = c => ~ Berlaku(u)
    BY <2>1 DEF KInv, Terakhir
  <2>6. RantaiSah'
    <3>1. ASSUME NEW t \in Terbit' PROVE
            /\ token'[t].rantai \in Terbit' /\ token'[t].pendahulu \in Terbit' \cup {0}
            /\ token'[t].pendahulu # 0 => token'[token'[t].pendahulu].rantai = token'[t].rantai
      BY <1>2, <1>3, <1>5, <2>1, <2>2 DEF KInv, RantaiSah
    <3> QED BY <1>3, <1>6, <3>1 DEF KInv, RantaiSah
  <2>7. Sendirian' BY <1>3, <1>5, <1>6, <1>1 DEF KInv, Sendirian
  <2>8. Diganti'
    <3> SUFFICES ASSUME NEW m \in Terbit', token'[m].pendahulu # 0, token'[m].rantai \notin gagal,
                        token'[token'[m].pendahulu].keadaan = "berlaku"
                 PROVE  \E p \in Permintaan : req'[p].pc = "cabut" /\ req'[p].rt = token'[m].pendahulu
      BY DEF Diganti, Mencabut, Berlaku
    <3>1. CASE m = n BY <1>2, <2>3, <3>1
    <3>2. CASE m # n
      <4>1. m \in Terbit /\ token'[m] = token[m] BY <1>3, <1>5, <3>2
      <4>2. PICK t \in Terbit : t = token[m].pendahulu BY <4>1 DEF KInv, RantaiSah
      <4>3. Mencabut(t) BY <1>5, <4>1, <4>2 DEF KInv, Diganti, Berlaku
      <4>4. Mencabut(t)' BY <1>7, <4>3
      <4> QED BY <4>1, <4>2, <4>4 DEF Mencabut
    <3> QED BY <3>1, <3>2
  <2>9. SatuHidup'
    <3> SUFFICES ASSUME NEW t \in Terbit', NEW u \in Terbit', t # u, token'[t].rantai = token'[u].rantai,
                        token'[t].rantai \in Mulus, Berlaku(t)', Berlaku(u)'
                 PROVE  Mencabut(t)' \/ Mencabut(u)'
      BY <1>4 DEF SatuHidup
    <3>1. CASE t \in Terbit /\ u \in Terbit
      <4>1. Mencabut(t) \/ Mencabut(u) BY <1>5, <3>1 DEF KInv, SatuHidup, Berlaku
      <4> QED BY <1>7, <4>1
    <3>2. CASE t = n
      <4>1. u \in Terbit /\ token[u].rantai = c /\ c \in Mulus /\ Berlaku(u)
        BY <1>2, <1>3, <1>5, <3>2 DEF Berlaku
      <4> QED BY <2>4, <2>5, <4>1
    <3>3. CASE u = n
      <4>1. t \in Terbit /\ token[t].rantai = c /\ c \in Mulus /\ Berlaku(t)
        BY <1>2, <1>3, <1>5, <3>3 DEF Berlaku
      <4> QED BY <2>4, <2>5, <4>1
    <3> QED BY <1>3, <3>1, <3>2, <3>3
  <2>10. Terakhir'
    <3> SUFFICES ASSUME NEW p \in Permintaan, req[p].pc \in {"simpan", "keluar"},
                        req'[p].pc = req[p].pc, req[p].rt \in Terbit,
                        token[req[p].rt].rantai \in Mulus
                 PROVE  /\ req[p].pc = "simpan" =>
                             /\ \A m \in Terbit' : token'[m].pendahulu # req[p].rt
                             /\ token[req[p].rt].rantai \notin tamat
                        /\ \A u \in Terbit' :
                             u # req[p].rt /\ token'[u].rantai = token[req[p].rt].rantai
                               => ~ Berlaku(u)'
      BY <1>4, <1>5, <1>6 DEF Terakhir
    <3>1. \A m \in Terbit' : m = n \/ (m \in Terbit /\ token'[m] = token[m]) BY <1>3, <1>5
    <3>2. p # r BY <2>3
    <3>3. token[req[p].rt].rantai # c
      BY <2>1, <2>2, <3>2 DEF KInv, Sendirian, Mulus
    <3> QED BY <1>2, <2>1, <3>1, <3>3 DEF KInv, Terakhir, Berlaku
  <2>11. Penerus'
    <3> SUFFICES ASSUME NEW a \in Terbit', NEW b \in Terbit', a # b, token'[a].pendahulu # 0,
                        token'[a].rantai \in Mulus, token'[a].pendahulu = token'[b].pendahulu
                 PROVE  FALSE
      BY <1>4 DEF Penerus
    <3>1. CASE a \in Terbit /\ b \in Terbit BY <1>5, <3>1 DEF KInv, Penerus
    <3>2. CASE a = n BY <1>2, <1>3, <1>5, <2>5, <3>2
    <3>3. CASE b = n
      <4>1. a \in Terbit /\ token'[a] = token[a] /\ token[a].pendahulu = d
        BY <1>2, <1>3, <1>5, <3>3
      <4>2. token[a].rantai = c BY <1>9, <2>1, <4>1 DEF KInv, RantaiSah
      <4> QED BY <2>5, <4>1, <4>2
    <3> QED BY <1>3, <3>1, <3>2, <3>3
  <2>12. Habis' BY <1>2, <1>3, <1>4, <1>5, <2>5 DEF KInv, Habis, Berlaku
  <2> QED BY <2>6, <2>7, <2>8, <2>9, <2>10, <2>11, <2>12 DEF KInv
<1> QED BY <1>8, <1>9

\* A token that still refreshes is the last of its chain, unless a request that works
\* on the chain is about to revoke it or the one before it.
LEMMA MasihBerlaku ==
  ASSUME IInv, KInv, NEW t \in Terbit, Berlaku(t), token[t].rantai \in Mulus,
         \A p \in Permintaan :
           req[p].pc = "cabut" /\ req[p].rt \in Terbit => token[req[p].rt].rantai # token[t].rantai
  PROVE  /\ \A n \in Terbit : token[n].pendahulu # t
         /\ token[t].rantai \notin tamat
         /\ \A u \in Terbit : u # t /\ token[u].rantai = token[t].rantai => ~ Berlaku(u)
<1>1. ASSUME NEW u \in Terbit, token[u].rantai = token[t].rantai PROVE ~ Mencabut(u)
  BY <1>1 DEF Mencabut
<1>2. ASSUME NEW n \in Terbit, token[n].pendahulu = t PROVE FALSE
  <2>1. token[n].rantai = token[t].rantai /\ t # 0
    BY <1>2, TerbitAda DEF KInv, RantaiSah
  <2>2. Mencabut(t) BY <1>2, <2>1 DEF KInv, Diganti, Mulus
  <2> QED BY <1>1, <2>2
<1>3. token[t].rantai \notin tamat BY DEF KInv, Habis
<1>4. ASSUME NEW u \in Terbit, u # t, token[u].rantai = token[t].rantai, Berlaku(u) PROVE FALSE
  <2>1. Mencabut(t) \/ Mencabut(u) BY <1>4 DEF KInv, SatuHidup
  <2> QED BY <1>1, <1>4, <2>1
<1> QED BY <1>2, <1>3, <1>4


----------------------------------------------------------------------------
(* The steps, one by one.                                                  *)

LEMMA BebasTanpaToken == Bebas.pc = "bebas" /\ Bebas.rt = 0
BY DEF Bebas

LEMMA IssueSessionRantai ==
  ASSUME IInv, KInv, NEW r \in Permintaan, IssueSession(r) PROVE KInv'
<1>1. PICK n \in Berikut : Terbitkan(n, n, 0) BY DEF IssueSession
<1>2. UNCHANGED <<tamat, gagal, tumpang, req>> BY DEF IssueSession, catatan
<1> QED BY <1>1, <1>2, BarisBaru

LEMMA SimpanBaruRantai ==
  ASSUME IInv, KInv, NEW r \in Permintaan, SimpanBaru(r) PROVE KInv'
<1>1. PICK n \in Berikut : Terbitkan(n, token[req[r].rt].rantai, req[r].rt) BY DEF SimpanBaru
<1>2. UNCHANGED <<tamat, gagal, tumpang>> /\ req[r].pc = "simpan"
      /\ Menjadi(r, [req[r] EXCEPT !.pc = "cabut"])
  BY DEF SimpanBaru, catatan
<1>3. PICK c, d : d = req[r].rt /\ c = token[req[r].rt].rantai OBVIOUS
<1>4. Terbitkan(n, c, d) BY <1>1, <1>3
<1> QED BY <1>2, <1>3, <1>4, BarisBaru

LEMMA CabutRantai ==
  ASSUME IInv, KInv, NEW r \in Permintaan, CabutLama(r) \/ CabutKeluar(r) PROVE KInv'
<1>1. PICK t : t = req[r].rt OBVIOUS
<1>2. t \in Terbit BY <1>1 DEF CabutLama, CabutKeluar, KInv, RantaiSah
<1>3. token' = [token EXCEPT ![t].keadaan = "dicabut"] /\ UNCHANGED <<gagal, tumpang>>
      /\ Menjadi(r, Bebas)
  BY <1>1 DEF CabutLama, CabutKeluar, Cabut, catatan
<1>4. Rantai(t) = {token[t].rantai} BY <1>2, SatuRantai DEF KInv
<1>5. \/ tamat' = tamat
      \/ req[r].pc = "keluar" /\ tamat' = tamat \cup {token[t].rantai}
  BY <1>1, <1>4 DEF CabutLama, CabutKeluar, catatan
<1> QED BY <1>1, <1>2, <1>3, <1>5, BarisTurun

LEMMA UsangRantai ==
  ASSUME IInv, KInv, NEW t \in Token, Usang(t) PROVE KInv'
<1>1. t \in Terbit BY DEF Usang, Terbit
<1>2. UNCHANGED <<gagal, tumpang, req, tamat>> BY DEF Usang, catatan
<1> QED BY <1>1, <1>2, BarisTurun DEF Usang

\* Two requests on one chain, of which one begins.
LEMMA MulaiBersama ==
  ASSUME IInv, KInv, NEW r \in Permintaan, NEW q, Mulai(r, q), q.rt \in Terbit \cup {0},
         NEW p \in Permintaan, q.rt \in Terbit, req[p].rt \in Terbit,
         token[q.rt].rantai = token[req[p].rt].rantai
  PROVE  token[q.rt].rantai \in tumpang'
<1>1. Rantai(q.rt) = {token[q.rt].rantai} /\ Rantai(req[p].rt) = {token[q.rt].rantai}
  BY SatuRantai DEF KInv
<1> QED BY <1>1 DEF Mulai

LEMMA RefreshRantai ==
  ASSUME IInv, KInv, NEW r \in Permintaan, NEW t \in Token, Refresh(r, t) PROVE KInv'
<1>1. PICK q : q = [pc |-> "simpan", rt |-> t, at |-> 0] OBVIOUS
<1>2. q.pc = "simpan" /\ q.rt = t BY <1>1
<1>3. Mulai(r, q) BY <1>1 DEF Refresh
<1>4. t \in Terbit /\ Berlaku(t) BY DEF Refresh, RefreshSah, Terbit, Berlaku
<1>5. UNCHANGED <<token, tamat, gagal>> /\ tumpang \subseteq tumpang' /\ Menjadi(r, q)
      /\ req[r] = Bebas
  BY <1>3 DEF Mulai
<1>6. \A p \in Permintaan :
        req[p].rt \in Terbit /\ token[q.rt].rantai = token[req[p].rt].rantai
          => token[q.rt].rantai \in tumpang'
  BY <1>2, <1>3, <1>4, MulaiBersama
<1>7. ASSUME token[t].rantai \in Mulus'
      PROVE  /\ \A n \in Terbit : token[n].pendahulu # t
             /\ token[t].rantai \notin tamat
             /\ \A u \in Terbit : u # t /\ token[u].rantai = token[t].rantai => ~ Berlaku(u)
  <2>1. token[t].rantai \in Mulus /\ token[t].rantai \notin tumpang' BY <1>5, <1>7 DEF Mulus, Token
  <2>2. \A p \in Permintaan : req[p].rt \in Terbit => token[req[p].rt].rantai # token[t].rantai
    BY <1>2, <1>6, <2>1
  <2> QED BY <1>4, <2>1, <2>2, MasihBerlaku
<1> QED BY <1>2, <1>4, <1>5, <1>6, <1>7, BebasTanpaToken, TerbitAda, TanpaTulis

LEMMA LogoutRantai ==
  ASSUME IInv, KInv, NEW r \in Permintaan, NEW t \in Terbit \cup {0}, NEW a, Logout(r, a, t)
  PROVE  KInv'
<1>1. PICK q : q = [pc |-> IF AksesSah(a) THEN "hitamkan" ELSE "cari", rt |-> t, at |-> a] OBVIOUS
<1>2. q.pc \in {"hitamkan", "cari"} /\ q.rt = t BY <1>1
<1>3. Mulai(r, q) BY <1>1 DEF Logout
<1>4. UNCHANGED <<token, tamat, gagal>> /\ tumpang \subseteq tumpang' /\ Menjadi(r, q)
      /\ req[r] = Bebas
  BY <1>3 DEF Mulai
<1>5. \A p \in Permintaan :
        q.rt \in Terbit /\ req[p].rt \in Terbit /\ token[q.rt].rantai = token[req[p].rt].rantai
          => token[q.rt].rantai \in tumpang'
  BY <1>2, <1>3, MulaiBersama
<1> QED BY <1>2, <1>4, <1>5, BebasTanpaToken, TanpaTulis

LEMMA HitamkanRantai ==
  ASSUME IInv, KInv, NEW r \in Permintaan, Hitamkan(r) PROVE KInv'
<1>1. PICK q : q = [req[r] EXCEPT !.pc = "cari"] OBVIOUS
<1>2. q.pc = "cari" /\ q.rt = req[r].rt BY <1>1 DEF IInv, TypeOK, Lokal
<1>3. UNCHANGED <<token, tamat, gagal, tumpang>> /\ Menjadi(r, q) /\ req[r].pc = "hitamkan"
  BY <1>1 DEF Hitamkan
<1> QED BY <1>2, <1>3, TanpaTulis DEF KInv, RantaiSah, Sendirian

LEMMA CariRefreshRantai ==
  ASSUME IInv, KInv, NEW r \in Permintaan, CariRefresh(r) PROVE KInv'
<1>1. UNCHANGED <<token, tamat, gagal, tumpang>> /\ req[r].pc = "cari"
  BY DEF CariRefresh, catatan
<1>2. CASE Menjadi(r, Bebas) BY <1>1, <1>2, BebasTanpaToken, TerbitAda, TanpaTulis
<1>3. CASE RefreshSah(req[r].rt) /\ Menjadi(r, [req[r] EXCEPT !.pc = "keluar"])
  <2>1. PICK q : q = [req[r] EXCEPT !.pc = "keluar"] OBVIOUS
  <2>2. q.pc = "keluar" /\ q.rt = req[r].rt BY <2>1 DEF IInv, TypeOK, Lokal
  <2>3. PICK t \in Terbit : t = req[r].rt /\ Berlaku(t) BY <1>3 DEF RefreshSah, Terbit, Berlaku
  <2>4. \A p \in Permintaan \ {r} :
          req[p].rt \in Terbit /\ token[t].rantai = token[req[p].rt].rantai
            => token[t].rantai \in tumpang
    BY <2>3 DEF KInv, Sendirian
  <2>5. ASSUME token[t].rantai \in Mulus'
        PROVE  \A u \in Terbit : u # t /\ token[u].rantai = token[t].rantai => ~ Berlaku(u)
    <3>1. token[t].rantai \in Mulus /\ token[t].rantai \notin tumpang BY <1>1, <2>5 DEF Mulus, Token
    <3>2. \A p \in Permintaan :
            req[p].pc = "cabut" /\ req[p].rt \in Terbit => token[req[p].rt].rantai # token[t].rantai
      BY <1>1, <2>4, <3>1
    <3> QED BY <2>3, <3>1, <3>2, MasihBerlaku
  <2>6. Menjadi(r, q) BY <1>3, <2>1
  <2> QED BY <1>1, <2>2, <2>3, <2>4, <2>5, <2>6, TerbitAda, TanpaTulis
<1> QED BY <1>2, <1>3 DEF CariRefresh

LEMMA GagalRantai ==
  ASSUME IInv, KInv, NEW r \in Permintaan, Gagal(r) PROVE KInv'
<1>1. UNCHANGED <<token, tamat, tumpang>> /\ gagal' = gagal \cup Rantai(req[r].rt)
  BY DEF Gagal
<1>2. req[r].pc = "cabut" => token[req[r].rt].rantai \in gagal'
  <2>1. req[r].pc = "cabut" => req[r].rt \in Terbit BY DEF KInv, RantaiSah
  <2> QED BY <1>1, <2>1, SatuRantai DEF KInv
<1>3. CASE req[r].pc = "hitamkan" /\ Menjadi(r, [req[r] EXCEPT !.pc = "cari"])
  <2>1. PICK q : q = [req[r] EXCEPT !.pc = "cari"] OBVIOUS
  <2>2. q.pc = "cari" /\ q.rt = req[r].rt BY <2>1 DEF IInv, TypeOK, Lokal
  <2>3. Menjadi(r, q) BY <1>3, <2>1
  <2> QED BY <1>1, <1>3, <2>2, <2>3, TanpaTulis DEF KInv, RantaiSah, Sendirian
<1>4. CASE Menjadi(r, Bebas) BY <1>1, <1>2, <1>4, BebasTanpaToken, TerbitAda, TanpaTulis
<1> QED BY <1>3, <1>4 DEF Gagal

LEMMA TetapRantai ==
  ASSUME KInv, UNCHANGED <<token, tamat, gagal, tumpang, req>> PROVE KInv'
<1>1. Terbit' = Terbit /\ Mulus' = Mulus BY DEF Terbit, Mulus, Token
<1>2. \A t : (Berlaku(t)' <=> Berlaku(t)) /\ (Mencabut(t)' <=> Mencabut(t))
  BY DEF Berlaku, Mencabut
<1>3. RantaiSah' /\ Sendirian' /\ Penerus'
  BY <1>1 DEF KInv, RantaiSah, Sendirian, Penerus
<1>4. Diganti' BY <1>1 DEF KInv, Diganti, Berlaku, Mencabut
<1>5. SatuHidup' /\ Habis' /\ Terakhir' BY <1>1, <1>2 DEF KInv, SatuHidup, Habis, Terakhir
<1> QED BY <1>3, <1>4, <1>5 DEF KInv

LEMMA KInvNext == ASSUME IInv, KInv, [Next]_vars PROVE KInv'
<1>1. ASSUME NEW r \in Permintaan, Terima(r) PROVE KInv'
  BY <1>1, IssueSessionRantai, RefreshRantai, LogoutRantai DEF Terima
<1>2. ASSUME NEW r \in Permintaan, Lanjut(r) PROVE KInv'
  BY <1>2, SimpanBaruRantai, CabutRantai, HitamkanRantai, CariRefreshRantai, GagalRantai
  DEF Lanjut
<1>3. ASSUME NEW t \in Token, Usang(t) PROVE KInv' BY <1>3, UsangRantai
<1>4. CASE Tick BY <1>4, TetapRantai DEF Tick, catatan
<1>5. CASE UNCHANGED vars BY <1>5, TetapRantai DEF vars, catatan
<1> QED BY <1>1, <1>2, <1>3, <1>4, <1>5 DEF Next

LEMMA KInvInit == Init => KInv
<1> SUFFICES ASSUME Init PROVE KInv
  OBVIOUS
<1>1. Terbit = {} BY DEF Init, Terbit
<1>2. \A r \in Permintaan : req[r] = Bebas BY DEF Init
<1>3. tamat = {} BY DEF Init
<1> QED BY <1>1, <1>2, <1>3, BebasTanpaToken
    DEF KInv, RantaiSah, Sendirian, Diganti, SatuHidup, Terakhir, Penerus, Habis

\* Whatever requests do, the chains stay as KInv says.
LEMMA KInvBenar == Spec => [](IInv /\ KInv)
<1>1. Init => IInv /\ KInv BY IInvInit, KInvInit
<1>2. IInv /\ KInv /\ [Next]_vars => (IInv /\ KInv)' BY IInvNext, KInvNext
<1> QED BY <1>1, <1>2, PTL DEF Spec

\* A chain no request works on has no token that is about to be revoked.
LEMMA TenangTanpaCabut ==
  ASSUME IInv, KInv, NEW t \in Terbit, Tenang(t),
         NEW u \in Terbit, token[u].rantai = token[t].rantai
  PROVE  ~ Mencabut(u)
BY SatuRantai DEF Tenang, Mencabut, KInv

\* README.md:312, "token lama dirotasi", for any number of requests on a chain:
\* once they are done and none failed, a token with a successor refreshes no more.
THEOREM DigantiBerartiDicabutBenar == Spec => []DigantiBerartiDicabut
<1>1. IInv /\ KInv => DigantiBerartiDicabut
  <2> SUFFICES ASSUME IInv, KInv, NEW n \in Terbit, NEW t \in Token, t = token[n].pendahulu,
                      Tenang(t), Rantai(t) \cap gagal = {}, RefreshSah(t)
               PROVE  FALSE
    BY DEF DigantiBerartiDicabut
  <2>1. t \in Terbit /\ Berlaku(t) /\ token[n].rantai = token[t].rantai /\ t # 0
    BY TerbitAda DEF RefreshSah, Berlaku, Terbit, KInv, RantaiSah
  <2>2. token[n].rantai \notin gagal BY <2>1, SatuRantai DEF KInv
  <2>3. Mencabut(t) BY <2>1, <2>2 DEF KInv, Diganti
  <2> QED BY <2>1, <2>3, TenangTanpaCabut
<1> QED BY <1>1, KInvBenar, PTL

\* SatuPenerus: Refresh issues one token for another, if the requests on the chain
\* neither overlap nor fail.
THEOREM SatuPenerusBenar == Spec => []SatuPenerus
<1>1. IInv /\ KInv => SatuPenerus
  <2> SUFFICES ASSUME IInv, KInv, NEW n \in Terbit, NEW m \in Terbit, n # m,
                      token[n].pendahulu # 0, Bersih(n)
               PROVE  token[n].pendahulu # token[m].pendahulu
    BY DEF SatuPenerus
  <2>1. token[n].rantai \in Mulus BY SatuRantai DEF Bersih, Mulus, KInv
  <2> QED BY <2>1 DEF KInv, Penerus
<1> QED BY <1>1, KInvBenar, PTL

\* README.md:52, "revoke refresh token": after a logout no token of the chain
\* refreshes, if the requests on it neither overlap nor fail.
THEOREM TamatTuntasBenar == Spec => []TamatTuntas
<1>1. IInv /\ KInv => TamatTuntas
  <2> SUFFICES ASSUME IInv, KInv, NEW t \in Terbit, Rantai(t) \subseteq tamat, Bersih(t)
               PROVE  ~ RefreshSah(t)
    BY DEF TamatTuntas
  <2>1. token[t].rantai \in tamat \cap Mulus BY SatuRantai DEF Bersih, Mulus, KInv
  <2> QED BY <2>1 DEF KInv, Habis, RefreshSah, Berlaku
<1> QED BY <1>1, KInvBenar, PTL
=============================================================================
