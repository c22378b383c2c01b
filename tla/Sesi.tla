-------------------------------- MODULE Sesi --------------------------------
(***************************************************************************)
(* The sessions of one user: the rows of table refresh_tokens              *)
(* (internal/repository/refresh_token.go), the access tokens issued with   *)
(* them and their blacklist in Redis (internal/auth/jwt.go), and the       *)
(* operations of IssueSession, Refresh and Logout on them.  A step is one  *)
(* database statement or Redis command; overlapping requests interleave.   *)
(*                                                                         *)
(* A number names a row of refresh_tokens and the access token issued with *)
(* it.  A sign-in begins a chain, named by its first token; Refresh adds   *)
(* to it.  rantai, pendahulu, keluar, tamat, gagal and tumpang are not in  *)
(* the program: they record what happened, for the properties.             *)
(***************************************************************************)
EXTENDS Naturals

CONSTANTS
  Permintaan,   \* requests in progress at the same time
  MaxToken,     \* bound: sessions issued in a behaviour
  Akses,        \* the access tokens followed (they have no bearing on each other)
  MasaAkses     \* AccessTokenLifetime, in units of time

ASSUME MasaAssumption ==
  MaxToken \in Nat /\ MasaAkses \in Nat \ {0} /\ Akses \subseteq 1..MaxToken

VARIABLES
  token,    \* the rows of refresh_tokens
  sisa,     \* remaining life of each access token
  hitam,    \* remaining life of the blacklist key of each access token
  keluar,   \* access tokens put on the blacklist by a logout
  tamat,    \* chains whose refresh token a logout has revoked
  gagal,    \* chains of which a request was cut off or a call failed
  tumpang,  \* chains of which two requests have overlapped
  req       \* the local state of every request

catatan == <<keluar, tamat, gagal, tumpang>>
vars == <<token, sisa, hitam, keluar, tamat, gagal, tumpang, req>>

Token == 1..MaxToken

Keadaan == {"belum", "berlaku", "dicabut", "usang"}

\* pendahulu is the token this one was issued for by Refresh, 0 for a sign-in.
Baris == [keadaan : Keadaan, rantai : 0..MaxToken, pendahulu : 0..MaxToken]

\* rt is the refresh token, at the access token a request was given, or 0.
Lokal == [pc : {"bebas", "simpan", "cabut", "hitamkan", "cari", "keluar"},
          rt : 0..MaxToken, at : 0..MaxToken]

Bebas == [pc |-> "bebas", rt |-> 0, at |-> 0]

TypeOK ==
  /\ token \in [Token -> Baris]
  /\ sisa \in [Akses -> 0..MasaAkses]
  /\ hitam \in [Akses -> 0..MasaAkses]
  /\ keluar \subseteq Akses /\ tamat \subseteq Token
  /\ gagal \subseteq Token /\ tumpang \subseteq Token
  /\ req \in [Permintaan -> Lokal]

Init ==
  /\ token = [t \in Token |-> [keadaan |-> "belum", rantai |-> 0, pendahulu |-> 0]]
  /\ sisa = [a \in Akses |-> 0]
  /\ hitam = [a \in Akses |-> 0]
  /\ keluar = {} /\ tamat = {} /\ gagal = {} /\ tumpang = {}
  /\ req = [r \in Permintaan |-> Bebas]

Terbit == {t \in Token : token[t].keadaan # "belum"}

\* The number the next session gets.
Berikut == {n \in Token \ Terbit : \A m \in 1..n - 1 : m \in Terbit}

\* The chain a refresh token belongs to; none for no token.
Rantai(t) == {c \in Token : t \in Token /\ token[t].rantai = c}

\* Request r goes on as q.
Menjadi(r, q) == req' = [req EXCEPT ![r] = q]

\* Request r begins as q, on the chain of its refresh token.
Mulai(r, q) ==
  /\ req[r] = Bebas
  /\ Menjadi(r, q)
  /\ tumpang' = tumpang \cup UNION {Rantai(q.rt) \cap Rantai(req[p].rt) : p \in Permintaan}
  /\ UNCHANGED <<token, sisa, hitam, keluar, tamat, gagal>>

\* GenerateAccess, GenerateRefresh and Store.
Terbitkan(n, rantai, pendahulu) ==
  /\ token' = [token EXCEPT ![n] =
                 [keadaan |-> "berlaku", rantai |-> rantai, pendahulu |-> pendahulu]]
  /\ sisa' = [a \in Akses |-> IF a = n THEN MasaAkses ELSE sisa[a]]

\* Mutant: the row stays as it is.
Cabut_Tetap(t) == UNCHANGED token

\* RefreshTokenRepository.Revoke, whatever the row says by now.
Cabut(t) == token' = [token EXCEPT ![t].keadaan = "dicabut"]

\* Mutant: a revoked token passes.
RefreshSah_Dicabut(t) == t \in Token /\ token[t].keadaan \in {"berlaku", "dicabut"}

\* RefreshTokenRepository.Validate
RefreshSah(t) == t \in Token /\ token[t].keadaan = "berlaku"

\* JWTManager.Validate of an access token, as long as Redis answers.
AksesSah(a) == a \in Akses /\ sisa[a] > 0 /\ hitam[a] = 0

----------------------------------------------------------------------------
\* A sign-in: IssueSession after the credentials were checked.
IssueSession(r) ==
  /\ req[r] = Bebas
  /\ \E n \in Berikut : Terbitkan(n, n, 0)
  /\ UNCHANGED <<hitam, catatan, req>>

Refresh(r, t) ==
  /\ RefreshSah(t)
  /\ Mulai(r, [pc |-> "simpan", rt |-> t, at |-> 0])

SimpanBaru(r) ==
  /\ req[r].pc = "simpan"
  /\ \E n \in Berikut : Terbitkan(n, token[req[r].rt].rantai, req[r].rt)
  /\ Menjadi(r, [req[r] EXCEPT !.pc = "cabut"])
  /\ UNCHANGED <<hitam, catatan>>

CabutLama(r) ==
  /\ req[r].pc = "cabut"
  /\ Cabut(req[r].rt)
  /\ Menjadi(r, Bebas)
  /\ UNCHANGED <<sisa, hitam, catatan>>

\* Logout with an access token, a refresh token, both or neither.  RevokeByToken
\* puts a valid access token on the blacklist.
Logout(r, a, t) ==
  Mulai(r, [pc |-> IF AksesSah(a) THEN "hitamkan" ELSE "cari", rt |-> t, at |-> a])

\* Mutants: the key lives a unit of time; it outlives every access token.
LamaHitam_Tetap(a) == IF sisa[a] > 0 THEN 1 ELSE 0

LamaHitam_MasaRefresh(a) == MasaAkses + 1

\* How long JWTManager.Revoke keeps a token on the blacklist.
LamaHitam(a) == sisa[a]

Hitamkan(r) ==
  /\ req[r].pc = "hitamkan"
  /\ LET a == req[r].at
     IN /\ hitam' = [hitam EXCEPT ![a] = IF LamaHitam(a) = 0 THEN @ ELSE LamaHitam(a)]
        /\ keluar' = keluar \cup {a}
  /\ Menjadi(r, [req[r] EXCEPT !.pc = "cari"])
  /\ UNCHANGED <<token, sisa, tamat, gagal, tumpang>>

CariRefresh(r) ==
  /\ req[r].pc = "cari"
  /\ Menjadi(r, IF RefreshSah(req[r].rt) THEN [req[r] EXCEPT !.pc = "keluar"] ELSE Bebas)
  /\ UNCHANGED <<token, sisa, hitam, catatan>>

CabutKeluar(r) ==
  /\ req[r].pc = "keluar"
  /\ Cabut(req[r].rt)
  /\ tamat' = tamat \cup Rantai(req[r].rt)
  /\ Menjadi(r, Bebas)
  /\ UNCHANGED <<sisa, hitam, keluar, gagal, tumpang>>

\* A request stops before its next call (the process went down, a statement
\* failed, or it was the last and its error is dropped); or the SET of the
\* blacklist fails and Logout goes on.
Gagal(r) ==
  /\ req[r] # Bebas
  /\ Menjadi(r, IF req[r].pc = "hitamkan" THEN [req[r] EXCEPT !.pc = "cari"] ELSE Bebas)
  /\ gagal' = gagal \cup Rantai(req[r].rt)
  /\ UNCHANGED <<token, sisa, hitam, keluar, tamat, tumpang>>

\* A refresh token expires; RefreshTokenLifetime is far longer than MasaAkses.
Usang(t) ==
  /\ token[t].keadaan = "berlaku"
  /\ token' = [token EXCEPT ![t].keadaan = "usang"]
  /\ UNCHANGED <<sisa, hitam, catatan, req>>

\* A unit of time passes.
Tick ==
  /\ sisa' = [a \in Akses |-> IF sisa[a] > 0 THEN sisa[a] - 1 ELSE 0]
  /\ hitam' = [a \in Akses |-> IF hitam[a] > 0 THEN hitam[a] - 1 ELSE 0]
  /\ UNCHANGED <<token, catatan, req>>

Terima(r) ==
  \/ IssueSession(r)
  \/ \E t \in Token : Refresh(r, t)
  \/ \E t \in Terbit \cup {0}, a \in (Terbit \cap Akses) \cup {0} : Logout(r, a, t)

Lanjut(r) ==
  SimpanBaru(r) \/ CabutLama(r) \/ Hitamkan(r) \/ CariRefresh(r) \/ CabutKeluar(r) \/ Gagal(r)

Next ==
  \/ \E r \in Permintaan : Terima(r) \/ Lanjut(r)
  \/ \E t \in Token : Usang(t)
  \/ Tick

Spec == Init /\ [][Next]_vars

----------------------------------------------------------------------------
\* No request is working on the chain of t.
Tenang(t) == \A r \in Permintaan : Rantai(req[r].rt) \cap Rantai(t) = {}

Bersih(t) == Rantai(t) \cap (gagal \cup tumpang) = {}

\* README.md:52, "Blacklist access token": an access token that a logout has put
\* on the blacklist is not accepted again, also when its blacklist key expires.
AksesKeluarDitolak == \A a \in keluar : ~AksesSah(a)

\* README.md:312, "token lama dirotasi": once the requests on a chain are done
\* and none failed, a token with a successor does not refresh again, whichever
\* of them overlapped.
DigantiBerartiDicabut ==
  \A n \in Terbit : \A t \in Token :
    t = token[n].pendahulu /\ Tenang(t) /\ Rantai(t) \cap gagal = {} => ~RefreshSah(t)

\* A refresh token has at most one successor, so the tokens of a chain form a
\* line, as long as its requests neither overlap nor fail (mobile_auth.go:391-416).
SatuPenerus ==
  \A n, m \in Terbit :
    n # m /\ token[n].pendahulu # 0 /\ Bersih(n) => token[n].pendahulu # token[m].pendahulu

\* README.md:52, "revoke refresh token": after a logout nothing of the chain can be
\* refreshed, as long as its requests neither overlap nor fail: the token that was
\* revoked was the only one left.
TamatTuntas ==
  \A t \in Terbit : Rantai(t) \subseteq tamat /\ Tenang(t) /\ Bersih(t) => ~RefreshSah(t)

\* The same whatever overlaps, which the code does not keep (handler/auth.go:131,
\* "Revoke access token and refresh token to logout user"): after a logout nothing of
\* the chain can be refreshed, as long as no call fails.
KeluarMengakhiri ==
  \A t \in Terbit :
    Rantai(t) \subseteq tamat /\ Tenang(t) /\ Rantai(t) \cap gagal = {} => ~RefreshSah(t)
============================================================================
