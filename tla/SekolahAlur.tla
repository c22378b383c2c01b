---------------------------- MODULE SekolahAlur ----------------------------
(***************************************************************************)
(* The registration workflow that the checks of SekolahService allow, one  *)
(* indivisible step per decision: validStatusTransitions                   *)
(* (service/sekolah.go:39), the conditions of an upload (188) and of a     *)
(* resubmission (625), and who becomes the administrator of a school.      *)
(* nonaktif, which the table has, is left out: the binding of              *)
(* SekolahVerifikasiRequest lets nobody ask for it.                        *)
(*                                                                         *)
(* This is not the diagram of docs/API_DOCUMENTATION.md:38-78, which a     *)
(* school enters at menunggu_verifikasi; the property AlurDokumen of Api   *)
(* states that one.                                                        *)
(***************************************************************************)
CONSTANTS SekolahID, Email, NULL

VARIABLES status, admin

vars == <<status, admin>>

Init ==
  /\ status = [s \in SekolahID |-> NULL]
  /\ admin = [s \in SekolahID |-> NULL]

Pindah(s, dari, ke) ==
  /\ status[s] \in dari
  /\ status' = [status EXCEPT ![s] = ke]

Daftar(s) == Pindah(s, {NULL}, "pengajuan") /\ UNCHANGED admin

\* By an upload, or by the super admin without one.
Lengkapi(s) == Pindah(s, {"pengajuan"}, "menunggu_verifikasi") /\ UNCHANGED admin

Tolak(s) ==
  Pindah(s, {"pengajuan", "menunggu_verifikasi"}, "ditolak") /\ UNCHANGED admin

\* By a resubmission, with new data and without documents.
AjukanUlang(s) == Pindah(s, {"ditolak"}, "pengajuan") /\ UNCHANGED admin

\* Approval gives the school an administrator that no school has.
Setujui(s, e) ==
  /\ Pindah(s, {"menunggu_verifikasi"}, "aktif")
  /\ \A t \in SekolahID : admin[t] # e
  /\ admin' = [admin EXCEPT ![s] = e]

Next ==
  \E s \in SekolahID :
    \/ Daftar(s)
    \/ Lengkapi(s)
    \/ Tolak(s)
    \/ AjukanUlang(s)
    \/ \E e \in Email : Setujui(s, e)

Spec == Init /\ [][Next]_vars
============================================================================
