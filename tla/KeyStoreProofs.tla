--------------------------- MODULE KeyStoreProofs ---------------------------
(***************************************************************************)
(* Proofs about KeyStore, a part of Doors, for any keys, requests, times   *)
(* and scenarios.                                                          *)
(***************************************************************************)
EXTENDS Doors, TLAPS

(* How far the start has got, and what the files are then.                 *)
StartInv ==
    /\ refusal # "none" => server = "refused"
    /\ server = "generate" => ~keysFile
    /\ server = "up" => keysFile
    /\ ~keysFile => saved = K!Empty

(* Only keys that were generated are anywhere.                             *)
UsedInv == \A k \in ApiKeys : mem[k] # NoKey \/ saved[k] # NoKey \/ bootFile = k => k \in used

(* Memory has an admin key when the file has; and the root key that was    *)
(* shown has left one in keys.json, or is still in its own file.           *)
AdminInv == server = "up" /\ K!Admins(saved) # {} => K!Admins(mem) # {}
RootInv  == printed # NoKey => /\ IF keysFile THEN K!Admins(saved) # {} ELSE bootFile = printed
                               /\ refusal # "noActiveKey"

KInv == K!TypeOK /\ K!AcknowledgedHolds /\ StartInv /\ UsedInv /\ AdminInv /\ RootInv

(* AdminRemains as a formula about one step.                               *)
AdminStep ==
    /\ server = "up" /\ server' = "up" /\ K!Admins(mem) # {} => K!Admins(mem') # {}
    /\ keysFile' /\ K!Admins(saved) # {} => K!Admins(saved') # {}

USE DEF K!fileVars, K!memVars
USE SentinelsAssumption, NeverAssumption, KeysAssumption, TimeAssumption

(* The empty store, and a record that was just made.                       *)
LEMMA Stores ==
    /\ K!Empty \in [ApiKeys -> K!Entries] /\ K!Admins(K!Empty) = {}
    /\ K!Resting \in [Verifiers -> [key : ApiKeys \cup {NoKey}, was : K!Entries]]
    /\ \A admin \in BOOLEAN, expires \in K!Times \cup {Never} :
          K!Fresh(admin, expires) \in K!Records /\ (K!IsAdmin(K!Fresh(admin, expires)) <=> admin)
<1>1. K!Empty \in [ApiKeys -> K!Entries] /\ K!Admins(K!Empty) = {}
    BY DEF K!Empty, K!Entries, K!Admins, K!IsAdmin
<1>2. K!Resting \in [Verifiers -> [key : ApiKeys \cup {NoKey}, was : K!Entries]]
    BY DEF K!Entries, K!Resting
<1>3. ASSUME NEW admin \in BOOLEAN, NEW expires \in K!Times \cup {Never}
      PROVE  K!Fresh(admin, expires) \in K!Records /\ (K!IsAdmin(K!Fresh(admin, expires)) <=> admin)
  <2>1. K!Fresh(admin, expires) \in K!Records
    BY DEF K!Fresh, K!Records
  <2>2. K!Fresh(admin, expires) # NoKey
    BY <2>1
  <2>3. K!Fresh(admin, expires).admin = admin /\ K!Fresh(admin, expires).revoked = FALSE
    BY DEF K!Fresh
  <2> QED
    BY <2>1, <2>2, <2>3 DEF K!IsAdmin
<1> QED
    BY <1>1, <1>2, <1>3

(* Initially there is nothing at all.                                      *)
LEMMA KInit == K!Init => KInv
<1> SUFFICES ASSUME K!Init PROVE KInv
    OBVIOUS
<1> USE DEF K!Init
<1>1. K!TypeOK
  <2>1. promise \in [ApiKeys -> K!Entries \cup {Unsure}]
    BY Stores
  <2>2. /\ saved \in [ApiKeys -> K!Entries] /\ mem \in [ApiKeys -> K!Entries]
        /\ verifier \in [Verifiers -> [key : ApiKeys \cup {NoKey}, was : K!Entries]]
    BY Stores
  <2>3. hour \in 0..KeyTime
    OBVIOUS
  <2> QED
    BY <2>1, <2>2, <2>3 DEF K!TypeOK, K!Servers
<1>2. K!AcknowledgedHolds /\ StartInv /\ UsedInv /\ AdminInv /\ RootInv
    BY Stores DEF K!AcknowledgedHolds, StartInv, UsedInv, AdminInv, RootInv, K!Empty
<1> QED
    BY <1>1, <1>2 DEF KInv

-----------------------------------------------------------------------------
(* Steps that change the records. Whatever becomes of the save, it is      *)
(* enough that memory keeps an admin key and that keys are generated.      *)

LEMMA ChangedKeeps ==
    ASSUME KInv, NEW s \in [ApiKeys -> K!Entries], NEW touched \in SUBSET ApiKeys, NEW ok \in BOOLEAN,
           K!Changed(s, touched, ok),
           \A k \in ApiKeys \ touched : s[k] = mem[k],
           K!Admins(mem) # {} => K!Admins(s) # {},
           used' \subseteq ApiKeys, used \subseteq used',
           \A k \in ApiKeys : s[k] # NoKey => k \in used'
    PROVE  KInv' /\ AdminStep
<1> USE DEF KInv, K!Changed, K!Save
<1>1. K!TypeOK'
    BY DEF K!TypeOK
<1>2. K!AcknowledgedHolds'
    BY DEF K!AcknowledgedHolds, StartInv, K!TypeOK
<1>3. StartInv'
    BY DEF StartInv
<1>4. UsedInv'
    BY DEF UsedInv
<1>5. AdminInv'
    BY DEF AdminInv, K!Admins
<1>6. K!Admins(saved) # {} => K!Admins(saved') # {}
    BY DEF AdminInv
<1>7. RootInv'
    BY <1>6 DEF RootInv, StartInv, K!Admins
<1> QED
    BY <1>1, <1>2, <1>3, <1>4, <1>5, <1>6, <1>7 DEF AdminStep

(* A store in which one record has been changed.                           *)
LEMMA OneChanged ==
    ASSUME K!TypeOK, NEW k \in ApiKeys, NEW e \in K!Entries
    PROVE  LET s == [mem EXCEPT ![k] = e]
           IN  /\ s \in [ApiKeys -> K!Entries] /\ s[k] = e
               /\ \A j \in ApiKeys \ {k} : s[j] = mem[j]
BY DEF K!TypeOK

(* A new key.                                                              *)
LEMMA IssueKeeps ==
    ASSUME KInv, NEW k \in ApiKeys, NEW admin \in BOOLEAN, NEW ok \in BOOLEAN, K!Issue(k, admin, ok)
    PROVE  KInv' /\ AdminStep
<1>1. PICK expires \in {Never} \cup hour..(hour + MaxGrace) :
          K!Changed([mem EXCEPT ![k] = K!Fresh(admin, expires)], {k}, ok)
    BY DEF K!Issue
<1> DEFINE s == [mem EXCEPT ![k] = K!Fresh(admin, expires)]
<1>2. hour \in 0..KeyTime /\ used \subseteq ApiKeys
    BY DEF KInv, K!TypeOK
<1>3. expires \in K!Times \cup {Never}
    BY <1>2 DEF K!Times
<1>4. K!Fresh(admin, expires) \in K!Entries
    BY <1>3, Stores DEF K!Entries
<1>5. s \in [ApiKeys -> K!Entries] /\ \A j \in ApiKeys \ {k} : s[j] = mem[j]
    BY <1>4, OneChanged DEF KInv
<1>6. k \notin used /\ used' = used \cup {k}
    BY DEF K!Issue
<1>7. \A j \in ApiKeys : mem[j] # NoKey => j \in used
    BY DEF KInv, UsedInv
<1>8. K!Admins(mem) # {} => K!Admins(s) # {}
    BY <1>5, <1>6, <1>7 DEF K!Admins, K!IsAdmin
<1>9. \A j \in ApiKeys : s[j] # NoKey => j \in used'
    BY <1>5, <1>6, <1>7
<1>10. K!Changed(s, {k}, ok)
    BY <1>1
<1> HIDE DEF s
<1> QED
    BY <1>2, <1>5, <1>6, <1>8, <1>9, <1>10, ChangedKeeps

(* A key that goes is not the last admin key.                              *)
LEMMA RevokeKeeps ==
    ASSUME KInv, NEW k \in ApiKeys, NEW ok \in BOOLEAN, K!Revoke(k, ok) \/ K!Delete(k, ok)
    PROVE  KInv' /\ AdminStep
<1>1. mem \in [ApiKeys -> K!Entries] /\ used \subseteq ApiKeys
    BY DEF KInv, K!TypeOK
<1>2. K!MayGo(k) /\ used' = used
    BY DEF K!Revoke, K!Delete
<1>3. mem[k] \in K!Records
    BY <1>1, <1>2 DEF K!MayGo, K!Entries
<1>4. PICK e \in K!Entries : K!Changed([mem EXCEPT ![k] = e], {k}, ok) /\ ~K!IsAdmin(e)
  <2>1. CASE K!Revoke(k, ok)
    <3> DEFINE e == [mem[k] EXCEPT !.revoked = TRUE]
    <3>1. e \in K!Records /\ e.revoked
      BY <1>3 DEF K!Records
    <3>2. K!Changed([mem EXCEPT ![k] = e], {k}, ok)
      BY <2>1 DEF K!Revoke
    <3> HIDE DEF e
    <3> QED
      BY <3>1, <3>2 DEF K!Entries, K!IsAdmin
  <2>2. CASE K!Delete(k, ok)
    BY <2>2 DEF K!Delete, K!Entries, K!IsAdmin
  <2> QED
    BY <2>1, <2>2
<1> DEFINE s == [mem EXCEPT ![k] = e]
<1>5. s \in [ApiKeys -> K!Entries] /\ \A j \in ApiKeys \ {k} : s[j] = mem[j]
    BY OneChanged DEF KInv
<1>6. K!Admins(mem) # {} => K!Admins(s) # {}
    BY <1>2, <1>5 DEF K!MayGo, K!Admins
<1>7. \A j \in ApiKeys : s[j] # NoKey => j \in used'
    BY <1>2, <1>5 DEF K!MayGo, KInv, UsedInv
<1>8. K!Changed(s, {k}, ok)
    BY <1>4
<1> HIDE DEF s
<1> QED
    BY <1>1, <1>2, <1>5, <1>6, <1>7, <1>8, ChangedKeeps

(* A rotated admin key leaves its successor.                               *)
LEMMA RotateKeeps ==
    ASSUME KInv, NEW k \in ApiKeys, NEW new \in ApiKeys, NEW ok \in BOOLEAN, K!Rotate(k, new, ok)
    PROVE  KInv' /\ AdminStep
<1>1. mem \in [ApiKeys -> K!Entries] /\ used \subseteq ApiKeys /\ hour \in 0..KeyTime
    BY DEF KInv, K!TypeOK
<1>2. mem[k] # NoKey /\ new \notin used /\ used' = used \cup {new}
    BY DEF K!Rotate
<1>3. \A j \in ApiKeys : mem[j] # NoKey => j \in used
    BY DEF KInv, UsedInv
<1>4. mem[k] \in K!Records
    BY <1>1, <1>2 DEF K!Entries
<1> DEFINE n == K!Fresh(mem[k].admin, Never)
<1>5. n \in K!Records /\ (K!IsAdmin(n) <=> mem[k].admin)
  <2>1. mem[k].admin \in BOOLEAN
    BY <1>4 DEF K!Records
  <2> QED
    BY <2>1, Stores
<1>6. PICK old \in K!Records :
          K!Changed([mem EXCEPT ![new] = n, ![k] = old], {k, new}, ok)
  <2>1. PICK grace \in 0..MaxGrace :
            LET old == IF grace = 0 THEN [mem[k] EXCEPT !.revoked = TRUE]
                                    ELSE [mem[k] EXCEPT !.expires = hour + grace]
            IN  K!Changed([mem EXCEPT ![new] = n, ![k] = old], {k, new}, ok)
    BY DEF K!Rotate
  <2>2. hour + grace \in K!Times
    BY <1>1 DEF K!Times
  <2>3. [mem[k] EXCEPT !.revoked = TRUE] \in K!Records
        /\ [mem[k] EXCEPT !.expires = hour + grace] \in K!Records
    BY <1>4, <2>2 DEF K!Records
  <2> QED
    BY <2>1, <2>3
<1> HIDE DEF n
<1> DEFINE s == [mem EXCEPT ![new] = n, ![k] = old]
<1>7. s \in [ApiKeys -> K!Entries] /\ s[new] = n /\ \A j \in ApiKeys \ {k, new} : s[j] = mem[j]
    BY <1>1, <1>2, <1>3, <1>5 DEF K!Entries
<1>8. K!Admins(mem) # {} => K!Admins(s) # {}
  <2> SUFFICES ASSUME NEW j \in ApiKeys, K!IsAdmin(mem[j]) PROVE \E i \in ApiKeys : K!IsAdmin(s[i])
    BY DEF K!Admins
  <2>1. CASE j = k
    BY <1>5, <1>7, <2>1 DEF K!IsAdmin
  <2>2. CASE j # k
    <3>1. j # new
      BY <1>2, <1>3 DEF K!IsAdmin
    <3> QED
      BY <1>7, <2>2, <3>1
  <2> QED
    BY <2>1, <2>2
<1>9. \A j \in ApiKeys : s[j] # NoKey => j \in used'
    BY <1>2, <1>3, <1>7
<1>10. K!Changed(s, {k, new}, ok)
    BY <1>6
<1> HIDE DEF s
<1> QED
    BY <1>1, <1>2, <1>7, <1>8, <1>9, <1>10, ChangedKeeps

(* Saving a last use saves all there is in memory.                         *)
LEMMA TouchKeeps ==
    ASSUME KInv, NEW v \in Verifiers, NEW ok \in BOOLEAN, K!Touch(v, ok)
    PROVE  KInv' /\ AdminStep
<1> USE DEF KInv
<1>1. UNCHANGED <<chance, server, refusal, bootFile, mem, recent, hour, used, printed, promise>>
      /\ server = "up"
    BY DEF K!Touch
<1>2. keysFile /\ keysFile'
    BY <1>1 DEF K!Touch, K!Save, StartInv
<1>3. saved' = saved \/ saved' = mem
    BY DEF K!Touch, K!Save
<1>4. verifier' \in [Verifiers -> [key : ApiKeys \cup {NoKey}, was : K!Entries]]
    BY DEF K!Touch, K!TypeOK, K!Entries
<1>5. K!TypeOK'
    BY <1>1, <1>2, <1>3, <1>4 DEF K!TypeOK
<1>6. K!AcknowledgedHolds' /\ StartInv' /\ UsedInv' /\ AdminInv' /\ RootInv'
    BY <1>1, <1>2, <1>3 DEF K!AcknowledgedHolds, StartInv, UsedInv, AdminInv, RootInv, K!Admins
<1> QED
    BY <1>1, <1>2, <1>3, <1>5, <1>6 DEF AdminStep, AdminInv

-----------------------------------------------------------------------------
(* The start.                                                              *)
LEMMA StartKeeps ==
    ASSUME KInv, K!Start \/ K!EnsureBootstrap \/ K!WriteBootstrap
    PROVE  KInv' /\ AdminStep
<1> USE DEF KInv, K!Refuse
<1>1. UNCHANGED <<chance, keysFile, saved, mem, recent, verifier, hour>> /\ server # "up" /\ server' # "up"
    BY DEF K!Start, K!EnsureBootstrap, K!WriteBootstrap
<1>2. CASE K!Start
  <2>1. K!TypeOK'
    BY <1>1, <1>2 DEF K!Start, K!TypeOK, K!Servers
  <2>2. K!AcknowledgedHolds' /\ StartInv' /\ UsedInv' /\ AdminInv' /\ RootInv'
    BY <1>1, <1>2 DEF K!Start, K!AcknowledgedHolds, StartInv, UsedInv, AdminInv, RootInv
  <2> QED
    BY <1>1, <2>1, <2>2 DEF AdminStep
<1>3. CASE K!EnsureBootstrap
  <2>1. K!TypeOK'
    BY <1>1, <1>3 DEF K!EnsureBootstrap, K!TypeOK, K!Servers
  <2>2. K!AcknowledgedHolds' /\ StartInv' /\ UsedInv' /\ AdminInv'
    BY <1>1, <1>3 DEF K!EnsureBootstrap, K!AcknowledgedHolds, StartInv, UsedInv, AdminInv
  <2>3. RootInv'
    BY <1>1, <1>3 DEF K!EnsureBootstrap, RootInv, K!TypeOK, K!HasActive, K!Admins, K!IsAdmin
  <2> QED
    BY <1>1, <2>1, <2>2, <2>3 DEF AdminStep
<1>4. CASE K!WriteBootstrap
  <2>1. CASE refusal' = "io" /\ server' = "refused" /\ UNCHANGED <<bootFile, used, printed, promise>>
    <3>1. K!TypeOK'
      BY <1>1, <2>1 DEF K!TypeOK, K!Servers
    <3> QED
      BY <1>1, <2>1, <3>1 DEF K!AcknowledgedHolds, StartInv, UsedInv, AdminInv, RootInv, AdminStep
  <2>2. ASSUME NEW k \in ApiKeys \ used,
               bootFile' = k, used' = used \cup {k}, printed' = k,
               promise' = [promise EXCEPT ![k] = K!Fresh(TRUE, Never)],
               server' = "load", UNCHANGED refusal, ~keysFile
        PROVE  KInv' /\ AdminStep
    <3>4. refusal = "none"
      BY <1>4 DEF StartInv, K!WriteBootstrap
    <3>1. promise' \in [ApiKeys -> K!Entries \cup {Unsure}]
      BY <2>2, Stores DEF K!TypeOK, K!Entries
    <3>2. K!TypeOK'
      BY <1>1, <2>2, <3>1 DEF K!TypeOK, K!Servers
    <3>3. K!AcknowledgedHolds' /\ AdminInv' /\ AdminStep
      BY <1>1, <2>2 DEF K!AcknowledgedHolds, AdminInv, AdminStep
    <3>5. StartInv' /\ UsedInv'
      BY <1>1, <2>2, <3>4 DEF StartInv, UsedInv, K!TypeOK
    <3> QED
      BY <1>1, <2>2, <3>2, <3>3, <3>4, <3>5 DEF RootInv
  <2> QED
    BY <1>4, <2>1, <2>2 DEF K!WriteBootstrap, StartInv
<1> QED
    BY <1>2, <1>3, <1>4

(* The records are read, or begun with the root key.                       *)
LEMMA LoadKeeps ==
    ASSUME KInv, K!Load
    PROVE  KInv' /\ AdminStep
<1> USE DEF KInv, K!Load, K!Refuse, K!Save
<1>1. /\ K!Registered \in [ApiKeys -> K!Entries]
      /\ \A k \in ApiKeys : K!Registered[k] # NoKey => bootFile = k
      /\ bootFile \in ApiKeys => bootFile \in K!Admins(K!Registered)
    BY Stores DEF K!Registered, K!Empty, K!Entries, K!Admins, K!IsAdmin
<1>2. K!SaveOutcomes \subseteq BOOLEAN
    BY DEF K!SaveOutcomes
<1>3. K!TypeOK'
    BY <1>1, <1>2 DEF K!TypeOK, K!Servers
<1>4. K!AcknowledgedHolds' /\ StartInv' /\ UsedInv' /\ AdminInv'
    BY <1>1, <1>2 DEF K!AcknowledgedHolds, StartInv, UsedInv, AdminInv, K!TypeOK
<1>5. RootInv'
  <2> SUFFICES ASSUME printed' # NoKey PROVE RootInv'
    BY DEF RootInv
  <2>1. printed' = printed /\ bootFile' = bootFile /\ printed \in ApiKeys
    BY DEF K!TypeOK
  <2>2. refusal' # "noActiveKey"
    BY <2>1 DEF RootInv
  <2>3. IF keysFile' THEN K!Admins(saved') # {} ELSE bootFile = printed
    <3>1. CASE keysFile
      BY <2>1, <3>1 DEF RootInv
    <3>2. CASE ~keysFile
      <4>1. bootFile = printed
        BY <2>1, <3>2 DEF RootInv
      <4>2. PICK ok \in K!SaveOutcomes : K!Save(K!Registered, ok)
        BY ONLY K!Load, <3>2 DEF K!Load
      <4>3. CASE ok
        <5>1. saved' = K!Registered
          BY <4>2, <4>3
        <5>2. printed \in K!Admins(K!Registered)
          BY ONLY <1>1, <2>1, <4>1
        <5> QED
          BY ONLY <5>1, <5>2, <4>1
      <4>4. CASE ~ok
        BY <3>2, <4>1, <4>2, <4>4
      <4> QED
        BY <4>3, <4>4
    <3> QED
      BY <3>1, <3>2
  <2> QED
    BY <2>1, <2>2, <2>3 DEF RootInv, K!Admins
<1>6. AdminStep
    BY <1>1, <1>2, Stores DEF AdminStep, StartInv
<1> QED
    BY <1>3, <1>4, <1>5, <1>6

(* Requests and the world outside.                                         *)
LEMMA RestKeeps ==
    ASSUME KInv, (\E v \in Verifiers, k \in ApiKeys : K!Verify(v, k)) \/ K!Crash \/ K!Erase \/ K!Reinit \/ K!Tick
    PROVE  KInv' /\ AdminStep
<1> USE DEF KInv, AdminStep
<1>1. ASSUME NEW v \in Verifiers, NEW k \in ApiKeys, K!Verify(v, k) PROVE KInv' /\ AdminStep
  <2>1. K!TypeOK'
    BY <1>1 DEF K!Verify, K!TypeOK
  <2> QED
    BY <1>1, <2>1 DEF K!Verify, K!AcknowledgedHolds, StartInv, UsedInv, AdminInv, RootInv
<1>2. CASE K!Crash
  <2>1. K!TypeOK'
    BY <1>2, Stores DEF K!Crash, K!TypeOK, K!Servers
  <2> QED
    BY <1>2, <2>1 DEF K!Crash, K!AcknowledgedHolds, StartInv, UsedInv, AdminInv, RootInv, K!Empty
<1>3. CASE K!Erase
    BY <1>3 DEF K!Erase, K!TypeOK, K!AcknowledgedHolds, StartInv, UsedInv, AdminInv, RootInv
<1>4. CASE K!Reinit
  <2>1. K!TypeOK'
    BY <1>4, Stores DEF K!Reinit, K!TypeOK
  <2> QED
    BY <1>4, <2>1 DEF K!Reinit, K!AcknowledgedHolds, StartInv, UsedInv, AdminInv, RootInv, K!Empty
<1>5. CASE K!Tick
  <2>1. K!TypeOK'
    BY <1>5 DEF K!Tick, K!TypeOK
  <2> QED
    BY <1>5, <2>1 DEF K!Tick, K!AcknowledgedHolds, StartInv, UsedInv, AdminInv, RootInv
<1> QED
    BY <1>1, <1>2, <1>3, <1>4, <1>5

-----------------------------------------------------------------------------
(* Every step.                                                             *)
LEMMA KNext == KInv /\ [MCNext]_<<part, vars, http, keystore>> => KInv' /\ (AdminStep \/ UNCHANGED K!vars)
<1> SUFFICES ASSUME KInv, K!Next \/ UNCHANGED K!vars PROVE KInv' /\ (AdminStep \/ UNCHANGED K!vars)
    BY DEF MCNext, keystore, K!vars
<1>1. CASE K!Operation
  <2>1. K!SaveOutcomes \subseteq BOOLEAN
    BY DEF K!SaveOutcomes
  <2> QED
    BY <1>1, <2>1, IssueKeeps, RevokeKeeps, RotateKeeps, TouchKeeps DEF K!Operation
<1>2. CASE UNCHANGED K!vars
    BY <1>2 DEF K!vars, KInv, K!TypeOK, K!AcknowledgedHolds, StartInv, UsedInv, AdminInv, RootInv
<1> QED
    BY <1>1, <1>2, StartKeeps, LoadKeeps, RestKeeps DEF K!Next

(* The inductive invariant holds throughout: every variable keeps its      *)
(* type, and memory is empty while the server is not up (keystore.rs,      *)
(* load_or_create).                                                        *)
THEOREM KeyStoreInvariant == MCSpec => []KInv
<1>1. MCInit => KInv
    BY KInit DEF MCInit
<1>2. KInv /\ [MCNext]_<<part, vars, http, keystore>> => KInv'
    BY KNext
<1> QED
    BY <1>1, <1>2, PTL DEF MCSpec

(* What was acknowledged holds in memory and on disk (keystore.rs, issue,  *)
(* revoke, rotate, delete and touch_last_used).                            *)
THEOREM AcknowledgedAlwaysHolds == MCSpec => []AcknowledgedHolds
<1>1. KInv => AcknowledgedHolds
    BY DEF KInv, AcknowledgedHolds
<1> QED
    BY KeyStoreInvariant, <1>1, PTL

(* The last admin key that is not revoked is never taken away              *)
(* (keystore.rs, revoke, rotate and delete).                               *)
THEOREM AdminAlwaysRemains == MCSpec => AdminRemains
<1>1. KInv /\ [MCNext]_<<part, vars, http, keystore>> => [AdminStep]_(K!vars)
    BY KNext
<1>2. AdminRemains <=> [][AdminStep]_(K!vars)
    BY DEF AdminRemains, K!AdminRemains, AdminStep
<1> QED
    BY KeyStoreInvariant, <1>1, <1>2, PTL DEF MCSpec

(* The root key that was shown leaves an admin key behind, and the server  *)
(* can always start again (bootstrap.rs).                                  *)
THEOREM BannerAlwaysHolds == MCSpec => []BannerHolds
<1>1. KInv => BannerHolds
    BY DEF KInv, BannerHolds, K!BannerHolds, StartInv, AdminInv, RootInv
<1> QED
    BY KeyStoreInvariant, <1>1, PTL
=============================================================================
