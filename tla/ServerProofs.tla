------------------------------ MODULE ServerProofs ------------------------------
(***************************************************************************)
(* Proofs about the three parts of Server, for every value of their        *)
(* constants: any starts and configurations of the process, any terminals, *)
(* names, sessions and requests, any retention of the audit trail.         *)
(***************************************************************************)
EXTENDS Server, TLAPS, SequenceTheorems, FiniteSetTheorems, WellFoundedInduction

(***************************************************************************)
(* ServerLifecycle. The end of the process: what the writers still hold.   *)
(***************************************************************************)
StopInv ==
    /\ store \in [L!Stores -> {"open", "shut"}]
    /\ pc \in {"audit", "done"} => store["meta"] = "shut"
    /\ store["meta"] = "shut" => \A p \in queue : L!Writes(p) = "audit"
    /\ pc = "running" /\ ~L!Stdio => http \in {"binding", "serving"}
    /\ ~L!Alive => work = {}

LInv == L!TypeOK /\ StopInv /\ L!ServesGuarded

(* The initial state.                                                      *)
LEMMA LifeInit == L!Init => LInv
<1> SUFFICES ASSUME L!Init PROVE LInv
    OBVIOUS
<1>1. L!TypeOK
    BY LivesAssumption DEF L!Init, L!TypeOK, L!Ports
<1>2. StopInv /\ L!ServesGuarded
    BY DEF L!Init, StopInv, L!Stores, L!Alive, L!ServesGuarded
<1> QED BY <1>1, <1>2 DEF LInv

(* A step of the process itself.                                           *)
LEMMA ProcessKeeps == LInv /\ L!Process => LInv'
<1> SUFFICES ASSUME LInv, L!Process PROVE L!TypeOK' /\ StopInv' /\ L!ServesGuarded'
    BY DEF LInv
<1> USE DEF LInv, L!TypeOK, StopInv, L!Stores, L!Ports, L!Alive, L!ServesGuarded, L!boot, L!gateways, L!asked, L!writers,
            L!Stdio, L!Running, L!Writes, L!Old
<1>1. CASE L!Survey
    BY <1>1 DEF L!Survey
<1>2. CASE L!Migrate
    BY <1>2 DEF L!Migrate
<1>3. CASE L!Migrated
    BY <1>3 DEF L!Migrated
<1>4. CASE L!Bootstrap
    BY <1>4 DEF L!Bootstrap
<1>5. CASE L!Gates
    BY <1>5, LivesAssumption DEF L!Gates, L!LegacyRefused, L!BootRefused, L!HasCredentials
<1>6. CASE L!BindHttp
    BY <1>6, LivesAssumption DEF L!BindHttp, L!TriesLeft, L!HasCredentials
<1>7. CASE L!BindWs
    BY <1>7, LivesAssumption DEF L!BindWs, L!TriesLeft, L!HasCredentials
<1>8. CASE L!StopGateway
    BY <1>8 DEF L!StopGateway, L!HasCredentials
<1>9. CASE L!Drained
    BY <1>9 DEF L!Drained, L!HasCredentials
<1>10. CASE L!Join
    BY <1>10 DEF L!Join, L!HasCredentials
<1>11. CASE L!ShutMeta
    BY <1>11 DEF L!ShutMeta, L!Kept, L!HasCredentials
<1>12. CASE L!ShutAudit
    BY <1>12 DEF L!ShutAudit, L!Kept, L!HasCredentials
<1>13. CASE L!Exit
    BY <1>13 DEF L!Exit, L!Kept, L!HasCredentials
<1> QED BY <1>1, <1>2, <1>3, <1>4, <1>5, <1>6, <1>7, <1>8, <1>9, <1>10, <1>11, <1>12, <1>13 DEF L!Process

(* Every step of the life of a server.                                     *)
LEMMA LifeKeeps == LInv /\ L!Next => LInv'
<1> SUFFICES ASSUME LInv, L!Next PROVE L!TypeOK' /\ StopInv' /\ L!ServesGuarded'
    BY DEF LInv
<1>0. CASE L!Process
    BY <1>0, ProcessKeeps DEF LInv
<1> USE DEF LInv, L!TypeOK, StopInv, L!Stores, L!Ports, L!Alive, L!ServesGuarded, L!boot, L!gateways, L!asked, L!writers,
            L!Stdio, L!Running, L!Writes, L!Old, L!HasCredentials
<1>1. CASE L!Start
    BY <1>1 DEF L!Start
<1>2. CASE L!Interrupt \/ L!RemoveLegacy
    BY <1>2 DEF L!Interrupt, L!RemoveLegacy
<1>3. CASE L!Signal
    BY <1>3 DEF L!Signal
<1>4. CASE L!Quit \/ L!CloseInput
    BY <1>4 DEF L!Quit, L!CloseInput
<1>5. ASSUME NEW p \in L!Ports, L!Release(p) PROVE L!TypeOK' /\ StopInv' /\ L!ServesGuarded'
    BY <1>5 DEF L!Release
<1>6. ASSUME NEW p \in run.agents \cup run.requests, L!Arrive(p) PROVE L!TypeOK' /\ StopInv' /\ L!ServesGuarded'
    BY <1>6 DEF L!Arrive
<1>7. ASSUME NEW p \in run.agents \cup run.requests, L!Record(p) PROVE L!TypeOK' /\ StopInv' /\ L!ServesGuarded'
    BY <1>7 DEF L!Record
<1>8. ASSUME NEW p \in run.agents \cup run.requests, L!Finish(p) PROVE L!TypeOK' /\ StopInv' /\ L!ServesGuarded'
    BY <1>8 DEF L!Finish
<1>9. ASSUME NEW p \in run.agents \cup run.requests, L!Persist(p) PROVE L!TypeOK' /\ StopInv' /\ L!ServesGuarded'
    BY <1>9 DEF L!Persist
<1> QED BY <1>0, <1>1, <1>2, <1>3, <1>4, <1>5, <1>6, <1>7, <1>8, <1>9 DEF L!Next

(* A part that stands still.                                               *)
LEMMA LifeStill == LInv /\ UNCHANGED lifecycle => LInv'
BY DEF LInv, lifecycle, L!TypeOK, StopInv, L!Stores, L!Ports, L!Alive, L!ServesGuarded, L!Stdio, L!Writes, L!Old, L!HasCredentials

(* The invariant of the life of a server.                                  *)
THEOREM LifeHolds == MCSpec => []LInv
<1>1. MCInit => LInv
    BY LifeInit DEF MCInit
<1>2. LInv /\ [MCNext]_<<part, vars, lifecycle, dispatch>> => LInv'
    BY LifeKeeps, LifeStill DEF MCNext
<1> QED BY <1>1, <1>2, PTL DEF MCSpec

(* No open listener is left unguarded.                                     *)
THEOREM AlwaysGuarded == MCSpec => []ServesGuarded
<1>1. LInv => ServesGuarded
    BY DEF LInv, ServesGuarded
<1> QED BY <1>1, LifeHolds, PTL

(* What was accepted is in the queue or on disk after a step.              *)
Safe == L!Alive /\ (L!Stdio \/ http # "binding") =>
          \A p \in queue : p \in queue' \cup disk' \/ (L!Writes(p) = "meta" /\ L!Has("diskfull"))

(* It is so after every step of the life of a server.                      *)
LEMMA SafeStep == LInv /\ L!Next => Safe
<1> SUFFICES ASSUME LInv, L!Next, L!Alive, L!Stdio \/ http # "binding", NEW p \in queue
             PROVE  p \in queue' \cup disk' \/ (L!Writes(p) = "meta" /\ L!Has("diskfull"))
    BY DEF Safe
<1>1. CASE UNCHANGED queue
    BY <1>1
<1>2. L!Writes(p) \in {"meta", "audit"}
    BY DEF L!Writes
<1>3. CASE L!ShutMeta
    BY <1>2, <1>3 DEF L!ShutMeta, L!Kept
<1>4. CASE L!ShutAudit
    BY <1>2, <1>4 DEF L!ShutAudit, L!Kept, LInv, StopInv
<1>5. CASE L!Exit
    BY <1>2, <1>5 DEF L!Exit, L!Kept, LInv, StopInv
<1>6. CASE L!Signal
    BY <1>6 DEF L!Signal, LInv, StopInv, L!Running
<1>7. ASSUME NEW q \in run.agents \cup run.requests, L!Record(q) \/ L!Persist(q)
      PROVE  p \in queue' \cup disk'
    BY <1>7 DEF L!Record, L!Persist
<1>8. ASSUME L!Process, ~L!ShutMeta, ~L!ShutAudit, ~L!Exit PROVE UNCHANGED queue
    BY <1>8 DEF L!Process, L!Survey, L!Migrate, L!Migrated, L!Bootstrap, L!Gates, L!BindHttp, L!BindWs, L!StopGateway, L!Drained, L!Join, L!writers
<1>9. CASE L!Start
    BY <1>9 DEF L!Start, L!Alive
<1>10. CASE L!Interrupt \/ L!RemoveLegacy \/ L!Quit \/ L!CloseInput
    BY <1>1, <1>10 DEF L!Interrupt, L!RemoveLegacy, L!Quit, L!CloseInput, L!writers
<1>11. ASSUME NEW q \in L!Ports, L!Release(q) PROVE UNCHANGED queue
    BY <1>11 DEF L!Release, L!writers
<1>12. ASSUME NEW q \in run.agents \cup run.requests, L!Arrive(q) \/ L!Finish(q) PROVE UNCHANGED queue
    BY <1>12 DEF L!Arrive, L!Finish, L!writers
<1> QED BY <1>1, <1>3, <1>4, <1>5, <1>6, <1>7, <1>8, <1>9, <1>10, <1>11, <1>12 DEF L!Next

(* What was accepted is written before the process is gone.                *)
THEOREM AcceptedIsKept == MCSpec => AcceptedKept
<1>1. LInv /\ [MCNext]_<<part, vars, lifecycle, dispatch>> => [Safe]_lifecycle
    BY SafeStep DEF MCNext
<1>2. [Safe]_lifecycle => [Safe]_(L!vars)
    BY DEF lifecycle, L!vars
<1> QED BY <1>1, <1>2, LifeHolds, PTL DEF MCSpec, AcceptedKept, L!AcceptedKept, Safe

-----------------------------------------------------------------------------
(***************************************************************************)
(* ServerLifecycle. The migration: which credentials have keys, which keys *)
(* were shown, and what is left to migrate.                                *)
(***************************************************************************)
Olds      == 1..Len(run.legacy)
Titles    == {"viewer", "operator", "admin", "agent", "root"}
Made      == [of : Olds \cup {0}, name : Titles, shown : BOOLEAN]
Single(s) == \A j, k \in 1..Len(s) : s[j].of = s[k].of => j = k
Issued(s) == {k.of : k \in L!Range(s)}
Covered   == \A i \in Olds : L!NameTaken(i) /\ (L!HasKey(i) \/ i \in missed)
Reading   == pc = "migrate" /\ L!Old # <<>>

MoveTypes ==
    /\ run.legacy \in Seq(Titles \ {"root"}) /\ legacy \in {run.legacy, <<>>}
    /\ keys \in Seq(Made) /\ unsaved \in Seq(Made)
    /\ \A k \in L!Range(keys) \cup L!Range(unsaved) : k.of \in Olds => k.name = run.legacy[k.of]
MoveInv ==
    /\ Single(keys) /\ Single(unsaved) /\ Issued(keys) \cap Issued(unsaved) = {}
    /\ pc # "migrate" => unsaved = <<>>
    /\ legacy # run.legacy => Covered
    /\ told = "clean" => Covered
    /\ ~Reading => \A i \in Olds \ missed : L!NameTaken(i) => L!HasKey(i)
    /\ Reading  => \A i \in Olds \ missed : (i \in todo => run.legacy[i] \in seen) => L!HasKey(i)
MidInv == pc = "migrate" =>
    /\ todo \subseteq Olds /\ (L!Old = <<>> => todo = {})
    /\ seen \subseteq L!NamesOf(keys)
    /\ Issued(unsaved) \cap todo = {}
    /\ \A i \in todo : run.legacy[i] \notin seen => i \notin Issued(keys)
    /\ told # "failures" /\ L!Source(cmd) = "good" => \A i \in Olds : L!NameTaken(i) \/ i \in todo
Moving == MoveTypes /\ MoveInv /\ MidInv

(* What an append does to the keys,                                        *)
LEMMA KeyAppend ==
    ASSUME NEW S, NEW s \in Seq(S), NEW x \in S, Single(s), x.of \notin Issued(s)
    PROVE  /\ Append(s, x) \in Seq(S) /\ L!Range(Append(s, x)) = L!Range(s) \cup {x}
           /\ Single(Append(s, x)) /\ Issued(Append(s, x)) = Issued(s) \cup {x.of}
<1> DEFINE t == Append(s, x)
<1>1. /\ t \in Seq(S) /\ Len(t) = Len(s) + 1 /\ Len(s) \in Nat /\ t[Len(s) + 1] = x
      /\ \A i \in 1..Len(s) : t[i] = s[i]
    OBVIOUS
<1> HIDE DEF t
<1>2. L!Range(t) = L!Range(s) \cup {x}
    BY <1>1 DEF L!Range
<1>3. \A i \in 1..Len(s) : s[i].of # x.of
    BY DEF Issued, L!Range
<1>4. Single(t)
  <2> SUFFICES ASSUME NEW j \in 1..Len(t), NEW k \in 1..Len(t), t[j].of = t[k].of PROVE j = k
      BY DEF Single
  <2> QED BY <1>1, <1>3 DEF Single
<1>5. Issued(t) = Issued(s) \cup {x.of}
    BY <1>2 DEF Issued
<1> QED BY <1>1, <1>2, <1>4, <1>5 DEF t

(* and what the save of two lists does.                                    *)
LEMMA KeyConcat ==
    ASSUME NEW S, NEW s \in Seq(S), NEW u \in Seq(S), Single(s), Single(u), Issued(s) \cap Issued(u) = {}
    PROVE  /\ s \o u \in Seq(S) /\ L!Range(s \o u) = L!Range(s) \cup L!Range(u)
           /\ Single(s \o u) /\ Issued(s \o u) = Issued(s) \cup Issued(u)
<1> DEFINE t == s \o u
<1>1. /\ t \in Seq(S) /\ Len(t) = Len(s) + Len(u) /\ Len(s) \in Nat /\ Len(u) \in Nat
      /\ \A i \in 1..Len(t) : t[i] = IF i <= Len(s) THEN s[i] ELSE u[i - Len(s)]
    OBVIOUS
<1> HIDE DEF t
<1>2. L!Range(t) = L!Range(s) \cup L!Range(u)
  <2>1. L!Range(t) \subseteq L!Range(s) \cup L!Range(u)
    <3> SUFFICES ASSUME NEW i \in 1..Len(t) PROVE t[i] \in L!Range(s) \cup L!Range(u)
        BY DEF L!Range
    <3>1. i <= Len(s) => i \in 1..Len(s)
        BY <1>1
    <3>2. ~(i <= Len(s)) => i - Len(s) \in 1..Len(u)
        BY <1>1
    <3> QED BY <1>1, <3>1, <3>2 DEF L!Range
  <2>2. L!Range(s) \subseteq L!Range(t)
    <3> SUFFICES ASSUME NEW i \in 1..Len(s) PROVE s[i] \in L!Range(t)
        BY DEF L!Range
    <3>1. i \in 1..Len(t) /\ t[i] = s[i]
        BY <1>1
    <3> QED BY <3>1 DEF L!Range
  <2>3. L!Range(u) \subseteq L!Range(t)
    <3> SUFFICES ASSUME NEW i \in 1..Len(u) PROVE u[i] \in L!Range(t)
        BY DEF L!Range
    <3> DEFINE j == i + Len(s)
    <3>1. j \in 1..Len(t) /\ ~(j <= Len(s)) /\ j - Len(s) = i
        BY <1>1
    <3> HIDE DEF j
    <3>2. t[j] = u[i]
        BY <1>1, <3>1
    <3> QED BY <3>1, <3>2 DEF L!Range
  <2> QED BY <2>1, <2>2, <2>3
<1>3. \A i \in 1..Len(s), k \in 1..Len(u) : s[i].of # u[k].of
    BY DEF Issued, L!Range
<1>4. Single(t)
  <2> SUFFICES ASSUME NEW j \in 1..Len(t), NEW k \in 1..Len(t), t[j].of = t[k].of PROVE j = k
      BY DEF Single
  <2>1. CASE j <= Len(s) /\ k <= Len(s)
      BY <1>1, <2>1 DEF Single
  <2>2. CASE ~(j <= Len(s)) /\ ~(k <= Len(s))
    <3>1. j - Len(s) \in 1..Len(u) /\ k - Len(s) \in 1..Len(u) /\ t[j] = u[j - Len(s)] /\ t[k] = u[k - Len(s)]
        BY <1>1, <2>2
    <3>2. j - Len(s) = k - Len(s)
        BY <3>1 DEF Single
    <3> QED BY <1>1, <3>2
  <2>3. CASE j <= Len(s) /\ ~(k <= Len(s))
    <3>1. j \in 1..Len(s) /\ k - Len(s) \in 1..Len(u) /\ t[j] = s[j] /\ t[k] = u[k - Len(s)]
        BY <1>1, <2>3
    <3> QED BY <1>3, <3>1
  <2>4. CASE ~(j <= Len(s)) /\ k <= Len(s)
    <3>1. k \in 1..Len(s) /\ j - Len(s) \in 1..Len(u) /\ t[k] = s[k] /\ t[j] = u[j - Len(s)]
        BY <1>1, <2>4
    <3> QED BY <1>3, <3>1
  <2> QED BY <2>1, <2>2, <2>3, <2>4
<1>5. Issued(t) = Issued(s) \cup Issued(u)
    BY <1>2 DEF Issued
<1> QED BY <1>1, <1>2, <1>4, <1>5 DEF t

(* No keys, none issued.                                                   *)
LEMMA NoKeys == L!Range(<<>>) = {} /\ Issued(<<>>) = {} /\ Single(<<>>) /\ L!NamesOf(<<>>) = {} /\ \A S : <<>> \in Seq(S)
<1>1. L!Range(<<>>) = {}
    BY DEF L!Range
<1> QED BY <1>1 DEF Issued, Single, L!NamesOf

(* More keys: what was there is there.                                     *)
LEMMA KeysGrow ==
    ASSUME L!Range(keys) \subseteq L!Range(keys'), UNCHANGED run
    PROVE  /\ L!NamesOf(keys) \subseteq L!NamesOf(keys)'
           /\ \A i \in Olds : (L!HasKey(i) => L!HasKey(i)') /\ (L!NameTaken(i) => L!NameTaken(i)')
BY DEF L!NamesOf, L!HasKey, L!NameTaken

(* The initial state.                                                      *)
LEMMA MoveInit == L!Init => Moving
<1> SUFFICES ASSUME L!Init PROVE Moving
    OBVIOUS
<1>1. run.legacy \in Seq({"viewer", "operator", "admin", "agent"}) /\ Titles \ {"root"} = {"viewer", "operator", "admin", "agent"}
    BY LivesAssumption DEF L!Init, Titles
<1>2. MoveTypes
    BY <1>1, NoKeys DEF L!Init, MoveTypes
<1>3. MidInv /\ ~Reading
    BY DEF L!Init, MidInv, Reading
<1>4. \A i \in Olds : ~L!NameTaken(i)
    BY NoKeys DEF L!Init, L!NameTaken
<1> QED BY <1>2, <1>3, <1>4, NoKeys DEF L!Init, MoveInv, Moving

(* The steps in which neither keys nor credentials change.                 *)
LEMMA MoveRests ==
    ASSUME Moving, UNCHANGED <<run, legacy, keys, unsaved, missed>>, told' \in {told, "nothing"},
           pc # "migrate", pc' # "migrate"
    PROVE  Moving'
<1>1. UNCHANGED <<Olds, Covered>> /\ ~Reading /\ ~Reading'
    BY DEF Olds, Covered, Reading, L!NameTaken, L!HasKey
<1>2. \A i \in Olds : L!NameTaken(i)' = L!NameTaken(i) /\ L!HasKey(i)' = L!HasKey(i)
    BY DEF L!NameTaken, L!HasKey
<1>3. MoveTypes'
    BY <1>1 DEF Moving, MoveTypes, Made
<1>4. MoveInv'
    BY <1>1, <1>2 DEF Moving, MoveInv
<1>5. MidInv'
    BY DEF MidInv
<1> QED BY <1>3, <1>4, <1>5 DEF Moving

(* A migration begins.                                                     *)
LEMMA MoveSurveys == Moving /\ L!Survey => Moving'
<1> SUFFICES ASSUME Moving, L!Survey PROVE Moving'
    OBVIOUS
<1>1. /\ UNCHANGED <<run, legacy, keys, unsaved, missed, cmd>> /\ todo' = 1..Len(L!Old) /\ seen' = L!NamesOf(keys)
      /\ told' = "nothing" /\ pc' = "migrate" /\ pc = "survey"
    BY DEF L!Survey
<1>2. UNCHANGED <<Olds, Covered, L!Old>> /\ L!Old \in {legacy, <<>>} /\ ~Reading /\ unsaved = <<>>
    BY <1>1 DEF Olds, Covered, Reading, L!NameTaken, L!HasKey, L!Old, L!Source, Moving, MoveInv
<1>3. \A i \in Olds : L!NameTaken(i)' = L!NameTaken(i) /\ L!HasKey(i)' = L!HasKey(i)
    BY <1>1 DEF L!NameTaken, L!HasKey
<1>4. todo' \subseteq Olds /\ (L!Old = <<>> => todo' = {}) /\ (L!Old # <<>> => todo' = Olds /\ L!Old = run.legacy)
    BY <1>1, <1>2 DEF Olds, Moving, MoveTypes
<1>5. MoveTypes'
    BY <1>1, <1>2 DEF Moving, MoveTypes, Made
<1>6. MoveInv'
  <2>1. Reading' => \A i \in Olds \ missed : run.legacy[i] \in seen' => L!HasKey(i)
    BY <1>1, <1>2 DEF Moving, MoveInv, L!NameTaken
  <2>2. Reading' => todo' = Olds
    BY <1>1, <1>2, <1>4 DEF Reading
  <2>3. ~Reading' => \A i \in Olds \ missed : L!NameTaken(i) => L!HasKey(i)
    BY <1>2 DEF Moving, MoveInv
  <2> QED BY <1>1, <1>2, <1>3, <2>1, <2>2, <2>3 DEF Moving, MoveInv
<1>7. MidInv'
  <2>1. \A i \in Olds : i \in Issued(keys) => run.legacy[i] \in L!NamesOf(keys)
    BY DEF Issued, L!NamesOf, Moving, MoveTypes
  <2>2. L!Source(cmd) = "good" => \A i \in Olds : L!NameTaken(i) \/ i \in todo'
    <3>1. CASE legacy = run.legacy
        BY <1>1, <3>1 DEF L!Old, Olds
    <3>2. CASE legacy # run.legacy
        BY <3>2 DEF Moving, MoveInv, Covered
    <3> QED BY <3>1, <3>2
  <2>3. UNCHANGED L!Source(cmd)
    BY <1>1 DEF L!Source
  <2> QED BY <1>1, <1>2, <1>3, <1>4, <2>1, <2>2, <2>3, NoKeys DEF MidInv, L!NamesOf
<1> QED BY <1>5, <1>6, <1>7 DEF Moving

(* One credential is migrated: passed over, given a key, or failed at.     *)
LEMMA MoveMigrates == Moving /\ L!Migrate => Moving'
<1> SUFFICES ASSUME Moving, NEW i \in todo, NEW good \in BOOLEAN,
                    pc = "migrate", todo' = todo \ {i}, UNCHANGED <<run, starts, cmd, pc, cfg, legacy, seen>>,
                    \/ L!Old[i] \in seen /\ UNCHANGED <<keys, unsaved, told, missed>>
                    \/ /\ L!Old[i] \notin seen
                       /\ keys' = Append(keys \o unsaved, L!Key(i, L!Old[i], TRUE)) /\ unsaved' = <<>>
                       /\ UNCHANGED <<told, missed>>
                    \/ /\ L!Old[i] \notin seen
                       /\ unsaved' = Append(unsaved, L!Key(i, L!Old[i], FALSE))
                       /\ told' = "failures" /\ missed' = missed \cup {i} /\ UNCHANGED keys
             PROVE  Moving'
    BY Zenon DEF L!Migrate
<1>1. /\ i \in Olds /\ todo \subseteq Olds /\ L!Old = run.legacy /\ L!Old[i] = run.legacy[i] /\ L!Old # <<>>
      /\ legacy = run.legacy /\ Reading
    BY DEF Moving, MidInv, MoveTypes, L!Old, Reading
<1>2. UNCHANGED <<Olds, L!Old>> /\ Reading' /\ UNCHANGED L!Source(cmd) /\ UNCHANGED Made
    BY <1>1 DEF Olds, L!Old, L!Source, Reading, Made
<1>3. \A shown \in BOOLEAN : /\ L!Key(i, run.legacy[i], shown) \in Made /\ L!Key(i, run.legacy[i], shown).of = i
                            /\ L!Key(i, run.legacy[i], shown).name = run.legacy[i]
                            /\ L!Key(i, run.legacy[i], shown).shown = shown
    BY <1>1 DEF L!Key, Made, Moving, MoveTypes, Olds
<1>4. CASE L!Old[i] \in seen /\ UNCHANGED <<keys, unsaved, told, missed>>
  <2>1. \A j \in Olds : L!NameTaken(j)' = L!NameTaken(j) /\ L!HasKey(j)' = L!HasKey(j)
    BY <1>4 DEF L!NameTaken, L!HasKey
  <2>2. MoveTypes'
    BY <1>2, <1>4 DEF Moving, MoveTypes
  <2>3. L!HasKey(i) \/ i \in missed
    BY <1>1, <1>4 DEF Moving, MoveInv
  <2>4. MoveInv'
    <3>1. UNCHANGED Covered
        BY <1>2, <1>4, <2>1 DEF Covered
    <3>2. \A j \in Olds \ missed : (j \in todo' => run.legacy[j] \in seen) => L!HasKey(j)
        BY <1>1, <1>4, <2>3 DEF Moving, MoveInv
    <3> QED BY <1>1, <1>2, <1>4, <2>1, <3>1, <3>2 DEF Moving, MoveInv
  <2>5. MidInv'
    <3>1. L!NameTaken(i)
        BY <1>1, <1>4 DEF Moving, MidInv, L!NameTaken
    <3> QED BY <1>1, <1>2, <1>4, <2>1, <3>1 DEF Moving, MidInv
  <2> QED BY <2>2, <2>4, <2>5 DEF Moving
<1>5. CASE /\ L!Old[i] \notin seen
           /\ keys' = Append(keys \o unsaved, L!Key(i, L!Old[i], TRUE)) /\ unsaved' = <<>>
           /\ UNCHANGED <<told, missed>>
  <2> DEFINE k == L!Key(i, run.legacy[i], TRUE)
             s == keys \o unsaved
  <2>1. /\ s \in Seq(Made) /\ L!Range(s) = L!Range(keys) \cup L!Range(unsaved)
        /\ Single(s) /\ Issued(s) = Issued(keys) \cup Issued(unsaved)
    BY KeyConcat DEF Moving, MoveTypes, MoveInv
  <2>2. i \notin Issued(s)
    BY <1>1, <1>5, <2>1 DEF Moving, MidInv
  <2>3. k \in Made /\ k.of = i /\ k.name = run.legacy[i] /\ k.shown
    BY <1>3
  <2>4. keys' = Append(s, k)
    BY <1>1, <1>5
  <2> HIDE DEF k, s
  <2>5. /\ keys' \in Seq(Made) /\ L!Range(keys') = L!Range(s) \cup {k}
        /\ Single(keys') /\ Issued(keys') = Issued(s) \cup {i}
    BY <2>1, <2>2, <2>3, <2>4, KeyAppend
  <2>6. L!Range(keys') = L!Range(keys) \cup L!Range(unsaved) \cup {k}
    BY <2>1, <2>5
  <2>7. /\ L!NamesOf(keys) \subseteq L!NamesOf(keys)'
        /\ \A j \in Olds : (L!HasKey(j) => L!HasKey(j)') /\ (L!NameTaken(j) => L!NameTaken(j)')
    BY <2>6, KeysGrow
  <2>8. L!HasKey(i)' /\ L!NameTaken(i)'
    BY <2>3, <2>6 DEF L!HasKey, L!NameTaken, L!NamesOf
  <2>9. MoveTypes'
    BY <1>2, <1>5, <2>3, <2>5, <2>6, NoKeys DEF Moving, MoveTypes
  <2>10. MoveInv'
    <3>1. Covered => Covered'
        BY <1>2, <1>5, <2>7 DEF Covered
    <3>2. \A j \in Olds \ missed : (j \in todo' => run.legacy[j] \in seen) => L!HasKey(j)'
        BY <1>1, <2>7, <2>8 DEF Moving, MoveInv
    <3> QED BY <1>1, <1>2, <1>5, <2>5, <3>1, <3>2, NoKeys DEF Moving, MoveInv
  <2>11. MidInv'
    <3>1. \A j \in todo' : j \notin Issued(s) => j \notin Issued(keys)'
        BY <2>5
    <3>2. \A j \in todo' : run.legacy[j] \notin seen => j \notin Issued(keys)'
        BY <2>1, <3>1 DEF Moving, MidInv
    <3>3. told' # "failures" /\ L!Source(cmd) = "good" => \A j \in Olds : L!NameTaken(j)' \/ j \in todo'
        BY <1>5, <2>7, <2>8 DEF Moving, MidInv
    <3>4. seen \subseteq L!NamesOf(keys)'
        BY <2>7 DEF Moving, MidInv
    <3> QED BY <1>1, <1>2, <1>5, <3>2, <3>3, <3>4, NoKeys DEF Moving, MidInv
  <2> QED BY <2>9, <2>10, <2>11 DEF Moving
<1>6. CASE /\ L!Old[i] \notin seen
           /\ unsaved' = Append(unsaved, L!Key(i, L!Old[i], FALSE))
           /\ told' = "failures" /\ missed' = missed \cup {i} /\ UNCHANGED keys
  <2> DEFINE k == L!Key(i, run.legacy[i], FALSE)
  <2>1. i \notin Issued(keys) /\ i \notin Issued(unsaved)
    BY <1>1, <1>6 DEF Moving, MidInv
  <2>2. k \in Made /\ k.of = i /\ k.name = run.legacy[i]
    BY <1>3
  <2>3. unsaved' = Append(unsaved, k)
    BY <1>1, <1>6
  <2> HIDE DEF k
  <2>4. /\ unsaved' \in Seq(Made) /\ L!Range(unsaved') = L!Range(unsaved) \cup {k}
        /\ Single(unsaved') /\ Issued(unsaved') = Issued(unsaved) \cup {i}
    BY <2>1, <2>2, <2>3, KeyAppend DEF Moving, MoveTypes, MoveInv
  <2>5. \A j \in Olds : L!NameTaken(j)' = L!NameTaken(j) /\ L!HasKey(j)' = L!HasKey(j)
    BY <1>6 DEF L!NameTaken, L!HasKey
  <2>6. MoveTypes'
    BY <1>2, <1>6, <2>2, <2>4 DEF Moving, MoveTypes
  <2>7. MoveInv'
    <3>1. Covered => Covered'
        BY <1>2, <1>6, <2>5 DEF Covered
    <3>2. \A j \in Olds \ missed' : (j \in todo' => run.legacy[j] \in seen) => L!HasKey(j)
        BY <1>1, <1>6 DEF Moving, MoveInv
    <3>3. Issued(keys) \cap Issued(unsaved') = {}
        BY <2>1, <2>4 DEF Moving, MoveInv
    <3> QED BY <1>1, <1>2, <1>6, <2>4, <2>5, <3>1, <3>2, <3>3 DEF Moving, MoveInv
  <2>8. MidInv'
    BY <1>1, <1>2, <1>6, <2>4, <2>5 DEF Moving, MidInv, L!NamesOf
  <2> QED BY <2>6, <2>7, <2>8 DEF Moving
<1> QED BY <1>4, <1>5, <1>6

(* The migration ends, or is cut short.                                    *)
LEMMA MoveEnds == Moving /\ (L!Migrated \/ L!Interrupt) => Moving'
<1> SUFFICES ASSUME Moving, L!Migrated \/ L!Interrupt PROVE Moving'
    OBVIOUS
<1>1. /\ UNCHANGED <<run, legacy, keys, cmd>> /\ unsaved' = <<>> /\ pc' = "off" /\ pc = "migrate"
      /\ missed' = missed \cup todo
    BY DEF L!Migrated, L!Interrupt
<1>2. UNCHANGED Olds /\ UNCHANGED Made /\ ~Reading' /\ (Covered => Covered')
    BY <1>1 DEF Olds, Made, Covered, Reading, L!NameTaken, L!HasKey
<1>3. \A i \in Olds : L!NameTaken(i)' = L!NameTaken(i) /\ L!HasKey(i)' = L!HasKey(i)
    BY <1>1 DEF L!NameTaken, L!HasKey
<1>4. MoveTypes'
    BY <1>1, <1>2, NoKeys DEF Moving, MoveTypes
<1>5. \A i \in Olds \ missed' : L!NameTaken(i) => L!HasKey(i)
  <2>1. CASE Reading
      BY <1>1, <2>1 DEF Moving, MoveInv
  <2>2. CASE ~Reading
      BY <1>1, <2>2 DEF Moving, MoveInv
  <2> QED BY <2>1, <2>2
<1>6. told' = "clean" => Covered
  <2> SUFFICES ASSUME told' = "clean" PROVE Covered
      OBVIOUS
  <2>1. CASE told = "clean"
      BY <2>1 DEF Moving, MoveInv
  <2>2. CASE told # "clean"
    <3>1. todo = {} /\ told # "failures" /\ L!Source(cmd) = "good"
        BY <2>2 DEF L!Migrated, L!Interrupt
    <3>2. \A i \in Olds : L!NameTaken(i)
        BY <1>1, <3>1 DEF Moving, MidInv
    <3>3. CASE Reading
        BY <3>1, <3>2, <3>3 DEF Moving, MoveInv, Covered
    <3>4. CASE ~Reading
        BY <3>2, <3>4 DEF Moving, MoveInv, Covered
    <3> QED BY <3>3, <3>4
  <2> QED BY <2>1, <2>2
<1>7. MoveInv'
    BY <1>1, <1>2, <1>3, <1>5, <1>6, NoKeys DEF Moving, MoveInv
<1> QED BY <1>1, <1>4, <1>7 DEF Moving, MidInv

(* The operator removes the old credentials.                               *)
LEMMA MoveRemoves == Moving /\ L!RemoveLegacy => Moving'
<1> SUFFICES ASSUME Moving, L!RemoveLegacy PROVE Moving'
    OBVIOUS
<1>1. /\ UNCHANGED <<run, keys, unsaved, missed, told, pc>> /\ legacy' = <<>> /\ pc = "off" /\ told = "clean"
    BY DEF L!RemoveLegacy
<1>2. UNCHANGED <<Olds, Made, Covered>> /\ ~Reading /\ ~Reading'
    BY <1>1 DEF Olds, Made, Covered, Reading, L!NameTaken, L!HasKey
<1>3. \A i \in Olds : L!NameTaken(i)' = L!NameTaken(i) /\ L!HasKey(i)' = L!HasKey(i)
    BY <1>1 DEF L!NameTaken, L!HasKey
<1>4. MoveTypes'
    BY <1>1, <1>2 DEF Moving, MoveTypes
<1>5. MoveInv'
    BY <1>1, <1>2, <1>3 DEF Moving, MoveInv
<1> QED BY <1>1, <1>4, <1>5 DEF Moving, MidInv

(* The first key of a new server.                                          *)
LEMMA MoveBoots == Moving /\ L!Bootstrap => Moving'
<1> SUFFICES ASSUME Moving, L!Bootstrap PROVE Moving'
    OBVIOUS
<1>1. CASE keys' = keys
    BY <1>1, MoveRests DEF L!Bootstrap
<1>2. CASE keys = <<>> /\ keys' = <<L!Key(0, "root", TRUE)>>
  <2> DEFINE k == L!Key(0, "root", TRUE)
  <2>1. k \in Made /\ k.of = 0 /\ k.name = "root" /\ 0 \notin Olds
    BY DEF L!Key, Made, Olds, Titles
  <2>2. /\ UNCHANGED <<run, legacy, unsaved, missed, told>> /\ pc' # "migrate" /\ pc # "migrate" /\ keys' = <<k>> /\ keys = <<>>
    BY <1>2 DEF L!Bootstrap
  <2> HIDE DEF k
  <2>3. keys' \in Seq(Made) /\ L!Range(keys') = {k} /\ Single(keys') /\ Issued(keys') = {0}
    BY <2>1, <2>2 DEF L!Range, Single, Issued
  <2>4. UNCHANGED Olds /\ UNCHANGED Made /\ ~Reading'
    BY <2>2 DEF Olds, Made, Reading
  <2>5. MoveTypes'
    BY <2>1, <2>2, <2>3, <2>4 DEF Moving, MoveTypes
  <2>6. \A i \in Olds : ~L!NameTaken(i)'
    <3>1. \A i \in Olds : run.legacy[i] # "root"
        BY DEF Moving, MoveTypes, Olds
    <3>2. L!NamesOf(keys') = {"root"}
        BY <2>1, <2>3 DEF L!NamesOf
    <3> QED BY <2>2, <3>1, <3>2 DEF L!NameTaken
  <2>7. Covered => Covered'
    BY <2>2, <2>4, NoKeys DEF Covered, L!NameTaken
  <2>8. unsaved = <<>>
    BY <2>2 DEF Moving, MoveInv
  <2>9. MoveInv'
    BY <2>2, <2>3, <2>4, <2>6, <2>7, <2>8, NoKeys DEF Moving, MoveInv
  <2> QED BY <2>2, <2>5, <2>9 DEF Moving, MidInv
<1> QED BY <1>1, <1>2 DEF L!Bootstrap

(* Nothing changes.                                                        *)
LEMMA MoveSame ==
    ASSUME Moving, UNCHANGED <<run, pc, cmd, legacy, keys, unsaved, missed, told, todo, seen>>
    PROVE  Moving'
BY DEF Moving, MoveTypes, MoveInv, MidInv, Olds, Made, Covered, Reading, L!NameTaken, L!HasKey, L!Old, L!Source

(* Every step of the life of a server.                                     *)
LEMMA MoveKeeps == Moving /\ L!Next => Moving'
<1> SUFFICES ASSUME Moving, L!Next PROVE Moving'
    OBVIOUS
<1>1. CASE L!Survey \/ L!Migrate \/ L!Migrated \/ L!Interrupt \/ L!RemoveLegacy \/ L!Bootstrap
    BY <1>1, MoveSurveys, MoveMigrates, MoveEnds, MoveRemoves, MoveBoots
<1>2. CASE L!Start \/ L!Signal \/ L!Quit \/ L!CloseInput
    BY <1>2, MoveRests DEF L!Start, L!Signal, L!Quit, L!CloseInput, L!boot, L!Alive, L!Running
<1>3. CASE L!Gates \/ L!BindHttp \/ L!BindWs \/ L!StopGateway \/ L!Drained \/ L!Join \/ L!ShutMeta \/ L!ShutAudit \/ L!Exit
    BY <1>3, MoveRests DEF L!Gates, L!BindHttp, L!BindWs, L!StopGateway, L!Drained, L!Join, L!ShutMeta, L!ShutAudit, L!Exit, L!boot, L!Running
<1>4. ASSUME NEW p \in run.agents \cup run.requests, L!Arrive(p) \/ L!Record(p) \/ L!Finish(p) \/ L!Persist(p)
      PROVE  Moving'
    BY <1>4, MoveRests DEF L!Arrive, L!Record, L!Finish, L!Persist, L!boot, L!Alive
<1>5. ASSUME NEW p \in L!Ports, L!Release(p) PROVE Moving'
    BY <1>5, MoveSame DEF L!Release, L!boot
<1> QED BY <1>1, <1>2, <1>3, <1>4, <1>5 DEF L!Next, L!Process

(* A part that stands still.                                               *)
LEMMA MoveStill == Moving /\ UNCHANGED lifecycle => Moving'
BY MoveSame DEF lifecycle

(* A migration may be repeated: no old credential gets a second key, and   *)
(* after a run that reports no failure the only ones without a key that was*)
(* shown are those that an earlier run has failed at or was cut short      *)
(* before.                                                                 *)
THEOREM MigrationsRepeat == MCSpec => []MigrationRepeats
<1>1. MCInit => Moving
    BY MoveInit DEF MCInit
<1>2. Moving /\ [MCNext]_<<part, vars, lifecycle, dispatch>> => Moving'
    BY MoveKeeps, MoveStill DEF MCNext
<1>3. Moving /\ LInv => MigrationRepeats
    BY DEF Moving, MoveInv, Single, Covered, Olds, LInv, MigrationRepeats, L!MigrationRepeats
<1> QED BY <1>1, <1>2, <1>3, LifeHolds, PTL DEF MCSpec

-----------------------------------------------------------------------------
(***************************************************************************)
(* Dispatch. Requests: their types, what is known of one by how far it has *)
(* come (Shape), what it has been allowed (Right), and where its search    *)
(* for a terminal stands, as long as nothing it looks at changes (Aim).    *)
(***************************************************************************)
PCs == {"idle", "session", "global", "single", "find", "names", "invoke", "wait", "gone", "select", "rename",
        "cancel", "abort", "unregister", "forget", "input", "save", "answer", "send"}
Targets == P!Ids \cup DOMAIN Fold \cup {"", None}
Request == [pc : PCs, door : {"mcp", "rest", "stdio", None}, role : {1, 2, 3, None}, sid : Sessions \cup {None},
            items : Seq(P!Items), line : Nat, replies : Nat,
            goal : {None, "audit", "active", "run", "select", "rename"},
            target : Targets, on : Targets, calm : BOOLEAN, ok : BOOLEAN,
            rec : {None, "DENIED", "SUCCESS", "FAILED"}]

(* A request that is at it has items; a selection is of a terminal.        *)
Looking  == {"session", "global", "single"}
Acting(q) == q.pc \in {"find", "names", "invoke", "wait", "gone", "select", "rename"} \/ (q.pc \in Looking /\ q.goal = "run")
Shape(q) ==
    /\ q.pc \in {"idle", "send"} \/ q.items # <<>>
    /\ q.pc = "select" => q.on \in P!Ids
    /\ q.pc \in Looking => q.goal \in {"audit", "active", "run"}
    /\ q.pc = "single" => q.goal # "active"
    /\ q.pc \in {"find", "names"} => q.goal \in {"run", "select", "rename"}
    /\ q.door = "rest" => q.role # None
(* What a request is at is what its role may do.                           *)
Right(q) ==
    /\ Acting(q) /\ q.role # None /\ Head(q.items).tool # "api_meta" => q.role >= P!RequiredRole(Head(q.items).tool)
    /\ q.pc = "cancel" /\ q.role # None => q.role >= 2
    /\ q.pc \in {"abort", "unregister", "forget", "input"} => q.role = 3

(* A cancellation is an operator's.                                        *)
LEMMA CancelRole == \A t \in P!Cancels : P!RequiredRole(t) = 2
BY DEF P!RequiredRole, P!Cancels, P!ViewerTools, P!Readings, P!AdminTools

(* What a handler of the console does first.                               *)
LEMMA RestRight ==
    ASSUME NEW q \in Request, q.items # <<>>, q.door = "rest", q.role # None, P!Permits(q)
    PROVE  P!Rest(q) \in Request /\ Shape(P!Rest(q)) /\ Right(P!Rest(q))
<1>1. Head(q.items) \in P!Items
    BY DEF Request
<1>2. Head(q.items).arg \in Targets
    BY <1>1 DEF P!Items, Targets
<1>3. P!Rest(q) \in Request
    BY <1>2 DEF P!Rest, Request, PCs, P!Item
<1>4. Shape(P!Rest(q))
    BY <1>2 DEF P!Rest, Request, PCs, P!Item, Shape, Looking
<1>5. Right(P!Rest(q))
    BY <1>2 DEF P!Rest, Request, PCs, P!Item, Right, Acting, Looking, P!Permits, P!Allowed
<1> QED BY <1>3, <1>4, <1>5

(* The terminal a request means, as what it looks at has it: the terminals *)
(* there are, what names stand for, the selections, the only one online.   *)
Pres    == {t \in P!Ids : P!Present(t)}
NamedOf == [x \in DOMAIN Fold |-> P!Named(x)]
Ses(q)  == IF Head(q.items).named # None THEN Head(q.items).named ELSE q.sid
MeantAt(q, pres, nm, sel, act, one) ==
    IF Head(q.items).arg \notin {None, ""}
    THEN IF Head(q.items).arg \in pres THEN Head(q.items).arg
         ELSE IF nm[Head(q.items).arg] # None THEN nm[Head(q.items).arg] ELSE Head(q.items).arg
    ELSE IF Ses(q) # None /\ sel[Ses(q)] # None THEN sel[Ses(q)]
    ELSE IF act # None THEN act ELSE one
SesNow(q) == IF q.goal = "audit" THEN q.sid ELSE Ses(q)
AimAt(q, pres, nm, sel, act, one) ==
    q.calm /\ q.door # "rest" =>
      /\ q.pc \in Looking /\ q.goal = "audit" => Head(q.items).arg = None
      /\ q.pc \in Looking /\ q.goal = "run" => Head(q.items).arg \in {None, ""}
      /\ q.pc \in {"global", "single"} /\ q.goal \in {"audit", "run"} => SesNow(q) = None \/ sel[SesNow(q)] = None
      /\ q.pc = "single" => act = None
      /\ q.pc \in {"find", "names"} /\ q.goal = "run" => Head(q.items).arg \notin {None, ""}
      /\ q.pc = "names" => Head(q.items).arg \notin pres
      /\ q.pc \in {"invoke", "wait"} => q.on = MeantAt(q, pres, nm, sel, act, one)
      /\ (q.pc \in {"invoke", "wait"} \/ (q.pc \in Looking /\ q.goal = "run")) =>
           (Head(q.items).arg = None /\ Head(q.items).named = None => q.target = MeantAt(q, pres, nm, sel, act, one))
Aim(q)   == AimAt(q, Pres, NamedOf, selected, everybody, P!Only)
Meant(q) == MeantAt(q, Pres, NamedOf, selected, everybody, P!Only)
Still(q) == ~q.calm \/ q.pc \in PCs \ (Looking \cup {"find", "names", "invoke", "wait"})

Fine(q) == q \in Request /\ Shape(q) /\ Right(q)

(* What is still means nothing.                                            *)
LEMMA StillAims == \A q \in Request : Still(q) => Aim(q)
BY DEF Still, Aim, AimAt, PCs, Looking, Request

(* The items of a request.                                                 *)
LEMMA ItemTypes ==
    ASSUME NEW q \in Request, q.items # <<>>
    PROVE  /\ Head(q.items) \in P!Items /\ P!Item(q) = Head(q.items)
           /\ Head(q.items).arg \in Targets /\ Ses(q) \in Sessions \cup {None}
           /\ q.items \in Seq(P!Items) /\ Tail(q.items) \in Seq(P!Items)
<1>1. q.items \in Seq(P!Items) /\ q.sid \in Sessions \cup {None}
    BY DEF Request
<1>2. Head(q.items) \in P!Items /\ Tail(q.items) \in Seq(P!Items)
    BY <1>1
<1> QED BY <1>1, <1>2 DEF P!Items, Targets, Ses, P!Item

(* A request that is done, well or not.                                    *)
LEMMA DoneFine ==
    ASSUME NEW q \in Request, q.door = "rest" => q.role # None, q.items # <<>>, NEW good \in BOOLEAN
    PROVE  Fine(P!Done(q, good)) /\ Still(P!Done(q, good)) /\ Aim(P!Done(q, good))
<1>1. P!Done(q, good) \in Request
    BY DEF P!Done, Request, PCs
<1>2. Shape(P!Done(q, good))
    BY DEF P!Done, Request, PCs, Shape, Looking
<1>3. Right(P!Done(q, good))
    BY DEF P!Done, Request, PCs, Right, Acting, Looking
<1>4. Still(P!Done(q, good))
    BY DEF P!Done, Request, PCs, Still, Looking
<1> QED BY <1>1, <1>2, <1>3, <1>4, StillAims DEF Fine

(* What a request means is a matter of its first item and its session.     *)
LEMMA MeantSame ==
    ASSUME NEW p, NEW q, p.items = q.items, p.sid = q.sid
    PROVE  Meant(p) = Meant(q)
BY DEF Meant, MeantAt, Ses

(* What a tool of the MCP doors does first.                                *)
LEMMA ToolFine ==
    ASSUME NEW q \in Request, q.items # <<>>, q.door # "rest", P!Permits(q),
           q.calm /\ Head(q.items).arg = None /\ Head(q.items).named = None => q.target = Meant(q)
    PROVE  Fine(P!Tool(q)) /\ Aim(P!Tool(q))
<1> DEFINE x == Head(q.items).arg  tool == Head(q.items).tool
<1>1. Head(q.items) \in P!Items /\ P!Item(q) = Head(q.items)
    BY ItemTypes
<1>2. q.role # None => q.role >= P!RequiredRole(tool)
    BY <1>1 DEF P!Permits, P!Allowed
<1>3. ASSUME tool \in P!AgentTools, x \in {None, ""},
             P!Tool(q) = [q EXCEPT !.goal = "run", !.pc = "session"]
      PROVE  Fine(P!Tool(q)) /\ Aim(P!Tool(q))
  <2>1. P!Tool(q) \in Request
    BY <1>3 DEF Request, PCs
  <2>2. Shape(P!Tool(q))
    BY <1>3 DEF Request, PCs, Shape, Looking
  <2>3. Right(P!Tool(q))
    BY <1>2, <1>3 DEF Request, PCs, Right, Acting, Looking
  <2> DEFINE d == P!Tool(q)
  <2>4. Aim(d)
    <3>1. d.items = q.items /\ d.sid = q.sid /\ d.calm = q.calm /\ d.door = q.door /\ d.target = q.target /\ d.goal = "run" /\ d.pc = "session"
        BY <1>3 DEF Request, PCs
    <3> HIDE DEF d
    <3>2. Meant(d) = Meant(q)
        BY <3>1, MeantSame
    <3> QED BY <1>3, <3>1, <3>2 DEF Aim, AimAt, Meant, Looking
  <2> QED BY <2>1, <2>2, <2>3, <2>4 DEF Fine
<1>4. ASSUME tool \in P!AgentTools, x \notin {None, ""},
             P!Tool(q) = [q EXCEPT !.goal = "run", !.pc = "find"]
      PROVE  Fine(P!Tool(q)) /\ Aim(P!Tool(q))
  <2>1. P!Tool(q) \in Request
    BY <1>4 DEF Request, PCs
  <2>2. Shape(P!Tool(q))
    BY <1>4 DEF Request, PCs, Shape, Looking
  <2>3. Right(P!Tool(q))
    BY <1>2, <1>4 DEF Request, PCs, Right, Acting, Looking
  <2>4. Aim(P!Tool(q))
    BY <1>4 DEF Request, PCs, Aim, AimAt, Looking
  <2> QED BY <2>1, <2>2, <2>3, <2>4 DEF Fine
<1>5. ASSUME NEW g \in {"select", "rename"}, P!Tool(q) = [q EXCEPT !.goal = g, !.pc = "find"]
      PROVE  Fine(P!Tool(q)) /\ Aim(P!Tool(q))
  <2>1. P!Tool(q) \in Request
    BY <1>5 DEF Request, PCs
  <2>2. Shape(P!Tool(q))
    BY <1>5 DEF Request, PCs, Shape, Looking
  <2>3. Right(P!Tool(q))
    BY <1>2, <1>5 DEF Request, PCs, Right, Acting, Looking
  <2>4. Aim(P!Tool(q))
    BY <1>5 DEF Request, PCs, Aim, AimAt, Looking
  <2> QED BY <2>1, <2>2, <2>3, <2>4 DEF Fine
<1>6. ASSUME P!Tool(q) = [q EXCEPT !.goal = "active", !.pc = "session"]
      PROVE  Fine(P!Tool(q)) /\ Aim(P!Tool(q))
  <2>1. P!Tool(q) \in Request
    BY <1>6 DEF Request, PCs
  <2>2. Shape(P!Tool(q))
    BY <1>6 DEF Request, PCs, Shape, Looking
  <2>3. Right(P!Tool(q))
    BY <1>6 DEF Request, PCs, Right, Acting, Looking
  <2>4. Aim(P!Tool(q))
    BY <1>6 DEF Request, PCs, Aim, AimAt, Looking
  <2> QED BY <2>1, <2>2, <2>3, <2>4 DEF Fine
<1>7. ASSUME tool \in P!Cancels, P!Tool(q) = [q EXCEPT !.pc = "cancel"]
      PROVE  Fine(P!Tool(q)) /\ Aim(P!Tool(q))
  <2>1. P!Tool(q) \in Request
    BY <1>7 DEF Request, PCs
  <2>2. Shape(P!Tool(q))
    BY <1>7 DEF Request, PCs, Shape, Looking
  <2>3. Right(P!Tool(q))
    BY <1>2, <1>7, CancelRole DEF Request, PCs, Right, Acting, Looking
  <2>4. Still(P!Tool(q))
    BY <1>7 DEF Request, PCs, Still, Looking
  <2> QED BY <2>1, <2>2, <2>3, <2>4, StillAims DEF Fine, Aim
<1>8. ASSUME NEW good \in BOOLEAN, P!Tool(q) = P!Done(q, good)
      PROVE  Fine(P!Tool(q)) /\ Aim(P!Tool(q))
    BY <1>8, DoneFine
<1>9. \/ tool \in P!AgentTools /\ P!Tool(q) = [q EXCEPT !.goal = "run", !.pc = IF x \in {None, ""} THEN "session" ELSE "find"]
      \/ P!Tool(q) = [q EXCEPT !.goal = IF tool = "select_terminal" THEN "select" ELSE "rename", !.pc = "find"]
      \/ P!Tool(q) = [q EXCEPT !.goal = "active", !.pc = "session"]
      \/ tool \in P!Cancels /\ P!Tool(q) = [q EXCEPT !.pc = "cancel"]
      \/ P!Tool(q) = P!Done(q, tool \in P!Readings)
    BY <1>1 DEF P!Tool
<1>10. CASE tool \in P!AgentTools /\ P!Tool(q) = [q EXCEPT !.goal = "run", !.pc = IF x \in {None, ""} THEN "session" ELSE "find"]
  <2>1. CASE x \in {None, ""}
    BY <1>3, <1>10, <2>1
  <2>2. CASE x \notin {None, ""}
    BY <1>4, <1>10, <2>2
  <2> QED BY <2>1, <2>2
<1>11. CASE P!Tool(q) = [q EXCEPT !.goal = IF tool = "select_terminal" THEN "select" ELSE "rename", !.pc = "find"]
  <2> DEFINE g == IF tool = "select_terminal" THEN "select" ELSE "rename"
  <2>1. g \in {"select", "rename"} /\ P!Tool(q) = [q EXCEPT !.goal = g, !.pc = "find"]
    BY <1>11
  <2> HIDE DEF g
  <2> QED BY <2>1, <1>5
<1>12. CASE P!Tool(q) = P!Done(q, tool \in P!Readings)
  <2> DEFINE g == tool \in P!Readings
  <2>1. g \in BOOLEAN /\ P!Tool(q) = P!Done(q, g)
    BY <1>12
  <2> HIDE DEF g
  <2> QED BY <2>1, <1>8
<1> QED BY <1>6, <1>7, <1>9, <1>10, <1>11, <1>12

(* A request whose terminal for the record is known.                       *)
LEMMA CheckedFine ==
    ASSUME NEW q \in Request, q.items # <<>>, q.door = "rest" => q.role # None,
           q.calm /\ q.door # "rest" /\ Head(q.items).arg = None /\ Head(q.items).named = None => q.target = Meant(q)
    PROVE  Fine(P!Checked(q)) /\ Aim(P!Checked(q))
<1>1. CASE ~P!Permits(q)
  <2> DEFINE d == [q EXCEPT !.rec = "DENIED", !.pc = "answer"]
  <2>1. d \in Request
    BY DEF Request, PCs
  <2>2. Shape(d)
    BY DEF Request, PCs, Shape, Looking
  <2>3. Right(d)
    BY DEF Request, PCs, Right, Acting, Looking
  <2>4. Still(d)
    BY DEF Request, PCs, Still, Looking
  <2>5. P!Checked(q) = d
    BY <1>1 DEF P!Checked
  <2> QED BY <2>1, <2>2, <2>3, <2>4, <2>5, StillAims DEF Fine
<1>2. CASE P!Permits(q) /\ q.door = "rest"
  <2>1. P!Checked(q) = P!Rest(q)
    BY <1>2 DEF P!Checked
  <2>2. P!Rest(q).door = "rest"
    BY <1>2 DEF P!Rest, Request
  <2> QED BY <1>2, <2>1, <2>2, RestRight DEF Fine, Aim, AimAt
<1>3. CASE P!Permits(q) /\ q.door # "rest"
  <2>1. P!Checked(q) = P!Tool(q)
    BY <1>3 DEF P!Checked
  <2> QED BY <1>3, <2>1, ToolFine
<1> QED BY <1>1, <1>2, <1>3

(* A request at the beginning of an item.                                  *)
LEMMA StartedFine ==
    ASSUME NEW p \in Request, p.items # <<>>, p.door = "rest" => p.role # None
    PROVE  Fine(P!Started(p)) /\ Aim(P!Started(p))
<1> DEFINE x == Head(p.items).arg
           q == [p EXCEPT !.calm = TRUE, !.on = None, !.target = x, !.ok = FALSE, !.rec = None]
<1>1. x \in Targets /\ P!Item(p) = Head(p.items)
    BY ItemTypes
<1>2. q \in Request /\ q.items = p.items /\ q.door = p.door /\ q.role = p.role /\ q.target = x /\ P!Item(q) = Head(p.items)
    BY <1>1 DEF Request, Targets, P!Item
<1>3. P!Started(p) = IF Head(p.items).tool = "ping" THEN [q EXCEPT !.ok = TRUE, !.pc = "answer"]
                     ELSE IF q.door = "rest" \/ x # None THEN P!Checked(q)
                     ELSE [q EXCEPT !.goal = "audit", !.pc = "session"]
    BY <1>1, <1>2 DEF P!Started
<1> HIDE DEF q
<1>4. CASE Head(p.items).tool = "ping"
  <2> DEFINE d == [q EXCEPT !.ok = TRUE, !.pc = "answer"]
  <2>1. d \in Request
    BY <1>2 DEF Request, PCs
  <2>2. Shape(d)
    BY <1>2 DEF Request, PCs, Shape, Looking
  <2>3. Right(d)
    BY <1>2 DEF Request, PCs, Right, Acting, Looking
  <2>4. Still(d)
    BY <1>2 DEF Request, PCs, Still, Looking
  <2> QED BY <1>3, <1>4, <2>1, <2>2, <2>3, <2>4, StillAims DEF Fine
<1>5. CASE q.door = "rest" \/ x # None
    BY <1>2, <1>3, <1>4, <1>5, CheckedFine
<1>6. CASE q.door # "rest" /\ x = None
  <2> DEFINE d == [q EXCEPT !.goal = "audit", !.pc = "session"]
  <2>1. d \in Request
    BY <1>2 DEF Request, PCs
  <2>2. Shape(d)
    BY <1>2 DEF Request, PCs, Shape, Looking
  <2>3. Right(d)
    BY <1>2 DEF Request, PCs, Right, Acting, Looking
  <2>4. Aim(d)
    BY <1>2, <1>6 DEF Request, PCs, Aim, AimAt, Looking
  <2> QED BY <1>3, <1>4, <1>6, <2>1, <2>2, <2>3, <2>4 DEF Fine
<1> QED BY <1>5, <1>6

(* A request whose session, or the others, have selected a terminal.       *)
LEMMA ResolvedFine ==
    ASSUME NEW q, Fine(q), Aim(q), q.items # <<>>, q.pc \in Looking, NEW t \in P!Ids \cup {None},
           q.calm /\ q.door # "rest" /\ (q.goal = "run" \/ (q.goal = "audit" /\ Head(q.items).named = None)) => t = Meant(q)
    PROVE  Fine(P!Resolved(q, t)) /\ Aim(P!Resolved(q, t))
<1>0. q \in Request /\ Shape(q) /\ Right(q) /\ t \in Targets /\ (q.door = "rest" => q.role # None)
    BY DEF Fine, Shape, Targets
<1>1. CASE q.goal = "audit"
  <2> DEFINE p == [q EXCEPT !.target = t]
  <2>1. p \in Request /\ p.items = q.items /\ p.sid = q.sid /\ p.door = q.door /\ p.role = q.role /\ p.target = t /\ p.calm = q.calm
    BY <1>0 DEF Request
  <2>2. P!Resolved(q, t) = P!Checked(p)
    BY <1>1 DEF P!Resolved
  <2> HIDE DEF p
  <2>3. Meant(p) = Meant(q)
    BY <2>1, MeantSame
  <2> QED BY <1>0, <1>1, <2>1, <2>2, <2>3, CheckedFine
<1>2. CASE q.goal = "active"
    BY <1>0, <1>2, DoneFine DEF P!Resolved
<1>3. CASE q.goal = "run" /\ t = None
    BY <1>0, <1>3, DoneFine DEF P!Resolved
<1>4. CASE q.goal = "run" /\ t # None
  <2> DEFINE d == [q EXCEPT !.on = t, !.pc = "invoke"]
  <2>1. P!Resolved(q, t) = d
    BY <1>4 DEF P!Resolved
  <2>2. d \in Request /\ d.items = q.items /\ d.sid = q.sid /\ d.on = t /\ d.pc = "invoke" /\ d.calm = q.calm /\ d.door = q.door /\ d.target = q.target
    BY <1>0 DEF Request, PCs
  <2>3. Shape(d)
    BY <1>0 DEF Request, PCs, Shape, Looking
  <2>4. Right(d)
    BY <1>0, <1>4 DEF Request, PCs, Right, Acting, Looking
  <2>5. Meant(d) = Meant(q)
    BY <2>2, MeantSame
  <2>6. q.calm /\ q.door # "rest" /\ Head(q.items).arg = None /\ Head(q.items).named = None => q.target = Meant(q)
    BY <1>4 DEF Aim, AimAt, Meant
  <2>7. Aim(d)
    <3> HIDE DEF d
    <3> QED BY <1>4, <2>2, <2>5, <2>6 DEF Aim, AimAt, Meant, Looking
  <2> QED BY <2>1, <2>2, <2>3, <2>4, <2>7 DEF Fine
<1> QED BY <1>0, <1>1, <1>2, <1>3, <1>4 DEF Shape

(* A request whose argument has been looked up.                            *)
LEMMA FoundFine ==
    ASSUME NEW q, Fine(q), q.items # <<>>, q.pc \in {"find", "names"}, NEW t \in P!Ids \cup {None},
           q.calm /\ q.door # "rest" /\ q.goal = "run" =>
               Head(q.items).arg # None /\ Meant(q) = IF t = None THEN Head(q.items).arg ELSE t
    PROVE  Fine(P!Found(q, t)) /\ Aim(P!Found(q, t))
<1>0. /\ q \in Request /\ Shape(q) /\ Right(q) /\ t \in Targets /\ (q.door = "rest" => q.role # None)
      /\ Head(q.items).arg \in Targets /\ P!Item(q) = Head(q.items) /\ q.goal \in {"run", "select", "rename"}
    BY ItemTypes DEF Fine, Shape, Targets
<1>1. CASE q.goal = "select" /\ t = None
    BY <1>0, <1>1, DoneFine DEF P!Found
<1>2. CASE ~(q.goal = "select" /\ t = None)
  <2> DEFINE o == IF t = None THEN Head(q.items).arg ELSE t
             g == IF q.goal = "run" THEN "invoke" ELSE q.goal
             d == [q EXCEPT !.on = o, !.pc = g]
  <2>1. P!Found(q, t) = d
    BY <1>0, <1>2 DEF P!Found
  <2>2. o \in Targets /\ g \in {"invoke", "select", "rename"} /\ (g = "select" => o \in P!Ids) /\ (g = "invoke" => q.goal = "run")
    BY <1>0, <1>2
  <2> HIDE DEF o, g
  <2>3. d \in Request /\ d.items = q.items /\ d.sid = q.sid /\ d.on = o /\ d.pc = g /\ d.calm = q.calm /\ d.door = q.door /\ d.goal = q.goal
    BY <1>0, <2>2 DEF Request, PCs
  <2>4. Shape(d)
    BY <1>0, <2>2 DEF Request, PCs, Shape, Looking
  <2>5. Right(d)
    BY <1>0, <2>2 DEF Request, PCs, Right, Acting, Looking
  <2>6. Meant(d) = Meant(q)
    BY <2>3, MeantSame
  <2>7. q.calm /\ q.door # "rest" /\ q.goal = "run" => Head(q.items).arg # None /\ Meant(q) = o
    BY DEF o
  <2>8. Aim(d)
    <3> HIDE DEF d
    <3> QED BY <2>2, <2>3, <2>6, <2>7 DEF Aim, AimAt, Meant, Looking
  <2> QED BY <2>1, <2>3, <2>4, <2>5, <2>8 DEF Fine
<1> QED BY <1>1, <1>2

(* Some number is the first of a set.                                      *)
LEMMA FirstExists ==
    ASSUME NEW T \in SUBSET Nat, T # {}
    PROVE  \E i \in T : \A j \in T : ~(j < i)
<1>1. IsWellFoundedOn(OpToRel(<, Nat), Nat)
    BY NatLessThanWellFounded
<1>2. PICK i \in T : \A j \in T : ~(<<j, i>> \in OpToRel(<, Nat))
    BY <1>1, WFMin
<1> QED BY <1>2 DEF OpToRel

(* What a name stands for is a terminal or none.                           *)
LEMMA NamedTypes == \A x : P!Named(x) \in P!Ids \cup {None}
<1>1. ASSUME NEW S \in SUBSET P!Ids, S # {} PROVE P!FirstOf(S) \in P!Ids
  <2> DEFINE T == {i \in P!Seats : Terminals[i] \in S}
  <2>1. T \in SUBSET Nat /\ T # {}
    BY <1>1 DEF P!Ids, P!Seats
  <2>2. PICK i \in T : \A j \in T : ~(j < i)
    BY <2>1, FirstExists
  <2>3. \A j \in 1..(i - 1) : Terminals[j] \notin S
    BY <2>1, <2>2 DEF P!Seats
  <2>4. \E k \in P!Seats : Terminals[k] \in S /\ \A j \in 1..(k - 1) : Terminals[j] \notin S
    BY <2>2, <2>3
  <2> QED BY <2>4 DEF P!FirstOf, P!Ids
<1>2. \A x : P!Renamed(x) \subseteq P!Ids /\ P!Hosting(x) \subseteq P!Ids
    BY DEF P!Renamed, P!Hosting
<1> QED BY <1>1, <1>2 DEF P!Named

(* The only one online is a terminal or none.                              *)
LEMMA OnlyTypes == P!Only \in P!Ids \cup {None}
<1>1. CASE P!Cardinality(P!Online) = 1
  <2>1. P!Online # {}
    <3>1. Cardinality({}) = 0
        BY FS_EmptySet
    <3>2. P!Cardinality(P!Online) = Cardinality(P!Online)
        BY DEF P!Cardinality, Cardinality
    <3> QED BY <1>1, <3>1, <3>2
  <2> QED BY <2>1 DEF P!Only, P!Online
<1>2. CASE P!Cardinality(P!Online) # 1
    BY <1>2 DEF P!Only
<1> QED BY <1>1, <1>2

(* What is meant changes only with what is looked at.                      *)
LEMMA ViewSame ==
    ASSUME UNCHANGED <<session, known, name>>
    PROVE  Pres' = Pres /\ NamedOf' = NamedOf /\ P!Only' = P!Only
<1>1. Pres' = Pres
    BY DEF Pres, P!Present
<1>2. NamedOf' = NamedOf
    BY DEF NamedOf, P!Named, P!Renamed, P!Hosting, P!Listed, P!Connected, P!Records
<1>3. P!Only' = P!Only
    BY DEF P!Only, P!Online
<1> QED BY <1>1, <1>2, <1>3

-----------------------------------------------------------------------------
DTypes ==
    /\ session \in [P!Ids -> {"absent", "offline", "online"}]
    /\ known \subseteq P!Ids /\ joining \subseteq P!Ids
    /\ everybody \in P!Ids \cup {None} /\ selected \in [Sessions -> P!Ids \cup {None}]
    /\ out \in Seq(Nat) /\ Len(out) <= Room /\ image \in P!Requests \cup {None}
    /\ world \in Errands /\ left \subseteq world.http /\ line \in Nat
ReqInv == req \in [P!Requests -> Request] /\ \A r \in P!Requests : Fine(req[r]) /\ Aim(req[r])

(* The steps of a request that change nothing others look at,              *)
LEMMA ReqKeeps ==
    ASSUME ReqInv, UNCHANGED <<session, known, name, selected, everybody>>, req' = [p \in P!Requests |-> req'[p]],
           \A p \in P!Requests : req'[p] = req[p] \/ (Fine(req'[p]) /\ Aim(req'[p]))
    PROVE  ReqInv'
<1>1. Pres' = Pres /\ NamedOf' = NamedOf /\ P!Only' = P!Only
    BY ViewSame
<1>2. \A p \in P!Requests : Fine(req'[p]) /\ AimAt(req'[p], Pres, NamedOf, selected, everybody, P!Only)
    BY DEF ReqInv, Aim
<1>3. req' \in [P!Requests -> Request]
    BY <1>2 DEF Fine
<1> QED BY <1>1, <1>2, <1>3 DEF ReqInv, Aim, Fine, Shape, Right

(* and of one request alone.                                               *)
LEMMA ReqPut ==
    ASSUME ReqInv, UNCHANGED <<session, known, name, selected, everybody>>,
           NEW r \in P!Requests, NEW q, Fine(q), Aim(q), req' = [req EXCEPT ![r] = q]
    PROVE  ReqInv'
<1>1. req' = [p \in P!Requests |-> req'[p]] /\ \A p \in P!Requests : req'[p] = IF p = r THEN q ELSE req[p]
    BY DEF ReqInv
<1> QED BY <1>1, ReqKeeps

(* Those that change what others look at leave none that is calm.          *)
LEMMA ReqStirs ==
    ASSUME req' = [p \in P!Requests |-> req'[p]], \A p \in P!Requests : Fine(req'[p]) /\ Still(req'[p])
    PROVE  ReqInv'
<1>1. \A p \in P!Requests : req'[p] \in Request
    BY DEF Fine
<1>2. \A p \in P!Requests : Aim(req[p])'
    BY <1>1 DEF Aim, AimAt, Still, PCs, Looking, Request
<1> QED BY <1>1, <1>2 DEF ReqInv, Fine, Shape, Right

(* Requests that were stirred differ only in that they are not calm.       *)
LEMMA StirredFine ==
    ASSUME NEW qs, \A p \in P!Requests : Fine(qs[p]), NEW S
    PROVE  \A p \in P!Requests :
              /\ Fine(P!Stirred(qs, S)[p]) /\ (p \in S => Still(P!Stirred(qs, S)[p]))
              /\ P!Stirred(qs, S)[p].items = qs[p].items /\ P!Stirred(qs, S)[p].pc = qs[p].pc
              /\ (p \notin S => P!Stirred(qs, S)[p] = qs[p])
<1> SUFFICES ASSUME NEW p \in P!Requests
             PROVE  /\ Fine(P!Stirred(qs, S)[p]) /\ (p \in S => Still(P!Stirred(qs, S)[p]))
                    /\ P!Stirred(qs, S)[p].items = qs[p].items
                    /\ P!Stirred(qs, S)[p].pc = qs[p].pc
                    /\ (p \notin S => P!Stirred(qs, S)[p] = qs[p])
    OBVIOUS
<1> DEFINE q == qs[p]  c == q.calm /\ p \notin S  d == [q EXCEPT !.calm = c]
<1>1. P!Stirred(qs, S)[p] = d
    BY DEF P!Stirred
<1>2. q \in Request /\ c \in BOOLEAN /\ (p \in S => ~c) /\ (p \notin S => c = q.calm)
    BY DEF Fine, Request
<1> HIDE DEF q, c
<1>3. d \in Request /\ d.items = q.items /\ d.pc = q.pc /\ d.door = q.door /\ d.role = q.role /\ d.goal = q.goal /\ d.on = q.on /\ d.calm = c
    BY <1>2 DEF Request
<1>4. p \notin S => d = q
    BY <1>2 DEF Request
<1>5. Fine(q) => Fine(d)
  <2> HIDE DEF d
  <2> QED BY <1>3 DEF Fine, Shape, Right, Acting
<1>6. p \in S => Still(d)
  <2> HIDE DEF d
  <2> QED BY <1>2, <1>3 DEF Still
<1> QED BY <1>1, <1>2, <1>3, <1>4, <1>5, <1>6 DEF q

(* A seat that is free.                                                    *)
LEMMA IdleFine == Fine(P!Idle) /\ Still(P!Idle) /\ Aim(P!Idle)
<1>1. P!Idle \in Request
    BY DEF P!Idle, Request, PCs, Targets
<1>2. Shape(P!Idle) /\ Right(P!Idle) /\ Still(P!Idle)
    BY ErrandsAssumption DEF P!Idle, Shape, Right, Acting, Looking, Still, PCs
<1> QED BY <1>1, <1>2, StillAims DEF Fine

(* Calls that end are done, or gone.                                       *)
LEMMA EndedFine ==
    ASSUME NEW qs, NEW S, \A p \in P!Requests : Fine(qs[p]),
           \A p \in S \cap P!Requests : qs[p].items # <<>>
    PROVE  \A p \in P!Requests :
              \/ p \notin S /\ P!Ended(qs, S)[p] = qs[p]
              \/ Fine(P!Ended(qs, S)[p]) /\ Still(P!Ended(qs, S)[p]) /\ Aim(P!Ended(qs, S)[p])
<1> SUFFICES ASSUME NEW p \in P!Requests, p \in S
             PROVE  Fine(P!Ended(qs, S)[p]) /\ Still(P!Ended(qs, S)[p]) /\ Aim(P!Ended(qs, S)[p])
    BY DEF P!Ended
<1>1. P!Ended(qs, S)[p] \in {P!Idle, P!Done(qs[p], FALSE)}
    BY DEF P!Ended
<1>2. qs[p] \in Request /\ (qs[p].door = "rest" => qs[p].role # None) /\ qs[p].items # <<>>
    BY DEF Fine, Shape
<1> QED BY <1>1, <1>2, IdleFine, DoneFine

-----------------------------------------------------------------------------
(* A request at work, and what it selects by.                              *)
LEMMA AtWork ==
    ASSUME DTypes, ReqInv, NEW r \in P!Requests, req[r].pc \notin {"idle", "send"}
    PROVE  /\ req[r] \in Request /\ Fine(req[r]) /\ Aim(req[r]) /\ req[r].items # <<>> /\ (req[r].door = "rest" => req[r].role # None)
           /\ P!Item(req[r]) = Head(req[r].items) /\ Head(req[r].items) \in P!Items /\ Head(req[r].items).arg \in Targets
           /\ P!SessionOf(req[r]) = SesNow(req[r]) /\ SesNow(req[r]) \in Sessions \cup {None}
<1>1. req[r] \in Request /\ Fine(req[r]) /\ Aim(req[r]) /\ req[r].items # <<>> /\ (req[r].door = "rest" => req[r].role # None)
    BY DEF ReqInv, Fine, Shape
<1>2. P!SessionOf(req[r]) = SesNow(req[r])
    BY DEF P!SessionOf, SesNow, Ses, P!Item
<1>3. SesNow(req[r]) \in Sessions \cup {None}
    BY <1>1, ItemTypes DEF SesNow, Request
<1> QED BY <1>1, <1>2, <1>3, ItemTypes

(* The session's selection.                                                *)
LEMMA SessionRead == ASSUME DTypes, ReqInv, NEW r \in P!Requests, P!ReadSession(r) PROVE ReqInv'
<1> DEFINE q == req[r]
           t == IF P!SessionOf(q) = None THEN None ELSE selected[P!SessionOf(q)]
           d == [q EXCEPT !.pc = "global"]
<1>1. /\ q.pc = "session" /\ UNCHANGED <<session, known, name, selected, everybody>>
      /\ req' = [req EXCEPT ![r] = IF t # None THEN P!Resolved(q, t) ELSE d]
    BY DEF P!ReadSession, P!Put, P!registry, P!selections
<1>2. /\ q \in Request /\ Fine(q) /\ Aim(q) /\ q.items # <<>> /\ P!SessionOf(q) = SesNow(q)
      /\ SesNow(q) \in Sessions \cup {None} /\ t \in P!Ids \cup {None}
    BY <1>1, AtWork DEF DTypes
<1> HIDE DEF q
<1>3. CASE t # None
  <2>1. q.calm /\ q.door # "rest" /\ (q.goal = "run" \/ (q.goal = "audit" /\ Head(q.items).named = None)) => t = Meant(q)
    BY <1>1, <1>2, <1>3 DEF Aim, AimAt, Meant, MeantAt, SesNow, Ses, Looking
  <2>2. Fine(P!Resolved(q, t)) /\ Aim(P!Resolved(q, t))
    BY <1>1, <1>2, <2>1, ResolvedFine DEF Looking
  <2> QED BY <1>1, <1>3, <2>2, ReqPut
<1>4. CASE t = None
  <2>1. d \in Request
    BY <1>2 DEF Request, PCs
  <2>2. Shape(d) /\ Right(d)
    BY <1>1, <1>2 DEF Fine, Shape, Right, Acting, Looking, Request, PCs
  <2>3. /\ Meant(d) = Meant(q) /\ d.items = q.items /\ d.sid = q.sid /\ d.goal = q.goal
        /\ d.calm = q.calm /\ d.door = q.door /\ d.target = q.target /\ d.pc = "global"
    BY <1>2, MeantSame DEF Request
  <2>4. Aim(d)
    <3> HIDE DEF d
    <3>1. SesNow(q) = None \/ selected[SesNow(q)] = None
        BY <1>2, <1>4
    <3>2. SesNow(d) = SesNow(q)
        BY <2>3 DEF SesNow, Ses
    <3> QED BY <1>1, <1>2, <2>3, <3>1, <3>2 DEF Aim, AimAt, Meant, Looking
  <2> QED BY <1>1, <1>4, <2>1, <2>2, <2>4, ReqPut DEF Fine
<1> QED BY <1>3, <1>4

(* The selection for everybody.                                            *)
LEMMA GlobalRead == ASSUME DTypes, ReqInv, NEW r \in P!Requests, P!ReadGlobal(r) PROVE ReqInv'
<1> DEFINE q == req[r]
           d == [q EXCEPT !.pc = "single"]
<1>1. /\ q.pc = "global" /\ UNCHANGED <<session, known, name, selected, everybody>>
      /\ req' = [req EXCEPT ![r] = IF everybody # None \/ q.goal = "active" THEN P!Resolved(q, everybody) ELSE d]
    BY DEF P!ReadGlobal, P!Put, P!registry, P!selections
<1>2. /\ q \in Request /\ Fine(q) /\ Aim(q) /\ q.items # <<>> /\ everybody \in P!Ids \cup {None}
    BY <1>1, AtWork DEF DTypes
<1> HIDE DEF q
<1>3. CASE everybody # None \/ q.goal = "active"
  <2>1. q.calm /\ q.door # "rest" /\ (q.goal = "run" \/ (q.goal = "audit" /\ Head(q.items).named = None)) => everybody = Meant(q)
    BY <1>1, <1>2, <1>3 DEF Aim, AimAt, Meant, MeantAt, SesNow, Ses, Looking
  <2>2. Fine(P!Resolved(q, everybody)) /\ Aim(P!Resolved(q, everybody))
    BY <1>1, <1>2, <2>1, ResolvedFine DEF Looking
  <2> QED BY <1>1, <1>3, <2>2, ReqPut
<1>4. CASE ~(everybody # None \/ q.goal = "active")
  <2>1. d \in Request
    BY <1>2 DEF Request, PCs
  <2>2. Shape(d) /\ Right(d)
    BY <1>1, <1>2, <1>4 DEF Fine, Shape, Right, Acting, Looking, Request, PCs
  <2>3. /\ Meant(d) = Meant(q) /\ d.items = q.items /\ d.sid = q.sid /\ d.goal = q.goal
        /\ d.calm = q.calm /\ d.door = q.door /\ d.target = q.target /\ d.pc = "single"
    BY <1>2, MeantSame DEF Request
  <2>4. Aim(d)
    <3> HIDE DEF d
    <3>1. SesNow(d) = SesNow(q)
        BY <2>3 DEF SesNow, Ses
    <3> QED BY <1>1, <1>2, <1>4, <2>3, <3>1 DEF Aim, AimAt, Meant, Looking
  <2> QED BY <1>1, <1>4, <2>1, <2>2, <2>4, ReqPut DEF Fine
<1> QED BY <1>3, <1>4

(* The only terminal online.                                               *)
LEMMA OnlineCounted == ASSUME DTypes, ReqInv, NEW r \in P!Requests, P!CountOnline(r) PROVE ReqInv'
<1> DEFINE q == req[r]
<1>1. /\ q.pc = "single" /\ UNCHANGED <<session, known, name, selected, everybody>>
      /\ req' = [req EXCEPT ![r] = P!Resolved(q, P!Only)]
    BY DEF P!CountOnline, P!Put, P!registry, P!selections
<1>2. /\ q \in Request /\ Fine(q) /\ Aim(q) /\ q.items # <<>> /\ P!Only \in P!Ids \cup {None}
    BY <1>1, AtWork, OnlyTypes
<1> HIDE DEF q
<1>3. q.calm /\ q.door # "rest" /\ (q.goal = "run" \/ (q.goal = "audit" /\ Head(q.items).named = None)) => P!Only = Meant(q)
    BY <1>1, <1>2 DEF Aim, AimAt, Meant, MeantAt, SesNow, Ses, Looking
<1>4. Fine(P!Resolved(q, P!Only)) /\ Aim(P!Resolved(q, P!Only))
    BY <1>1, <1>2, <1>3, ResolvedFine DEF Looking
<1> QED BY <1>1, <1>4, ReqPut

(* A terminal by its id,                                                   *)
LEMMA IdFound == ASSUME DTypes, ReqInv, NEW r \in P!Requests, P!FindId(r) PROVE ReqInv'
<1> DEFINE q == req[r]
           x == Head(q.items).arg
           d == [q EXCEPT !.pc = "names"]
<1>1. q.pc = "find" /\ UNCHANGED <<session, known, name, selected, everybody>> /\ P!Item(q) = Head(q.items)
    BY AtWork DEF P!FindId, P!registry, P!selections
<1>2. req' = [req EXCEPT ![r] = IF x = "" THEN P!Found(q, None) ELSE IF x \in P!Ids /\ P!Present(x) THEN P!Found(q, x) ELSE d]
    BY <1>1 DEF P!FindId, P!Put
<1>3. q \in Request /\ Fine(q) /\ Aim(q) /\ q.items # <<>>
    BY <1>1, AtWork
<1> HIDE DEF q
<1>4. q.calm /\ q.door # "rest" /\ q.goal = "run" => x \notin {None, ""}
    BY <1>1, <1>3 DEF Aim, AimAt
<1>5. CASE x = ""
  <2>1. Fine(P!Found(q, None)) /\ Aim(P!Found(q, None))
    BY <1>1, <1>3, <1>4, <1>5, FoundFine
  <2> QED BY <1>1, <1>2, <1>5, <2>1, ReqPut
<1>6. CASE x # "" /\ x \in P!Ids /\ P!Present(x)
  <2>1. q.calm /\ q.door # "rest" /\ q.goal = "run" => x # None /\ Meant(q) = x
    BY <1>4, <1>6 DEF Meant, MeantAt, Pres
  <2>2. x # None
    BY <1>6, ErrandsAssumption
  <2>3. Fine(P!Found(q, x)) /\ Aim(P!Found(q, x))
    BY <1>1, <1>3, <1>6, <2>1, <2>2, FoundFine
  <2> QED BY <1>1, <1>2, <1>6, <2>3, ReqPut
<1>7. CASE x # "" /\ ~(x \in P!Ids /\ P!Present(x))
  <2>1. d \in Request
    BY <1>3 DEF Request, PCs
  <2>2. Shape(d) /\ Right(d)
    BY <1>1, <1>3 DEF Fine, Shape, Right, Acting, Looking, Request, PCs
  <2>3. d.items = q.items /\ d.goal = q.goal /\ d.calm = q.calm /\ d.door = q.door /\ d.pc = "names"
    BY <1>3 DEF Request
  <2>4. Aim(d)
    <3> HIDE DEF d
    <3> QED BY <1>4, <1>7, <2>3 DEF Aim, AimAt, Looking, Pres
  <2> QED BY <1>1, <1>2, <1>7, <2>1, <2>2, <2>4, ReqPut DEF Fine
<1> QED BY <1>5, <1>6, <1>7

(* or by its name.                                                         *)
LEMMA NameFound == ASSUME DTypes, ReqInv, NEW r \in P!Requests, P!FindName(r) PROVE ReqInv'
<1> DEFINE q == req[r]
           x == Head(q.items).arg
           t == P!Named(x)
<1>1. q.pc = "names" /\ UNCHANGED <<session, known, name, selected, everybody>> /\ P!Item(q) = Head(q.items)
    BY AtWork DEF P!FindName, P!registry, P!selections
<1>2. req' = [req EXCEPT ![r] = P!Found(q, t)]
    BY <1>1 DEF P!FindName, P!Put
<1>3. q \in Request /\ Fine(q) /\ Aim(q) /\ q.items # <<>> /\ x \in DOMAIN Fold \cup {"", None}
    BY <1>1, AtWork DEF P!Items
<1> HIDE DEF q
<1>4. q.calm /\ q.door # "rest" /\ q.goal = "run" => x \notin {None, ""} /\ x \notin Pres
    BY <1>1, <1>3 DEF Aim, AimAt
<1>5. x \in DOMAIN Fold => NamedOf[x] = t
    BY DEF NamedOf
<1>6. q.calm /\ q.door # "rest" /\ q.goal = "run" => x # None /\ Meant(q) = IF t = None THEN x ELSE t
    BY <1>3, <1>4, <1>5 DEF Meant, MeantAt
<1>7. Fine(P!Found(q, t)) /\ Aim(P!Found(q, t))
    BY <1>1, <1>3, <1>6, NamedTypes, FoundFine
<1> QED BY <1>1, <1>2, <1>7, ReqPut

(* A request whose next step looks at nothing more.                        *)
LEMMA Rested ==
    ASSUME NEW q \in Request, Fine(q), q.items # <<>>, NEW p \in {"save", "answer", "unregister", "forget"},
           p \in {"unregister", "forget"} => q.role = 3
    PROVE  Fine([q EXCEPT !.pc = p]) /\ Still([q EXCEPT !.pc = p]) /\ Aim([q EXCEPT !.pc = p])
<1> DEFINE d == [q EXCEPT !.pc = p]
<1>1. d \in Request /\ d.items = q.items /\ d.door = q.door /\ d.role = q.role /\ d.pc = p
    BY DEF Request, PCs
<1> HIDE DEF d
<1>2. Shape(d)
    BY <1>1 DEF Shape, Fine, Looking
<1>3. Right(d)
    BY <1>1 DEF Right, Acting, Looking
<1>4. Still(d)
    BY <1>1 DEF Still, PCs, Looking
<1>5. Fine(d) /\ Still(d) /\ Aim(d)
    BY <1>1, <1>2, <1>3, <1>4, StillAims DEF Fine
<1> QED BY <1>5 DEF d

(* The call is sent to its terminal.                                       *)
LEMMA CallInvoked == ASSUME DTypes, ReqInv, NEW r \in P!Requests, P!Invoke(r) PROVE ReqInv'
<1> DEFINE q == req[r]
           d == [q EXCEPT !.pc = "wait"]
<1>1. /\ q.pc = "invoke" /\ UNCHANGED <<session, known, name, selected, everybody>>
      /\ req' = [req EXCEPT ![r] = IF q.on \in P!Online THEN d ELSE P!Done(q, FALSE)]
    BY DEF P!Invoke, P!Put, P!registry, P!selections
<1>2. q \in Request /\ Fine(q) /\ Aim(q) /\ q.items # <<>> /\ (q.door = "rest" => q.role # None)
    BY <1>1, AtWork
<1> HIDE DEF q
<1>3. d \in Request /\ d.items = q.items /\ d.sid = q.sid /\ d.goal = q.goal /\ d.calm = q.calm /\ d.door = q.door
      /\ d.on = q.on /\ d.target = q.target /\ d.role = q.role /\ d.pc = "wait"
    BY <1>2 DEF Request, PCs
<1>4. Fine(P!Done(q, FALSE)) /\ Aim(P!Done(q, FALSE))
    BY <1>2, DoneFine
<1>5. Fine(d) /\ Aim(d)
  <2> HIDE DEF d
  <2>1. Shape(d) /\ Right(d)
    BY <1>1, <1>2, <1>3 DEF Fine, Shape, Right, Acting, Looking
  <2>2. Meant(d) = Meant(q)
    BY <1>3, MeantSame
  <2>3. Aim(d)
    BY <1>1, <1>2, <1>3, <2>2 DEF Aim, AimAt, Meant, Looking
  <2> QED BY <1>3, <2>1, <2>3 DEF Fine
<1> QED BY <1>1, <1>4, <1>5, ReqPut

(* It ends, and what it has brought is saved.                              *)
LEMMA CallFinished == ASSUME DTypes, ReqInv, NEW r \in P!Requests, P!Finish(r) \/ P!Save(r) PROVE ReqInv'
<1> DEFINE q == req[r]
<1>1. /\ q.pc \in {"wait", "save"} /\ UNCHANGED <<session, known, name, selected, everybody>>
      /\ \E good \in BOOLEAN, p \in {"save", "answer"} :
            req' = [req EXCEPT ![r] = [P!Done(q, good) EXCEPT !.pc = p]] \/ req' = [req EXCEPT ![r] = [q EXCEPT !.pc = p]]
    BY DEF P!Finish, P!Save, P!Put, P!registry, P!selections
<1>2. q \in Request /\ Fine(q) /\ q.items # <<>> /\ (q.door = "rest" => q.role # None)
    BY <1>1, AtWork
<1> HIDE DEF q
<1>3. PICK good \in BOOLEAN, p \in {"save", "answer"} :
            req' = [req EXCEPT ![r] = [P!Done(q, good) EXCEPT !.pc = p]] \/ req' = [req EXCEPT ![r] = [q EXCEPT !.pc = p]]
    BY <1>1
<1>4. Fine(P!Done(q, good))
    BY <1>2, DoneFine
<1>5. P!Done(q, good) \in Request /\ P!Done(q, good).items # <<>>
    BY <1>2, <1>4 DEF Fine, P!Done, Request
<1>6. Fine([P!Done(q, good) EXCEPT !.pc = p]) /\ Aim([P!Done(q, good) EXCEPT !.pc = p])
    BY <1>4, <1>5, Rested
<1>7. Fine([q EXCEPT !.pc = p]) /\ Aim([q EXCEPT !.pc = p])
    BY <1>2, Rested
<1> QED BY <1>1, <1>3, <1>6, <1>7, ReqPut

(* Other operations of one request that change nothing others look at.     *)
LEMMA InputDone == ASSUME DTypes, ReqInv, NEW r \in P!Requests, P!Input(r) PROVE ReqInv'
<1> DEFINE q == req[r]
           good == q.on \in P!Online
           d == P!Done(q, good)
           e == [d EXCEPT !.rec = None]
<1>1. /\ q.pc = "input" /\ UNCHANGED <<session, known, name, selected, everybody>>
      /\ req' = [req EXCEPT ![r] = IF P!Item(q).tool = "api_move" THEN e ELSE d]
    BY DEF P!Input, P!Put, P!registry, P!selections
<1>2. q \in Request /\ Fine(q) /\ q.items # <<>> /\ (q.door = "rest" => q.role # None) /\ good \in BOOLEAN
    BY <1>1, AtWork
<1> HIDE DEF q, good
<1>3. Fine(d) /\ Still(d) /\ Aim(d)
    BY <1>2, DoneFine
<1> HIDE DEF d
<1>4. e \in Request /\ e.items = d.items /\ e.door = d.door /\ e.role = d.role /\ e.pc = d.pc /\ e.on = d.on /\ e.goal = d.goal /\ e.calm = d.calm
    BY <1>3 DEF Fine, Request
<1>5. Fine(e) /\ Aim(e)
  <2> HIDE DEF e
  <2> QED BY <1>3, <1>4, StillAims DEF Fine, Shape, Right, Acting, Still
<1> QED BY <1>1, <1>3, <1>5, ReqPut

(* A cancellation ends the call, or finds none.                            *)
LEMMA CallCancelled == ASSUME DTypes, ReqInv, NEW r \in P!Requests, P!Cancel(r) PROVE ReqInv'
<1> DEFINE q == req[r]
<1>1. PICK c \in P!Requests :
        /\ q.pc = "cancel" /\ UNCHANGED <<session, known, name, selected, everybody>>
        /\ req' = IF req[c].pc \in {"wait", "gone"} THEN P!Ended([req EXCEPT ![r] = P!Done(q, TRUE)], {c})
                   ELSE [req EXCEPT ![r] = IF q.door = "rest" THEN [q EXCEPT !.pc = "answer"] ELSE P!Done(q, FALSE)]
    BY DEF P!Cancel, P!registry, P!selections
<1>2. q \in Request /\ Fine(q) /\ q.items # <<>> /\ (q.door = "rest" => q.role # None)
    BY <1>1, AtWork
<1>3. Fine(P!Done(q, TRUE)) /\ Aim(P!Done(q, TRUE)) /\ Fine(P!Done(q, FALSE)) /\ Aim(P!Done(q, FALSE))
    BY <1>2, DoneFine
<1>4. Fine([q EXCEPT !.pc = "answer"]) /\ Aim([q EXCEPT !.pc = "answer"])
    BY <1>2, Rested
<1>5. CASE req[c].pc \notin {"wait", "gone"}
    BY <1>1, <1>3, <1>4, <1>5, ReqPut
<1>6. CASE req[c].pc \in {"wait", "gone"}
  <2> DEFINE qs == [req EXCEPT ![r] = P!Done(q, TRUE)]
  <2>1. \A p \in P!Requests : qs[p] = IF p = r THEN P!Done(q, TRUE) ELSE req[p]
    BY DEF ReqInv
  <2>2. c # r /\ req[c].items # <<>>
    BY <1>1, <1>6, AtWork
  <2>3. req' = P!Ended(qs, {c}) /\ qs[c].items # <<>> /\ \A p \in P!Requests : Fine(qs[p])
    BY <1>1, <1>3, <1>6, <2>1, <2>2 DEF ReqInv
  <2>4. req' = [p \in P!Requests |-> req'[p]]
    BY <2>3 DEF P!Ended
  <2> HIDE DEF qs
  <2>5. \A p \in P!Requests : req'[p] = qs[p] \/ (Fine(req'[p]) /\ Aim(req'[p]))
    BY <2>3, EndedFine
  <2>6. \A p \in P!Requests : req'[p] = req[p] \/ (Fine(req'[p]) /\ Aim(req'[p]))
    BY <1>3, <2>1, <2>5
  <2> QED BY <1>1, <2>4, <2>6, ReqKeeps
<1> QED BY <1>5, <1>6

(* The calls of a terminal that is deleted end.                            *)
LEMMA CallsAborted == ASSUME DTypes, ReqInv, NEW r \in P!Requests, P!Abort(r) PROVE ReqInv'
<1> DEFINE q  == req[r]
           d  == [q EXCEPT !.pc = "unregister"]
           qs == [req EXCEPT ![r] = d]
           S  == P!Pending(q.on)
<1>1. q.pc = "abort" /\ UNCHANGED <<session, known, name, selected, everybody>> /\ req' = P!Ended(qs, S)
    BY DEF P!Abort, P!registry, P!selections
<1>2. q \in Request /\ Fine(q) /\ q.items # <<>> /\ q.role = 3
    BY <1>1, AtWork DEF Fine, Right
<1>3. Fine(d) /\ Aim(d)
    BY <1>2, Rested
<1> HIDE DEF d
<1>4. \A p \in P!Requests : qs[p] = IF p = r THEN d ELSE req[p]
    BY DEF ReqInv
<1>5. \A p \in S \cap P!Requests : p # r /\ req[p].items # <<>>
    BY <1>1, AtWork DEF P!Pending
<1>6. req' = [p \in P!Requests |-> req'[p]]
    BY <1>1 DEF P!Ended
<1> HIDE DEF qs, S
<1>7. \A p \in P!Requests : req'[p] = qs[p] \/ (Fine(req'[p]) /\ Aim(req'[p]))
  <2>1. \A p \in P!Requests : Fine(qs[p])
    BY <1>3, <1>4 DEF ReqInv
  <2>2. \A p \in S \cap P!Requests : qs[p].items # <<>>
    BY <1>4, <1>5
  <2> QED BY <1>1, <2>1, <2>2, EndedFine
<1>8. \A p \in P!Requests : req'[p] = req[p] \/ (Fine(req'[p]) /\ Aim(req'[p]))
    BY <1>3, <1>4, <1>7
<1> QED BY <1>1, <1>6, <1>8, ReqKeeps

(* The steps that change what others look at: all requests are stirred.    *)
LEMMA AllStirred ==
    ASSUME ReqInv, NEW r \in P!Requests, NEW q, Fine(q), req' = P!Stirred([req EXCEPT ![r] = q], P!Requests)
    PROVE  ReqInv'
<1> DEFINE qs == [req EXCEPT ![r] = q]
<1>1. \A p \in P!Requests : Fine(qs[p])
    BY DEF ReqInv
<1>2. req' = P!Stirred(qs, P!Requests) /\ req' = [p \in P!Requests |-> req'[p]]
    BY DEF P!Stirred
<1> HIDE DEF qs
<1>3. \A p \in P!Requests : Fine(req'[p]) /\ Still(req'[p])
    BY <1>1, <1>2, StirredFine
<1> QED BY <1>2, <1>3, ReqStirs

(* A name is given.                                                        *)
LEMMA NameGiven == ASSUME DTypes, ReqInv, NEW r \in P!Requests, P!Rename(r) PROVE ReqInv'
<1> DEFINE q == req[r]
           d == [q EXCEPT !.ok = TRUE, !.pc = "answer"]
<1>1. /\ q.pc = "rename"
      /\ req' = P!Stirred([req EXCEPT ![r] = IF q.door = "rest" THEN d ELSE P!Done(q, TRUE)], P!Requests)
    BY DEF P!Rename
<1>2. q \in Request /\ Fine(q) /\ q.items # <<>> /\ (q.door = "rest" => q.role # None)
    BY <1>1, AtWork
<1>3. Fine(P!Done(q, TRUE))
    BY <1>2, DoneFine
<1> HIDE DEF q
<1>4. d \in Request /\ d.items = q.items /\ d.door = q.door /\ d.role = q.role /\ d.pc = "answer"
    BY <1>2 DEF Request, PCs
<1>5. Fine(d)
  <2> HIDE DEF d
  <2> QED BY <1>2, <1>4 DEF Fine, Shape, Right, Acting, Looking
<1> QED BY <1>1, <1>3, <1>5, AllStirred

(* A terminal is deleted: its session, then its metadata.                  *)
LEMMA TerminalDeleted == ASSUME DTypes, ReqInv, NEW r \in P!Requests, P!Unregister(r) \/ P!Forget(r) PROVE ReqInv'
<1> DEFINE q == req[r]
<1>1. q.pc \in {"unregister", "forget"}
    BY DEF P!Unregister, P!Forget
<1>2. q \in Request /\ Fine(q) /\ q.items # <<>> /\ (q.door = "rest" => q.role # None) /\ q.role = 3
    BY <1>1, AtWork DEF Fine, Right
<1>3. Fine(P!Done(q, TRUE)) /\ Fine([q EXCEPT !.pc = "forget"])
    BY <1>2, DoneFine, Rested
<1>4. CASE P!Unregister(r)
  <2>1. req' = P!Stirred([req EXCEPT ![r] = [q EXCEPT !.pc = "forget"]], P!Requests)
    BY <1>4 DEF P!Unregister
  <2> QED BY <1>3, <2>1, AllStirred
<1>5. CASE P!Forget(r)
  <2>1. req' = P!Stirred([req EXCEPT ![r] = P!Done(q, TRUE)], P!Requests)
    BY <1>5 DEF P!Forget
  <2> QED BY <1>3, <2>1, AllStirred
<1> QED BY <1>4, <1>5

(* A terminal registers, joins the registry or vanishes.                   *)
LEMMA TerminalsMove ==
    ASSUME DTypes, ReqInv, NEW t \in P!Ids, P!Register(t) \/ P!Join(t) \/ P!Vanish(t) PROVE ReqInv'
<1> DEFINE qs == P!Stirred(req, P!Requests)
<1>1. \A p \in P!Requests : Fine(qs[p]) /\ Still(qs[p]) /\ qs[p].items = req[p].items
    BY StirredFine DEF ReqInv
<1>2. qs = [p \in P!Requests |-> qs[p]]
    BY DEF P!Stirred
<1>3. CASE P!Register(t) \/ P!Join(t)
  <2>1. req' = qs
    BY <1>3 DEF P!Register, P!Join
  <2> HIDE DEF qs
  <2> QED BY <1>1, <1>2, <2>1, ReqStirs
<1>4. CASE P!Vanish(t)
  <2> DEFINE S == P!Pending(t)
  <2>1. req' = P!Ended(qs, S)
    BY <1>4 DEF P!Vanish
  <2>2. req' = [p \in P!Requests |-> req'[p]]
    BY <2>1 DEF P!Ended
  <2>3. \A p \in S \cap P!Requests : req[p].items # <<>>
    BY AtWork DEF P!Pending
  <2> HIDE DEF qs, S
  <2>4. \A p \in P!Requests : Fine(req'[p]) /\ Still(req'[p])
    BY <1>1, <2>1, <2>3, EndedFine
  <2> QED BY <2>2, <2>4, ReqStirs
<1> QED BY <1>3, <1>4

(* A terminal is selected: in a session, or for everybody.                 *)
LEMMA TerminalSelected == ASSUME DTypes, ReqInv, NEW r \in P!Requests, P!Select(r) PROVE ReqInv'
<1> DEFINE q  == req[r]
           s  == P!SessionOf(q)
           S  == {p \in P!Requests : s = None \/ (req[p].items # <<>> /\ s \in {req[p].sid, P!Item(req[p]).named})}
           qs == [req EXCEPT ![r] = P!Done(q, TRUE)]
<1>1. /\ q.pc = "select" /\ UNCHANGED <<session, known, name>> /\ req' = P!Stirred(qs, S)
      /\ IF s # None THEN selected' = [selected EXCEPT ![s] = q.on] /\ UNCHANGED everybody ELSE UNCHANGED selected
    BY DEF P!Select, P!registry
<1>2. q \in Request /\ Fine(q) /\ q.items # <<>> /\ (q.door = "rest" => q.role # None)
    BY <1>1, AtWork
<1>3. Fine(P!Done(q, TRUE)) /\ Still(P!Done(q, TRUE))
    BY <1>2, DoneFine
<1>4. \A p \in P!Requests : qs[p] = IF p = r THEN P!Done(q, TRUE) ELSE req[p]
    BY DEF ReqInv
<1>5. req' = [p \in P!Requests |-> req'[p]]
    BY <1>1 DEF P!Stirred
<1>6. \A p \in P!Requests : p \in S <=> (s = None \/ (req[p].items # <<>> /\ s \in {req[p].sid, Head(req[p].items).named}))
    BY DEF P!Item
<1> HIDE DEF qs, S
<1>7. \A p \in P!Requests : Fine(req'[p]) /\ (p \in S => Still(req'[p])) /\ (p \notin S => req'[p] = qs[p])
  <2>1. \A p \in P!Requests : Fine(qs[p])
    BY <1>3, <1>4 DEF ReqInv
  <2> QED BY <1>1, <2>1, StirredFine
<1>8. CASE s = None
  <2>1. \A p \in P!Requests : Fine(req'[p]) /\ Still(req'[p])
    BY <1>6, <1>7, <1>8
  <2> QED BY <1>5, <2>1, ReqStirs
<1>9. CASE s # None
  <2>1. Pres' = Pres /\ NamedOf' = NamedOf /\ P!Only' = P!Only /\ everybody' = everybody
    BY <1>1, <1>9, ViewSame
  <2>2. \A v \in Sessions : v # s => selected'[v] = selected[v]
    BY <1>1, <1>9 DEF DTypes
  <2>3. ASSUME NEW p \in P!Requests PROVE Aim(req[p])'
    <3>1. CASE Still(req'[p])
      <4>1. req'[p] \in Request
        BY <1>7 DEF Fine
      <4> QED BY <3>1, <4>1 DEF Aim, AimAt, Still, PCs, Looking, Request
    <3>2. CASE ~Still(req'[p])
      <4>1. p \notin S /\ p # r /\ req'[p] = req[p]
        BY <1>3, <1>4, <1>7, <3>2
      <4>2. req[p].items # <<>>
        BY <3>2, <4>1 DEF ReqInv, Fine, Shape, Still, PCs, Looking
      <4>3. s # Ses(req[p]) /\ s # SesNow(req[p])
        BY <1>6, <1>9, <4>1, <4>2 DEF Ses, SesNow
      <4>4. Aim(req[p])
        BY DEF ReqInv
      <4>5. /\ Ses(req[p]) # None => selected'[Ses(req[p])] = selected[Ses(req[p])]
            /\ SesNow(req[p]) # None => selected'[SesNow(req[p])] = selected[SesNow(req[p])]
        <5>1. req[p] \in Request
            BY DEF ReqInv
        <5>2. Ses(req[p]) \in Sessions \cup {None} /\ SesNow(req[p]) \in Sessions \cup {None}
            BY <4>2, <5>1, ItemTypes DEF SesNow, Request
        <5> QED BY <2>2, <4>3, <5>2
      <4>6. AimAt(req[p], Pres, NamedOf, selected', everybody, P!Only)
        BY <4>4, <4>5 DEF Aim, AimAt, MeantAt
      <4> QED BY <2>1, <4>1, <4>6 DEF Aim
    <3> QED BY <3>1, <3>2
  <2>4. \A p \in P!Requests : req'[p] \in Request
    BY <1>7 DEF Fine
  <2> QED BY <1>5, <1>7, <2>3, <2>4 DEF ReqInv, Fine, Shape, Right
<1> QED BY <1>8, <1>9

(* An item is over: the next begins, or the answers are sent.              *)
LEMMA ItemAnswered == ASSUME DTypes, ReqInv, NEW r \in P!Requests, P!Answer(r) PROVE ReqInv'
<1> DEFINE n == IF P!Item(req[r]).id THEN req[r].replies + 1 ELSE req[r].replies
           q == [req[r] EXCEPT !.items = Tail(@), !.replies = n]
           d == [q EXCEPT !.pc = "send"]
<1>1. /\ req[r].pc = "answer" /\ UNCHANGED <<session, known, name, selected, everybody>>
      /\ req' = [req EXCEPT ![r] = IF q.items # <<>> THEN P!Started(q) ELSE IF q.door = "stdio" /\ q.replies > 0 THEN d ELSE P!Idle]
    BY DEF P!Answer, P!Put, P!registry, P!selections
<1>2. /\ req[r] \in Request /\ req[r].items # <<>> /\ (req[r].door = "rest" => req[r].role # None)
      /\ Tail(req[r].items) \in Seq(P!Items)
    BY <1>1, AtWork, ItemTypes
<1>3. n \in Nat
    BY <1>2 DEF Request
<1> HIDE DEF n
<1>4. q \in Request /\ q.door = req[r].door /\ q.role = req[r].role
    BY <1>2, <1>3 DEF Request
<1> HIDE DEF q
<1>5. CASE q.items # <<>>
    BY <1>1, <1>2, <1>4, <1>5, StartedFine, ReqPut
<1>6. CASE q.items = <<>> /\ q.door = "stdio" /\ q.replies > 0
  <2>1. d \in Request /\ d.pc = "send" /\ d.door = "stdio"
    BY <1>4, <1>6 DEF Request, PCs
  <2>2. Fine(d) /\ Aim(d)
    <3> HIDE DEF d
    <3> QED BY <2>1, StillAims DEF Fine, Shape, Right, Acting, Looking, Still, PCs
  <2> QED BY <1>1, <1>6, <2>2, ReqPut
<1>7. CASE q.items = <<>> /\ ~(q.door = "stdio" /\ q.replies > 0)
    BY <1>1, <1>7, IdleFine, ReqPut
<1> QED BY <1>5, <1>6, <1>7

(* A request arrives, over HTTP or on a line,                              *)
LEMMA RequestBegins ==
    ASSUME DTypes, ReqInv, (\E r \in P!Requests : P!Begin(r)) \/ P!ReadLine
    PROVE  ReqInv'
<1>1. UNCHANGED <<session, known, name, selected, everybody>>
    BY DEF P!Begin, P!ReadLine, P!registry, P!selections
<1>2. ASSUME NEW r \in P!Requests, NEW q \in Request, q.items # <<>>, q.door = "rest" => q.role # None,
             req' = [req EXCEPT ![r] = P!Started(q)]
      PROVE  ReqInv'
    BY <1>1, <1>2, StartedFine, ReqPut
<1>3. P!Idle \in Request
    BY IdleFine DEF Fine
<1>4. ASSUME NEW r \in P!Requests, P!Begin(r) PROVE ReqInv'
  <2>1. PICK h \in left : req' = [req EXCEPT ![r] = P!Started([P!Idle EXCEPT !.door = h.door, !.role = h.role, !.sid = h.sid, !.items = h.items])]
    BY <1>4 DEF P!Begin, P!Put
  <2>2. h \in P!Errand /\ h.items # <<>> /\ (h.door = "rest" => h.role # None)
    BY ErrandsAssumption DEF DTypes
  <2>3. h.door \in {"mcp", "rest", "stdio"} /\ h.role \in {1, 2, 3, None} /\ h.sid \in Sessions \cup {None} /\ h.items \in Seq(P!Items)
    BY <2>2 DEF P!Errand
  <2> DEFINE q == [P!Idle EXCEPT !.door = h.door, !.role = h.role, !.sid = h.sid, !.items = h.items]
  <2>4. q \in Request /\ q.items = h.items /\ q.door = h.door /\ q.role = h.role
    BY <1>3, <2>3 DEF Request
  <2> HIDE DEF q
  <2> QED BY <2>1, <2>2, <2>4, <1>2 DEF q
<1>5. ASSUME P!ReadLine PROVE ReqInv'
  <2>1. PICK r \in P!Requests :
          /\ line < Len(P!Lines) /\ P!Lines[line + 1] # <<>>
          /\ req' = [req EXCEPT ![r] = P!Started([P!Idle EXCEPT !.door = "stdio", !.line = line + 1, !.items = P!Lines[line + 1]])]
    BY <1>5 DEF P!ReadLine, P!Put
  <2>2. P!Lines \in Seq(Seq(P!Items)) /\ line \in Nat
    BY ErrandsAssumption DEF DTypes, P!Lines
  <2>3. P!Lines[line + 1] \in Seq(P!Items) /\ line + 1 \in Nat
    BY <2>1, <2>2
  <2> DEFINE q == [P!Idle EXCEPT !.door = "stdio", !.line = line + 1, !.items = P!Lines[line + 1]]
  <2>4. q \in Request /\ q.items = P!Lines[line + 1] /\ q.door = "stdio"
    BY <1>3, <2>3 DEF Request
  <2>5. req' = [req EXCEPT ![r] = P!Started(q)]
    BY <2>1
  <2> HIDE DEF q
  <2> QED BY <2>1, <2>4, <2>5, <1>2
<1> QED BY <1>4, <1>5

(* and ends, by its client or with its last answer.                        *)
LEMMA RequestEnds ==
    ASSUME DTypes, ReqInv, NEW r \in P!Requests, P!Drop(r) \/ P!Gone(r) \/ P!Send(r) PROVE ReqInv'
<1> DEFINE q == req[r]
           d == [q EXCEPT !.pc = "gone"]
<1>1. /\ UNCHANGED <<session, known, name, selected, everybody>>
      /\ req' = [req EXCEPT ![r] = P!Idle] \/ (q.pc = "wait" /\ req' = [req EXCEPT ![r] = d])
    BY DEF P!Drop, P!Gone, P!Send, P!Put, P!registry, P!selections
<1>2. CASE req' = [req EXCEPT ![r] = P!Idle]
    BY <1>1, <1>2, IdleFine, ReqPut
<1>3. CASE q.pc = "wait" /\ req' = [req EXCEPT ![r] = d]
  <2>1. q \in Request /\ Fine(q) /\ q.items # <<>>
    BY <1>3, AtWork
  <2> HIDE DEF q
  <2>2. d \in Request /\ d.items = q.items /\ d.door = q.door /\ d.role = q.role /\ d.pc = "gone"
    BY <2>1 DEF Request, PCs
  <2>3. Fine(d) /\ Aim(d)
    <3> HIDE DEF d
    <3> QED BY <1>3, <2>1, <2>2, StillAims DEF Fine, Shape, Right, Acting, Looking, Still, PCs
  <2> QED BY <1>1, <1>3, <2>3, ReqPut
<1> QED BY <1>1, <1>2, <1>3

(* The registry, the selections, the lines and the answers.                *)
LEMMA TypesKept == ASSUME DTypes, ReqInv, P!Next PROVE DTypes'
<1> USE DEF DTypes, P!registry, P!selections, P!stdio
<1>1. ASSUME NEW r \in P!Requests,
             P!ReadSession(r) \/ P!ReadGlobal(r) \/ P!CountOnline(r) \/ P!FindId(r) \/ P!FindName(r) \/ P!Invoke(r)
               \/ P!Finish(r) \/ P!Cancel(r) \/ P!Abort(r) \/ P!Input(r) \/ P!Answer(r) \/ P!Drop(r) \/ P!Gone(r)
      PROVE  DTypes'
    BY <1>1 DEF P!ReadSession, P!ReadGlobal, P!CountOnline, P!FindId, P!FindName, P!Invoke, P!Finish, P!Cancel, P!Abort,
                P!Input, P!Answer, P!Drop, P!Gone
<1>2. ASSUME NEW r \in P!Requests, P!Save(r) PROVE DTypes'
    BY <1>2 DEF P!Save
<1>3. ASSUME NEW r \in P!Requests, P!Select(r) PROVE DTypes'
  <2>1. req[r].on \in P!Ids
    BY <1>3 DEF P!Select, ReqInv, Fine, Shape
  <2>2. P!SessionOf(req[r]) # None => selected' = [selected EXCEPT ![P!SessionOf(req[r])] = req[r].on] /\ everybody' = everybody
    BY <1>3 DEF P!Select
  <2>3. P!SessionOf(req[r]) = None => selected' = selected /\ everybody' = req[r].on
    BY <1>3 DEF P!Select
  <2>4. everybody' \in P!Ids \cup {None} /\ selected' \in [Sessions -> P!Ids \cup {None}]
    BY <2>1, <2>2, <2>3
  <2> QED BY <1>3, <2>4 DEF P!Select
<1>4. ASSUME NEW r \in P!Requests, P!Rename(r) PROVE DTypes'
    BY <1>4 DEF P!Rename
<1>5. ASSUME NEW r \in P!Requests, P!Unregister(r) PROVE DTypes'
    BY <1>5 DEF P!Unregister
<1>6. ASSUME NEW r \in P!Requests, P!Forget(r) PROVE DTypes'
    BY <1>6 DEF P!Forget
<1>7. ASSUME NEW r \in P!Requests, P!Send(r) PROVE DTypes'
  <2>1. req[r].line \in Nat
    BY DEF ReqInv, Request
  <2>2. out' \in Seq(Nat) /\ Len(out') <= Room
    BY <1>7, <2>1, ErrandsAssumption DEF P!Send, P!HasRoom
  <2> QED BY <1>7, <2>2 DEF P!Send
<1>8. ASSUME NEW r \in P!Requests, P!Begin(r) PROVE DTypes'
    BY <1>8 DEF P!Begin
<1>9. ASSUME NEW t \in P!Ids, P!Register(t) \/ P!Join(t) \/ P!Vanish(t) PROVE DTypes'
    BY <1>9 DEF P!Register, P!Join, P!Vanish
<1>10. ASSUME P!ReadBad PROVE DTypes'
  <2>1. out' \in Seq(Nat) /\ Len(out') <= Room /\ line' \in Nat
    BY <1>10, ErrandsAssumption DEF P!ReadBad, P!HasRoom
  <2> QED BY <1>10, <2>1 DEF P!ReadBad
<1>11. ASSUME P!Write \/ P!WriteError PROVE DTypes'
  <2>1. CASE out # <<>> /\ out' = Tail(out)
    <3>1. out' \in Seq(Nat) /\ Len(out') = Len(out) - 1
        BY <2>1, HeadTailProperties
    <3> QED BY <1>11, <3>1, ErrandsAssumption DEF P!Write, P!WriteError
  <2>2. CASE out' = <<>>
    <3>1. out' \in Seq(Nat) /\ Len(out') = 0
        BY <2>2
    <3> QED BY <1>11, <3>1, ErrandsAssumption DEF P!Write, P!WriteError
  <2> QED BY <1>11, <2>1, <2>2 DEF P!Write, P!WriteError
<1>12. ASSUME P!ReadLine \/ P!EndOfInput \/ P!WriterEnds \/ P!Return \/ P!InputError PROVE DTypes'
    BY <1>12 DEF P!ReadLine, P!EndOfInput, P!WriterEnds, P!Return, P!InputError
<1> QED BY <1>1, <1>2, <1>3, <1>4, <1>5, <1>6, <1>7, <1>8, <1>9, <1>10, <1>11, <1>12 DEF P!Next, P!Work, P!Stdio

(* Every step of the dispatch.                                             *)
LEMMA RequestsKept == ASSUME DTypes, ReqInv, P!Next PROVE ReqInv'
<1>1. ASSUME NEW r \in P!Requests, P!Work(r) PROVE ReqInv'
    BY <1>1, SessionRead, GlobalRead, OnlineCounted, IdFound, NameFound, TerminalSelected, NameGiven, CallInvoked,
       CallFinished, CallCancelled, CallsAborted, TerminalDeleted, InputDone, ItemAnswered, RequestEnds DEF P!Work
<1>2. ASSUME P!ReadBad \/ P!EndOfInput \/ P!Write \/ P!WriterEnds \/ P!Return \/ P!InputError \/ P!WriteError PROVE ReqInv'
  <2>1. UNCHANGED <<session, known, name, selected, everybody, req>>
    BY <1>2 DEF P!ReadBad, P!EndOfInput, P!Write, P!WriterEnds, P!Return, P!InputError, P!WriteError, P!registry, P!selections
  <2> QED BY <2>1, ReqKeeps DEF ReqInv
<1> QED BY <1>1, <1>2, RequestBegins, RequestEnds, TerminalsMove DEF P!Next, P!Stdio

(* The initial state.                                                      *)
LEMMA DispatchInit == P!Init => DTypes /\ ReqInv
<1> SUFFICES ASSUME P!Init PROVE DTypes /\ ReqInv
    OBVIOUS
<1>1. DTypes
    BY ErrandsAssumption DEF P!Init, DTypes
<1>2. ReqInv
    BY IdleFine DEF P!Init, ReqInv, Fine
<1> QED BY <1>1, <1>2

(* A part that stands still.                                               *)
LEMMA DispatchStill == DTypes /\ ReqInv /\ UNCHANGED dispatch => DTypes' /\ ReqInv'
<1> SUFFICES ASSUME DTypes, ReqInv, UNCHANGED dispatch PROVE DTypes' /\ ReqInv'
    OBVIOUS
<1>1. DTypes'
    BY DEF dispatch, DTypes
<1>2. ReqInv'
    BY ReqKeeps DEF dispatch, ReqInv
<1> QED BY <1>1, <1>2

(* The invariant of the dispatch.                                          *)
THEOREM DispatchHolds == MCSpec => [](DTypes /\ ReqInv)
<1>1. MCInit => DTypes /\ ReqInv
    BY DispatchInit DEF MCInit
<1>2. DTypes /\ ReqInv /\ [MCNext]_<<part, vars, lifecycle, dispatch>> => (DTypes /\ ReqInv)'
    BY TypesKept, RequestsKept, DispatchStill DEF MCNext
<1> QED BY <1>1, <1>2, PTL DEF MCSpec

(* A call runs on the terminal it means.                                   *)
THEOREM AlwaysRunsWhereMeant == MCSpec => []RunsWhereMeant
<1>1. DTypes /\ ReqInv => P!TypeOK
    BY DEF DTypes, ReqInv, P!TypeOK, P!Working, Fine, Shape, Request
<1>2. DTypes /\ ReqInv => P!RunsWhereMeant
  <2> SUFFICES ASSUME DTypes, ReqInv, NEW r \in P!Requests, req[r].pc = "wait", req[r].calm, req[r].door # "rest"
               PROVE  /\ req[r].on = P!Meant(req[r])
                      /\ P!Item(req[r]).arg = None /\ P!Item(req[r]).named = None => req[r].target = req[r].on
    BY DEF P!RunsWhereMeant, P!Working
  <2> DEFINE q == req[r]
             x == Head(q.items).arg
  <2>1. /\ q.items # <<>> /\ Aim(q) /\ P!Item(q) = Head(q.items) /\ x \in DOMAIN Fold \cup {"", None}
    BY AtWork DEF P!Items
  <2>2. P!Meant(q) = Meant(q)
    <3>1. x \in DOMAIN Fold => NamedOf[x] = P!Named(x)
        BY DEF NamedOf
    <3>2. x \in Pres <=> x \in P!Ids /\ P!Present(x)
        BY DEF Pres
    <3> QED BY <2>1, <3>1, <3>2 DEF P!Meant, Meant, MeantAt, Ses
  <2> HIDE DEF q
  <2>3. q.on = Meant(q) /\ (x = None /\ Head(q.items).named = None => q.target = Meant(q))
    BY <2>1 DEF q, Aim, AimAt, Meant
  <2> QED BY <2>1, <2>2, <2>3 DEF q
<1> QED BY <1>1, <1>2, DispatchHolds, PTL DEF RunsWhereMeant

(* Nobody is at work on what his role does not allow.                      *)
THEOREM AlwaysActsByRight == MCSpec => []ActsByRight
<1>1. ReqInv => P!ActsByRight
  <2>1. P!RequiredRole("cancel_tool") = 2
    BY CancelRole DEF P!Cancels
  <2> QED BY <2>1 DEF ReqInv, Fine, Right, Acting, P!ActsByRight, P!Working, P!Item
<1> QED BY <1>1, DispatchHolds, PTL DEF ActsByRight

-----------------------------------------------------------------------------
(***************************************************************************)
(* Dispatch over stdio. A line is read, at work, on its way to the writer, *)
(* written, or lost with the writer, and never two of these; a line at     *)
(* work is owed an answer if one of its items still to come wants one or   *)
(* one that is done has had one. So what is written when the server        *)
(* returns is every line that is owed an answer, once.                     *)
(***************************************************************************)
Due(k) == P!Lines[k] = <<>> \/ \E i \in 1..Len(P!Lines[k]) : P!Lines[k][i].id
In(s)  == {s[i] : i \in 1..Len(s)}
Distinct(s) == \A i, j \in 1..Len(s) : s[i] = s[j] => i = j
Piped  == {r \in P!Requests : req[r].door = "stdio"}

AtLine(q) ==
    /\ q.pc \notin {"idle", "gone"} /\ q.line \in 1..line
    /\ Due(q.line) <=> (q.replies > 0 \/ \E i \in 1..Len(q.items) : q.items[i].id)
    /\ q.pc = "send" => q.replies > 0
AtWorkInv == \A r \in Piped : AtLine(req[r])
SendInv   == \A r \in P!Requests : req[r].pc = "send" => req[r].door = "stdio"
TellInv   == \A k \in In(written) \cup In(out) : k \in 1..line /\ Due(k)
OnceInv   ==
    /\ Distinct(written) /\ Distinct(out) /\ In(written) \cap In(out) = {}
    /\ \A r \in Piped : req[r].line \notin In(written) \cup In(out)
    /\ \A r, p \in Piped : req[r].line = req[p].line => r = p
OwedInv   == \A k \in 1..line : Due(k) =>
    writer = "down" \/ k \in In(written) \cup In(out) \/ \E r \in Piped : req[r].line = k
EndInv    ==
    /\ reader \in {"reading", "draining", "returned", "failed"} /\ writer \in {"up", "done", "down"}
    /\ line <= Len(P!Lines) /\ (reader \in {"draining", "returned"} => line = Len(P!Lines))
    /\ reader = "returned" => writer # "up"
    /\ writer = "done" => out = <<>> /\ Piped = {} /\ reader # "reading"
PipeInv == written \in Seq(Nat) /\ AtWorkInv /\ SendInv /\ TellInv /\ OnceInv /\ OwedInv /\ EndInv

(* Lists without repetitions, and what is in them.                         *)
LEMMA InAppended ==
    ASSUME NEW s \in Seq(Nat), NEW k \in Nat
    PROVE  /\ In(Append(s, k)) = In(s) \cup {k}
           /\ Distinct(s) /\ k \notin In(s) => Distinct(Append(s, k))
<1> DEFINE t == Append(s, k)
<1>1. Len(t) = Len(s) + 1 /\ Len(s) \in Nat /\ t[Len(s) + 1] = k /\ \A i \in 1..Len(s) : t[i] = s[i]
    OBVIOUS
<1> HIDE DEF t
<1>2. In(t) = In(s) \cup {k}
  <2>1. \A x \in In(t) : x \in In(s) \cup {k}
    BY <1>1 DEF In
  <2>2. k \in In(t)
    BY <1>1 DEF In
  <2>3. \A x \in In(s) : x \in In(t)
    BY <1>1 DEF In
  <2> QED BY <2>1, <2>2, <2>3
<1>3. ASSUME Distinct(s), k \notin In(s) PROVE Distinct(t)
  <2> SUFFICES ASSUME NEW i \in 1..Len(t), NEW j \in 1..Len(t), t[i] = t[j] PROVE i = j
    BY DEF Distinct
  <2>1. \A n \in 1..Len(s) : s[n] # k
    BY <1>3 DEF In
  <2>2. i \in 1..Len(s) \/ i = Len(s) + 1
    BY <1>1
  <2>3. j \in 1..Len(s) \/ j = Len(s) + 1
    BY <1>1
  <2> QED BY <1>1, <1>3, <2>1, <2>2, <2>3 DEF Distinct
<1> QED BY <1>2, <1>3 DEF t

LEMMA InTaken ==
    ASSUME NEW s \in Seq(Nat), s # <<>>
    PROVE  /\ Head(s) \in Nat /\ Tail(s) \in Seq(Nat) /\ In(s) = In(Tail(s)) \cup {Head(s)}
           /\ Distinct(s) => Distinct(Tail(s)) /\ Head(s) \notin In(Tail(s))
<1> DEFINE t == Tail(s)
<1>1. /\ t \in Seq(Nat) /\ Len(s) = Len(t) + 1 /\ Len(t) \in Nat /\ Head(s) = s[1] /\ Head(s) \in Nat
      /\ \A i \in 1..Len(t) : t[i] = s[i + 1]
    BY HeadTailProperties
<1> HIDE DEF t
<1>2. In(s) = In(t) \cup {Head(s)}
  <2>1. \A x \in In(t) : x \in In(s)
    <3> SUFFICES ASSUME NEW i \in 1..Len(t) PROVE t[i] \in In(s)
        BY DEF In
    <3>1. i + 1 \in 1..Len(s) /\ t[i] = s[i + 1]
        BY <1>1
    <3> QED BY <3>1 DEF In
  <2>2. Head(s) \in In(s)
    BY <1>1 DEF In
  <2>3. \A x \in In(s) : x \in In(t) \cup {Head(s)}
    <3> SUFFICES ASSUME NEW i \in 1..Len(s), i # 1 PROVE s[i] \in In(t)
        BY <1>1 DEF In
    <3>1. i - 1 \in 1..Len(t)
        BY <1>1
    <3>2. t[i - 1] = s[i - 1 + 1] /\ i - 1 + 1 = i
      <4>1. t[i - 1] = s[i - 1 + 1]
        BY ONLY <1>1, <3>1
      <4> QED BY <4>1
    <3> QED BY <3>1, <3>2 DEF In
  <2> QED BY <2>1, <2>2, <2>3
<1>3. ASSUME Distinct(s) PROVE Distinct(t) /\ Head(s) \notin In(t)
  <2>2. Distinct(t)
    <3> SUFFICES ASSUME NEW i \in 1..Len(t), NEW j \in 1..Len(t), t[i] = t[j] PROVE i = j
        BY DEF Distinct
    <3>1. i + 1 \in 1..Len(s) /\ j + 1 \in 1..Len(s) /\ s[i + 1] = s[j + 1]
        BY <1>1
    <3>2. i + 1 = j + 1
        BY <1>3, <3>1 DEF Distinct
    <3> QED BY <1>1, <3>2
  <2>3. ASSUME NEW i \in 1..Len(t), t[i] = s[1] PROVE FALSE
    <3>1. i + 1 \in 1..Len(s) /\ 1 \in 1..Len(s) /\ i + 1 # 1
        BY <1>1
    <3> QED BY <1>1, <1>3, <2>3, <3>1 DEF Distinct
  <2> QED BY <1>1, <2>2, <2>3 DEF In
<1> QED BY <1>1, <1>2, <1>3 DEF t

(***************************************************************************)
(* The steps between the reading of a line and its answer: its request     *)
(* keeps its line, its items and its answers.                              *)
(***************************************************************************)
Resting    == {"idle", "gone", "send"}
Same(p, q) == q.door = p.door /\ q.line = p.line /\ q.items = p.items /\ q.replies = p.replies
Goes(p, q) == Same(p, q) /\ q.pc \notin Resting
Tied(p, q) == \/ Same(p, q) /\ (q.pc = p.pc \/ q.pc \notin Resting)
              \/ p.door # "stdio" /\ q.door # "stdio" /\ q.pc # "send"
AllTied    == \A r \in P!Requests : Tied(req[r], req'[r])

LEMMA DoneGoes == ASSUME NEW q \in Request, NEW good \in BOOLEAN PROVE Goes(q, P!Done(q, good))
BY DEF P!Done, Request, Goes, Same, Resting

LEMMA CheckedGoes == ASSUME NEW q \in Request PROVE Goes(q, P!Checked(q))
<1>1. Goes(q, P!Rest(q))
    BY DEF P!Rest, Request, Goes, Same, Resting
<1>2. Goes(q, P!Tool(q))
  <2>1. ASSUME NEW g, NEW n \in PCs \ Resting PROVE Goes(q, [q EXCEPT !.goal = g, !.pc = n])
    BY DEF Request, PCs, Goes, Same, Resting
  <2>2. Goes(q, [q EXCEPT !.pc = "cancel"])
    BY DEF Request, Goes, Same, Resting
  <2>3. "session" \in PCs \ Resting /\ "find" \in PCs \ Resting
    BY DEF PCs, Resting
  <2>4. (P!Item(q).tool \in P!Readings) \in BOOLEAN
    OBVIOUS
  <2> DEFINE tool == P!Item(q).tool
             x == P!Item(q).arg
             first == IF x \in {None, ""} THEN "session" ELSE "find"
             chosen == IF tool = "select_terminal" THEN "select" ELSE "rename"
  <2>5. P!Tool(q) = CASE tool \in P!AgentTools -> [q EXCEPT !.goal = "run", !.pc = first]
                      [] tool \in {"select_terminal", "rename_terminal"} /\ x # None ->
                            [q EXCEPT !.goal = chosen, !.pc = "find"]
                      [] tool = "get_active_terminal" -> [q EXCEPT !.goal = "active", !.pc = "session"]
                      [] tool \in P!Cancels -> [q EXCEPT !.pc = "cancel"]
                      [] OTHER -> P!Done(q, tool \in P!Readings)
    BY Zenon DEF P!Tool
  <2>6. first \in PCs \ Resting
    BY <2>3
  <2>7. Goes(q, P!Done(q, tool \in P!Readings))
    BY <2>4, DoneGoes
  <2> HIDE DEF tool, x, first, chosen
  <2>8. /\ Goes(q, [q EXCEPT !.goal = "run", !.pc = first]) /\ Goes(q, [q EXCEPT !.goal = chosen, !.pc = "find"])
        /\ Goes(q, [q EXCEPT !.goal = "active", !.pc = "session"])
    BY <2>1, <2>3, <2>6
  <2> QED BY ONLY <2>2, <2>5, <2>7, <2>8, Zenon
<1>3. Goes(q, [q EXCEPT !.rec = "DENIED", !.pc = "answer"])
    BY DEF Request, Goes, Same, Resting
<1> QED BY <1>1, <1>2, <1>3 DEF P!Checked

LEMMA StartedGoes == ASSUME NEW q \in Request, q.items # <<>> PROVE Goes(q, P!Started(q))
<1> DEFINE x == P!Item(q).arg
           p == [q EXCEPT !.calm = TRUE, !.on = None, !.target = x, !.ok = FALSE, !.rec = None]
<1>1. x \in Targets
    BY ItemTypes
<1> HIDE DEF x
<1>2. p \in Request /\ Same(q, p)
    BY <1>1 DEF Request, Targets, Same
<1>3. P!Started(q) = IF P!Item(p).tool = "ping" THEN [p EXCEPT !.ok = TRUE, !.pc = "answer"]
                     ELSE IF p.door = "rest" \/ x # None THEN P!Checked(p)
                     ELSE [p EXCEPT !.goal = "audit", !.pc = "session"]
    BY DEF P!Started, x
<1> HIDE DEF p
<1>4. Goes(p, [p EXCEPT !.ok = TRUE, !.pc = "answer"]) /\ Goes(p, [p EXCEPT !.goal = "audit", !.pc = "session"])
    BY <1>2 DEF Request, Goes, Same, Resting
<1>5. Goes(p, P!Started(q))
    BY <1>2, <1>3, <1>4, CheckedGoes
<1> QED BY <1>2, <1>5 DEF Goes, Same

(* One request moves.                                                      *)
LEMMA PutTies ==
    ASSUME ReqInv, NEW r \in P!Requests, NEW d, req' = [req EXCEPT ![r] = d], Tied(req[r], d)
    PROVE  AllTied
<1>1. \A p \in P!Requests : req'[p] = IF p = r THEN d ELSE req[p]
    BY DEF ReqInv
<1>2. \A p \in P!Requests : Tied(req[p], req[p])
    BY DEF Tied, Same
<1> QED BY <1>1, <1>2 DEF AllTied

LEMMA GoesTies == \A p, q : Goes(p, q) => Tied(p, q)
BY DEF Goes, Tied

LEMMA TiedOn == \A p, q, u : Tied(p, q) /\ Tied(q, u) => Tied(p, u)
BY DEF Tied, Same, Resting

(* Requests that something they look at has changed, and calls that end.   *)
LEMMA StirredTies ==
    ASSUME NEW qs \in [P!Requests -> Request], NEW S, NEW r \in P!Requests
    PROVE  P!Stirred(qs, S)[r] \in Request /\ Tied(qs[r], P!Stirred(qs, S)[r])
BY DEF P!Stirred, Request, Tied, Same

LEMMA EndedTies ==
    ASSUME NEW qs \in [P!Requests -> Request], NEW S, NEW r \in P!Requests, qs[r].pc = "gone" => qs[r].door # "stdio"
    PROVE  Tied(qs[r], P!Ended(qs, S)[r])
<1>1. P!Idle.door # "stdio" /\ P!Idle.pc # "send"
    BY ErrandsAssumption DEF P!Idle
<1>2. P!Ended(qs, S)[r] = IF r \notin S THEN qs[r] ELSE IF qs[r].pc = "gone" THEN P!Idle ELSE P!Done(qs[r], FALSE)
    BY DEF P!Ended
<1>3. Tied(qs[r], qs[r])
    BY DEF Tied, Same
<1>4. Tied(qs[r], P!Done(qs[r], FALSE))
    BY DoneGoes, GoesTies
<1> QED BY <1>1, <1>2, <1>3, <1>4 DEF Tied

(* A tool call that has found where it goes, or what it looked for.        *)
LEMMA ResolvedGoes ==
    ASSUME NEW q \in Request, q.goal \in {"audit", "active", "run"}, NEW t \in P!Ids \cup {None}
    PROVE  Goes(q, P!Resolved(q, t))
<1>1. CASE q.goal = "audit"
  <2> DEFINE d == [q EXCEPT !.target = t]
  <2>1. d \in Request /\ Same(q, d)
    BY DEF Request, Targets, Same
  <2>2. P!Resolved(q, t) = P!Checked(d)
    BY <1>1 DEF P!Resolved
  <2> HIDE DEF d
  <2> QED BY <2>1, <2>2, CheckedGoes DEF Goes, Same
<1>2. CASE q.goal = "active"
    BY <1>2, DoneGoes DEF P!Resolved
<1>3. CASE q.goal = "run"
  <2>1. Goes(q, [q EXCEPT !.on = t, !.pc = "invoke"])
    BY DEF Request, Goes, Same, Resting
  <2> QED BY <1>3, <2>1, DoneGoes DEF P!Resolved
<1> QED BY <1>1, <1>2, <1>3

LEMMA FoundGoes ==
    ASSUME NEW q \in Request, q.goal \in {"run", "select", "rename"}, NEW t
    PROVE  Goes(q, P!Found(q, t))
<1> DEFINE o == IF t = None THEN P!Item(q).arg ELSE t
           n == IF q.goal = "run" THEN "invoke" ELSE q.goal
<1>1. n \notin Resting
    BY DEF Resting
<1>2. P!Found(q, t) = IF q.goal = "select" /\ t = None THEN P!Done(q, FALSE) ELSE [q EXCEPT !.on = o, !.pc = n]
    BY Zenon DEF P!Found
<1> HIDE DEF o, n
<1>3. Goes(q, [q EXCEPT !.on = o, !.pc = n])
    BY <1>1 DEF Request, Goes, Same
<1> QED BY <1>2, <1>3, DoneGoes

(* What a request does by itself, until its items are done.                *)
LEMMA LooksTie ==
    ASSUME DTypes, ReqInv, NEW r \in P!Requests,
           P!ReadSession(r) \/ P!ReadGlobal(r) \/ P!CountOnline(r) \/ P!FindId(r) \/ P!FindName(r)
    PROVE  AllTied
<1> DEFINE q == req[r]
<1>1. q \in Request /\ Shape(q)
    BY DEF ReqInv, Fine
<1>2. ASSUME NEW d, req' = [req EXCEPT ![r] = d], Goes(q, d) PROVE AllTied
    BY <1>2, PutTies, GoesTies
<1>3. /\ Goes(q, [q EXCEPT !.pc = "global"]) /\ Goes(q, [q EXCEPT !.pc = "single"])
      /\ Goes(q, [q EXCEPT !.pc = "names"])
    BY <1>1 DEF Request, Goes, Same, Resting
<1>4. CASE P!ReadSession(r)
  <2> DEFINE t == IF P!SessionOf(q) = None THEN None ELSE selected[P!SessionOf(q)]
  <2>1. q.pc = "session" /\ req' = [req EXCEPT ![r] = IF t # None THEN P!Resolved(q, t) ELSE [q EXCEPT !.pc = "global"]]
    BY <1>4 DEF P!ReadSession, P!Put
  <2>2. q.goal \in {"audit", "active", "run"} /\ q.items # <<>>
    BY <1>1, <2>1 DEF Shape, Looking
  <2>3. P!SessionOf(q) \in Sessions \cup {None}
    BY <1>1, <2>2, ItemTypes DEF P!SessionOf, Ses, Request
  <2>4. t \in P!Ids \cup {None}
    BY <2>3 DEF DTypes
  <2> HIDE DEF t, q
  <2>5. Goes(q, P!Resolved(q, t))
    BY <1>1, <2>2, <2>4, ResolvedGoes
  <2> QED BY <1>2, <1>3, <2>1, <2>5
<1>5. CASE P!ReadGlobal(r)
  <2>1. q.pc = "global" /\ req' = [req EXCEPT ![r] = IF everybody # None \/ q.goal = "active" THEN P!Resolved(q, everybody)
                                                      ELSE [q EXCEPT !.pc = "single"]]
    BY <1>5 DEF P!ReadGlobal, P!Put
  <2>2. q.goal \in {"audit", "active", "run"} /\ everybody \in P!Ids \cup {None}
    BY <1>1, <2>1 DEF Shape, Looking, DTypes
  <2> HIDE DEF q
  <2>3. Goes(q, P!Resolved(q, everybody))
    BY <1>1, <2>2, ResolvedGoes
  <2> QED BY <1>2, <1>3, <2>1, <2>3
<1>6. CASE P!CountOnline(r)
  <2>1. q.pc = "single" /\ req' = [req EXCEPT ![r] = P!Resolved(q, P!Only)]
    BY <1>6 DEF P!CountOnline, P!Put
  <2>2. q.goal \in {"audit", "active", "run"} /\ P!Only \in P!Ids \cup {None}
    BY <1>1, <2>1, OnlyTypes DEF Shape, Looking
  <2> HIDE DEF q
  <2>3. Goes(q, P!Resolved(q, P!Only))
    BY <1>1, <2>2, ResolvedGoes
  <2> QED BY <1>2, <2>1, <2>3
<1>7. CASE P!FindId(r) \/ P!FindName(r)
  <2>1. /\ q.pc \in {"find", "names"}
        /\ \/ \E t : req' = [req EXCEPT ![r] = P!Found(q, t)]
           \/ req' = [req EXCEPT ![r] = [q EXCEPT !.pc = "names"]]
    BY <1>7 DEF P!FindId, P!FindName, P!Put
  <2>2. q.goal \in {"run", "select", "rename"}
    BY <1>1, <2>1 DEF Shape
  <2> HIDE DEF q
  <2>3. \A t : Goes(q, P!Found(q, t))
    BY <1>1, <2>2, FoundGoes
  <2> QED BY <1>2, <1>3, <2>1, <2>3
<1> QED BY <1>4, <1>5, <1>6, <1>7

LEMMA ActsTie ==
    ASSUME ReqInv, NEW r \in P!Requests, P!Invoke(r) \/ P!Finish(r) \/ P!Save(r) \/ P!Input(r)
    PROVE  AllTied
<1> DEFINE q == req[r]
<1>1. q \in Request
    BY DEF ReqInv
<1>3. PICK d : req' = [req EXCEPT ![r] = d] /\ Goes(q, d)
  <2>1. CASE P!Invoke(r)
    <3>1. Goes(q, [q EXCEPT !.pc = "wait"])
        BY <1>1 DEF Request, Goes, Same, Resting
    <3>2. req' = [req EXCEPT ![r] = IF q.on \in P!Online THEN [q EXCEPT !.pc = "wait"] ELSE P!Done(q, FALSE)]
        BY <2>1 DEF P!Invoke, P!Put
    <3> HIDE DEF q
    <3> QED BY <1>1, <3>1, <3>2, DoneGoes
  <2>2. CASE P!Finish(r)
    <3>1. PICK good \in BOOLEAN, n \in {"save", "answer"} : req' = [req EXCEPT ![r] = [P!Done(q, good) EXCEPT !.pc = n]]
        BY <2>2 DEF P!Finish, P!Put
    <3> HIDE DEF q
    <3>2. Goes(q, [P!Done(q, good) EXCEPT !.pc = n])
        BY <1>1 DEF P!Done, Request, Goes, Same, Resting
    <3> QED BY <3>1, <3>2
  <2>3. CASE P!Save(r)
    <3>1. Goes(q, [q EXCEPT !.pc = "answer"])
        BY <1>1 DEF Request, Goes, Same, Resting
    <3> QED BY <2>3, <3>1 DEF P!Save, P!Put
  <2>4. CASE P!Input(r)
    <3> DEFINE d == P!Done(q, q.on \in P!Online)
    <3>1. req' = [req EXCEPT ![r] = IF P!Item(q).tool = "api_move" THEN [d EXCEPT !.rec = None] ELSE d]
        BY <2>4 DEF P!Input, P!Put
    <3>2. Goes(q, d) /\ Goes(q, [d EXCEPT !.rec = None])
        BY <1>1 DEF P!Done, Request, Goes, Same, Resting
    <3> HIDE DEF q, d
    <3> QED BY <3>1, <3>2
  <2> QED BY <2>1, <2>2, <2>3, <2>4
<1> QED BY <1>3, PutTies, GoesTies

(* What changes the terminals and the selections, for every request.       *)
LEMMA StirsTie ==
    ASSUME ReqInv, NEW r \in P!Requests, NEW d \in Request, Tied(req[r], d), NEW S,
           req' = P!Stirred([req EXCEPT ![r] = d], S)
    PROVE  AllTied
<1> DEFINE qs == [req EXCEPT ![r] = d]
<1>1. qs \in [P!Requests -> Request] /\ \A p \in P!Requests : qs[p] = IF p = r THEN d ELSE req[p]
    BY DEF ReqInv
<1> HIDE DEF qs
<1>2. \A p \in P!Requests : Tied(qs[p], req'[p])
    BY <1>1, StirredTies DEF qs
<1>3. \A p \in P!Requests : Tied(req[p], qs[p])
    BY <1>1 DEF Tied, Same
<1> QED BY <1>2, <1>3, TiedOn DEF AllTied

LEMMA ChangesTie ==
    ASSUME ReqInv, NEW r \in P!Requests, P!Select(r) \/ P!Rename(r) \/ P!Unregister(r) \/ P!Forget(r)
    PROVE  AllTied
<1> DEFINE q == req[r]
<1>1. q \in Request
    BY DEF ReqInv
<1>2. PICK d, S : Goes(q, d) /\ d \in Request /\ req' = P!Stirred([req EXCEPT ![r] = d], S)
  <2>1. /\ [q EXCEPT !.ok = TRUE, !.pc = "answer"] \in Request /\ Goes(q, [q EXCEPT !.ok = TRUE, !.pc = "answer"])
        /\ P!Done(q, TRUE) \in Request /\ Goes(q, P!Done(q, TRUE))
        /\ [q EXCEPT !.pc = "forget"] \in Request /\ Goes(q, [q EXCEPT !.pc = "forget"])
    BY <1>1 DEF P!Done, Request, PCs, Goes, Same, Resting
  <2>2. CASE P!Select(r)
    <3>1. \E S : req' = P!Stirred([req EXCEPT ![r] = P!Done(q, TRUE)], S)
        BY <2>2 DEF P!Select
    <3> QED BY <2>1, <3>1
  <2>3. CASE P!Rename(r)
    <3>1. req' = P!Stirred([req EXCEPT ![r] = IF q.door = "rest" THEN [q EXCEPT !.ok = TRUE, !.pc = "answer"]
                                              ELSE P!Done(q, TRUE)], P!Requests)
        BY <2>3 DEF P!Rename
    <3> QED BY <2>1, <3>1
  <2>4. CASE P!Unregister(r)
    <3>1. req' = P!Stirred([req EXCEPT ![r] = [q EXCEPT !.pc = "forget"]], P!Requests)
        BY <2>4 DEF P!Unregister
    <3> QED BY <2>1, <3>1
  <2>5. CASE P!Forget(r)
    <3>1. req' = P!Stirred([req EXCEPT ![r] = P!Done(q, TRUE)], P!Requests)
        BY <2>5 DEF P!Forget
    <3> QED BY <2>1, <3>1
  <2> QED BY <2>2, <2>3, <2>4, <2>5
<1> QED BY <1>1, <1>2, StirsTie, GoesTies

(* Calls that end because they are cancelled, deleted or disconnected.     *)
LEMMA EndsTie ==
    ASSUME ReqInv, AtWorkInv, NEW qs \in [P!Requests -> Request], NEW S, req' = P!Ended(qs, S),
           \A p \in P!Requests : Tied(req[p], qs[p]) /\ (qs[p].pc = "gone" => req[p].pc = "gone")
    PROVE  AllTied
<1>1. ASSUME NEW p \in P!Requests, qs[p].pc = "gone" PROVE qs[p].door # "stdio"
  <2>1. req[p].door # "stdio"
    BY <1>1 DEF AtWorkInv, Piped, AtLine
  <2> QED BY <2>1 DEF Tied, Same
<1>2. \A p \in P!Requests : Tied(qs[p], req'[p])
    BY <1>1, EndedTies
<1> QED BY <1>2, TiedOn DEF AllTied

LEMMA CallsEndTie ==
    ASSUME ReqInv, AtWorkInv, NEW r \in P!Requests, P!Cancel(r) \/ P!Abort(r)
    PROVE  AllTied
<1> DEFINE q == req[r]
<1>1. q \in Request /\ req \in [P!Requests -> Request]
    BY DEF ReqInv
<1>2. ASSUME NEW d \in Request, Goes(q, d), NEW S, req' = P!Ended([req EXCEPT ![r] = d], S) PROVE AllTied
  <2> DEFINE qs == [req EXCEPT ![r] = d]
  <2>1. qs \in [P!Requests -> Request] /\ \A p \in P!Requests : qs[p] = IF p = r THEN d ELSE req[p]
    BY <1>1
  <2>2. req' = P!Ended(qs, S)
    BY <1>2
  <2> HIDE DEF qs, q
  <2>3. ASSUME NEW p \in P!Requests PROVE Tied(req[p], qs[p]) /\ (qs[p].pc = "gone" => req[p].pc = "gone")
    BY <1>2, <2>1 DEF Tied, Goes, Same, Resting, q
  <2> QED BY <2>1, <2>2, <2>3, EndsTie
<1>3. ASSUME NEW d, Goes(q, d), req' = [req EXCEPT ![r] = d] PROVE AllTied
    BY <1>3, PutTies, GoesTies
<1>4. /\ [q EXCEPT !.pc = "unregister"] \in Request /\ Goes(q, [q EXCEPT !.pc = "unregister"])
      /\ \A good \in BOOLEAN : P!Done(q, good) \in Request /\ Goes(q, P!Done(q, good))
      /\ Goes(q, [q EXCEPT !.pc = "answer"])
  <2>1. [q EXCEPT !.pc = "unregister"] \in Request /\ Goes(q, [q EXCEPT !.pc = "unregister"])
    BY <1>1 DEF Request, PCs, Goes, Same, Resting
  <2>2. \A good \in BOOLEAN : P!Done(q, good) \in Request
    BY <1>1 DEF P!Done, Request, PCs
  <2>3. Goes(q, [q EXCEPT !.pc = "answer"])
    BY <1>1 DEF Request, Goes, Same, Resting
  <2> QED BY <1>1, <2>1, <2>2, <2>3, DoneGoes
<1>5. CASE P!Cancel(r)
  <2>1. \E S : \/ req' = P!Ended([req EXCEPT ![r] = P!Done(q, TRUE)], S)
               \/ req' = [req EXCEPT ![r] = IF q.door = "rest" THEN [q EXCEPT !.pc = "answer"] ELSE P!Done(q, FALSE)]
    BY <1>5 DEF P!Cancel
  <2> HIDE DEF q
  <2> QED BY <1>2, <1>3, <1>4, <2>1
<1>6. CASE P!Abort(r)
  <2>1. \E S : req' = P!Ended([req EXCEPT ![r] = [q EXCEPT !.pc = "unregister"]], S)
    BY <1>6 DEF P!Abort
  <2> HIDE DEF q
  <2> QED BY <1>2, <1>4, <2>1
<1> QED BY <1>5, <1>6

LEMMA MovesTie ==
    ASSUME ReqInv, AtWorkInv, NEW t \in P!Ids, P!Register(t) \/ P!Join(t) \/ P!Vanish(t)
    PROVE  AllTied
<1> DEFINE qs == P!Stirred(req, P!Requests)
<1>1. req \in [P!Requests -> Request]
    BY DEF ReqInv
<1>2. ASSUME NEW p \in P!Requests PROVE qs[p] \in Request /\ Tied(req[p], qs[p])
    BY <1>1, StirredTies
<1>3. qs \in [P!Requests -> Request]
    BY <1>2 DEF P!Stirred
<1>4. ASSUME NEW p \in P!Requests PROVE qs[p].pc = req[p].pc
    BY <1>1 DEF P!Stirred, Request
<1>5. CASE P!Register(t) \/ P!Join(t)
  <2>1. req' = qs
    BY <1>5 DEF P!Register, P!Join
  <2> QED BY <1>2, <2>1 DEF AllTied
<1>6. CASE P!Vanish(t)
  <2>1. req' = P!Ended(qs, P!Pending(t))
    BY <1>6 DEF P!Vanish
  <2> HIDE DEF qs
  <2> QED BY <1>2, <1>3, <1>4, <2>1, EndsTie
<1> QED BY <1>5, <1>6

(* Requests over HTTP come and go.                                         *)
LEMMA HttpTies ==
    ASSUME DTypes, ReqInv, AtWorkInv, NEW r \in P!Requests, P!Begin(r) \/ P!Drop(r) \/ P!Gone(r)
    PROVE  AllTied
<1>1. P!Idle \in Request /\ P!Idle.door # "stdio" /\ P!Idle.pc # "send" /\ req[r] \in Request
    BY IdleFine, ErrandsAssumption DEF Fine, P!Idle, ReqInv
<1>2. ASSUME req[r].door # "stdio", NEW d, d.door # "stdio", d.pc # "send", req' = [req EXCEPT ![r] = d] PROVE AllTied
    BY <1>2, PutTies DEF Tied
<1>3. CASE P!Begin(r)
  <2>1. PICK h \in left : /\ P!IsFree(r)
                          /\ req' = [req EXCEPT ![r] = P!Started([P!Idle EXCEPT !.door = h.door, !.role = h.role,
                                                                 !.sid = h.sid, !.items = h.items])]
    BY <1>3 DEF P!Begin, P!Put
  <2>2. h \in P!Errand /\ h.items # <<>>
    BY ErrandsAssumption DEF DTypes
  <2> DEFINE q == [P!Idle EXCEPT !.door = h.door, !.role = h.role, !.sid = h.sid, !.items = h.items]
  <2>3. q \in Request /\ q.items = h.items /\ q.door \in {"mcp", "rest"}
    BY <1>1, <2>2 DEF Request, P!Errand
  <2>4. req[r].door # "stdio"
    BY <2>1 DEF P!IsFree, AtWorkInv, Piped, AtLine
  <2>5. req' = [req EXCEPT ![r] = P!Started(q)]
    BY <2>1
  <2> HIDE DEF q
  <2>6. Goes(q, P!Started(q))
    BY <2>2, <2>3, StartedGoes
  <2> QED BY <1>2, <2>3, <2>4, <2>5, <2>6 DEF Goes, Same, Resting
<1>4. CASE P!Drop(r)
  <2>1. [req[r] EXCEPT !.pc = "gone"].door = req[r].door /\ [req[r] EXCEPT !.pc = "gone"].pc = "gone"
    BY <1>1 DEF Request
  <2> QED BY <1>1, <1>2, <1>4, <2>1 DEF P!Drop, P!Put
<1>5. CASE P!Gone(r)
  <2>1. req[r].door # "stdio"
    BY <1>5 DEF P!Gone, AtWorkInv, Piped, AtLine
  <2> QED BY <1>1, <1>2, <1>5, <2>1 DEF P!Gone, P!Put
<1> QED BY <1>3, <1>4, <1>5

(* What AllTied leaves of the invariant.                                   *)
LEMMA TiesKeep ==
    ASSUME ReqInv, PipeInv, AllTied, UNCHANGED <<world, line, reader, out, writer, written>>
    PROVE  PipeInv'
<1>1. Piped' = Piped /\ \A r \in Piped : Same(req[r], req'[r]) /\ (req'[r].pc = req[r].pc \/ req'[r].pc \notin Resting)
  <2>1. ASSUME NEW r \in P!Requests PROVE Tied(req[r], req'[r])
    BY DEF AllTied
  <2> QED BY <2>1 DEF Piped, Tied, Same
<1>2. P!Lines' = P!Lines /\ \A k : Due(k)' <=> Due(k)
    BY DEF P!Lines, Due
<1>3. AtWorkInv'
  <2> SUFFICES ASSUME NEW r \in Piped PROVE AtLine(req[r])'
    BY <1>1 DEF AtWorkInv
  <2>1. AtLine(req[r])
    BY DEF PipeInv, AtWorkInv
  <2> QED BY <1>1, <1>2, <2>1 DEF AtLine, Same, Resting
<1>4. TellInv'
    BY <1>2 DEF PipeInv, TellInv, In
<1>5. OnceInv'
  <2>1. /\ In(written)' = In(written) /\ In(out)' = In(out)
        /\ Distinct(written)' = Distinct(written) /\ Distinct(out)' = Distinct(out)
    BY DEF In, Distinct
  <2>2. \A r \in Piped : req'[r].line = req[r].line
    BY <1>1 DEF Same
  <2> QED BY <1>1, <2>1, <2>2 DEF PipeInv, OnceInv
<1>6. OwedInv'
    BY <1>1, <1>2 DEF PipeInv, OwedInv, In, Same
<1>7. EndInv'
    BY <1>1, <1>2 DEF PipeInv, EndInv
<1>8. SendInv'
  <2>1. ASSUME NEW r \in P!Requests PROVE Tied(req[r], req'[r])
    BY DEF AllTied
  <2> QED BY <2>1 DEF PipeInv, SendInv, Tied, Same, Resting
<1> QED BY <1>3, <1>4, <1>5, <1>6, <1>7, <1>8 DEF PipeInv

(* A line is read: it is at work,                                          *)
LEMMA LineRead == ASSUME DTypes, ReqInv, PipeInv, P!ReadLine PROVE PipeInv'
<1>1. PICK r \in P!Requests :
         /\ reader = "reading" /\ line < Len(P!Lines) /\ P!Lines[line + 1] # <<>> /\ P!IsFree(r)
         /\ line' = line + 1 /\ UNCHANGED <<world, reader, out, writer, written>>
         /\ req' = [req EXCEPT ![r] = P!Started([P!Idle EXCEPT !.door = "stdio", !.line = line + 1, !.items = P!Lines[line + 1]])]
    BY DEF P!ReadLine, P!Put
<1> DEFINE p == [P!Idle EXCEPT !.door = "stdio", !.line = line + 1, !.items = P!Lines[line + 1]]
           d == P!Started(p)
<1>2. P!Lines \in Seq(Seq(P!Items)) /\ line \in Nat /\ P!Lines' = P!Lines /\ \A k : Due(k)' <=> Due(k)
    BY <1>1, ErrandsAssumption DEF DTypes, P!Lines, Due
<1>3. p \in Request /\ p.door = "stdio" /\ p.line = line + 1 /\ p.items = P!Lines[line + 1] /\ p.replies = 0
  <2>1. P!Idle \in Request /\ P!Idle.replies = 0
    BY IdleFine DEF Fine, P!Idle
  <2>2. P!Lines[line + 1] \in Seq(P!Items) /\ line + 1 \in Nat
    BY <1>1, <1>2
  <2> QED BY <2>1, <2>2 DEF Request
<1>4. req' = [req EXCEPT ![r] = d]
    BY <1>1
<1> HIDE DEF p
<1>5. Goes(p, d)
    BY <1>1, <1>3, StartedGoes
<1> HIDE DEF d
<1>6. d.door = "stdio" /\ d.line = line + 1 /\ d.items = P!Lines[line + 1] /\ d.replies = 0 /\ d.pc \notin Resting
    BY <1>3, <1>5 DEF Goes, Same
<1>7. r \notin Piped /\ Piped' = Piped \cup {r} /\ req'[r] = d /\ \A q \in Piped : req'[q] = req[q]
  <2>1. req[r].pc = "idle"
    BY <1>1 DEF P!IsFree
  <2>2. r \notin Piped
    BY <2>1 DEF PipeInv, AtWorkInv, AtLine
  <2>3. \A q \in P!Requests : req'[q] = IF q = r THEN d ELSE req[q]
    BY <1>4 DEF ReqInv
  <2> QED BY <1>6, <2>2, <2>3 DEF Piped
<1>8. \A q \in Piped : req[q].line \in 1..line
    BY DEF PipeInv, AtWorkInv, AtLine
<1>9. AtWorkInv'
  <2>1. ASSUME NEW q \in Piped PROVE AtLine(req[q])'
    <3>1. AtLine(req[q])
        BY DEF PipeInv, AtWorkInv
    <3> QED BY <1>1, <1>2, <1>7, <3>1 DEF AtLine
  <2>2. AtLine(req[r])'
    <3>1. d.line \in 1..line' /\ d.pc \notin {"idle", "gone", "send"}
        BY <1>1, <1>2, <1>6 DEF Resting
    <3>2. Due(d.line) <=> \E i \in 1..Len(d.items) : d.items[i].id
        BY <1>1, <1>6 DEF Due
    <3>3. ~(d.replies > 0)
        BY <1>6
    <3> QED BY <1>2, <1>7, <3>1, <3>2, <3>3 DEF AtLine
  <2> QED BY <1>7, <2>1, <2>2 DEF AtWorkInv
<1>10. In(written)' = In(written) /\ In(out)' = In(out) /\ Distinct(written)' = Distinct(written) /\ Distinct(out)' = Distinct(out)
    BY <1>1 DEF In, Distinct
<1>11. \A k \in In(written) \cup In(out) : k \in 1..line
    BY DEF PipeInv, TellInv
<1>12. TellInv'
  <2>1. \A k \in 1..line : k \in 1..line'
    BY <1>1, <1>2
  <2> QED BY <1>2, <1>10, <2>1 DEF PipeInv, TellInv
<1>13. line + 1 \notin 1..line
    BY <1>2
<1>14. OnceInv'
  <2>1. \A q \in Piped' : req'[q].line \notin In(written) \cup In(out)
    BY <1>6, <1>7, <1>11, <1>13 DEF PipeInv, OnceInv
  <2>2. \A q, u \in Piped' : req'[q].line = req'[u].line => q = u
    BY <1>6, <1>7, <1>8, <1>13 DEF PipeInv, OnceInv
  <2> QED BY <1>10, <2>1, <2>2 DEF PipeInv, OnceInv
<1>15. OwedInv'
  <2> SUFFICES ASSUME NEW k \in 1..line', Due(k)
               PROVE  writer = "down" \/ k \in In(written) \cup In(out) \/ \E q \in Piped' : req'[q].line = k
    BY <1>1, <1>2, <1>10 DEF OwedInv
  <2>1. k \in 1..line \/ k = line + 1
    BY <1>1, <1>2
  <2> QED BY <1>6, <1>7, <2>1 DEF PipeInv, OwedInv
<1>16. EndInv'
  <2>1. writer # "done"
    BY <1>1 DEF PipeInv, EndInv
  <2> QED BY <1>1, <1>2, <2>1 DEF PipeInv, EndInv
<1>17. written' \in Seq(Nat)
    BY <1>1 DEF PipeInv
<1>18. SendInv'
  <2>1. \A q \in P!Requests : req'[q] = IF q = r THEN d ELSE req[q]
    BY <1>4 DEF ReqInv
  <2> QED BY <1>6, <2>1 DEF PipeInv, SendInv
<1> QED BY <1>9, <1>12, <1>14, <1>15, <1>16, <1>17, <1>18 DEF PipeInv

(* or is no JSON and answered by the reader;                               *)
LEMMA BadLineRead == ASSUME DTypes, PipeInv, P!ReadBad PROVE PipeInv'
<1>1. /\ reader = "reading" /\ line < Len(P!Lines) /\ P!Lines[line + 1] = <<>>
      /\ line' = line + 1 /\ UNCHANGED <<world, req, reader, writer, written>>
      /\ out' = IF writer = "down" THEN out ELSE Append(out, line + 1)
    BY DEF P!ReadBad
<1>2. line \in Nat /\ P!Lines' = P!Lines /\ \A k : Due(k)' <=> Due(k)
    BY <1>1 DEF DTypes, P!Lines, Due
<1>3. Due(line + 1) /\ line + 1 \in 1..line' /\ line + 1 \notin 1..line /\ \A k \in 1..line : k \in 1..line'
    BY <1>1, <1>2 DEF Due
<1>4. Piped' = Piped /\ In(written)' = In(written) /\ Distinct(written)' = Distinct(written)
    BY <1>1 DEF Piped, In, Distinct
<1>5. \A k \in In(written) \cup In(out) : k \in 1..line
    BY DEF PipeInv, TellInv
<1>6. /\ In(out)' = In(out) \cup IF writer = "down" THEN {} ELSE {line + 1}
      /\ Distinct(out)'
  <2>1. out \in Seq(Nat) /\ line + 1 \in Nat /\ Distinct(out) /\ line + 1 \notin In(out)
    BY <1>2, <1>3, <1>5 DEF DTypes, PipeInv, OnceInv
  <2>2. CASE writer = "down"
    <3>1. out' = out
        BY <1>1, <2>2
    <3> QED BY <2>1, <2>2, <3>1 DEF In, Distinct
  <2>3. CASE writer # "down"
    <3>1. out' = Append(out, line + 1)
        BY <1>1, <2>3
    <3>2. In(out') = In(out) \cup {line + 1} /\ Distinct(out')
        BY <2>1, <3>1, InAppended
    <3> QED BY <2>3, <3>2 DEF In, Distinct
  <2> QED BY <2>2, <2>3
<1>7. AtWorkInv'
  <2> SUFFICES ASSUME NEW r \in Piped PROVE AtLine(req[r])'
    BY <1>4 DEF AtWorkInv
  <2>1. AtLine(req[r])
    BY DEF PipeInv, AtWorkInv
  <2> QED BY <1>1, <1>2, <1>3, <2>1 DEF AtLine
<1>8. TellInv'
    BY <1>2, <1>3, <1>4, <1>6 DEF PipeInv, TellInv
<1>9. OnceInv'
  <2>1. \A r \in Piped : req'[r] = req[r] /\ req[r].line # line + 1
    BY <1>1, <1>3 DEF PipeInv, AtWorkInv, AtLine
  <2>2. line + 1 \notin In(written)
    BY <1>3, <1>5
  <2> QED BY <1>4, <1>6, <2>1, <2>2 DEF PipeInv, OnceInv
<1>10. OwedInv'
  <2> SUFFICES ASSUME NEW k \in 1..line', Due(k)
               PROVE  writer = "down" \/ k \in In(written) \cup In(out)' \/ \E r \in Piped : req[r].line = k
    BY <1>1, <1>2, <1>4 DEF OwedInv
  <2>1. k \in 1..line \/ k = line + 1
    BY <1>1, <1>2
  <2> QED BY <1>6, <2>1 DEF PipeInv, OwedInv
<1>11. EndInv'
  <2>1. writer # "done"
    BY <1>1 DEF PipeInv, EndInv
  <2>2. line' <= Len(P!Lines)
    BY <1>1, <1>2, ErrandsAssumption DEF DTypes, P!Lines
  <2> QED BY <1>1, <1>2, <2>1, <2>2 DEF PipeInv, EndInv
<1>12. written' \in Seq(Nat)
    BY <1>1 DEF PipeInv
<1>13. SendInv'
    BY <1>1 DEF PipeInv, SendInv
<1> QED BY <1>7, <1>8, <1>9, <1>10, <1>11, <1>12, <1>13 DEF PipeInv

(* An item of a line is done: the line owes as much as before, and is sent *)
(* or forgotten when no item is left.                                      *)
LEMMA LineAnswered == ASSUME DTypes, ReqInv, PipeInv, NEW r \in P!Requests, P!Answer(r) PROVE PipeInv'
<1> DEFINE n == IF P!Item(req[r]).id THEN req[r].replies + 1 ELSE req[r].replies
           q == [req[r] EXCEPT !.items = Tail(@), !.replies = n]
           d == IF q.items # <<>> THEN P!Started(q)
                ELSE IF q.door = "stdio" /\ q.replies > 0 THEN [q EXCEPT !.pc = "send"] ELSE P!Idle
<1>1. req[r].pc = "answer" /\ req' = [req EXCEPT ![r] = d] /\ UNCHANGED <<world, line, reader, out, writer, written>>
    BY DEF P!Answer, P!Put, P!stdio
<1>2. /\ req[r] \in Request /\ req[r].items # <<>> /\ req[r].items \in Seq(P!Items)
      /\ P!Item(req[r]) = Head(req[r].items) /\ req[r].replies \in Nat
  <2>1. req[r] \in Request /\ Shape(req[r])
    BY DEF ReqInv, Fine
  <2>2. req[r].items # <<>>
    BY <1>1, <2>1 DEF Shape
  <2> QED BY <2>1, <2>2, ItemTypes DEF Request
<1>3. n \in Nat /\ (n > 0 <=> req[r].replies > 0 \/ Head(req[r].items).id)
    BY <1>2
<1> HIDE DEF n
<1>4. /\ q \in Request /\ q.items = Tail(req[r].items) /\ q.replies = n /\ q.door = req[r].door /\ q.line = req[r].line
      /\ q.pc = "answer"
  <2>1. Tail(req[r].items) \in Seq(P!Items)
    BY <1>2
  <2> QED BY <1>1, <1>2, <1>3, <2>1 DEF Request
<1>5. (\E i \in 1..Len(req[r].items) : req[r].items[i].id)
        <=> Head(req[r].items).id \/ \E i \in 1..Len(q.items) : q.items[i].id
  <2> DEFINE s == req[r].items
             t == q.items
  <2>1. /\ Len(s) = Len(t) + 1 /\ Len(t) \in Nat /\ Head(s) = s[1] /\ \A i \in 1..Len(t) : t[i] = s[i + 1]
    BY <1>2, <1>4, HeadTailProperties
  <2> HIDE DEF s, t
  <2>2. ASSUME NEW i \in 1..Len(s), s[i].id PROVE s[1].id \/ \E j \in 1..Len(t) : t[j].id
    <3>1. CASE i = 1
        BY <2>2, <3>1
    <3>2. CASE i # 1
      <4>1. i - 1 \in 1..Len(t) /\ i - 1 + 1 = i
        BY <2>1, <3>2
      <4>2. t[i - 1] = s[i - 1 + 1]
        BY ONLY <2>1, <4>1
      <4> QED BY <2>2, <4>1, <4>2
    <3> QED BY <3>1, <3>2
  <2>3. ASSUME NEW j \in 1..Len(t), t[j].id PROVE \E i \in 1..Len(s) : s[i].id
    <3>1. j + 1 \in 1..Len(s) /\ t[j] = s[j + 1]
        BY <2>1
    <3> QED BY <2>3, <3>1
  <2>4. 1 \in 1..Len(s)
    BY <2>1
  <2> QED BY <2>1, <2>2, <2>3, <2>4 DEF s, t
<1>6. P!Idle.door # "stdio" /\ P!Idle.pc # "send"
    BY ErrandsAssumption DEF P!Idle
<1> HIDE DEF q
<1>7. /\ d.door = req[r].door \/ d.door # "stdio"
      /\ d.door = "stdio" => /\ d.line = req[r].line /\ d.items = q.items /\ d.replies = n /\ d.pc \notin {"idle", "gone"}
                             /\ d.pc = "send" => d.replies > 0
      /\ req[r].door = "stdio" /\ d.door # "stdio" => q.items = <<>> /\ ~(n > 0)
      /\ d.pc = "send" => d.door = "stdio"
  <2>1. CASE q.items # <<>>
    <3>1. d = P!Started(q)
        BY <2>1
    <3>2. Goes(q, d)
        BY <1>4, <2>1, <3>1, StartedGoes
    <3> HIDE DEF d
    <3> QED BY <1>4, <3>2 DEF Goes, Same, Resting
  <2>2. CASE q.items = <<>> /\ q.door = "stdio" /\ q.replies > 0
    <3>1. d = [q EXCEPT !.pc = "send"]
        BY <2>2
    <3>2. d.pc = "send" /\ d.door = q.door /\ d.line = q.line /\ d.items = q.items /\ d.replies = q.replies
        BY <1>4, <3>1 DEF Request
    <3> HIDE DEF d
    <3> QED BY <1>4, <2>2, <3>2
  <2>3. CASE q.items = <<>> /\ ~(q.door = "stdio" /\ q.replies > 0)
    <3>1. d = P!Idle
        BY <2>3
    <3> HIDE DEF d
    <3> QED BY <1>4, <1>6, <2>3, <3>1
  <2> QED BY <2>1, <2>2, <2>3
<1> HIDE DEF d
<1>8. /\ req'[r] = d /\ \A p \in P!Requests : p # r => req'[p] = req[p]
      /\ Piped' \subseteq Piped /\ Piped \subseteq Piped' \cup {r} /\ \A p \in Piped' : req'[p].line = req[p].line
  <2>1. \A p \in P!Requests : req'[p] = IF p = r THEN d ELSE req[p]
    BY <1>1 DEF ReqInv
  <2> QED BY <1>7, <2>1 DEF Piped
<1>9. P!Lines' = P!Lines /\ \A k : Due(k)' <=> Due(k)
    BY <1>1 DEF P!Lines, Due
<1>10. r \in Piped => AtLine(req[r])
    BY DEF PipeInv, AtWorkInv
<1>11. r \in Piped => (Due(req[r].line) <=> n > 0 \/ \E i \in 1..Len(q.items) : q.items[i].id)
    BY <1>3, <1>5, <1>10 DEF AtLine
<1>12. AtWorkInv'
  <2>1. ASSUME NEW p \in Piped', p # r PROVE AtLine(req[p])'
    <3>1. AtLine(req[p]) /\ req'[p] = req[p]
        BY <1>8, <2>1 DEF PipeInv, AtWorkInv, Piped
    <3> QED BY <1>1, <1>9, <3>1 DEF AtLine
  <2>2. ASSUME r \in Piped' PROVE AtLine(req[r])'
    <3>1. r \in Piped /\ d.door = "stdio"
        BY <1>8, <2>2 DEF Piped
    <3>2. req[r].line \in 1..line
        BY <1>10, <3>1 DEF AtLine
    <3> QED BY <1>1, <1>7, <1>8, <1>9, <1>11, <3>1, <3>2 DEF AtLine
  <2> QED BY <2>1, <2>2 DEF AtWorkInv
<1>13. /\ In(written)' = In(written) /\ In(out)' = In(out)
       /\ Distinct(written)' = Distinct(written) /\ Distinct(out)' = Distinct(out)
    BY <1>1 DEF In, Distinct
<1>14. TellInv' /\ OnceInv'
    BY <1>1, <1>8, <1>9, <1>13 DEF PipeInv, TellInv, OnceInv
<1>15. OwedInv'
  <2> SUFFICES ASSUME NEW k \in 1..line, Due(k), NEW p \in Piped, req[p].line = k PROVE \E u \in Piped' : req'[u].line = k
    BY <1>1, <1>8, <1>9, <1>13 DEF PipeInv, OwedInv
  <2>1. p \in Piped'
    <3> SUFFICES ASSUME p \notin Piped' PROVE FALSE
        OBVIOUS
    <3>1. p = r /\ r \in Piped /\ req[r].door = "stdio" /\ d.door # "stdio"
        BY <1>8 DEF Piped
    <3>2. q.items = <<>> /\ ~(n > 0)
        BY <1>7, <3>1
    <3>3. Len(q.items) = 0
        BY <3>2
    <3> QED BY <1>11, <3>1, <3>2, <3>3
  <2> QED BY <1>8, <2>1
<1>16. EndInv'
    BY <1>1, <1>8, <1>9 DEF PipeInv, EndInv
<1>17. written' \in Seq(Nat)
    BY <1>1 DEF PipeInv
<1>18. SendInv'
    BY <1>7, <1>8 DEF PipeInv, SendInv
<1> QED BY <1>12, <1>14, <1>15, <1>16, <1>17, <1>18 DEF PipeInv

(* The answer of a line goes to the writer, if there is one,               *)
LEMMA LineSent == ASSUME DTypes, ReqInv, PipeInv, NEW r \in P!Requests, P!Send(r) PROVE PipeInv'
<1> DEFINE k == req[r].line
<1>1. /\ req[r].pc = "send" /\ req' = [req EXCEPT ![r] = P!Idle] /\ UNCHANGED <<world, line, reader, writer, written>>
      /\ out' = IF writer = "down" THEN out ELSE Append(out, k)
    BY DEF P!Send, P!Put
<1>2. P!Idle.door # "stdio" /\ P!Idle.pc # "send"
    BY ErrandsAssumption DEF P!Idle
<1>3. /\ Piped' = Piped \ {r} /\ \A p \in Piped' : req'[p] = req[p]
      /\ SendInv'
  <2>1. \A p \in P!Requests : req'[p] = IF p = r THEN P!Idle ELSE req[p]
    BY <1>1 DEF ReqInv
  <2> QED BY <1>2, <2>1 DEF Piped, PipeInv, SendInv
<1>4. P!Lines' = P!Lines /\ \A j : Due(j)' <=> Due(j)
    BY <1>1 DEF P!Lines, Due
<1>5. In(written)' = In(written) /\ Distinct(written)' = Distinct(written)
    BY <1>1 DEF In, Distinct
<1>6. k \in Nat /\ out \in Seq(Nat)
    BY DEF DTypes, ReqInv, Request
<1>7. AtWorkInv'
  <2> SUFFICES ASSUME NEW p \in Piped' PROVE AtLine(req[p])'
    BY DEF AtWorkInv
  <2>1. AtLine(req[p]) /\ req'[p] = req[p]
    BY <1>3 DEF PipeInv, AtWorkInv
  <2> QED BY <1>1, <1>4, <2>1 DEF AtLine
<1>8. r \in Piped
    BY <1>1 DEF PipeInv, SendInv, Piped
<1>9. k \in 1..line /\ Due(k) /\ k \notin In(written) \cup In(out) /\ \A p \in Piped : p # r => req[p].line # k
    BY <1>1, <1>8 DEF PipeInv, AtWorkInv, AtLine, OnceInv
<1> HIDE DEF k
<1>10. In(out)' = In(out) \cup (IF writer = "down" THEN {} ELSE {k}) /\ Distinct(out)'
  <2>1. Distinct(out)
    BY DEF PipeInv, OnceInv
  <2>2. CASE writer = "down"
    <3>1. out' = out
        BY <1>1, <2>2
    <3> QED BY <2>1, <2>2, <3>1 DEF In, Distinct
  <2>3. CASE writer # "down"
    <3>1. out' = Append(out, k)
        BY <1>1, <2>3
    <3>2. In(out') = In(out) \cup {k} /\ Distinct(out')
        BY <1>6, <1>9, <2>1, <3>1, InAppended
    <3> QED BY <2>3, <3>2 DEF In, Distinct
  <2> QED BY <2>2, <2>3
<1>11. TellInv'
    BY <1>1, <1>4, <1>5, <1>9, <1>10 DEF PipeInv, TellInv
<1>12. OnceInv'
    BY <1>3, <1>5, <1>9, <1>10 DEF PipeInv, OnceInv
<1>13. OwedInv'
  <2> SUFFICES ASSUME NEW j \in 1..line, Due(j)
               PROVE  writer = "down" \/ j \in In(written) \cup In(out)' \/ \E p \in Piped' : req'[p].line = j
    BY <1>1, <1>4, <1>5 DEF OwedInv
  <2>1. CASE j = k
    BY <1>10, <2>1
  <2>2. CASE j # k
    BY <1>3, <1>10, <2>2 DEF PipeInv, OwedInv, k
  <2> QED BY <2>1, <2>2
<1>14. EndInv'
    BY <1>1, <1>4, <1>8 DEF PipeInv, EndInv
<1>15. written' \in Seq(Nat)
    BY <1>1 DEF PipeInv
<1> QED BY <1>3, <1>7, <1>11, <1>12, <1>13, <1>14, <1>15 DEF PipeInv

(* and is written.                                                         *)
LEMMA LineWritten == ASSUME DTypes, PipeInv, P!Write PROVE PipeInv'
<1>1. /\ writer = "up" /\ out # <<>> /\ out' = Tail(out) /\ written' = Append(written, Head(out))
      /\ UNCHANGED <<world, req, line, reader, writer>>
    BY DEF P!Write
<1>2. /\ Head(out) \in Nat /\ In(out) = In(Tail(out)) \cup {Head(out)}
      /\ Distinct(Tail(out)) /\ Head(out) \notin In(Tail(out))
    BY <1>1, InTaken DEF DTypes, PipeInv, OnceInv
<1>3. Head(out) \notin In(written)
    BY <1>2 DEF PipeInv, OnceInv
<1>4. In(Append(written, Head(out))) = In(written) \cup {Head(out)} /\ Distinct(Append(written, Head(out)))
    BY <1>2, <1>3, InAppended DEF PipeInv, OnceInv
<1>5. written' \in Seq(Nat)
    BY <1>1, <1>2 DEF PipeInv
<1>6. /\ In(out)' = In(Tail(out)) /\ Distinct(out)' /\ In(written)' = In(written) \cup {Head(out)} /\ Distinct(written)'
  <2>1. In(out') = In(Tail(out)) /\ Distinct(out') /\ In(written') = In(written) \cup {Head(out)} /\ Distinct(written')
    BY <1>1, <1>2, <1>4
  <2> QED BY <2>1 DEF In, Distinct
<1>7. Piped' = Piped /\ P!Lines' = P!Lines /\ \A k : Due(k)' <=> Due(k)
    BY <1>1 DEF Piped, P!Lines, Due
<1>8. AtWorkInv'
  <2> SUFFICES ASSUME NEW r \in Piped PROVE AtLine(req[r])'
    BY <1>7 DEF AtWorkInv
  <2>1. AtLine(req[r])
    BY DEF PipeInv, AtWorkInv
  <2> QED BY <1>1, <1>7, <2>1 DEF AtLine
<1>9. TellInv' /\ OnceInv' /\ OwedInv'
    BY <1>1, <1>2, <1>3, <1>6, <1>7 DEF PipeInv, TellInv, OnceInv, OwedInv
<1>10. EndInv'
    BY <1>1, <1>7 DEF PipeInv, EndInv
<1>11. SendInv'
    BY <1>1 DEF PipeInv, SendInv
<1> QED BY <1>5, <1>8, <1>9, <1>10, <1>11 DEF PipeInv

(* The reader and the writer end.                                          *)
LEMMA PipeEnds ==
    ASSUME DTypes, ReqInv, PipeInv, P!EndOfInput \/ P!InputError \/ P!WriteError \/ P!WriterEnds \/ P!Return
    PROVE  PipeInv'
<1>1. UNCHANGED <<world, req, line, written>> /\ (out' = out \/ (out' = <<>> /\ writer' = "down"))
    BY DEF P!EndOfInput, P!InputError, P!WriteError, P!WriterEnds, P!Return
<1>2. Piped' = Piped /\ P!Lines' = P!Lines /\ (\A k : Due(k)' <=> Due(k)) /\ In(written)' = In(written)
      /\ Distinct(written)' = Distinct(written)
    BY <1>1 DEF Piped, P!Lines, Due, In, Distinct
<1>3. (In(out)' = In(out) \/ (In(out)' = {} /\ writer' = "down")) /\ Distinct(out)'
  <2>1. CASE out' = out
    BY <2>1 DEF In, Distinct, PipeInv, OnceInv
  <2>2. CASE out' = <<>> /\ writer' = "down"
    <3>1. Len(out') = 0
        BY <2>2
    <3> QED BY <2>2, <3>1 DEF In, Distinct
  <2> QED BY <1>1, <2>1, <2>2
<1>4. AtWorkInv'
  <2> SUFFICES ASSUME NEW r \in Piped PROVE AtLine(req[r])'
    BY <1>2 DEF AtWorkInv
  <2>1. AtLine(req[r])
    BY DEF PipeInv, AtWorkInv
  <2> QED BY <1>1, <1>2, <2>1 DEF AtLine
<1>5. TellInv'
    BY <1>1, <1>2, <1>3 DEF PipeInv, TellInv
<1>6. OnceInv'
    BY <1>1, <1>2, <1>3 DEF PipeInv, OnceInv
<1>7. writer = "down" => writer' = "down"
    BY DEF P!EndOfInput, P!InputError, P!WriteError, P!WriterEnds, P!Return
<1>8. OwedInv'
    BY <1>1, <1>2, <1>3, <1>7 DEF PipeInv, OwedInv
<1>9. EndInv'
  <2>1. CASE P!EndOfInput \/ P!InputError
    BY <1>1, <1>2, <2>1 DEF PipeInv, EndInv, P!EndOfInput, P!InputError
  <2>2. CASE P!WriteError
    BY <1>1, <1>2, <2>2 DEF PipeInv, EndInv, P!WriteError
  <2>3. CASE P!WriterEnds
    <3>1. Piped = {}
        BY <2>3 DEF P!WriterEnds, P!Alive, Piped
    <3> QED BY <1>1, <1>2, <2>3, <3>1 DEF PipeInv, EndInv, P!WriterEnds
  <2>4. CASE P!Return
    BY <1>1, <1>2, <2>4 DEF PipeInv, EndInv, P!Return
  <2> QED BY <2>1, <2>2, <2>3, <2>4
<1>10. written' \in Seq(Nat)
    BY <1>1 DEF PipeInv
<1>11. SendInv'
    BY <1>1 DEF PipeInv, SendInv
<1> QED BY <1>4, <1>5, <1>6, <1>8, <1>9, <1>10, <1>11 DEF PipeInv

(* Every step of the dispatch.                                             *)
LEMMA PipeStep == ASSUME DTypes, ReqInv, PipeInv, P!Next PROVE PipeInv'
<1>1. AtWorkInv
    BY DEF PipeInv
<1>2. ASSUME AllTied, UNCHANGED <<world, line, reader, out, writer, written>> PROVE PipeInv'
    BY <1>2, TiesKeep
<1>3. ASSUME NEW r \in P!Requests, P!Work(r) PROVE PipeInv'
  <2>1. CASE P!ReadSession(r) \/ P!ReadGlobal(r) \/ P!CountOnline(r) \/ P!FindId(r) \/ P!FindName(r)
    BY <1>2, <2>1, LooksTie DEF P!ReadSession, P!ReadGlobal, P!CountOnline, P!FindId, P!FindName, P!stdio
  <2>2. CASE P!Invoke(r) \/ P!Finish(r) \/ P!Save(r) \/ P!Input(r)
    BY <1>2, <2>2, ActsTie DEF P!Invoke, P!Finish, P!Save, P!Input, P!stdio
  <2>3. CASE P!Select(r) \/ P!Rename(r) \/ P!Unregister(r) \/ P!Forget(r)
    BY <1>2, <2>3, ChangesTie DEF P!Select, P!Rename, P!Unregister, P!Forget, P!stdio
  <2>4. CASE P!Cancel(r) \/ P!Abort(r)
    BY <1>1, <1>2, <2>4, CallsEndTie DEF P!Cancel, P!Abort, P!stdio
  <2> QED BY <1>3, <2>1, <2>2, <2>3, <2>4, LineAnswered, LineSent DEF P!Work
<1>4. ASSUME NEW r \in P!Requests, P!Begin(r) \/ P!Drop(r) \/ P!Gone(r) PROVE PipeInv'
    BY <1>1, <1>2, <1>4, HttpTies DEF P!Begin, P!Drop, P!Gone, P!stdio
<1>5. ASSUME NEW t \in P!Ids, P!Register(t) \/ P!Join(t) \/ P!Vanish(t) PROVE PipeInv'
    BY <1>1, <1>2, <1>5, MovesTie DEF P!Register, P!Join, P!Vanish, P!stdio
<1> QED BY <1>3, <1>4, <1>5, LineRead, BadLineRead, LineWritten, PipeEnds DEF P!Next, P!Stdio

LEMMA PipeInit == P!Init => PipeInv
<1> SUFFICES ASSUME P!Init PROVE PipeInv
    OBVIOUS
<1>1. Piped = {}
    BY ErrandsAssumption DEF P!Init, Piped, P!Idle
<1>2. /\ line = 0 /\ reader = "reading" /\ out = <<>> /\ writer = "up" /\ written = <<>> /\ Len(<<>>) = 0
      /\ P!Lines \in Seq(Seq(P!Items))
    BY ErrandsAssumption DEF P!Init, P!Lines
<1>3. In(written) = {} /\ In(out) = {} /\ Distinct(written) /\ Distinct(out) /\ 1..line = {}
    BY <1>2 DEF In, Distinct
<1>4. EndInv
    BY <1>2 DEF EndInv
<1>5. SendInv
    BY DEF P!Init, P!Idle, SendInv
<1> QED BY <1>1, <1>2, <1>3, <1>4, <1>5 DEF PipeInv, AtWorkInv, TellInv, OnceInv, OwedInv

LEMMA PipeStill == ReqInv /\ PipeInv /\ UNCHANGED dispatch => PipeInv'
<1> SUFFICES ASSUME ReqInv, PipeInv, UNCHANGED dispatch PROVE PipeInv'
    OBVIOUS
<1>1. UNCHANGED <<world, req, line, reader, out, writer, written>>
    BY DEF dispatch
<1>2. AllTied
    BY <1>1 DEF AllTied, Tied, Same
<1> QED BY <1>1, <1>2, TiesKeep

(* A stdio server that has come to the end of its input returns with every *)
(* answer written, once.                                                   *)
THEOREM StdioNeverLoses == MCSpec => []P!StdioDrains
<1>1. MCInit => DTypes /\ ReqInv /\ PipeInv
    BY DispatchInit, PipeInit DEF MCInit
<1>2. DTypes /\ ReqInv /\ PipeInv /\ [MCNext]_<<part, vars, lifecycle, dispatch>> => PipeInv'
    BY PipeStep, PipeStill DEF MCNext
<1>3. PipeInv => P!StdioDrains
  <2> SUFFICES ASSUME PipeInv, reader = "returned", writer # "down", NEW k \in 1..Len(P!Lines)
               PROVE  P!Cardinality({i \in 1..Len(written) : written[i] = k})
                          = IF P!Lines[k] = <<>> \/ \E i \in 1..Len(P!Lines[k]) : P!Lines[k][i].id THEN 1 ELSE 0
    BY Zenon DEF P!StdioDrains
  <2>1. out = <<>> /\ Piped = {} /\ line = Len(P!Lines) /\ Len(<<>>) = 0
    BY DEF PipeInv, EndInv
  <2>2. In(out) = {}
    BY <2>1 DEF In
  <2> DEFINE S == {i \in 1..Len(written) : written[i] = k}
  <2>3. ASSUME Due(k) PROVE Cardinality(S) = 1
    <3>1. k \in In(written)
        BY <2>1, <2>2, <2>3 DEF PipeInv, OwedInv
    <3>2. PICK i \in 1..Len(written) : written[i] = k
        BY <3>1 DEF In
    <3>3. S = {i}
        BY <3>2 DEF PipeInv, OnceInv, Distinct
    <3> QED BY <3>3, FS_Singleton
  <2>4. ASSUME ~Due(k) PROVE Cardinality(S) = 0
    <3>1. S = {}
        BY <2>4 DEF PipeInv, TellInv, In
    <3> QED BY <3>1, FS_EmptySet
  <2>5. P!Cardinality(S) = Cardinality(S)
    BY DEF P!Cardinality, Cardinality
  <2> HIDE DEF S
  <2>6. P!Cardinality(S) = IF Due(k) THEN 1 ELSE 0
    BY ONLY <2>3, <2>4, <2>5
  <2> QED BY ONLY <2>6 DEF S, Due
<1> QED BY <1>1, <1>2, <1>3, DispatchHolds, PTL DEF MCSpec

-----------------------------------------------------------------------------
(***************************************************************************)
(* AuditRotation. The archives keep their order and lose only their        *)
(* oldest, whatever fails, for every retention, retry budget and number of *)
(* rotations. Neither property is inductive: both need that the generation *)
(* a rotation is about to write to is vacant, so that no rename overwrites *)
(* a file.                                                                 *)
(***************************************************************************)
Vacant == step < Retain - 1 => archive[step + 1] = 0

RInv == TypeOK /\ Vacant /\ ArchivesInOrder /\ KeepsNewest

USE RetainAssumption, AttemptsAssumption DEF Generations, Idle

(* Init establishes the invariant: one file, no archive.                   *)
LEMMA RInit == Init => RInv
  BY DEF Init, RInv, TypeOK, Vacant, ArchivesInOrder, KeepsNewest, Stored, Deleted

(* Removing the oldest archive keeps the others in their order, and what   *)
(* it deletes is older than they are.                                      *)
LEMMA RemoveKeeps == RInv /\ RemoveOldest => RInv'
<1> SUFFICES ASSUME RInv, RemoveOldest PROVE RInv'
  OBVIOUS
<1> USE DEF RInv, RemoveOldest
<1>1. \A g \in Generations : archive'[g] = IF g = Retain - 1 THEN 0 ELSE archive[g]
  BY DEF TypeOK
<1>2. TypeOK' /\ Vacant'
  BY <1>1 DEF TypeOK, Vacant
<1>3. ArchivesInOrder'
  BY <1>1 DEF ArchivesInOrder, TypeOK
<1>4. KeepsNewest'
  <2> SUFFICES ASSUME NEW d \in Deleted', NEW s \in Stored' PROVE d < s
    BY DEF KeepsNewest
  <2>1. s \in Stored /\ d \in 1..active
    BY <1>1 DEF Stored, Deleted
  <2>2. CASE d \notin Stored
    BY <2>1, <2>2 DEF KeepsNewest, Deleted
  <2>3. CASE d \in Stored
    <3>1. d = archive[Retain - 1] /\ d # 0
      BY <2>3, <1>1 DEF Stored, Deleted
    <3>2. \A g \in Generations : g < Retain - 1 /\ archive[g] # 0 => archive[g] > d
      BY <3>1 DEF ArchivesInOrder
    <3>3. active > d
      BY <3>1 DEF ArchivesInOrder
    <3>4. s = active \/ \E g \in Generations : g < Retain - 1 /\ s = archive[g] /\ s # 0
      BY <1>1 DEF Stored
    <3> QED
      BY <3>2, <3>3, <3>4 DEF TypeOK
  <2> QED
    BY <2>2, <2>3
<1> QED
  BY <1>2, <1>3, <1>4

(* Moving an archive into the vacant generation above it keeps every file. *)
LEMMA ShiftKeeps == ASSUME NEW g \in Generations PROVE RInv /\ ShiftArchive(g) => RInv'
<1> SUFFICES ASSUME RInv, ShiftArchive(g) PROVE RInv'
  OBVIOUS
<1> USE DEF RInv, ShiftArchive
<1>0. g + 1 \in Generations /\ archive[g + 1] = 0 /\ g \in 1..(Retain - 2)
  BY DEF Vacant
<1>1. \A h \in Generations :
         archive'[h] = IF h = g + 1 THEN archive[g] ELSE IF h = g THEN 0 ELSE archive[h]
  <2>1. CASE archive[g] = 0
    BY <1>0, <2>1 DEF TypeOK
  <2>2. CASE archive[g] # 0
    <3>1. archive' = [archive EXCEPT ![g + 1] = archive[g], ![g] = 0]
      BY <2>2
    <3> QED
      BY <1>0, <3>1 DEF TypeOK
  <2> QED
    BY <2>1, <2>2
<1>2. archive' \in [Generations -> Nat]
  <2>1. CASE archive[g] = 0
    BY <2>1 DEF TypeOK
  <2>2. CASE archive[g] # 0
    BY <1>0, <2>2 DEF TypeOK
  <2> QED
    BY <2>1, <2>2
<1>3. TypeOK' /\ Vacant'
  BY SMTT(30), <1>0, <1>1, <1>2 DEF TypeOK, Vacant
<1>4. ArchivesInOrder'
  <2>1. \A h \in Generations : archive'[h] < active'
    <3> SUFFICES ASSUME NEW h \in Generations PROVE archive'[h] < active'
      OBVIOUS
    <3>1. 0 < active /\ archive[g] < active /\ archive[h] < active
      BY DEF ArchivesInOrder, TypeOK
    <3>2. archive'[h] \in {0, archive[g], archive[h]} /\ active' = active
      BY <1>1
    <3> QED BY <3>1, <3>2
  <2>2. ASSUME NEW h \in Generations, NEW k \in Generations,
               h < k, archive'[h] # 0, archive'[k] # 0
        PROVE  archive'[h] > archive'[k]
    <3>1. h # g /\ k # g
      BY <1>0, <1>1, <2>2
    <3>2. CASE h = g + 1
      <4>1. archive'[h] = archive[g]
        BY <1>1, <3>2
      <4>2. archive'[k] = archive[k]
        <5>1. k # g + 1 /\ k # g
          BY <2>2, <3>1, <3>2
        <5> QED
          BY ONLY <1>1, <5>1, k \in Generations
      <4>3. g < k
        BY <2>2, <3>2
      <4> QED
        BY <2>2, <4>1, <4>2, <4>3 DEF ArchivesInOrder
    <3>3. CASE k = g + 1
      <4>1. archive'[k] = archive[g]
        BY <1>1, <3>3
      <4>2. archive'[h] = archive[h]
        <5>1. h # g + 1 /\ h # g
          BY <2>2, <3>1, <3>3
        <5> QED
          BY ONLY <1>1, <5>1, h \in Generations
      <4>3. h < g
        BY <2>2, <3>1, <3>3
      <4> QED
        BY <2>2, <4>1, <4>2, <4>3 DEF ArchivesInOrder
    <3>4. CASE h # g + 1 /\ k # g + 1
      BY <1>1, <2>2, <3>1, <3>4 DEF ArchivesInOrder
    <3> QED
      BY <3>2, <3>3, <3>4
  <2> QED
    BY <2>1, <2>2 DEF ArchivesInOrder
<1>5. Stored' = Stored
  BY <1>0, <1>1 DEF Stored
<1>6. KeepsNewest'
  BY <1>5 DEF KeepsNewest, Deleted
<1> QED
  BY <1>3, <1>4, <1>6

(* Archiving the active log fills the vacant .1 and deletes nothing.       *)
LEMMA ArchiveKeeps == RInv /\ ArchiveActive => RInv'
<1> SUFFICES ASSUME RInv, ArchiveActive PROVE RInv'
  OBVIOUS
<1> USE DEF RInv, ArchiveActive
<1>0. 1 \in Generations /\ archive[1] = 0
  BY DEF Vacant
<1>1. \A g \in Generations : archive'[g] = IF g = 1 THEN active ELSE archive[g]
  BY DEF TypeOK
<1>2. TypeOK' /\ Vacant'
  BY <1>0, <1>1 DEF TypeOK, Vacant
<1>3. ArchivesInOrder'
  BY <1>0, <1>1 DEF ArchivesInOrder, TypeOK
<1>4. KeepsNewest'
  <2> SUFFICES ASSUME NEW d \in Deleted', NEW s \in Stored' PROVE d < s
    BY DEF KeepsNewest
  <2>1. Stored' = (Stored \cup {active + 1}) \ {0}
    BY <1>0, <1>1 DEF Stored
  <2>2. d \in 1..active /\ d \notin Stored
    BY <2>1 DEF Deleted, TypeOK
  <2> QED
    BY <2>1, <2>2 DEF KeepsNewest, Deleted, TypeOK
<1> QED
  BY <1>2, <1>3, <1>4

(* Every step keeps the invariant.                                         *)
LEMMA RStep == RInv /\ [Next]_vars => RInv'
<1> SUFFICES ASSUME RInv, [Next]_vars PROVE RInv'
  OBVIOUS
<1> USE DEF RInv, TypeOK, Vacant, ArchivesInOrder, KeepsNewest, Stored, Deleted
<1>1. CASE Begin
  BY <1>1 DEF Begin
<1>2. CASE RemoveOldest
  BY <1>2, RemoveKeeps
<1>3. CASE ArchiveActive
  BY <1>3, ArchiveKeeps
<1>4. CASE Fail
  BY <1>4 DEF Fail
<1>5. CASE Restart
  BY <1>5 DEF Restart
<1>6. ASSUME NEW g \in Generations, ShiftArchive(g) PROVE RInv'
  BY <1>6, ShiftKeeps
<1>7. CASE UNCHANGED vars
  BY <1>7 DEF vars
<1> QED
  BY <1>1, <1>2, <1>3, <1>4, <1>5, <1>6, <1>7 DEF Next

(* The invariant holds throughout.                                         *)
THEOREM RotationInvariant == Spec => []RInv
<1>1. RInv /\ [Next]_vars => RInv'
  BY RStep
<1> QED
  BY RInit, <1>1, PTL DEF Spec

(* Every variable keeps its type; in particular no retry exceeds its       *)
(* budget.                                                                 *)
THEOREM RotationTypes == Spec => []TypeOK
<1>1. RInv => TypeOK
  BY DEF RInv
<1> QED
  BY RotationInvariant, <1>1, PTL

(* The archives are in the order of their age through every failure.       *)
THEOREM ArchivesStayInOrder == Spec => []ArchivesInOrder
<1>1. RInv => ArchivesInOrder
  BY DEF RInv
<1> QED
  BY RotationInvariant, <1>1, PTL

(* No failure, retry or restart makes a rotation delete a file that is     *)
(* newer than one it keeps.                                                *)
THEOREM NewestAreKept == Spec => []KeepsNewest
<1>1. RInv => KeepsNewest
  BY DEF RInv
<1> QED
  BY RotationInvariant, <1>1, PTL
=============================================================================
