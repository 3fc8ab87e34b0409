------------------------------ MODULE KeyStore ------------------------------
(***************************************************************************)
(* The server's API keys: records in memory behind a lock, the keys.json   *)
(* every change is saved to, and the start of the server, which generates  *)
(* the root key, prints it, and registers it when keys.json is absent.     *)
(*                                                                         *)
(* Sources: crates/server/src/keystore.rs, bootstrap.rs and main.rs (the   *)
(* start). An operation changes the records and saves them under the write *)
(* lock, so it is one action; verify reads under one lock and writes the   *)
(* last use under a later one. A save replaces the file by a rename: it    *)
(* happens or does not. The start is that of the Unix build.               *)
(*                                                                         *)
(* Abstracted: a key is an id with its secret; name, scopes and device;    *)
(* hashing; a keys.json that was damaged by hand, which stops the start;   *)
(* the gates on the configuration, whose refusal is a crash here.          *)
(***************************************************************************)
EXTENDS Naturals

CONSTANTS
    Keys,       \* what the random source can produce
    Verifiers,  \* requests that present a key
    MaxTime,    \* bound on the clock
    MaxGrace,   \* bound on expiries and graces, from now
    NoKey, Never, Unsure,  \* sentinels
    Scenarios   \* what may happen: a behaviour draws one of these

(* The process may die; a save may fail; the server may be started with    *)
(* --no-bootstrap; the operator may delete bootstrap_key.txt when the      *)
(* server is up, as its banner asks, and keys.json when it is down.        *)
Events == {"crash", "diskError", "noBootstrap", "erase", "reinit"}

Times   == 0..(MaxTime + MaxGrace)
Records == [admin : BOOLEAN, expires : Times \cup {Never}, revoked : BOOLEAN]
Entries == Records \cup {NoKey}

Servers == {"off", "bootstrap", "generate", "load", "up", "refused"}

VARIABLES
    env,       \* the scenario of this behaviour
    server,    \* how far the start has got
    refusal,   \* why it refused
    bootFile,  \* bootstrap_key.txt: NoKey when absent, "partial" when cut short
    keysFile,  \* keys.json exists
    disk,      \* what is in it
    mem,       \* KeyStore.records
    recent,    \* keys whose last use was saved in the last minute
    verifier,  \* the key whose last use a request is about to save, and the
               \* record it was verified against
    now,       \* the clock, in units longer than a minute
    used,      \* history: keys generated so far
    printed,   \* history: the root key the banner has shown
    promise    \* history: the record of a key as the banner or its last operation
               \* has promised it, Unsure if that operation failed

fileVars == <<bootFile, keysFile, disk>>
memVars  == <<mem, recent, verifier>>
vars == <<env, server, refusal, fileVars, memVars, now, used, printed, promise>>

Empty    == [k \in Keys |-> NoKey]
Resting  == [v \in Verifiers |-> [key |-> NoKey, was |-> NoKey]]
IsAdmin(e)   == e # NoKey /\ e.admin /\ ~e.revoked
Admins(s)    == {k \in Keys : IsAdmin(s[k])}
HasActive(s) == \E k \in Keys : s[k] # NoKey /\ ~s[k].revoked
Live(e)      == e # NoKey /\ ~e.revoked /\ (e.expires # Never => e.expires > now)
Fresh(admin, expires) == [admin |-> admin, expires |-> expires, revoked |-> FALSE]

Init ==
    /\ env \in Scenarios
    /\ server = "off" /\ refusal = "none"
    /\ bootFile = NoKey /\ keysFile = FALSE /\ disk = Empty
    /\ mem = Empty /\ recent = {} /\ verifier = Resting
    /\ now = 0
    /\ used = {} /\ printed = NoKey /\ promise = Empty

(* save_to_disk: a temporary file is written, synced and renamed. The      *)
(* records have already changed when it fails.                             *)
SaveOutcomes == IF "diskError" \in env THEN BOOLEAN ELSE {TRUE}
Save(s, ok) ==
    /\ disk' = IF ok THEN s ELSE disk
    /\ keysFile' = (keysFile \/ ok)

-----------------------------------------------------------------------------
(* The start.                                                              *)

Refuse(why) == server' = "refused" /\ refusal' = why

Start ==
    /\ server \in {"off", "refused"}
    /\ \/ server' = "bootstrap"
       \/ "noBootstrap" \in env /\ server' = "load"
    /\ refusal' = "none"
    /\ UNCHANGED <<env, fileVars, memVars, now, used, printed, promise>>

(* ensure_bootstrap_key: a readable file, or a store with an active key,   *)
(* is enough. The file is created first, which fails when there is one.    *)
EnsureBootstrap_FileOnly == \* the store is not looked at for active keys
    /\ server = "bootstrap"
    /\ \/ bootFile \in Keys /\ server' = "load" /\ UNCHANGED <<refusal, bootFile>>
       \/ bootFile \notin Keys /\ keysFile /\ Refuse("noActiveKey") /\ UNCHANGED bootFile
       \/ /\ bootFile = NoKey /\ ~keysFile
          /\ server' = "generate" /\ bootFile' = "partial" /\ UNCHANGED refusal
    /\ UNCHANGED <<env, keysFile, disk, memVars, now, used, printed, promise>>

EnsureBootstrap ==
    /\ server = "bootstrap"
    /\ \/ /\ bootFile \in Keys \/ (keysFile /\ HasActive(disk))
          /\ server' = "load" /\ UNCHANGED <<refusal, bootFile>>
       \/ /\ bootFile \notin Keys /\ keysFile /\ ~HasActive(disk)
          /\ Refuse("noActiveKey") /\ UNCHANGED bootFile
       \/ /\ bootFile = NoKey /\ ~keysFile
          /\ server' = "generate" /\ bootFile' = "partial" /\ UNCHANGED refusal
       \/ /\ bootFile = "partial" /\ ~keysFile
          /\ Refuse("exists") /\ UNCHANGED bootFile
    /\ UNCHANGED <<env, keysFile, disk, memVars, now, used, printed, promise>>

(* The key is written, and the banner printed.                             *)
WriteBootstrap ==
    /\ server = "generate"
    /\ \/ \E k \in Keys \ used :
             /\ bootFile' = k /\ used' = used \cup {k} /\ printed' = k
             /\ promise' = [promise EXCEPT ![k] = Fresh(TRUE, Never)]
             /\ server' = "load" /\ UNCHANGED refusal
       \/ /\ "diskError" \in env /\ Refuse("io")
          /\ UNCHANGED <<bootFile, used, printed, promise>>
    /\ UNCHANGED <<env, keysFile, disk, memVars, now>>

(* KeyStore::load_or_create.                                               *)
Registered == IF bootFile \in Keys THEN [Empty EXCEPT ![bootFile] = Fresh(TRUE, Never)] ELSE Empty

Load ==
    /\ server = "load"
    /\ \/ /\ keysFile
          /\ mem' = disk /\ server' = "up"
          /\ UNCHANGED <<refusal, keysFile, disk, promise>>
       \/ \E ok \in SaveOutcomes :
             /\ ~keysFile
             /\ Save(Registered, ok)
             /\ IF ok THEN /\ mem' = Registered /\ promise' = Registered
                           /\ server' = "up" /\ UNCHANGED refusal
                      ELSE Refuse("io") /\ UNCHANGED <<mem, promise>>
    /\ UNCHANGED <<env, bootFile, recent, verifier, now, used, printed>>

-----------------------------------------------------------------------------
(* Operations on the records. Changed(s, touched, ok): s is saved, and the *)
(* caller is told about the keys it touched.                               *)
Changed(s, touched, ok) ==
    /\ server = "up"
    /\ mem' = s /\ Save(s, ok)
    /\ promise' = [k \in Keys |-> IF k \notin touched THEN promise[k]
                                  ELSE IF ok THEN s[k] ELSE Unsure]
    /\ UNCHANGED <<env, server, refusal, bootFile, recent, verifier, now, printed>>

Issue(k, admin, ok) ==
    /\ k \notin used
    /\ \E expires \in {Never} \cup now..(now + MaxGrace) :
          Changed([mem EXCEPT ![k] = Fresh(admin, expires)], {k}, ok)
    /\ used' = used \cup {k}

(* The last admin key that is not revoked stays.                           *)
MayGo_AnyKey(k) == \* the keys that are left need not be admin keys
    mem[k] # NoKey /\ (IsAdmin(mem[k]) => \E j \in Keys \ {k} : mem[j] # NoKey)

MayGo(k) == mem[k] # NoKey /\ (IsAdmin(mem[k]) => Admins(mem) # {k})

Revoke(k, ok) ==
    /\ MayGo(k)
    /\ Changed([mem EXCEPT ![k] = [mem[k] EXCEPT !.revoked = TRUE]], {k}, ok)
    /\ UNCHANGED used

Delete(k, ok) ==
    /\ MayGo(k)
    /\ Changed([mem EXCEPT ![k] = NoKey], {k}, ok)
    /\ UNCHANGED used

(* A grace of 0 revokes the old key; any other sets a new expiry.          *)
Rotate(k, new, ok) ==
    /\ mem[k] # NoKey /\ new \notin used
    /\ \E grace \in 0..MaxGrace :
          LET old == IF grace = 0 THEN [mem[k] EXCEPT !.revoked = TRUE]
                                  ELSE [mem[k] EXCEPT !.expires = now + grace]
          IN  Changed([mem EXCEPT ![new] = Fresh(mem[k].admin, Never), ![k] = old], {k, new}, ok)
    /\ used' = used \cup {new}

(* verify, which clones the record, and touch_last_used. The last use is   *)
(* saved with everything else there is; whether that works is not noticed. *)
Verify(v, k) ==
    /\ server = "up"
    /\ verifier[v].key = NoKey
    /\ Live(mem[k]) /\ k \notin recent
    /\ recent' = recent \cup {k}
    /\ verifier' = [verifier EXCEPT ![v] = [key |-> k, was |-> mem[k]]]
    /\ UNCHANGED <<env, server, refusal, fileVars, mem, now, used, printed, promise>>

Touch_WritesBack(v, ok) == \* the record that was cloned is put back
    /\ server = "up" /\ verifier[v].key # NoKey
    /\ mem' = [mem EXCEPT ![verifier[v].key] = verifier[v].was]
    /\ Save(mem', ok)
    /\ verifier' = [verifier EXCEPT ![v] = [key |-> NoKey, was |-> NoKey]]
    /\ UNCHANGED <<env, server, refusal, bootFile, recent, now, used, printed, promise>>

Touch(v, ok) ==
    /\ server = "up" /\ verifier[v].key # NoKey
    /\ IF mem[verifier[v].key] # NoKey THEN Save(mem, ok)
                                       ELSE UNCHANGED <<keysFile, disk>>
    /\ verifier' = [verifier EXCEPT ![v] = [key |-> NoKey, was |-> NoKey]]
    /\ UNCHANGED <<env, server, refusal, bootFile, mem, recent, now, used, printed, promise>>

Operation ==
    \E ok \in SaveOutcomes :
       \/ \E k \in Keys : Revoke(k, ok) \/ Delete(k, ok)
       \/ \E k \in Keys, admin \in BOOLEAN : Issue(k, admin, ok)
       \/ \E k, new \in Keys : Rotate(k, new, ok)
       \/ \E v \in Verifiers : Touch(v, ok)

-----------------------------------------------------------------------------
(* The world outside.                                                      *)

(* The process ends, at once or after a shutdown, which saves nothing.     *)
Crash ==
    /\ "crash" \in env /\ server \notin {"off", "refused"}
    /\ server' = "off"
    /\ mem' = Empty /\ recent' = {} /\ verifier' = Resting
    /\ UNCHANGED <<env, refusal, fileVars, now, used, printed, promise>>

Erase ==
    /\ "erase" \in env /\ server = "up"
    /\ bootFile' = NoKey
    /\ UNCHANGED <<env, server, refusal, keysFile, disk, memVars, now, used, printed, promise>>

(* keys.json is deleted to start over. The banner's key is void then.      *)
Reinit ==
    /\ "reinit" \in env /\ server \in {"off", "refused"} /\ keysFile
    /\ keysFile' = FALSE /\ disk' = Empty
    /\ printed' = NoKey /\ promise' = Empty
    /\ UNCHANGED <<env, server, refusal, bootFile, memVars, now, used>>

Tick ==
    /\ now < MaxTime /\ now' = now + 1
    /\ recent' = {}
    /\ UNCHANGED <<env, server, refusal, fileVars, mem, verifier, used, printed, promise>>

Next ==
    \/ Start \/ EnsureBootstrap \/ WriteBootstrap \/ Load
    \/ Operation
    \/ \E v \in Verifiers, k \in Keys : Verify(v, k)
    \/ Crash \/ Erase \/ Reinit \/ Tick

Spec == Init /\ [][Next]_vars

-----------------------------------------------------------------------------
(* Properties.                                                             *)

(* Every variable keeps its type.                                          *)
TypeOK ==
    /\ env \in Scenarios
    /\ server \in Servers
    /\ refusal \in {"none", "noActiveKey", "exists", "io"}
    /\ bootFile \in Keys \cup {NoKey, "partial"} /\ keysFile \in BOOLEAN
    /\ disk \in [Keys -> Entries] /\ mem \in [Keys -> Entries]
    /\ recent \subseteq Keys
    /\ verifier \in [Verifiers -> [key : Keys \cup {NoKey}, was : Entries]]
    /\ now \in 0..MaxTime
    /\ used \subseteq Keys /\ printed \in used \cup {NoKey}
    /\ promise \in [Keys -> Entries \cup {Unsure}]
    /\ server # "up" => mem = Empty /\ verifier = Resting

(* What the banner said of the root key, and the last acknowledged         *)
(* operation on any other, is what memory and file say, across the         *)
(* failures of operations on other keys, the saves of last uses that were  *)
(* verified before, crashes and restarts (keystore.rs, issue, revoke,      *)
(* rotate, delete and touch_last_used; bootstrap.rs).                      *)
AcknowledgedHolds ==
    \A k \in Keys : promise[k] # Unsure =>
        /\ keysFile => disk[k] = promise[k]
        /\ server = "up" => mem[k] = promise[k]

(* No operation, failed or not, and no crash takes away the last admin key *)
(* that is not revoked, in memory or on disk (keystore.rs, revoke, rotate  *)
(* and delete).                                                            *)
AdminRemains ==
    [][ /\ server = "up" /\ server' = "up" /\ Admins(mem) # {} => Admins(mem') # {}
        /\ keysFile' /\ Admins(disk) # {} => Admins(disk') # {} ]_vars

(* Once a root key was shown, the server that is up has an admin key that  *)
(* is not revoked, and never refuses to start for want of an active key,   *)
(* with the bootstrap file or without (bootstrap.rs,                       *)
(* ensure_bootstrap_key_with_keys_file; keystore.rs, load_or_create).      *)
BannerHolds ==
    printed # NoKey => /\ server = "up" => Admins(mem) # {}
                       /\ refusal # "noActiveKey"
=============================================================================
