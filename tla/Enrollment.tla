----------------------------- MODULE Enrollment -----------------------------
(***************************************************************************)
(* Enrollment of devices: the sessions of the /enroll endpoint, the        *)
(* challenges they answer, the pending records they leave, and the file    *)
(* these are written to.                                                   *)
(*                                                                         *)
(* Sources: crates/server/src/enrollment_store.rs and the enrollment       *)
(* session of crates/server/src/ws/handler.rs. The store has one lock for  *)
(* the records and one for the challenges, and takes them one at a time;   *)
(* every operation reads the clock before it waits for its lock, and the   *)
(* records are written to the file after the lock is released, by tasks    *)
(* that share the name of their temporary file.                            *)
(*                                                                         *)
(* Abstracted: the random ids, which never collide: a challenge, a record  *)
(* and a file are named after the session that made them; a public key is  *)
(* its fingerprint; facts, capabilities and addresses; the wording of a    *)
(* refusal; the audit records.                                             *)
(***************************************************************************)
EXTENDS Naturals, FiniteSets

CONSTANTS
    Sessions,      \* connections to /enroll
    Devices,       \* stable device ids
    Keys,          \* public keys
    Claims,        \* the identities peers claim: some device with some key
    MaxPending,    \* max_pending
    PendingTTL,    \* pending_ttl_secs
    ChallengeTTL,  \* challenge_ttl_secs
    MaxTime,       \* bound on the clock
    MaxCrashes,    \* bound on crashes
    Scenarios,     \* what may happen: a behaviour draws one of these
    None           \* no session, no file

(* The store was made by new and has a file, or by in_memory and has none; *)
(* the server dies; time passes.                                           *)
Events == {"file", "crash", "tick"}
ASSUME ScenariosAssumption == Scenarios \subseteq SUBSET Events

Identities == [device : Devices, key : Keys]

ASSUME ClaimsAssumption == Claims \subseteq Identities
ASSUME NoneAssumption == None \notin Sessions \cup Claims
ASSUME LimitsAssumption ==
    /\ MaxPending \in Nat \ {0} /\ PendingTTL \in Nat \ {0} /\ ChallengeTTL \in Nat \ {0}
    /\ MaxTime \in Nat /\ MaxCrashes \in Nat

VARIABLES
    env,         \* the scenario of this behaviour
    now,         \* the wall clock
    records,     \* the pending records, by id
    challenges,  \* when each open challenge expires
    pc,          \* how far each session is
    hello,       \* the identity a session claims
    at,          \* the time its current operation has read
    snapshot,    \* the records it is going to write
    file, tmp,   \* the inodes the file's name and the temporary name lead to
    fd,          \* the inode a session writes to
    inode,       \* what an inode holds: the records it parses to, and whether it
                 \* was written since it was last truncated
    crashes,
    signed,      \* history: the sessions whose signature was verified
    granted      \* history: the sessions that have put their record on the list

vars == <<env, now, records, challenges, pc, hello, at, snapshot, file, tmp, fd, inode,
          crashes, signed, granted>>
memory  == <<records, challenges>>
history == <<signed, granted>>
disk    == <<file, tmp, fd, inode>>

Times      == 0..MaxTime
Expiries   == 0..(MaxTime + PendingTTL)
Nothing    == <<>>
Blank      == [parses |-> Nothing, written |-> FALSE]

IsStore(r) ==
    /\ DOMAIN r \subseteq Sessions
    /\ \A id \in DOMAIN r : r[id] \in [who : Claims, expires : Expiries]

(* A session waits for the records, then for the challenges, then for its  *)
(* peer; then for the challenges, for the records, and for the file.       *)
Waiting == {"checking", "issuing", "proving", "consuming", "upserting"}
Writing == {"opening", "writing", "renaming"}
Ended   == {"accepted", "refused", "lost"}

Init ==
    /\ env \in Scenarios
    /\ now = 0 /\ records = Nothing /\ challenges = Nothing
    /\ pc = [s \in Sessions |-> "new"]
    /\ hello = [s \in Sessions |-> None]
    /\ at = [s \in Sessions |-> 0]
    /\ snapshot = [s \in Sessions |-> Nothing]
    /\ file = None /\ tmp = None
    /\ fd = [s \in Sessions |-> None]
    /\ inode = [s \in Sessions |-> Blank]
    /\ crashes = 0 /\ signed = {} /\ granted = {}

(* A refused session drops what it knew.                                   *)
Forget(s) == hello' = [hello EXCEPT ![s] = None] /\ at' = [at EXCEPT ![s] = 0]

Put(f, x, v) == [y \in DOMAIN f \cup {x} |-> IF y = x THEN v ELSE f[y]]

Moves(s, from, to) == pc[s] = from /\ pc' = [pc EXCEPT ![s] = to]

-----------------------------------------------------------------------------
(* The records, under their lock.                                          *)

Unexpired(r, t) == [id \in {x \in DOMAIN r : r[x].expires > t} |-> r[id]]

Same(r, who)      == {id \in DOMAIN r : r[id].who = who}
Conflicts(r, who) ==
    \E id \in DOMAIN r : (r[id].who.device = who.device) # (r[id].who.key = who.key)
Full_OffByOne(r, who) == \* one more than the limit
    Same(r, who) = {} /\ Cardinality(DOMAIN r) > MaxPending
Full(r, who)      == Same(r, who) = {} /\ Cardinality(DOMAIN r) >= MaxPending
Admits_Trusts(r, who) == \* conflicts are not looked for
    ~Full(r, who)
Admits(r, who)    == ~Conflicts(r, who) /\ ~Full(r, who)

(* create_or_refresh_pending: the record of this identity, or a new one,   *)
(* lives from now on.                                                      *)
Upserted_Evicts(r, s) == \* a new record pushes out the others
    Put(Nothing, s, [who |-> hello[s], expires |-> at[s] + PendingTTL])
Upserted(r, s) ==
    LET id == IF Same(r, hello[s]) = {} THEN s ELSE CHOOSE x \in Same(r, hello[s]) : TRUE
    IN  Put(r, id, [who |-> hello[s], expires |-> at[s] + PendingTTL])

-----------------------------------------------------------------------------
(* A Hello has arrived, is well formed, and the operation reads the clock. *)
Hello(s, who) ==
    /\ Moves(s, "new", "checking")
    /\ hello' = [hello EXCEPT ![s] = who]
    /\ at' = [at EXCEPT ![s] = now]
    /\ UNCHANGED <<env, now, memory, snapshot, disk, crashes, history>>

(* issue_challenge, its first half: the expired go, and the identity must  *)
(* fit in with the others.                                                 *)
Check(s) ==
    LET kept == Unexpired(records, at[s]) IN
    /\ \/ Moves(s, "checking", "issuing") /\ Admits(kept, hello[s]) /\ UNCHANGED <<hello, at>>
       \/ Moves(s, "checking", "refused") /\ ~Admits(kept, hello[s]) /\ Forget(s)
    /\ records' = kept
    /\ UNCHANGED <<env, now, challenges, snapshot, disk, crashes, history>>

(* Its second half, and the Challenge is sent.                             *)
IssueChallenge(s) ==
    /\ Moves(s, "issuing", "proving")
    /\ challenges' = Put([c \in {x \in DOMAIN challenges : challenges[x] > at[s]} |-> challenges[c]],
                         s, at[s] + ChallengeTTL)
    /\ UNCHANGED <<env, now, records, hello, at, snapshot, disk, crashes, history>>

(* No randomness, the Challenge cannot be sent, or no usable Proof arrives *)
(* in time: the session ends and its challenge stays.                      *)
Abandon(s) ==
    /\ \/ Moves(s, "issuing", "refused")
       \/ Moves(s, "proving", "refused")
    /\ Forget(s)
    /\ UNCHANGED <<env, now, memory, snapshot, disk, crashes, history>>

Proof(s) ==
    /\ Moves(s, "proving", "consuming")
    /\ at' = [at EXCEPT ![s] = now]
    /\ UNCHANGED <<env, now, memory, hello, snapshot, disk, crashes, history>>

(* consume_challenge takes the challenge away first and looks at its age   *)
(* and at the signature then; the next operation reads the clock.          *)
InTime(s) == s \in DOMAIN challenges /\ challenges[s] > at[s]

Consume(s, valid) ==
    /\ IF valid /\ InTime(s)
       THEN /\ Moves(s, "consuming", "upserting")
            /\ at' = [at EXCEPT ![s] = now]
            /\ signed' = signed \cup {s}
            /\ UNCHANGED hello
       ELSE Moves(s, "consuming", "refused") /\ Forget(s) /\ UNCHANGED signed
    /\ challenges' = [c \in DOMAIN challenges \ {s} |-> challenges[c]]
    /\ UNCHANGED <<env, now, records, snapshot, disk, crashes, granted>>

(* create_or_refresh_pending looks again: much may have happened since the *)
(* challenge was issued.                                                   *)
Upsert(s) ==
    LET kept == Unexpired(records, at[s]) IN
    /\ \/ /\ Moves(s, "upserting", IF "file" \in env THEN "opening" ELSE "accepted")
          /\ Admits(kept, hello[s])
          /\ records' = Upserted(kept, s)
          /\ snapshot' = [snapshot EXCEPT ![s] = IF "file" \in env THEN records' ELSE @]
          /\ granted' = granted \cup {s}
       \/ /\ Moves(s, "upserting", "refused") /\ ~Admits(kept, hello[s])
          /\ records' = kept
          /\ UNCHANGED <<snapshot, granted>>
    /\ UNCHANGED <<env, now, challenges, hello, at, disk, crashes, signed>>

-----------------------------------------------------------------------------
(* write_records, in a blocking task of its own. Two tasks may open the    *)
(* same temporary file: the later open truncates what the earlier writes.  *)
Open(s) ==
    LET i == IF tmp = None THEN s ELSE tmp IN
    /\ Moves(s, "opening", "writing")
    /\ tmp' = i /\ fd' = [fd EXCEPT ![s] = i]
    /\ inode' = [inode EXCEPT ![i] = Blank]
    /\ UNCHANGED <<env, now, memory, hello, at, snapshot, file, crashes, history>>

(* A shorter text over a longer one, or two written at once, do not parse; *)
(* such a file loads as an empty one.                                      *)
Shared(s) ==
    \/ inode[fd[s]].written
    \/ \E o \in Sessions \ {s} : pc[o] = "writing" /\ fd[o] = fd[s]

Write(s) ==
    /\ Moves(s, "writing", "renaming")
    /\ \E r \in {snapshot[s]} \cup (IF Shared(s) THEN {Nothing} ELSE {}) :
          inode' = [inode EXCEPT ![fd[s]] = [parses |-> r, written |-> TRUE]]
    /\ UNCHANGED <<env, now, memory, hello, at, snapshot, file, tmp, fd, crashes, history>>

(* The rename publishes what the temporary name leads to by now, and fails *)
(* if another task's rename has taken the name away. The file it replaces  *)
(* is gone, unless somebody still writes to it.                            *)
Rename(s) ==
    /\ IF tmp # None
       THEN Moves(s, "renaming", "accepted") /\ file' = tmp /\ tmp' = None
       ELSE Moves(s, "renaming", "refused") /\ UNCHANGED <<file, tmp>>
    /\ snapshot' = [snapshot EXCEPT ![s] = Nothing]
    /\ fd' = [fd EXCEPT ![s] = None]
    /\ inode' = [i \in Sessions |-> IF i \in {file', tmp'} \cup {fd'[o] : o \in Sessions}
                                    THEN inode[i] ELSE Blank]
    /\ UNCHANGED <<env, now, memory, hello, at, crashes, history>>

(* The disk refuses. The record stays in memory; the peer is told no.      *)
PersistFails(s) ==
    /\ \/ Moves(s, "opening", "refused") /\ UNCHANGED inode
       \/ /\ Moves(s, "writing", "refused")
          /\ inode' = [inode EXCEPT ![fd[s]] = [parses |-> Nothing, written |-> TRUE]]
       \/ Moves(s, "renaming", "refused") /\ UNCHANGED inode
    /\ snapshot' = [snapshot EXCEPT ![s] = Nothing]
    /\ fd' = [fd EXCEPT ![s] = None]
    /\ UNCHANGED <<env, now, memory, hello, at, file, tmp, crashes, history>>

Session(s) ==
    \/ \E who \in Claims : Hello(s, who)
    \/ Check(s) \/ IssueChallenge(s) \/ Abandon(s) \/ Proof(s)
    \/ \E valid \in BOOLEAN : Consume(s, valid)
    \/ Upsert(s) \/ Open(s) \/ Write(s) \/ Rename(s) \/ PersistFails(s)

-----------------------------------------------------------------------------
(* list_pending prunes, at a time read before its lock was free.           *)
ListPending ==
    /\ \E t \in 0..now : records' = Unexpired(records, t)
    /\ UNCHANGED <<env, now, challenges, pc, hello, at, snapshot, disk, crashes, history>>

Tick ==
    /\ "tick" \in env /\ now < MaxTime /\ now' = now + 1
    /\ UNCHANGED <<env, memory, pc, hello, at, snapshot, disk, crashes, history>>

(* The server dies and starts again under another process id, and so with  *)
(* another temporary name; an open session is lost, and so is what it knew *)
(* (the identities of those that have signed stay, as history).            *)
Load == IF file = None THEN Nothing ELSE inode[file].parses

Crash ==
    /\ "crash" \in env /\ crashes < MaxCrashes /\ crashes' = crashes + 1
    /\ records' = Load /\ challenges' = Nothing
    /\ pc' = [s \in Sessions |-> IF pc[s] \in Waiting \cup Writing THEN "lost" ELSE pc[s]]
    /\ snapshot' = [s \in Sessions |-> Nothing]
    /\ tmp' = None /\ fd' = [s \in Sessions |-> None]
    /\ inode' = [i \in Sessions |-> IF i = file THEN inode[i] ELSE Blank]
    /\ hello' = [s \in Sessions |-> IF s \in signed THEN hello[s] ELSE None]
    /\ at' = [s \in Sessions |-> 0]
    /\ UNCHANGED <<env, now, file, history>>

Next == (\E s \in Sessions : Session(s)) \/ ListPending \/ Tick \/ Crash

Spec == Init /\ [][Next]_vars

-----------------------------------------------------------------------------
(* Types, of the model's state.                                            *)
TypeOK ==
    /\ env \in Scenarios
    /\ now \in Times /\ crashes \in 0..MaxCrashes
    /\ signed \subseteq Sessions /\ granted \subseteq signed
    /\ IsStore(records)
    /\ DOMAIN challenges \subseteq Sessions
    /\ \A c \in DOMAIN challenges : challenges[c] \in 0..(MaxTime + ChallengeTTL)
    /\ pc \in [Sessions -> {"new"} \cup Waiting \cup Writing \cup Ended]
    /\ hello \in [Sessions -> Claims \cup {None}] /\ at \in [Sessions -> Times]
    /\ DOMAIN snapshot = Sessions /\ DOMAIN inode = Sessions
    /\ \A s \in Sessions : IsStore(snapshot[s]) /\ IsStore(inode[s].parses)
    /\ {file, tmp} \subseteq Sessions \cup {None}
    /\ fd \in [Sessions -> Sessions \cup {None}]

(* A device has one record and one key, and a key belongs to one device:   *)
(* whatever the order of the two halves of an enrollment, of prunes with a *)
(* stale clock, and whatever a restart has loaded. The check is made when  *)
(* a challenge is issued and again when its record is written, with other  *)
(* sessions in between.                                                    *)
OneToOne(r) ==
    \A x, y \in DOMAIN r :
        r[x].who.device = r[y].who.device \/ r[x].who.key = r[y].who.key => x = y

IdentityUnique == OneToOne(records)

(* No more than max_pending records are kept, although sessions are        *)
(* admitted long before their record is inserted.                          *)
CapacityHolds == Cardinality(DOMAIN records) <= MaxPending

(* Nobody is on the list, before or after a restart, whose key has not     *)
(* signed the nonce of a challenge that was open then: the Hello, which    *)
(* claims the identity, is a session's own and leaves nothing behind.      *)
OnlyProved ==
    \A id \in DOMAIN records : \E s \in signed : hello[s] = records[id].who

(* While the server stays up, a device whose session was told "pending" is *)
(* on the list until the earliest moment that one of its sessions was      *)
(* granted: no refresh, conflict, refusal, failed write or prune takes it  *)
(* away before. (Not until the latest: a refresh that has read the clock   *)
(* first and got the lock last shortens the life of the record.)           *)
HeldWhileGranted ==
    crashes = 0 =>
        \A s \in Sessions : pc[s] = "accepted" =>
            \/ Same(records, hello[s]) # {}
            \/ \E o \in granted : hello[o] = hello[s] /\ at[o] + PendingTTL <= now
=============================================================================
