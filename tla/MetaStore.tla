----------------------------- MODULE MetaStore -----------------------------
(***************************************************************************)
(* The terminals' metadata: updates change the records in memory under a   *)
(* lock, and hand the writer thread a snapshot through a bounded queue;    *)
(* the thread coalesces the snapshots and replaces the file.               *)
(*                                                                         *)
(* Source: crates/server/src/meta_store.rs.                                *)
(*                                                                         *)
(* A snapshot is its version; 0 is "none". Snapshots are taken under the   *)
(* lock but sent after it, so they reach the queue in any order. After a   *)
(* restart the versions go on from what the file holds: the code begins    *)
(* with 0 again, which is the same up to an offset.                        *)
(*                                                                         *)
(* Abstracted: what the records say; the attempts of the last write, which *)
(* ends well or not; the drain of a burst, which only chooses when the     *)
(* debounce may fire.                                                      *)
(***************************************************************************)
EXTENDS Naturals, Sequences

CONSTANTS
    Clients,     \* tasks that use the store
    Capacity,    \* of the queue: META_QUEUE_CAPACITY
    MaxVersion,  \* bound on the updates
    Scenarios    \* what may happen: a behaviour draws one of these

(* A straggler is a task that goes on using the store while it is shut     *)
(* down; without stragglers the producers have stopped before.             *)
Events == {"flush", "shutdown", "crash", "diskError", "straggler"}

ASSUME CapacityAssumption == Capacity \in Nat \ {0}
ASSUME MaxAssumption == MaxVersion \in Nat
ASSUME ScenariosAssumption == Scenarios \subseteq SUBSET Events

Versions == 0..MaxVersion

VARIABLES
    env,       \* the scenario of this behaviour
    version,   \* StoreState.version, and with it the records
    sender,    \* the store still has its sender
    queue,     \* the commands the writer has not received
    thread,    \* the writer thread
    pending,   \* the snapshot it has yet to write
    deadline,  \* TRUE when the debounce is running
    persisted, \* persisted_version
    disk,      \* the file, as it is read
    synced,    \* the file, as a crash would leave it
    pc,        \* where each client is
    op,        \* the operation it performs
    snap,      \* the snapshot it took
    answer,    \* what its last operation returned
    accepted,  \* history: the highest version whose update returned Ok
    acked,     \* history: the highest version a flush or shutdown reported written
    closed     \* history: what the shutdown returned

clientVars == <<pc, op, snap, answer, accepted, acked, closed>>
fileVars   == <<persisted, disk, synced>>
writerVars == <<thread, pending, deadline>>
vars == <<env, version, sender, queue, writerVars, fileVars, clientVars>>

Init ==
    /\ env \in Scenarios
    /\ version = 0 /\ sender = TRUE /\ queue = <<>>
    /\ thread = "running" /\ pending = 0 /\ deadline = FALSE
    /\ persisted = 0 /\ disk = 0 /\ synced = 0
    /\ pc = [c \in Clients |-> "idle"]
    /\ op = [c \in Clients |-> "update"]
    /\ snap = [c \in Clients |-> 0]
    /\ answer = [c \in Clients |-> "none"]
    /\ accepted = 0 /\ acked = 0 /\ closed = "none"

Newer(v, w) == IF v > w THEN v ELSE w

-----------------------------------------------------------------------------
(* The clients.                                                            *)

Goto(c, l)   == pc' = [pc EXCEPT ![c] = l]
Answer(c, a) == answer' = [answer EXCEPT ![c] = a]
ShuttingDown == \E c \in Clients : op[c] = "shutdown"

(* The state lock: an update changes the records, and every operation      *)
(* takes its snapshot.                                                     *)
Begin(c, o) ==
    /\ pc[c] = "idle"
    /\ o = "update" \/ o \in env
    /\ "straggler" \in env \/ ~ShuttingDown
    /\ o = "update" => version < MaxVersion
    /\ o = "shutdown" => /\ ~ShuttingDown
                         /\ ("straggler" \in env \/ \A d \in Clients : pc[d] = "idle")
    /\ version' = IF o = "update" THEN version + 1 ELSE version
    /\ op' = [op EXCEPT ![c] = o]
    /\ snap' = [snap EXCEPT ![c] = version']
    /\ Goto(c, "admitting") /\ Answer(c, "none")
    /\ UNCHANGED <<env, sender, queue, writerVars, fileVars, accepted, acked, closed>>

(* The sender is cloned, or by a shutdown taken.                           *)
Admit(c) ==
    /\ pc[c] = "admitting"
    /\ IF sender THEN Goto(c, "sending") /\ UNCHANGED answer
                 ELSE Goto(c, "idle") /\ Answer(c, "failed")
    /\ sender' = (sender /\ op[c] # "shutdown")
    /\ UNCHANGED <<env, version, queue, writerVars, fileVars, op, snap, accepted, acked, closed>>

(* try_send, or a blocking send when the queue is full. An update is done  *)
(* when its snapshot is in the queue.                                      *)
Send(c) ==
    /\ pc[c] = "sending" /\ thread = "running"
    /\ Len(queue) < Capacity
    /\ queue' = Append(queue, [op |-> op[c], version |-> snap[c], client |-> c])
    /\ IF op[c] = "update"
       THEN /\ Goto(c, "idle") /\ Answer(c, "ok")
            /\ accepted' = Newer(accepted, snap[c])
       ELSE Goto(c, "waiting") /\ UNCHANGED <<answer, accepted>>
    /\ UNCHANGED <<env, version, sender, writerVars, fileVars, op, snap, acked, closed>>

(* The writer is gone: the send fails, or the reply never comes.           *)
GiveUp(c) ==
    /\ thread = "exited" /\ answer[c] = "none"
    /\ pc[c] \in {"sending", "waiting"}
    /\ Goto(c, "idle") /\ Answer(c, "failed")
    /\ UNCHANGED <<env, version, sender, queue, writerVars, fileVars, op, snap, accepted, acked,
                   closed>>

Return(c) ==
    /\ pc[c] = "waiting" /\ answer[c] # "none"
    /\ op[c] = "shutdown" => thread = "exited"
    /\ Goto(c, "idle")
    /\ acked' = IF answer[c] = "ok" THEN Newer(acked, snap[c]) ELSE acked
    /\ closed' = IF op[c] = "shutdown" THEN answer[c] ELSE closed
    /\ UNCHANGED <<env, version, sender, queue, writerVars, fileVars, op, snap, answer, accepted>>

Client(c) == Admit(c) \/ Send(c) \/ GiveUp(c) \/ Return(c)

-----------------------------------------------------------------------------
(* The writer thread.                                                      *)

(* persist_snapshot, which writes what is newer than the file only.        *)
Persisted_Unsynced(v) == \* no sync of file and directory
    IF v <= persisted THEN UNCHANGED fileVars
    ELSE persisted' = v /\ disk' = v /\ UNCHANGED synced

Persisted(v) ==
    IF v <= persisted THEN UNCHANGED fileVars
    ELSE persisted' = v /\ disk' = v /\ synced' = v

(* It fails before the rename, or after it, when the directory is synced.  *)
NotPersisted(v) ==
    /\ "diskError" \in env /\ v > persisted
    /\ disk' \in {disk, v}
    /\ UNCHANGED <<persisted, synced>>

Idle       == pending' = 0 /\ deadline' = FALSE
Retry(v)   == pending' = v /\ deadline' = TRUE

TakeUpdate ==
    /\ thread = "running" /\ queue # <<>>
    /\ LET q == Head(queue) IN
        /\ q.op = "update"
        /\ pending' = Newer(pending, q.version)
        /\ deadline' = TRUE
    /\ queue' = Tail(queue)
    /\ UNCHANGED <<env, version, sender, thread, fileVars, clientVars>>

TakeFlush_Forgets == \* a failed flush drops the snapshot
    /\ thread = "running" /\ queue # <<>>
    /\ LET q == Head(queue)
           v == Newer(pending, q.version) IN
        /\ q.op = "flush"
        /\ \/ Persisted(v) /\ Idle /\ Answer(q.client, "ok")
           \/ NotPersisted(v) /\ Idle /\ Answer(q.client, "failed")
    /\ queue' = Tail(queue)
    /\ UNCHANGED <<env, version, sender, thread, pc, op, snap, accepted, acked, closed>>

TakeFlush ==
    /\ thread = "running" /\ queue # <<>>
    /\ LET q == Head(queue)
           v == Newer(pending, q.version) IN
        /\ q.op = "flush"
        /\ \/ Persisted(v) /\ Idle /\ Answer(q.client, "ok")
           \/ NotPersisted(v) /\ Retry(v) /\ Answer(q.client, "failed")
    /\ queue' = Tail(queue)
    /\ UNCHANGED <<env, version, sender, thread, pc, op, snap, accepted, acked, closed>>

(* The last command: what is still queued behind it is dropped.            *)
TakeShutdown_Own == \* ignores the pending snapshot
    /\ thread = "running" /\ queue # <<>>
    /\ LET q == Head(queue) IN
        /\ q.op = "shutdown"
        /\ Idle /\ Answer(q.client, "ok")
        /\ UNCHANGED fileVars
    /\ queue' = <<>> /\ thread' = "exited"
    /\ UNCHANGED <<env, version, sender, pc, op, snap, accepted, acked, closed>>

TakeShutdown ==
    /\ thread = "running" /\ queue # <<>>
    /\ LET q == Head(queue)
           v == Newer(pending, q.version) IN
        /\ q.op = "shutdown"
        /\ Idle
        /\ \/ Persisted(v) /\ Answer(q.client, "ok")
           \/ NotPersisted(v) /\ Answer(q.client, "failed")
    /\ queue' = <<>> /\ thread' = "exited"
    /\ UNCHANGED <<env, version, sender, pc, op, snap, accepted, acked, closed>>

(* The debounce has passed: the snapshot is written, or tried again later. *)
WritePending ==
    /\ thread = "running" /\ deadline
    /\ Persisted(pending) /\ Idle
    /\ UNCHANGED <<env, version, sender, queue, thread, clientVars>>

RetryPending ==
    /\ thread = "running" /\ deadline
    /\ NotPersisted(pending) /\ Retry(pending)
    /\ UNCHANGED <<env, version, sender, queue, thread, clientVars>>

Take   == TakeUpdate \/ TakeFlush \/ TakeShutdown
Writer == Take \/ WritePending \/ RetryPending

-----------------------------------------------------------------------------
(* The process ends and a new one loads the file. A rename whose directory *)
(* was not synced may be undone by the crash of the machine.               *)
Crash ==
    /\ "crash" \in env
    /\ disk' \in {disk, synced}
    /\ synced' = disk' /\ persisted' = disk' /\ version' = disk'
    /\ sender' = TRUE /\ queue' = <<>>
    /\ thread' = "running" /\ Idle
    /\ pc' = [c \in Clients |-> "idle"]
    /\ op' = [c \in Clients |-> "update"]
    /\ snap' = [c \in Clients |-> 0]
    /\ answer' = [c \in Clients |-> "none"]
    /\ accepted' = 0 /\ closed' = "none"
    /\ UNCHANGED <<env, acked>>

Next ==
    \/ \E c \in Clients : Client(c) \/ \E o \in {"update", "flush", "shutdown"} : Begin(c, o)
    \/ Writer \/ Crash

(* Tasks and the thread are scheduled, and the debounce passes. A disk     *)
(* that is tried again and again works in the end.                         *)
Spec ==
    /\ Init /\ [][Next]_vars
    /\ \A c \in Clients : WF_vars(Client(c))
    /\ WF_vars(Take) /\ WF_vars(Writer) /\ SF_vars(WritePending)

-----------------------------------------------------------------------------
(* The type of every variable.                                             *)
TypeOK ==
    /\ env \in Scenarios
    /\ {version, pending, persisted, disk, synced, accepted, acked} \subseteq Versions
    /\ {sender, deadline} \subseteq BOOLEAN
    /\ thread \in {"running", "exited"}
    /\ queue \in Seq([op : {"update", "flush", "shutdown"}, version : Versions,
                      client : Clients])
    /\ Len(queue) <= Capacity
    /\ pc \in [Clients -> {"idle", "admitting", "sending", "waiting"}]
    /\ op \in [Clients -> {"update", "flush", "shutdown"}]
    /\ snap \in [Clients -> Versions]
    /\ answer \in [Clients -> {"none", "ok", "failed"}]
    /\ closed \in {"none", "ok", "failed"}

(* flush: "Persists the latest in-memory snapshot atomically and waits for *)
(* file sync completion." What it has reported survives any crash, and no  *)
(* later write, retry or restart falls behind it.                          *)
FlushDurable == acked <= synced /\ acked <= version

(* Snapshots that overtook each other never make the file older, whatever  *)
(* fails and is retried: only a crash takes it back, to what was synced.   *)
NeverOlder == [][disk' >= disk \/ disk' = synced]_vars

(* When the producers have stopped, a shutdown that returns Ok has written *)
(* every update that was accepted.                                         *)
ShutdownKeeps == closed = "ok" /\ "straggler" \notin env => accepted <= synced

(* "Ok means the new value is visible in memory and accepted by the        *)
(* background writer": it is on disk in the end, with no call of flush.    *)
AcceptedPersists ==
    {"shutdown", "crash"} \cap env = {} =>
        \A v \in Versions : []<>(accepted >= v => disk >= v)

(* Every operation returns, though the queue is full or the writer ends    *)
(* with commands still in it.                                              *)
CallReturns == \A c \in Clients : []<>(pc[c] = "idle")

(* Both: what was accepted reaches the file and who asked gets an answer.  *)
NothingWaits == AcceptedPersists /\ CallReturns

=============================================================================
