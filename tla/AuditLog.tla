------------------------------ MODULE AuditLog ------------------------------
(***************************************************************************)
(* The audit trail: callers admit commands to a bounded queue under the    *)
(* admission lock, and one writer thread appends the records to a file,    *)
(* answers the barriers and ends at a shutdown.                            *)
(*                                                                         *)
(* Source: crates/server/src/audit.rs.                                     *)
(*                                                                         *)
(* A command is known by its place in the sequence of admitted commands;   *)
(* the queue is the part of that sequence the writer has not taken, its    *)
(* batch the part it has taken and not done. The file is the sequence of   *)
(* the records written, of which some have left the BufWriter and some are *)
(* synced. Rotation only moves synced records: see AuditRotation.          *)
(*                                                                         *)
(* Abstracted: what a record says; the retries of an operation, which ends *)
(* well or not; the line a failed write has torn, which is no record but   *)
(* spoils the record written after it. Export is a Barrier that replies    *)
(* with the file, and the async variants run the same code elsewhere.      *)
(***************************************************************************)
EXTENDS Naturals, Sequences

CONSTANTS
    Clients,     \* callers of the logger
    NoClient,    \* "nobody"
    Capacity,    \* of the queue: DEFAULT_QUEUE_CAPACITY
    MaxCommands  \* bound on the commands ever admitted

ASSUME CapacityAssumption == Capacity \in Nat \ {0}
ASSUME MaxAssumption == MaxCommands \in Nat
ASSUME NoClientAssumption == NoClient \notin Clients

Ops == {"record", "barrier", "tail", "shutdown"}

VARIABLES
    admission,   \* Admission.state
    lock,        \* who holds the admission lock
    persistError,\* the error slot shared with the writer
    commands,    \* every command ever admitted to the queue, in order
    pc,          \* where each client is
    op,          \* the operation it performs
    ticket,      \* the place of its command
    answer,      \* what its last operation returned
    thread,      \* the writer thread
    taken,       \* commands it has received
    done,        \* commands it has processed
    writer,      \* TRUE while it has the file open
    failed,      \* terminal_error
    file,        \* the records written, by their place
    flushed,     \* of these, how many have left the BufWriter
    synced       \* and how many are synced

clientVars == <<admission, lock, commands, pc, op, ticket>>
diskVars   == <<writer, file, flushed, synced>>
vars == <<clientVars, persistError, answer, thread, taken, done, failed, diskVars>>

Init ==
    /\ admission = "running"
    /\ lock = NoClient
    /\ persistError = FALSE
    /\ commands = <<>>
    /\ pc = [p \in Clients |-> "idle"]
    /\ op = [p \in Clients |-> "record"]
    /\ ticket = [p \in Clients |-> 0]
    /\ answer = [p \in Clients |-> "none"]
    /\ thread = "start"
    /\ taken = 0 /\ done = 0
    /\ writer = FALSE
    /\ failed = FALSE
    /\ file = <<>> /\ flushed = 0 /\ synced = 0

-----------------------------------------------------------------------------
(* The callers: enqueue, and what the operations do around it.             *)

Goto(p, l)   == pc' = [pc EXCEPT ![p] = l]
Answer(p, a) == answer' = [answer EXCEPT ![p] = a]

(* The admission lock is taken and the state and the error slot looked at. *)
(* A closed logger answers at once, a shutdown with what the first one     *)
(* returned; a record is refused once the writer has failed.               *)
Refuse(p, o) ==
    /\ pc[p] = "idle" /\ lock = NoClient
    /\ admission # "running" \/ (o = "record" /\ persistError)
    /\ op' = [op EXCEPT ![p] = o]
    /\ ticket' = [ticket EXCEPT ![p] = 0]
    /\ Answer(p, IF o = "shutdown" THEN admission ELSE "refused")
    /\ UNCHANGED <<admission, lock, commands, pc, persistError, thread, taken, done, failed,
                   diskVars>>

Acquire(p, o) ==
    /\ pc[p] = "idle" /\ lock = NoClient
    /\ admission = "running"
    /\ o = "record" => ~persistError
    /\ Len(commands) < MaxCommands
    /\ lock' = p
    /\ op' = [op EXCEPT ![p] = o]
    /\ ticket' = [ticket EXCEPT ![p] = 0]
    /\ Goto(p, "sending")
    /\ Answer(p, "none")
    /\ admission' = IF o = "shutdown" THEN "shuttingDown" ELSE admission
    /\ UNCHANGED <<commands, persistError, thread, taken, done, failed, diskVars>>

(* The blocking send, with the lock held; a shutdown keeps the lock until  *)
(* the writer has replied and was joined.                                  *)
Admit(p) ==
    /\ pc[p] = "sending"
    /\ commands' = Append(commands, [op |-> op[p], client |-> p])
    /\ ticket' = [ticket EXCEPT ![p] = Len(commands) + 1]
    /\ Goto(p, IF op[p] = "record" THEN "idle" ELSE "waiting")
    /\ IF op[p] = "record" THEN Answer(p, "ok") ELSE UNCHANGED answer
    /\ lock' = IF op[p] = "shutdown" THEN p ELSE NoClient
    /\ UNCHANGED <<admission, op, persistError, thread, taken, done, failed, diskVars>>

Push(p) ==
    /\ Len(commands) - taken < Capacity
    /\ Admit(p)

Receive(p) ==
    /\ pc[p] = "waiting" /\ answer[p] # "none" /\ op[p] # "shutdown"
    /\ Goto(p, "idle")
    /\ UNCHANGED <<admission, lock, commands, op, ticket, persistError, answer, thread,
                   taken, done, failed, diskVars>>

Close(p) ==
    /\ pc[p] = "waiting" /\ answer[p] # "none" /\ op[p] = "shutdown"
    /\ thread = "exited"
    /\ admission' = answer[p]
    /\ lock' = NoClient
    /\ Goto(p, "idle")
    /\ UNCHANGED <<commands, op, ticket, persistError, answer, thread, taken, done, failed,
                   diskVars>>

Client(p) == (\E o \in Ops : Refuse(p, o) \/ Acquire(p, o)) \/ Push(p) \/ Receive(p) \/ Close(p)

-----------------------------------------------------------------------------
(* The writer thread: run_writer.                                          *)

(* set_terminal_error: the writer's own error and the one the callers see. *)
Poison == failed' = TRUE /\ persistError' = TRUE

Start ==
    /\ thread = "start"
    /\ thread' = "draining"
    /\ \/ writer' = TRUE /\ UNCHANGED <<failed, persistError>>
       \/ writer' = FALSE /\ Poison
    /\ UNCHANGED <<clientVars, answer, taken, done, file, flushed, synced>>

(* recv, then try_recv until the queue is empty.                           *)
Take ==
    /\ thread = "draining" /\ taken < Len(commands)
    /\ taken' = taken + 1
    /\ UNCHANGED <<clientVars, persistError, answer, thread, done, failed, diskVars>>

Drained ==
    /\ thread = "draining" /\ taken = Len(commands) /\ done < taken
    /\ thread' = "working"
    /\ UNCHANGED <<clientVars, persistError, answer, taken, done, failed, diskVars>>

Current == commands[done + 1]
Doing(o) == thread = "working" /\ done < taken /\ Current.op = o
Finish ==
    /\ done' = done + 1
    /\ thread' = IF done + 1 = taken THEN "draining" ELSE "working"

(* persist_record: open the file if need be, rotate it if it is full (which *)
(* syncs it), append. The BufWriter may spill what it holds. After a torn  *)
(* line the record is unreadable, although the write ends well.            *)
PersistRecord ==
    /\ Doing("record")
    /\ writer' = TRUE
    /\ file' \in {Append(file, done + 1)} \cup (IF failed THEN {file} ELSE {})
    /\ flushed' \in flushed..Len(file')
    /\ synced' \in {synced} \cup (IF flushed' >= Len(file) THEN {Len(file)} ELSE {})
    /\ Finish
    /\ UNCHANGED <<clientVars, persistError, answer, taken, failed>>

FailRecord_Forgotten == \* reports nothing to the barriers that follow
    /\ Doing("record")
    /\ writer' = FALSE
    /\ \E n \in flushed..Len(file) : file' = SubSeq(file, 1, n) /\ flushed' = n
    /\ persistError' = TRUE
    /\ Finish
    /\ UNCHANGED <<clientVars, answer, taken, failed, synced>>

(* It fails: the writer is dropped, which flushes what it can.             *)
FailRecord ==
    /\ Doing("record")
    /\ writer' = FALSE
    /\ \E n \in flushed..Len(file) : file' = SubSeq(file, 1, n) /\ flushed' = n
    /\ Poison
    /\ Finish
    /\ UNCHANGED <<clientVars, answer, taken, synced>>

(* flush_writer: flush, sync_data, and the terminal error if there is one; *)
(* without an open file there is nothing to do. A failure leaves the file  *)
(* open.                                                                   *)
FlushOk ==
    /\ flushed' = Len(file)
    /\ synced' = IF writer THEN Len(file) ELSE synced
FlushFails ==
    /\ writer
    /\ flushed' \in flushed..Len(file)
    /\ UNCHANGED synced

FlushAndReply(p) ==
    \/ /\ FlushOk
       /\ Answer(p, IF failed THEN "failed" ELSE "ok")
       /\ UNCHANGED <<failed, persistError>>
    \/ FlushFails /\ Answer(p, "failed") /\ Poison

DoBarrier ==
    /\ Doing("barrier")
    /\ FlushAndReply(Current.client)
    /\ Finish
    /\ UNCHANGED <<clientVars, taken, writer, file>>

(* A tail is answered whether or not the flush succeeds.                   *)
DoTail ==
    /\ Doing("tail")
    /\ \/ FlushOk /\ UNCHANGED <<failed, persistError>>
       \/ FlushFails /\ Poison
    /\ Answer(Current.client, "tail")
    /\ Finish
    /\ UNCHANGED <<clientVars, taken, writer, file>>

DoShutdown_Unflushed == \* leaves the last flush to the end of the thread
    /\ Doing("shutdown")
    /\ Answer(Current.client, IF failed THEN "failed" ELSE "ok")
    /\ thread' = "exited"
    /\ done' = done + 1
    /\ UNCHANGED <<clientVars, persistError, taken, failed, diskVars>>

DoShutdown_LocksAdmission == \* looks into Admission for an earlier error
    /\ Doing("shutdown") /\ lock = NoClient
    /\ FlushAndReply(Current.client)
    /\ thread' = "exited"
    /\ done' = done + 1
    /\ UNCHANGED <<clientVars, taken, writer, file>>

(* The thread ends; what is left of its batch would go with it.            *)
DoShutdown ==
    /\ Doing("shutdown")
    /\ FlushAndReply(Current.client)
    /\ thread' = "exited"
    /\ done' = done + 1
    /\ UNCHANGED <<clientVars, taken, writer, file>>

(* periodic_flush_writer, once a second; an error is only logged.          *)
PeriodicFlush ==
    /\ thread = "draining" /\ done = taken /\ writer
    /\ flushed' \in (flushed + 1)..Len(file)
    /\ UNCHANGED <<clientVars, persistError, answer, thread, taken, done, failed, writer,
                   file, synced>>

Writer == Start \/ Take \/ Drained \/ PersistRecord \/ FailRecord \/ DoBarrier \/ DoTail
          \/ DoShutdown \/ PeriodicFlush

(* The machine stops: what was not synced may be gone.                     *)
Crash ==
    /\ thread # "crashed"
    /\ thread' = "crashed"
    /\ \E n \in synced..Len(file) : file' = SubSeq(file, 1, n) /\ flushed' = n
    /\ lock' = NoClient
    /\ admission' = "crashed"
    /\ pc' = [p \in Clients |-> "stopped"]
    /\ UNCHANGED <<commands, op, ticket, persistError, answer, taken, done, failed, writer,
                   synced>>

Next == (\E p \in Clients : Client(p)) \/ Writer \/ Crash

Spec == Init /\ [][Next]_vars

(* Threads run: a client that may go on does, and so does the writer.      *)
Fairness ==
    /\ \A p \in Clients : WF_vars(Push(p)) /\ WF_vars(Receive(p) \/ Close(p))
    /\ WF_vars(Start) /\ WF_vars(Take) /\ WF_vars(Drained)
    /\ WF_vars(PersistRecord \/ FailRecord \/ DoBarrier \/ DoTail \/ DoShutdown)
LiveSpec == Spec /\ Fairness

-----------------------------------------------------------------------------
(* Properties.                                                             *)

Command == [op : Ops, client : Clients]
Answers == {"none", "ok", "failed", "refused", "tail", "shuttingDown"}

(* The type of every variable, and the bounds that relate the counters:    *)
(* the queue never holds more than its capacity.                           *)
TypeOK ==
    /\ admission \in {"running", "shuttingDown", "ok", "failed", "crashed"}
    /\ lock \in Clients \cup {NoClient}
    /\ persistError \in BOOLEAN
    /\ commands \in Seq(Command)
    /\ pc \in [Clients -> {"idle", "sending", "waiting", "stopped"}]
    /\ op \in [Clients -> Ops]
    /\ ticket \in [Clients -> Nat]
    /\ answer \in [Clients -> Answers]
    /\ thread \in {"start", "draining", "working", "exited", "crashed"}
    /\ taken \in Nat /\ done \in Nat /\ done <= taken /\ taken <= Len(commands)
    /\ Len(commands) - taken <= Capacity
    /\ writer \in BOOLEAN /\ failed \in BOOLEAN
    /\ file \in Seq(Nat)
    /\ flushed \in Nat /\ synced \in Nat /\ synced <= flushed /\ flushed <= Len(file)

IsRecord(i) == commands[i].op = "record"
Durable(i)  == \E n \in 1..synced : file[n] = i

(* "Flushes all records admitted before this barrier and calls sync_data": *)
(* a flush or an export that returned Ok leaves every record admitted      *)
(* before it on the disk, also through a crash.                            *)
FlushDurable ==
    \A p \in Clients : op[p] = "barrier" /\ answer[p] = "ok" =>
        \A i \in 1..(ticket[p] - 1) : IsRecord(i) => Durable(i)

(* The file holds the records in the order of their admission, each once,  *)
(* and nothing that was not admitted.                                      *)
FileInOrder ==
    /\ \A n \in 1..Len(file) : file[n] \in 1..Len(commands) /\ IsRecord(file[n])
    /\ \A m, n \in 1..Len(file) : m < n => file[m] < file[n]

(* A logger that was closed with Ok lost no record, whoever admitted it    *)
(* and whenever: nothing slips in behind the shutdown.                     *)
ShutdownLosesNothing ==
    admission = "ok" => \A i \in 1..Len(commands) : IsRecord(i) => Durable(i)

(* Every operation comes back, the shutdown too, whatever fails: the       *)
(* writer never waits for the lock that its callers hold while they wait.  *)
OperationReturns ==
    \A p \in Clients : []<>(pc[p] \notin {"sending", "waiting"})
=============================================================================
