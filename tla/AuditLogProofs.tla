--------------------------- MODULE AuditLogProofs ---------------------------
(***************************************************************************)
(* Proofs about AuditLog, for any callers, any capacity of the queue and   *)
(* any number of commands.                                                 *)
(***************************************************************************)
EXTENDS AuditLog, TLAPS, SequenceTheorems

Written(i) == \E n \in 1..Len(file) : file[n] = i
AllDurable == \A i \in 1..Len(commands) : IsRecord(i) => Durable(i)

(* What the writer has done: as long as it has not failed, every record it *)
(* has processed is in its file, in order; a file it may write is open.    *)
DiskInv ==
    /\ ~failed /\ thread # "crashed" => \A i \in 1..done : IsRecord(i) => Written(i)
    /\ \A n \in 1..Len(file) : file[n] \in 1..done /\ IsRecord(file[n])
    /\ \A m, n \in 1..Len(file) : m < n => file[m] < file[n]
    /\ thread = "start" => done = 0 /\ taken = 0
    /\ thread \notin {"start", "crashed"} /\ ~failed => writer

(* A command that waits for the writer belongs to a client that waits.     *)
TicketInv ==
    /\ \A p \in Clients : ticket[p] <= Len(commands)
    /\ thread # "crashed" => \A i \in (done + 1)..Len(commands) : ~IsRecord(i) =>
          LET p == commands[i].client IN
          /\ ticket[p] = i /\ op[p] = commands[i].op
          /\ pc[p] = "waiting" /\ answer[p] = "none"

(* Who holds the admission lock, and what a shutdown that was answered     *)
(* knows: no command can have come behind its own.                         *)
LockInv ==
    \A p \in Clients :
        /\ pc[p] # "stopped" => admission # "crashed"
        /\ pc[p] = "sending" => /\ lock = p /\ answer[p] = "none"
                                /\ admission = IF op[p] = "shutdown" THEN "shuttingDown"
                                                                     ELSE "running"
        /\ pc[p] = "waiting" /\ op[p] = "shutdown" =>
              /\ lock = p /\ admission = "shuttingDown" /\ ticket[p] = Len(commands)
              /\ answer[p] \in {"none", "ok", "failed"}
              /\ answer[p] = "ok" => AllDurable

AInv == TypeOK /\ DiskInv /\ TicketInv /\ LockInv /\ FlushDurable /\ ShutdownLosesNothing

LEMMA InitAInv == Init => AInv
<1> SUFFICES ASSUME Init PROVE AInv
    OBVIOUS
<1> USE CapacityAssumption DEF Init
<1>1. TypeOK
  <2>1. <<>> \in Seq(Command) /\ <<>> \in Seq(Nat) /\ Len(<<>>) = 0
    OBVIOUS
  <2>2. Len(commands) - taken <= Capacity /\ taken <= Len(commands) /\ flushed <= Len(file)
    BY <2>1
  <2>3. commands \in Seq(Command) /\ file \in Seq(Nat)
    BY <2>1
  <2> QED BY <2>2, <2>3 DEF TypeOK, Ops, Answers
<1>2. DiskInv /\ TicketInv /\ LockInv
    BY DEF DiskInv, TicketInv, LockInv
<1>3. FlushDurable /\ ShutdownLosesNothing
    BY DEF FlushDurable, ShutdownLosesNothing
<1> QED BY <1>1, <1>2, <1>3 DEF AInv

USE DEF Goto, Answer, clientVars, diskVars, Finish, Doing, Current, Poison,
        FlushAndReply, FlushOk, FlushFails

-----------------------------------------------------------------------------
(* Type correctness.                                                       *)

(* A step of a client keeps the types.                                     *)
LEMMA ClientTypes ==
    ASSUME TypeOK, LockInv, NEW p \in Clients, Client(p)
    PROVE  TypeOK'
<1> USE DEF TypeOK, Ops, Answers
<1>1. ASSUME NEW o \in Ops, Refuse(p, o) PROVE TypeOK'
    BY <1>1 DEF Refuse, LockInv
<1>2. ASSUME NEW o \in Ops, Acquire(p, o) PROVE TypeOK'
    BY <1>2 DEF Acquire
<1>3. CASE Push(p)
  <2>1. [op |-> op[p], client |-> p] \in Command
    BY DEF Command
  <2>2. commands' \in Seq(Command) /\ Len(commands') = Len(commands) + 1
    <3>1. commands' = Append(commands, [op |-> op[p], client |-> p])
      BY <1>3 DEF Push, Admit
    <3> QED BY <2>1, <3>1
  <2>3. Len(commands') - taken <= Capacity
    BY <1>3, <2>2, CapacityAssumption DEF Push
  <2>4. pc' \in [Clients -> {"idle", "sending", "waiting", "stopped"}]
    BY <1>3 DEF Push, Admit
  <2>5. ticket' \in [Clients -> Nat]
    BY <1>3 DEF Push, Admit
  <2>6. answer' \in [Clients -> Answers]
    BY <1>3 DEF Push, Admit
  <2> QED BY <1>3, <2>2, <2>3, <2>4, <2>5, <2>6 DEF Push, Admit
<1>4. CASE Receive(p)
    BY <1>4 DEF Receive
<1>5. CASE Close(p)
    BY <1>5 DEF Close, LockInv
<1> QED BY <1>1, <1>2, <1>3, <1>4, <1>5 DEF Client

(* A flush, whichever way it ends, and the reply to it.                    *)
LEMMA FlushTypes ==
    ASSUME TypeOK, FlushOk \/ FlushFails
    PROVE  flushed' \in Nat /\ synced' \in Nat /\ synced' <= flushed' /\ flushed' <= Len(file)
<1>1. CASE FlushOk
    BY <1>1 DEF TypeOK
<1>2. CASE FlushFails
    BY <1>2 DEF TypeOK
<1> QED BY <1>1, <1>2

LEMMA PoisonTypes ==
    ASSUME TypeOK, Poison \/ UNCHANGED <<failed, persistError>>
    PROVE  failed' \in BOOLEAN /\ persistError' \in BOOLEAN
BY DEF TypeOK

(* A step of the writer keeps the types.                                   *)
LEMMA WriterTypes ==
    ASSUME TypeOK, Writer
    PROVE  TypeOK'
<1> USE CapacityAssumption DEF TypeOK, Ops, Answers
<1>1. CASE Start
    BY <1>1 DEF Start
<1>2. CASE Take
    BY <1>2 DEF Take
<1>3. CASE Drained
    BY <1>3 DEF Drained
<1>4. ASSUME thread = "working", done < taken
      PROVE  commands[done + 1].client \in Clients
  <2>1. done + 1 \in 1..Len(commands)
    BY <1>4
  <2>2. commands[done + 1] \in Command
    BY <2>1
  <2> QED BY <2>2 DEF Command
<1>5. CASE PersistRecord
  <2>1. file' \in Seq(Nat) /\ Len(file') >= Len(file)
    <3>1. CASE file' = Append(file, done + 1)
      BY <3>1
    <3>2. CASE file' = file
      BY <3>2
    <3> QED BY <1>5, <3>1, <3>2 DEF PersistRecord
  <2>2. flushed' \in Nat /\ synced' \in Nat /\ synced' <= flushed' /\ flushed' <= Len(file')
    BY <1>5, <2>1 DEF PersistRecord
  <2> QED BY <1>5, <2>1, <2>2 DEF PersistRecord
<1>6. CASE FailRecord
  <2>1. PICK n \in flushed..Len(file) : file' = SubSeq(file, 1, n) /\ flushed' = n
    BY <1>6 DEF FailRecord
  <2>2. file' \in Seq(Nat) /\ Len(file') = n
    BY <2>1
  <2>3. done' \in Nat /\ done' <= taken
    BY <1>6 DEF FailRecord
  <2>4. flushed' \in Nat /\ synced <= flushed' /\ flushed' <= Len(file')
    BY <2>1, <2>2
  <2> QED BY <1>6, <2>2, <2>3, <2>4 DEF FailRecord
<1>7. CASE DoBarrier
  <2>1. /\ flushed' \in Nat /\ synced' \in Nat /\ synced' <= flushed' /\ flushed' <= Len(file)
        /\ failed' \in BOOLEAN /\ persistError' \in BOOLEAN
    BY ONLY TypeOK, <1>7, FlushTypes, PoisonTypes DEF DoBarrier, FlushAndReply
  <2>2. answer' \in [Clients -> Answers]
    BY <1>4, <1>7 DEF DoBarrier
  <2>3. done' \in Nat /\ done' <= taken
    BY <1>7 DEF DoBarrier
  <2> QED BY <1>7, <2>1, <2>2, <2>3 DEF DoBarrier
<1>8. CASE DoTail
  <2>1. /\ flushed' \in Nat /\ synced' \in Nat /\ synced' <= flushed' /\ flushed' <= Len(file)
        /\ failed' \in BOOLEAN /\ persistError' \in BOOLEAN
    BY ONLY TypeOK, <1>8, FlushTypes, PoisonTypes DEF DoTail, FlushAndReply
  <2>2. answer' \in [Clients -> Answers]
    BY <1>4, <1>8 DEF DoTail
  <2>3. done' \in Nat /\ done' <= taken
    BY <1>8 DEF DoTail
  <2> QED BY <1>8, <2>1, <2>2, <2>3 DEF DoTail
<1>9. CASE DoShutdown
  <2>1. /\ flushed' \in Nat /\ synced' \in Nat /\ synced' <= flushed' /\ flushed' <= Len(file)
        /\ failed' \in BOOLEAN /\ persistError' \in BOOLEAN
    BY ONLY TypeOK, <1>9, FlushTypes, PoisonTypes DEF DoShutdown, FlushAndReply
  <2>2. answer' \in [Clients -> Answers]
    BY <1>4, <1>9 DEF DoShutdown
  <2>3. done' \in Nat /\ done' <= taken
    BY <1>9 DEF DoShutdown
  <2> QED BY <1>9, <2>1, <2>2, <2>3 DEF DoShutdown
<1>10. CASE PeriodicFlush
    BY <1>10 DEF PeriodicFlush
<1> QED BY <1>1, <1>2, <1>3, <1>5, <1>6, <1>7, <1>8, <1>9, <1>10 DEF Writer

(* And so does a crash.                                                    *)
LEMMA CrashTypes == TypeOK /\ Crash => TypeOK'
<1> SUFFICES ASSUME TypeOK, Crash PROVE TypeOK'
    OBVIOUS
<1> USE DEF TypeOK
<1>1. PICK n \in synced..Len(file) : file' = SubSeq(file, 1, n) /\ flushed' = n
    BY DEF Crash
<1>2. file' \in Seq(Nat) /\ Len(file') = n
    BY <1>1
<1> QED BY <1>1, <1>2 DEF Crash

-----------------------------------------------------------------------------
(* The invariant under the steps of the clients.                           *)

(* A step that admits nothing.                                             *)
LEMMA QuietClientStep ==
    ASSUME AInv, NEW p \in Clients,
           (\E o \in Ops : Refuse(p, o) \/ Acquire(p, o)) \/ Receive(p) \/ Close(p)
    PROVE  DiskInv' /\ TicketInv' /\ LockInv' /\ FlushDurable' /\ ShutdownLosesNothing'
<1> USE NoClientAssumption DEF AInv, TypeOK
<1>1. UNCHANGED <<commands, thread, taken, done, failed, persistError, diskVars>>
    BY DEF Refuse, Acquire, Receive, Close
<1>2. DiskInv'
    BY <1>1 DEF DiskInv, Written, IsRecord
<1>3. /\ \A i : IsRecord(i)' <=> IsRecord(i)
      /\ \A i : Durable(i)' <=> Durable(i)
    BY <1>1 DEF IsRecord, Durable
<1>4. \A q \in Clients : q # p => /\ pc'[q] = pc[q] /\ op'[q] = op[q]
                                 /\ ticket'[q] = ticket[q] /\ answer'[q] = answer[q]
    BY DEF Refuse, Acquire, Receive, Close
<1>5. TicketInv'
  <2>1. pc[p] # "waiting" \/ answer[p] # "none"
    BY DEF Refuse, Acquire, Receive, Close
  <2>2. ticket'[p] <= Len(commands)
    BY DEF TicketInv, Refuse, Acquire, Receive, Close
  <2>3. ASSUME thread # "crashed", NEW i \in (done + 1)..Len(commands), ~IsRecord(i)
        PROVE  commands[i].client # p /\ commands[i].client \in Clients
    <3>1. commands[i] \in Command
      BY <2>3
    <3> QED BY <2>1, <2>3, <3>1 DEF TicketInv, Command
  <2>4. ASSUME NEW q \in Clients PROVE ticket'[q] <= Len(commands')
    BY <1>1, <1>4, <2>2 DEF TicketInv
  <2>5. ASSUME thread' # "crashed", NEW i \in (done' + 1)..Len(commands'), ~IsRecord(i)'
        PROVE  LET q == commands'[i].client IN
               /\ ticket'[q] = i /\ op'[q] = commands'[i].op
               /\ pc'[q] = "waiting" /\ answer'[q] = "none"
    <3>1. thread # "crashed" /\ i \in (done + 1)..Len(commands) /\ ~IsRecord(i)
      BY <1>1, <1>3, <2>5
    <3>2. commands[i].client # p /\ commands[i].client \in Clients
      BY <2>3, <3>1
    <3> QED BY <1>1, <1>4, <3>1, <3>2 DEF TicketInv
  <2> QED BY <2>4, <2>5 DEF TicketInv
<1>6. CASE \E o \in Ops : Refuse(p, o)
  <2>1. PICK o \in Ops : Refuse(p, o)
    BY <1>6
  <2>2. op' = [op EXCEPT ![p] = o] /\ answer'[p] = IF o = "shutdown" THEN admission ELSE "refused"
    BY <2>1 DEF Refuse
  <2>3. UNCHANGED <<admission, lock, pc>> /\ pc[p] = "idle"
    BY <2>1 DEF Refuse
  <2>4. LockInv'
    BY <1>1, <1>3, <1>4, <2>2, <2>3 DEF LockInv, AllDurable
  <2>5. FlushDurable'
    BY <1>3, <1>4, <2>2 DEF FlushDurable
  <2>6. ShutdownLosesNothing'
    BY <1>1, <1>3, <2>3 DEF ShutdownLosesNothing
  <2> QED BY <1>2, <1>5, <2>4, <2>5, <2>6
<1>7. CASE \E o \in Ops : Acquire(p, o)
  <2>1. PICK o \in Ops : Acquire(p, o)
    BY <1>7
  <2>2. /\ lock = NoClient /\ admission = "running" /\ lock' = p
        /\ admission' = IF o = "shutdown" THEN "shuttingDown" ELSE "running"
        /\ op'[p] = o /\ answer'[p] = "none" /\ pc'[p] = "sending"
    BY <2>1 DEF Acquire
  <2>3. ASSUME NEW q \in Clients, q # p
        PROVE  pc[q] # "sending" /\ ~(pc[q] = "waiting" /\ op[q] = "shutdown")
    BY <2>2, <2>3 DEF LockInv
  <2>4. LockInv'
    BY <1>1, <1>3, <1>4, <2>2, <2>3 DEF LockInv, AllDurable
  <2>5. FlushDurable'
    BY <1>3, <1>4, <2>2 DEF FlushDurable
  <2>6. ShutdownLosesNothing'
    BY <2>2 DEF ShutdownLosesNothing
  <2> QED BY <1>2, <1>5, <2>4, <2>5, <2>6
<1>8. CASE Receive(p)
  <2>1. UNCHANGED <<op, ticket, answer, admission, lock>> /\ pc'[p] = "idle"
        /\ (pc[p] # "stopped")
    BY <1>8 DEF Receive
  <2>2. LockInv'
    BY <1>1, <1>3, <1>4, <2>1 DEF LockInv, AllDurable
  <2>3. FlushDurable' /\ ShutdownLosesNothing'
    BY <1>1, <1>3, <2>1 DEF FlushDurable, ShutdownLosesNothing
  <2> QED BY <1>2, <1>5, <2>2, <2>3
<1>9. CASE Close(p)
  <2>1. /\ UNCHANGED <<op, ticket, answer>> /\ pc'[p] = "idle" /\ admission' = answer[p]
        /\ pc[p] = "waiting" /\ op[p] = "shutdown" /\ answer[p] # "none" /\ lock' = NoClient
    BY <1>9 DEF Close
  <2>2. /\ lock = p /\ answer[p] \in {"ok", "failed"}
        /\ answer[p] = "ok" => AllDurable
    BY <2>1 DEF LockInv
  <2>3. ASSUME NEW q \in Clients, q # p
        PROVE  pc[q] # "sending" /\ ~(pc[q] = "waiting" /\ op[q] = "shutdown")
    BY <2>2, <2>3 DEF LockInv
  <2>4. LockInv'
    BY <1>1, <1>3, <1>4, <2>1, <2>2, <2>3 DEF LockInv
  <2>5. FlushDurable' /\ ShutdownLosesNothing'
    BY <1>1, <1>3, <2>1, <2>2 DEF FlushDurable, ShutdownLosesNothing, AllDurable
  <2> QED BY <1>2, <1>5, <2>4, <2>5
<1> QED BY <1>6, <1>7, <1>8, <1>9

(* A command is admitted.                                                  *)
LEMMA PushStep ==
    ASSUME AInv, NEW p \in Clients, Push(p)
    PROVE  DiskInv' /\ TicketInv' /\ LockInv' /\ FlushDurable' /\ ShutdownLosesNothing'
<1> USE NoClientAssumption DEF AInv, TypeOK
<1> DEFINE n == Len(commands) + 1
<1>1. /\ pc[p] = "sending" /\ commands' = Append(commands, [op |-> op[p], client |-> p])
      /\ UNCHANGED <<admission, op, thread, taken, done, failed, diskVars>>
      /\ ticket' = [ticket EXCEPT ![p] = n]
      /\ pc'[p] = IF op[p] = "record" THEN "idle" ELSE "waiting"
      /\ answer'[p] = IF op[p] = "record" THEN "ok" ELSE answer[p]
      /\ lock' = IF op[p] = "shutdown" THEN p ELSE NoClient
    BY DEF Push, Admit
<1>2. /\ Len(commands') = n
      /\ commands'[n] = [op |-> op[p], client |-> p]
      /\ \A i \in 1..Len(commands) : commands'[i] = commands[i]
    BY <1>1
<1>3. \A q \in Clients : q # p =>
          pc'[q] = pc[q] /\ ticket'[q] = ticket[q] /\ answer'[q] = answer[q]
    BY DEF Push, Admit
<1>4. /\ \A i \in 1..Len(commands) : IsRecord(i)' <=> IsRecord(i)
      /\ \A i : Durable(i)' <=> Durable(i)
  <2>1. \A i \in 1..Len(commands) : IsRecord(i)' <=> IsRecord(i)
    BY <1>2 DEF IsRecord
  <2>2. \A i : Durable(i)' <=> Durable(i)
    BY <1>1 DEF Durable
  <2> QED BY <2>1, <2>2
<1>5. lock = p /\ answer[p] = "none" /\ admission = IF op[p] = "shutdown" THEN "shuttingDown" ELSE "running"
    BY <1>1 DEF LockInv
<1>6. ASSUME NEW q \in Clients, q # p
      PROVE  pc[q] # "sending" /\ ~(pc[q] = "waiting" /\ op[q] = "shutdown")
    BY <1>5, <1>6 DEF LockInv
<1>7. DiskInv'
  <2>1. \A i \in 1..done : IsRecord(i)' <=> IsRecord(i)
    BY <1>4
  <2> QED BY <1>1, <2>1 DEF DiskInv, Written
<1>8. TicketInv'
  <2>1. ASSUME NEW q \in Clients PROVE ticket'[q] <= Len(commands')
    BY <1>1, <1>2, <1>3 DEF TicketInv
  <2>2. ASSUME thread' # "crashed", NEW i \in (done' + 1)..Len(commands'), ~IsRecord(i)'
        PROVE  LET q == commands'[i].client IN
               /\ ticket'[q] = i /\ op'[q] = commands'[i].op
               /\ pc'[q] = "waiting" /\ answer'[q] = "none"
    <3>1. CASE i = n
      <4>1. commands'[i].client = p /\ commands'[i].op = op[p]
        BY <1>2, <3>1
      <4>2. op[p] # "record"
        BY <2>2, <4>1 DEF IsRecord
      <4> QED BY <1>1, <1>5, <3>1, <4>1, <4>2
    <3>2. CASE i # n
      <4>1. i \in (done + 1)..Len(commands) /\ ~IsRecord(i) /\ commands'[i] = commands[i]
        BY <1>1, <1>2, <1>4, <2>2, <3>2
      <4>2. commands[i] \in Command
        BY <4>1
      <4>3. commands[i].client \in Clients /\ pc[commands[i].client] = "waiting"
        BY <1>1, <2>2, <4>1, <4>2 DEF TicketInv, Command
      <4>4. commands[i].client # p
        BY <1>1, <4>3
      <4> QED BY SMTT(30), <1>1, <1>3, <2>2, <4>1, <4>3, <4>4 DEF TicketInv
    <3> QED BY <3>1, <3>2
  <2> QED BY <2>1, <2>2 DEF TicketInv
<1>9. LockInv'
    BY <1>1, <1>2, <1>3, <1>5, <1>6 DEF LockInv
<1>10. FlushDurable'
  <2> SUFFICES ASSUME NEW q \in Clients, op'[q] = "barrier", answer'[q] = "ok",
                      NEW i \in 1..(ticket'[q] - 1), IsRecord(i)'
               PROVE  Durable(i)'
    BY DEF FlushDurable
  <2>1. q # p
    BY <1>1, <1>5
  <2>2. ticket'[q] = ticket[q] /\ answer[q] = "ok" /\ op[q] = "barrier"
    BY <1>1, <1>3, <2>1
  <2>3. i \in 1..Len(commands)
    BY <2>2 DEF TicketInv
  <2> QED BY <1>4, <2>2, <2>3 DEF FlushDurable
<1>11. ShutdownLosesNothing'
    BY <1>1, <1>5 DEF ShutdownLosesNothing
<1> QED BY <1>7, <1>8, <1>9, <1>10, <1>11

-----------------------------------------------------------------------------
(* The invariant under the steps of the writer.                            *)

(* What is durable stays so, as long as the file keeps its synced part.    *)
LEMMA DurableStays ==
    ASSUME TypeOK, UNCHANGED commands, synced' \in Nat, synced <= synced',
           \A n \in 1..synced : file'[n] = file[n]
    PROVE  /\ \A i : IsRecord(i)' <=> IsRecord(i)
           /\ \A i : Durable(i) => Durable(i)'
           /\ AllDurable => AllDurable'
           /\ ShutdownLosesNothing /\ UNCHANGED admission => ShutdownLosesNothing'
<1>1. \A i : IsRecord(i)' <=> IsRecord(i)
    BY DEF IsRecord
<1>2. ASSUME NEW i, Durable(i) PROVE Durable(i)'
  <2>1. PICK n \in 1..synced : file[n] = i
    BY <1>2 DEF Durable
  <2>2. n \in 1..synced' /\ file'[n] = i
    BY <2>1 DEF TypeOK
  <2> QED BY <2>2 DEF Durable
<1> QED BY <1>1, <1>2 DEF AllDurable, ShutdownLosesNothing

(* The clients' side of a step of the writer that answers nobody.          *)
LEMMA SilentWriter ==
    ASSUME AInv, UNCHANGED <<clientVars, answer>>, synced' \in Nat, synced <= synced',
           \A n \in 1..synced : file'[n] = file[n],
           thread # "crashed",
           done' = done \/ (done' = done + 1 /\ IsRecord(done + 1))
    PROVE  TicketInv' /\ LockInv' /\ FlushDurable' /\ ShutdownLosesNothing'
<1> USE DEF AInv
<1>1. /\ \A i : IsRecord(i)' <=> IsRecord(i)
      /\ \A i : Durable(i) => Durable(i)'
      /\ AllDurable => AllDurable'
      /\ ShutdownLosesNothing'
    BY DurableStays
<1>2. TicketInv'
  <2>1. ASSUME thread' # "crashed", NEW i \in (done' + 1)..Len(commands'), ~IsRecord(i)'
        PROVE  thread # "crashed" /\ i \in (done + 1)..Len(commands) /\ ~IsRecord(i)
    <3>1. done \in Nat /\ Len(commands) \in Nat /\ commands' = commands
      BY DEF TypeOK
    <3>2. i \in (done + 1)..Len(commands)
      <4>1. CASE done' = done
        BY <2>1, <3>1, <4>1
      <4>2. CASE done' = done + 1
        BY <2>1, <3>1, <4>2
      <4> QED BY <4>1, <4>2
    <3> QED BY <1>1, <2>1, <3>2
  <2> QED BY <2>1 DEF TicketInv
<1>3. LockInv'
    BY <1>1 DEF LockInv
<1>4. FlushDurable'
    BY <1>1 DEF FlushDurable
<1> QED BY <1>1, <1>2, <1>3, <1>4

(* The writer receives commands, opens its file, spills its buffer.        *)
LEMMA IdleWriterStep ==
    ASSUME AInv, Start \/ Take \/ Drained \/ PeriodicFlush
    PROVE  DiskInv' /\ TicketInv' /\ LockInv' /\ FlushDurable' /\ ShutdownLosesNothing'
<1> USE DEF AInv
<1>1. /\ UNCHANGED <<clientVars, answer, done, file, synced>>
      /\ thread # "crashed" /\ thread' # "crashed"
    BY DEF Start, Take, Drained, PeriodicFlush
<1>2. TicketInv' /\ LockInv' /\ FlushDurable' /\ ShutdownLosesNothing'
    BY <1>1, SilentWriter DEF TypeOK
<1>3. /\ \A i : IsRecord(i)' <=> IsRecord(i)
      /\ \A i : Written(i)' <=> Written(i)
    BY <1>1 DEF IsRecord, Written
<1>4. DiskInv'
  <2>1. CASE Start
    BY <1>1, <1>3, <2>1 DEF Start, DiskInv, TypeOK
  <2>2. CASE Take \/ Drained \/ PeriodicFlush
    BY <1>1, <1>3, <2>2 DEF Take, Drained, PeriodicFlush, DiskInv, TypeOK
  <2> QED BY <2>1, <2>2
<1> QED BY <1>2, <1>4

(* A record is written.                                                    *)
LEMMA PersistStep ==
    ASSUME AInv, PersistRecord
    PROVE  DiskInv' /\ TicketInv' /\ LockInv' /\ FlushDurable' /\ ShutdownLosesNothing'
<1> USE DEF AInv
<1>1. /\ UNCHANGED <<clientVars, answer, failed>> /\ writer' = TRUE
      /\ thread = "working" /\ thread' \in {"working", "draining"}
      /\ done' = done + 1 /\ IsRecord(done + 1)
    BY DEF PersistRecord, IsRecord
<1>2. file' = Append(file, done + 1) \/ (failed /\ file' = file)
    BY DEF PersistRecord
<1>3. /\ \A n \in 1..Len(file) : file'[n] = file[n]
      /\ Len(file') >= Len(file)
  <2>1. CASE file' = Append(file, done + 1)
    BY <2>1 DEF TypeOK
  <2>2. CASE file' = file
    BY <2>2 DEF TypeOK
  <2> QED BY <1>2, <2>1, <2>2
<1>4. synced' \in Nat /\ synced <= synced'
    BY DEF PersistRecord, TypeOK
<1>5. \A n \in 1..synced : file'[n] = file[n]
    BY <1>3 DEF TypeOK
<1>6. TicketInv' /\ LockInv' /\ FlushDurable' /\ ShutdownLosesNothing'
    BY <1>1, <1>4, <1>5, SilentWriter
<1>7. \A i : IsRecord(i)' <=> IsRecord(i)
    BY <1>1 DEF IsRecord
<1>8. CASE file' = Append(file, done + 1)
  <2>1. /\ Len(file') = Len(file) + 1 /\ file'[Len(file) + 1] = done + 1
        /\ Len(file) \in Nat /\ done \in Nat
    BY <1>8 DEF TypeOK
  <2>2. ASSUME ~failed, NEW i \in 1..(done + 1), IsRecord(i) PROVE Written(i)'
    <3>1. CASE i = done + 1
      BY <2>1, <3>1 DEF Written
    <3>2. CASE i # done + 1
      <4>1. Written(i)
        BY <1>1, <2>1, <2>2, <3>2 DEF DiskInv
      <4> QED BY <1>3, <2>1, <4>1 DEF Written
    <3> QED BY <3>1, <3>2
  <2>3. ASSUME NEW n \in 1..Len(file')
        PROVE  file'[n] \in 1..(done + 1) /\ IsRecord(file'[n])
    BY <1>1, <1>3, <2>1, <2>3 DEF DiskInv
  <2>4. ASSUME NEW k \in 1..Len(file'), NEW n \in 1..Len(file'), k < n
        PROVE  file'[k] < file'[n]
    <3>1. CASE n = Len(file) + 1
      BY <1>3, <2>1, <2>4, <3>1 DEF DiskInv
    <3>2. CASE n # Len(file) + 1
      BY <1>3, <2>1, <2>4, <3>2 DEF DiskInv
    <3> QED BY <3>1, <3>2
  <2>5. DiskInv'
    BY <1>1, <1>7, <2>2, <2>3, <2>4 DEF DiskInv
  <2> QED BY <1>6, <2>5
<1>9. CASE failed /\ file' = file
  <2>1. DiskInv'
    BY <1>1, <1>7, <1>9 DEF DiskInv, TypeOK
  <2> QED BY <1>6, <2>1
<1> QED BY <1>2, <1>8, <1>9

(* A record cannot be written: from now on no barrier is answered with Ok. *)
LEMMA FailStep ==
    ASSUME AInv, FailRecord
    PROVE  DiskInv' /\ TicketInv' /\ LockInv' /\ FlushDurable' /\ ShutdownLosesNothing'
<1> USE DEF AInv
<1>1. /\ UNCHANGED <<clientVars, answer, synced>> /\ failed' = TRUE
      /\ thread = "working" /\ thread' \in {"working", "draining"}
      /\ done' = done + 1 /\ IsRecord(done + 1)
    BY DEF FailRecord, IsRecord
<1>2. PICK n \in flushed..Len(file) : file' = SubSeq(file, 1, n)
    BY DEF FailRecord
<1>3. n \in Nat /\ synced <= n /\ n <= Len(file) /\ Len(file') = n
      /\ \A j \in 1..n : file'[j] = file[j]
    BY <1>2 DEF TypeOK
<1>4. TicketInv' /\ LockInv' /\ FlushDurable' /\ ShutdownLosesNothing'
  <2>1. synced' \in Nat /\ synced <= synced' /\ \A j \in 1..synced : file'[j] = file[j]
    BY <1>1, <1>3 DEF TypeOK
  <2> QED BY <1>1, <2>1, SilentWriter
<1>5. DiskInv'
  <2>1. \A i : IsRecord(i)' <=> IsRecord(i)
    BY <1>1 DEF IsRecord
  <2>2. \A j \in 1..Len(file') : j \in 1..Len(file) /\ file'[j] = file[j]
    BY <1>3 DEF TypeOK
  <2>3. \A j \in 1..Len(file') : file'[j] \in 1..done' /\ IsRecord(file'[j])
    BY SMTT(30), <1>1, <2>2 DEF DiskInv, TypeOK
  <2> QED BY <1>1, <2>1, <2>2, <2>3 DEF DiskInv
<1> QED BY <1>4, <1>5

(* What a flush leaves on the disk, and what it may answer.                *)
LEMMA FlushFacts ==
    ASSUME AInv, thread = "working", UNCHANGED <<clientVars, file, writer>>,
           \/ FlushOk /\ UNCHANGED failed
           \/ FlushFails /\ failed' = TRUE
    PROVE  /\ synced' \in Nat /\ synced <= synced'
           /\ failed => failed'
           /\ ~failed' => FlushOk /\ ~failed
           /\ FlushOk /\ ~failed => \A i \in 1..done : IsRecord(i) => Durable(i)'
<1> USE DEF AInv
<1>1. synced' \in Nat /\ synced <= synced'
    BY DEF TypeOK
<1>2. ASSUME FlushOk, ~failed, NEW i \in 1..done, IsRecord(i) PROVE Durable(i)'
  <2>1. writer /\ Written(i)
    BY <1>2 DEF DiskInv
  <2>2. synced' = Len(file) /\ file' = file
    BY <1>2, <2>1
  <2> QED BY <2>1, <2>2 DEF Written, Durable
<1> QED BY <1>1, <1>2

(* The invariant of the file through a barrier, a tail or a shutdown.      *)
LEMMA DiskOverFlush ==
    ASSUME AInv, thread = "working", thread' # "start", UNCHANGED <<commands, file, writer>>,
           failed => failed', done' = done + 1, ~IsRecord(done + 1), done < taken
    PROVE  DiskInv'
<1> USE DEF AInv
<1>1. /\ \A i : IsRecord(i)' <=> IsRecord(i)
      /\ \A i : Written(i)' <=> Written(i)
    BY DEF IsRecord, Written
<1>2. ASSUME ~failed', NEW i \in 1..done', IsRecord(i) PROVE Written(i)
  <2>1. i \in 1..done
    BY <1>2 DEF TypeOK
  <2> QED BY <1>2, <2>1 DEF DiskInv
<1>3. \A n \in 1..Len(file) : file[n] \in 1..done'
    BY DEF DiskInv, TypeOK
<1> QED BY <1>1, <1>2, <1>3 DEF DiskInv

(* The client whose command the writer does: it waits for exactly that.    *)
LEMMA CurrentClient ==
    ASSUME AInv, thread = "working", done < taken, ~IsRecord(done + 1)
    PROVE  LET p == Current.client IN
           /\ p \in Clients /\ ticket[p] = done + 1 /\ op[p] = Current.op
           /\ pc[p] = "waiting" /\ answer[p] = "none"
           /\ \A i \in (done + 2)..Len(commands) : ~IsRecord(i) => commands[i].client # p
<1> USE DEF AInv
<1>1. done + 1 \in 1..Len(commands) /\ done \in Nat /\ Len(commands) \in Nat
    BY DEF TypeOK
<1>2. commands[done + 1] \in Command
    BY <1>1 DEF TypeOK
<1>3. commands[done + 1].client \in Clients
    BY <1>2 DEF Command
<1>4. done + 1 \in (done + 1)..Len(commands)
    BY <1>1
<1>5. /\ ticket[Current.client] = done + 1 /\ op[Current.client] = Current.op
      /\ pc[Current.client] = "waiting" /\ answer[Current.client] = "none"
    BY <1>4 DEF TicketInv
<1>6. ASSUME NEW i \in (done + 2)..Len(commands), ~IsRecord(i), commands[i].client = Current.client
      PROVE  FALSE
  <2>1. i \in (done + 1)..Len(commands) /\ i # done + 1
    BY <1>1
  <2>2. ticket[commands[i].client] = i
    BY <1>6, <2>1 DEF TicketInv
  <2> QED BY <1>5, <1>6, <2>1, <2>2
<1> QED BY <1>3, <1>5, <1>6

(* The clients' side of a step that answers the command it does.           *)
LEMMA AnswerStep ==
    ASSUME AInv, thread = "working", done < taken, ~IsRecord(done + 1),
           NEW a \in {"ok", "failed", "tail"}, Answer(Current.client, a),
           a = "tail" <=> Current.op = "tail",
           UNCHANGED <<clientVars, file>>, done' = done + 1,
           synced' \in Nat, synced <= synced',
           a = "ok" => \A i \in 1..done : IsRecord(i) => Durable(i)'
    PROVE  TicketInv' /\ LockInv' /\ FlushDurable' /\ ShutdownLosesNothing'
<1> USE DEF AInv
<1> DEFINE p == Current.client
<1>1. /\ \A i : IsRecord(i)' <=> IsRecord(i)
      /\ \A i : Durable(i) => Durable(i)'
      /\ AllDurable => AllDurable'
      /\ ShutdownLosesNothing'
    BY DurableStays
<1>2. /\ p \in Clients /\ ticket[p] = done + 1 /\ op[p] = Current.op
      /\ pc[p] = "waiting" /\ answer[p] = "none"
      /\ \A i \in (done + 2)..Len(commands) : ~IsRecord(i) => commands[i].client # p
    BY CurrentClient
<1>3. answer' = [answer EXCEPT ![Current.client] = a] /\ answer \in [Clients -> Answers]
    BY DEF TypeOK
<1>4. \A q \in Clients : answer'[q] = IF q = Current.client THEN a ELSE answer[q]
    BY <1>3
<1>5. TicketInv'
  <2>1. ASSUME thread' # "crashed", NEW i \in (done' + 1)..Len(commands'), ~IsRecord(i)'
        PROVE  LET q == commands'[i].client IN
               /\ ticket'[q] = i /\ op'[q] = commands'[i].op
               /\ pc'[q] = "waiting" /\ answer'[q] = "none"
    <3>1. i \in (done + 1)..Len(commands) /\ i \in (done + 2)..Len(commands) /\ ~IsRecord(i)
      BY <1>1, <2>1 DEF TypeOK
    <3>2. commands[i] \in Command
      BY <3>1 DEF TypeOK
    <3>3. commands[i].client # Current.client /\ commands[i].client \in Clients
      BY <1>2, <3>1, <3>2 DEF Command
    <3> QED BY <1>4, <3>1, <3>3 DEF TicketInv
  <2> QED BY <2>1 DEF TicketInv
<1>6. a = "ok" /\ op[Current.client] = "shutdown" => AllDurable'
  <2> SUFFICES ASSUME a = "ok", op[Current.client] = "shutdown",
                      NEW i \in 1..Len(commands), IsRecord(i)
               PROVE  Durable(i)'
    BY <1>1 DEF AllDurable
  <2>1. done + 1 = Len(commands)
    BY <1>2 DEF LockInv
  <2>2. i \in 1..done
    BY <2>1 DEF TypeOK
  <2> QED BY <2>2
<1>7. LockInv'
  <2>1. ASSUME NEW q \in Clients, pc[q] = "waiting", op[q] = "shutdown"
        PROVE  answer'[q] \in {"none", "ok", "failed"} /\ (answer'[q] = "ok" => AllDurable')
    BY <1>1, <1>2, <1>4, <1>6, <2>1 DEF LockInv
  <2>2. \A q \in Clients : pc[q] = "sending" => answer'[q] = "none"
    BY <1>2, <1>4 DEF LockInv
  <2> QED BY <2>1, <2>2 DEF LockInv
<1>8. FlushDurable'
  <2> SUFFICES ASSUME NEW q \in Clients, op[q] = "barrier", answer'[q] = "ok",
                      NEW i \in 1..(ticket[q] - 1), IsRecord(i)
               PROVE  Durable(i)'
    BY <1>1 DEF FlushDurable
  <2>1. CASE q = Current.client
    <3>1. a = "ok" /\ i \in 1..done
      BY <1>2, <1>4, <2>1 DEF TypeOK
    <3> QED BY <3>1
  <2>2. CASE q # Current.client
    BY <1>1, <1>4, <2>2 DEF FlushDurable
  <2> QED BY <2>1, <2>2
<1> QED BY <1>1, <1>5, <1>7, <1>8

(* A barrier, a tail and a shutdown are answered.                          *)
LEMMA ReplyStep ==
    ASSUME AInv, DoBarrier \/ DoTail \/ DoShutdown
    PROVE  DiskInv' /\ TicketInv' /\ LockInv' /\ FlushDurable' /\ ShutdownLosesNothing'
<1> USE DEF AInv
<1>1. /\ thread = "working" /\ done < taken /\ ~IsRecord(done + 1)
      /\ UNCHANGED <<clientVars, file, writer>> /\ done' = done + 1 /\ thread' # "start"
    BY DEF DoBarrier, DoTail, DoShutdown, IsRecord
<1>2. \/ FlushOk /\ UNCHANGED failed
      \/ FlushFails /\ failed' = TRUE
    BY DEF DoBarrier, DoTail, DoShutdown
<1>3. /\ synced' \in Nat /\ synced <= synced'
      /\ failed => failed'
      /\ FlushOk /\ ~failed => \A i \in 1..done : IsRecord(i) => Durable(i)'
    BY <1>1, <1>2, FlushFacts
<1>4. DiskInv'
    BY <1>1, <1>3, DiskOverFlush
<1>5. CASE DoTail
  <2>1. Answer(Current.client, "tail") /\ Current.op = "tail"
    BY <1>5 DEF DoTail
  <2> QED BY <1>1, <1>3, <1>4, <2>1, AnswerStep
<1>6. CASE DoBarrier \/ DoShutdown
  <2>1. Current.op # "tail"
    BY <1>6 DEF DoBarrier, DoShutdown
  <2>2. \/ Answer(Current.client, "failed")
        \/ Answer(Current.client, "ok") /\ FlushOk /\ ~failed
    BY <1>6 DEF DoBarrier, DoShutdown
  <2>3. CASE Answer(Current.client, "failed")
    BY <1>1, <1>3, <1>4, <2>1, <2>3, AnswerStep
  <2>4. CASE Answer(Current.client, "ok") /\ FlushOk /\ ~failed
    BY <1>1, <1>3, <1>4, <2>1, <2>4, AnswerStep
  <2> QED BY <2>2, <2>3, <2>4
<1> QED BY <1>5, <1>6

(* The machine stops: nobody runs any more, what is synced stays.          *)
LEMMA CrashStep ==
    ASSUME AInv, Crash
    PROVE  DiskInv' /\ TicketInv' /\ LockInv' /\ FlushDurable' /\ ShutdownLosesNothing'
<1> USE DEF AInv
<1>1. PICK n \in synced..Len(file) : file' = SubSeq(file, 1, n)
    BY DEF Crash
<1>2. n \in Nat /\ synced <= n /\ n <= Len(file) /\ Len(file') = n
      /\ \A j \in 1..n : file'[j] = file[j]
    BY <1>1 DEF TypeOK
<1>3. /\ UNCHANGED <<commands, op, ticket, answer, done, taken, synced, failed, writer>>
      /\ thread' = "crashed" /\ admission' = "crashed"
      /\ pc' = [p \in Clients |-> "stopped"]
    BY DEF Crash
<1>4. /\ \A i : IsRecord(i)' <=> IsRecord(i)
      /\ \A i : Durable(i) => Durable(i)'
  <2>1. synced' \in Nat /\ synced <= synced' /\ \A j \in 1..synced : file'[j] = file[j]
    BY <1>2, <1>3 DEF TypeOK
  <2> QED BY <1>3, <2>1, DurableStays
<1>5. DiskInv'
  <2>1. Len(file) \in Nat
    BY DEF TypeOK
  <2>2. \A j \in 1..Len(file') : j \in 1..Len(file) /\ file'[j] = file[j]
    BY <1>2, <2>1
  <2> QED BY <1>3, <1>4, <2>2 DEF DiskInv
<1>6. TicketInv' /\ LockInv'
    BY <1>3 DEF TicketInv, LockInv
<1>7. FlushDurable'
    BY <1>3, <1>4 DEF FlushDurable
<1>8. ShutdownLosesNothing'
    BY <1>3 DEF ShutdownLosesNothing
<1> QED BY <1>5, <1>6, <1>7, <1>8

-----------------------------------------------------------------------------
(* The theorems.                                                           *)

(* The invariant is inductive.                                             *)
LEMMA StepAInv == AInv /\ [Next]_vars => AInv'
<1> SUFFICES ASSUME AInv, [Next]_vars PROVE AInv'
    OBVIOUS
<1>1. ASSUME NEW p \in Clients, Client(p) PROVE AInv'
  <2>1. TypeOK'
    BY <1>1, ClientTypes DEF AInv
  <2>2. DiskInv' /\ TicketInv' /\ LockInv' /\ FlushDurable' /\ ShutdownLosesNothing'
    BY <1>1, QuietClientStep, PushStep DEF Client
  <2> QED BY <2>1, <2>2 DEF AInv
<1>2. CASE Writer
  <2>1. TypeOK'
    BY <1>2, WriterTypes DEF AInv
  <2>2. DiskInv' /\ TicketInv' /\ LockInv' /\ FlushDurable' /\ ShutdownLosesNothing'
    BY <1>2, IdleWriterStep, PersistStep, FailStep, ReplyStep DEF Writer
  <2> QED BY <2>1, <2>2 DEF AInv
<1>3. CASE Crash
  <2>1. TypeOK'
    BY <1>3, CrashTypes DEF AInv
  <2> QED BY <1>3, <2>1, CrashStep DEF AInv
<1>4. CASE UNCHANGED vars
  <2>1. /\ \A i : IsRecord(i)' <=> IsRecord(i)
        /\ \A i : Durable(i)' <=> Durable(i)
        /\ \A i : Written(i)' <=> Written(i)
    BY <1>4 DEF vars, IsRecord, Durable, Written
  <2>2. TypeOK' /\ DiskInv'
    BY <1>4, <2>1 DEF vars, AInv, TypeOK, DiskInv
  <2>3. TicketInv'
    BY <1>4, <2>1 DEF vars, AInv, TicketInv
  <2>4. LockInv' /\ FlushDurable' /\ ShutdownLosesNothing'
    BY <1>4, <2>1 DEF vars, AInv, LockInv, FlushDurable, ShutdownLosesNothing, AllDurable
  <2> QED BY <2>2, <2>3, <2>4 DEF AInv
<1> QED BY <1>1, <1>2, <1>3, <1>4 DEF Next

THEOREM AuditInvariant == Spec => []AInv
BY InitAInv, StepAInv, PTL DEF Spec

(* Every variable keeps its type, and the queue its bound.                 *)
THEOREM AuditTypes == Spec => []TypeOK
<1>1. AInv => TypeOK
    BY DEF AInv
<1> QED BY <1>1, AuditInvariant, PTL

(* A flush that returned Ok is a promise about every record before it      *)
(* (AuditLogger::flush), and the promise survives every crash.             *)
THEOREM FlushIsDurable == Spec => []FlushDurable
<1>1. AInv => FlushDurable
    BY DEF AInv
<1> QED BY <1>1, AuditInvariant, PTL

(* The file is the admission order, without duplicates (run_writer).       *)
THEOREM FileIsInOrder == Spec => []FileInOrder
<1>1. AInv => FileInOrder
    BY DEF AInv, TypeOK, DiskInv, FileInOrder
<1> QED BY <1>1, AuditInvariant, PTL

(* A logger closed with Ok lost nothing (shutdown_blocking).               *)
THEOREM ShutdownIsDurable == Spec => []ShutdownLosesNothing
<1>1. AInv => ShutdownLosesNothing
    BY DEF AInv
<1> QED BY <1>1, AuditInvariant, PTL
=============================================================================
