-------------------------- MODULE MetaStoreProofs --------------------------
(***************************************************************************)
(* Proofs about MetaStore: types, what a flush has reported, the file that *)
(* never gets older, and the orderly shutdown, for any clients, capacity,  *)
(* number of updates and scenarios.                                        *)
(*                                                                         *)
(* FlushDurable is not inductive: that an answer is about the snapshot its *)
(* client waits for depends on what the queue holds (QueueInv), and that a *)
(* retry does not fall behind a rename that was not synced on what is      *)
(* pending (FileInv).                                                      *)
(***************************************************************************)
EXTENDS MetaStore, TLAPS

(* What is renamed and not synced is still pending as long as the writer   *)
(* runs; nothing is ahead of the records in memory.                        *)
FileInv ==
    /\ persisted = synced /\ synced <= disk /\ disk <= version
    /\ acked <= synced
    /\ pending <= version /\ accepted <= version
    /\ \A c \in Clients : snap[c] <= version
    /\ thread = "running" => disk <= synced \/ disk <= pending

(* A flush or shutdown in the queue is the only one of its client, who     *)
(* waits for it.                                                           *)
Awaited(q) ==
    /\ pc[q.client] = "waiting" /\ answer[q.client] = "none"
    /\ snap[q.client] = q.version /\ op[q.client] = q.op

QueueInv ==
    /\ thread = "exited" => queue = <<>>
    /\ \A i \in 1..Len(queue) :
          queue[i].version <= version /\ (queue[i].op # "update" => Awaited(queue[i]))
    /\ \A i, j \in 1..Len(queue) :
          (/\ queue[i].op # "update" /\ queue[j].op # "update"
           /\ queue[i].client = queue[j].client) => i = j

(* An Ok that was not collected yet is true. Without stragglers nothing    *)
(* changes once a shutdown has begun.                                      *)
AnswerInv ==
    \A c \in Clients :
        /\ pc[c] = "waiting" /\ answer[c] = "ok" => snap[c] <= synced
        /\ pc[c] \in {"admitting", "sending"} => answer[c] = "none"

ShutdownInv ==
    "straggler" \notin env =>
        /\ \A c \in Clients : op[c] = "shutdown" => snap[c] = version
        /\ closed # "none" => ShuttingDown
        /\ closed = "ok" => version <= synced

MInv == TypeOK /\ FileInv /\ QueueInv /\ AnswerInv /\ ShutdownInv

DiskStep == disk' >= disk \/ disk' = synced

USE DEF Versions
USE CapacityAssumption, MaxAssumption, ScenariosAssumption

-----------------------------------------------------------------------------
(* A store that was just opened.                                           *)
LEMMA MInit == Init => MInv
<1> SUFFICES ASSUME Init PROVE MInv
  OBVIOUS
<1> USE DEF Init
<1>1. Len(queue) = 0 /\ queue \in Seq([op : {"update", "flush", "shutdown"}, version : Versions,
                                       client : Clients])
  OBVIOUS
<1>2. TypeOK
  <2>1. 0 \in Versions
    OBVIOUS
  <2>2. {version, pending, persisted, disk, synced, accepted, acked} \subseteq Versions
    BY <2>1
  <2>3. Len(queue) <= Capacity
    BY <1>1
  <2>4. /\ pc \in [Clients -> {"idle", "admitting", "sending", "waiting"}]
        /\ op \in [Clients -> {"update", "flush", "shutdown"}]
        /\ answer \in [Clients -> {"none", "ok", "failed"}]
    OBVIOUS
  <2>5. snap \in [Clients -> Versions]
    BY <2>1
  <2> QED
    BY <1>1, <2>2, <2>3, <2>4, <2>5 DEF TypeOK
<1>3. FileInv /\ QueueInv /\ AnswerInv /\ ShutdownInv
  BY <1>1 DEF FileInv, QueueInv, AnswerInv, ShutdownInv
<1> QED
  BY <1>2, <1>3 DEF MInv

(* A snapshot that is as new as what is pending leaves the file newer, and *)
(* safe, or to be tried again.                                             *)
LEMMA Writing ==
    ASSUME MInv, thread = "running",
           NEW v \in Versions, pending <= v, v <= version
    PROVE  /\ Persisted(v) => /\ {persisted', disk', synced'} \subseteq Versions
                              /\ persisted' = synced' /\ synced <= synced' /\ v <= synced'
                              /\ synced' <= version
                              /\ disk' = synced' /\ disk <= disk'
           /\ NotPersisted(v) => /\ {persisted', disk', synced'} \subseteq Versions
                                 /\ persisted' = synced' /\ synced' = synced
                                 /\ synced <= disk' /\ disk' <= version /\ disk <= disk'
                                 /\ disk' <= synced' \/ disk' <= v
<1>0. /\ {version, pending, persisted, disk, synced} \subseteq Versions
      /\ persisted = synced /\ synced <= disk /\ disk <= version
      /\ disk <= synced \/ disk <= pending
  BY DEF MInv, TypeOK, FileInv
<1>1. ASSUME Persisted(v)
      PROVE  /\ {persisted', disk', synced'} \subseteq Versions
             /\ persisted' = synced' /\ synced <= synced' /\ v <= synced'
             /\ synced' <= version
             /\ disk' = synced' /\ disk <= disk'
  <2>1. CASE v <= persisted
    BY <1>0, <1>1, <2>1 DEF Persisted, fileVars
  <2>2. CASE ~(v <= persisted)
    BY <1>0, <1>1, <2>2 DEF Persisted
  <2> QED
    BY <2>1, <2>2
<1>2. ASSUME NotPersisted(v)
      PROVE  /\ {persisted', disk', synced'} \subseteq Versions
             /\ persisted' = synced' /\ synced' = synced
             /\ synced <= disk' /\ disk' <= version /\ disk <= disk'
             /\ disk' <= synced' \/ disk' <= v
  BY <1>0, <1>2 DEF NotPersisted
<1> QED
  BY <1>1, <1>2

(* What is known of a command in the queue.                                *)
LEMMA QueueEntry ==
    ASSUME MInv, NEW i \in 1..Len(queue)
    PROVE  /\ queue[i].op \in {"update", "flush", "shutdown"}
           /\ queue[i].client \in Clients /\ queue[i].version \in Versions
           /\ queue[i].version <= version
           /\ queue[i].op # "update" => Awaited(queue[i])
<1>1. queue[i] \in [op : {"update", "flush", "shutdown"}, version : Versions, client : Clients]
  <2> DEFINE S == [op : {"update", "flush", "shutdown"}, version : Versions, client : Clients]
  <2>1. queue \in Seq(S)
    BY DEF MInv, TypeOK
  <2> HIDE DEF S
  <2>2. queue[i] \in S
    BY ONLY <2>1, i \in 1..Len(queue)
  <2> QED
    BY <2>2 DEF S
<1>2. queue[i].version <= version /\ (queue[i].op # "update" => Awaited(queue[i]))
  BY DEF MInv, QueueInv
<1> QED
  BY ONLY <1>1, <1>2

(* The same of the queue after a step.                                     *)
AwaitedNext(q) ==
    /\ pc'[q.client] = "waiting" /\ answer'[q.client] = "none"
    /\ snap'[q.client] = q.version /\ op'[q.client] = q.op

Distinct(i, j, q) ==
    (q[i].op # "update" /\ q[j].op # "update" /\ q[i].client = q[j].client) => i = j

LEMMA QueueNext ==
    ASSUME thread' = "exited" => queue' = <<>>,
           \A i \in 1..Len(queue') : queue'[i].version <= version',
           \A i \in 1..Len(queue') : queue'[i].op # "update" => AwaitedNext(queue'[i]),
           \A i, j \in 1..Len(queue') : Distinct(i, j, queue')
    PROVE  QueueInv'
BY DEF QueueInv, Awaited, AwaitedNext, Distinct

(* Steps of a client. Those that leave the versions, the file and the      *)
(* queue alone only have to say what becomes of their own answer.          *)
MovesOn(c, l, a) ==
    /\ UNCHANGED <<env, version, queue, writerVars, fileVars, op, snap, accepted>>
    /\ sender' \in BOOLEAN
    /\ pc' = [pc EXCEPT ![c] = l] /\ answer' = [answer EXCEPT ![c] = a]
    /\ l = "sending" => a = "none"
    /\ pc[c] # "waiting" \/ answer[c] # "none" \/ thread = "exited"
    /\ acked' \in Versions /\ acked' <= synced
    /\ closed' \in {"none", "ok", "failed"}
    /\ \/ closed' = closed
       \/ op[c] = "shutdown" /\ (closed' = "ok" => snap[c] <= synced)

LEMMA ClientKeeps ==
    ASSUME MInv, NEW c \in Clients, NEW l \in {"idle", "sending"},
           NEW a \in {"none", "ok", "failed"}, MovesOn(c, l, a)
    PROVE  MInv' /\ DiskStep
<1> USE DEF MovesOn
<1>1. TypeOK' /\ FileInv'
  BY DEF MInv, TypeOK, FileInv, fileVars, writerVars
<1>2. \A d \in Clients \ {c} : pc'[d] = pc[d] /\ answer'[d] = answer[d]
  BY DEF MInv, TypeOK
<1>3. QueueInv'
  <2>1. ASSUME NEW i \in 1..Len(queue), queue[i].op # "update"
        PROVE  Awaited(queue[i]) /\ queue[i].client \in Clients \ {c}
    <3>1. thread # "exited"
      BY DEF MInv, QueueInv
    <3> QED
      BY <2>1, <3>1, QueueEntry DEF Awaited
  <2>2. ASSUME NEW i \in 1..Len(queue), queue[i].op # "update"
        PROVE  AwaitedNext(queue[i])
    BY <1>2, <2>1, <2>2 DEF Awaited, AwaitedNext
  <2>3. thread = "exited" => queue = <<>>
    BY DEF MInv, QueueInv
  <2>4. \A i, j \in 1..Len(queue) : Distinct(i, j, queue)
    BY DEF MInv, QueueInv, Distinct
  <2>5. \A i \in 1..Len(queue) : queue[i].version <= version
    BY QueueEntry
  <2> QED
    BY <2>2, <2>3, <2>4, <2>5, QueueNext DEF writerVars
<1>4. AnswerInv'
  <2>1. pc'[c] = l /\ answer'[c] = a
    BY DEF MInv, TypeOK
  <2> QED
    BY <1>2, <2>1 DEF MInv, AnswerInv, fileVars
<1>5. ShutdownInv'
  BY DEF MInv, ShutdownInv, fileVars, ShuttingDown
<1>6. DiskStep
  BY DEF MInv, TypeOK, DiskStep, fileVars
<1> QED
  BY <1>1, <1>3, <1>4, <1>5, <1>6 DEF MInv

(* An operation begins, with its snapshot of the newest version.           *)
LEMMA BeginKeeps ==
    ASSUME MInv, NEW c \in Clients, NEW o \in {"update", "flush", "shutdown"}, Begin(c, o)
    PROVE  MInv' /\ DiskStep
<1>1. /\ pc[c] = "idle" /\ version' \in Versions /\ version <= version'
      /\ pc' = [pc EXCEPT ![c] = "admitting"] /\ answer' = [answer EXCEPT ![c] = "none"]
      /\ op' = [op EXCEPT ![c] = o] /\ snap' = [snap EXCEPT ![c] = version']
      /\ UNCHANGED <<env, sender, queue, writerVars, fileVars, accepted, acked, closed>>
  BY DEF Begin, Goto, Answer, MInv, TypeOK
<1>2. "straggler" \in env \/ ~ShuttingDown
  BY DEF Begin
<1>3. TypeOK'
  BY <1>1 DEF MInv, TypeOK, fileVars, writerVars
<1>4. \A d \in Clients \ {c} : /\ pc'[d] = pc[d] /\ answer'[d] = answer[d]
                               /\ op'[d] = op[d] /\ snap'[d] = snap[d]
  BY <1>1 DEF MInv, TypeOK
<1>5. /\ pc'[c] = "admitting" /\ op'[c] = o /\ snap'[c] = version'
  BY <1>1 DEF MInv, TypeOK
<1>6. FileInv'
  <2>1. snap[c] \in Versions /\ \A d \in Clients : snap'[d] <= version'
    BY <1>1, <1>4, <1>5 DEF MInv, TypeOK, FileInv
  <2> QED
    BY <1>1, <2>1 DEF MInv, TypeOK, FileInv, fileVars, writerVars
<1>7. QueueInv'
  <2>1. ASSUME NEW i \in 1..Len(queue), queue[i].op # "update"
        PROVE  Awaited(queue[i]) /\ queue[i].client \in Clients \ {c}
    BY <1>1, <2>1, QueueEntry DEF Awaited
  <2>2. ASSUME NEW i \in 1..Len(queue), queue[i].op # "update"
        PROVE  AwaitedNext(queue[i])
    BY <1>1, <1>4, <2>1, <2>2 DEF Awaited, AwaitedNext
  <2>3. ASSUME NEW i \in 1..Len(queue)
        PROVE  queue[i].version <= version'
    <3>1. /\ queue[i].version \in Versions /\ queue[i].version <= version
          /\ version \in Versions /\ version' \in Versions /\ version <= version'
      BY <1>1, QueueEntry DEF MInv, TypeOK
    <3> QED
      BY ONLY <3>1, MaxAssumption DEF Versions
  <2>4. thread = "exited" => queue = <<>>
    BY DEF MInv, QueueInv
  <2>5. \A i, j \in 1..Len(queue) : Distinct(i, j, queue)
    BY DEF MInv, QueueInv, Distinct
  <2> QED
    BY <1>1, <2>2, <2>3, <2>4, <2>5, QueueNext DEF writerVars
<1>8. AnswerInv'
  <2>1. ASSUME NEW d \in Clients \ {c}
        PROVE  /\ pc'[d] = "waiting" /\ answer'[d] = "ok" => snap'[d] <= synced'
               /\ pc'[d] \in {"admitting", "sending"} => answer'[d] = "none"
    BY <1>1, <1>4 DEF MInv, AnswerInv, fileVars
  <2>2. pc'[c] = "admitting" /\ answer'[c] = "none"
    BY <1>1 DEF MInv, TypeOK
  <2> QED
    BY <2>1, <2>2 DEF AnswerInv
<1>9. ShutdownInv'
  <2> SUFFICES ASSUME "straggler" \notin env PROVE ShutdownInv'
    BY <1>1 DEF ShutdownInv
  <2>1. \A d \in Clients : op[d] # "shutdown"
    BY <1>2 DEF ShuttingDown
  <2>2. closed' = "none"
    BY <1>1, <2>1 DEF MInv, ShutdownInv, ShuttingDown
  <2> QED
    BY <1>4, <1>5, <2>1, <2>2 DEF ShutdownInv
<1>10. DiskStep
  BY <1>1 DEF MInv, TypeOK, DiskStep, fileVars
<1> QED
  BY <1>3, <1>6, <1>7, <1>8, <1>9, <1>10 DEF MInv

(* A command is added at the end of the queue, by a client that has none   *)
(* in it if it will wait.                                                  *)
LEMMA SendKeeps ==
    ASSUME MInv, NEW c \in Clients, Send(c)
    PROVE  MInv' /\ DiskStep
<1> DEFINE S == [op : {"update", "flush", "shutdown"}, version : Versions, client : Clients]
           e == [op |-> op[c], version |-> snap[c], client |-> c]
<1>1. /\ pc[c] = "sending" /\ thread = "running" /\ Len(queue) < Capacity
      /\ queue' = Append(queue, e)
      /\ UNCHANGED <<env, version, sender, writerVars, fileVars, op, snap, acked, closed>>
  BY DEF Send
<1>2. \/ /\ op[c] = "update" /\ pc' = [pc EXCEPT ![c] = "idle"]
         /\ answer' = [answer EXCEPT ![c] = "ok"] /\ accepted' = Newer(accepted, snap[c])
      \/ /\ op[c] # "update" /\ pc' = [pc EXCEPT ![c] = "waiting"]
         /\ UNCHANGED <<answer, accepted>>
  BY DEF Send, Goto, Answer
<1>3. e \in S /\ queue \in Seq(S)
  BY DEF MInv, TypeOK
<1>4. /\ queue' \in Seq(S) /\ Len(queue') = Len(queue) + 1 /\ Len(queue) \in Nat
      /\ \A i \in 1..Len(queue) : queue'[i] = queue[i]
      /\ queue'[Len(queue) + 1] = e
  <2> HIDE DEF S, e
  <2> QED
    BY <1>1, <1>3
<1>5. /\ accepted' \in Versions /\ accepted' <= version
  <2>1. /\ snap[c] \in Versions /\ snap[c] <= version /\ accepted \in Versions
        /\ accepted <= version
    BY DEF MInv, TypeOK, FileInv
  <2> QED
    BY <1>2, <2>1 DEF Newer
<1>6. TypeOK'
  <2>1. /\ pc' \in [Clients -> {"idle", "admitting", "sending", "waiting"}]
        /\ answer' \in [Clients -> {"none", "ok", "failed"}]
    BY <1>2 DEF MInv, TypeOK
  <2>2. Len(queue') <= Capacity
    BY <1>1, <1>4
  <2>3. /\ env' \in Scenarios
        /\ {version', pending', persisted', disk', synced', accepted', acked'} \subseteq Versions
        /\ {sender', deadline'} \subseteq BOOLEAN /\ thread' \in {"running", "exited"}
        /\ op' \in [Clients -> {"update", "flush", "shutdown"}]
        /\ snap' \in [Clients -> Versions]
        /\ closed' \in {"none", "ok", "failed"}
    BY <1>1, <1>5 DEF MInv, TypeOK, fileVars, writerVars
  <2> QED
    BY <1>4, <2>1, <2>2, <2>3 DEF TypeOK
<1>7. FileInv'
  BY <1>1, <1>5 DEF MInv, FileInv, fileVars, writerVars
<1>8. \A d \in Clients \ {c} : pc'[d] = pc[d] /\ answer'[d] = answer[d]
  BY <1>2 DEF MInv, TypeOK
<1>9. ASSUME NEW i \in 1..Len(queue), queue[i].op # "update"
      PROVE  AwaitedNext(queue[i]) /\ queue[i].client # c
  <2>1. queue[i].client \in Clients \ {c} /\ Awaited(queue[i])
    BY <1>1, <1>9, QueueEntry DEF Awaited
  <2> QED
    BY <1>1, <1>8, <2>1 DEF Awaited, AwaitedNext
<1>10. op[c] # "update" => AwaitedNext(e)
  <2>1. answer \in [Clients -> {"none", "ok", "failed"}]
    BY DEF MInv, TypeOK
  <2>2. answer[c] = "none"
    BY <1>1 DEF MInv, AnswerInv
  <2> QED
    BY <1>1, <1>2, <2>1, <2>2 DEF AwaitedNext, MInv, TypeOK
<1>11. QueueInv'
  <2>1. ASSUME NEW i \in 1..Len(queue')
        PROVE  /\ queue'[i].version <= version'
               /\ queue'[i].op # "update" => AwaitedNext(queue'[i])
    <3>1. CASE i \in 1..Len(queue)
      <4>1. queue'[i] = queue[i] /\ version' = version
        BY <1>1, <1>4, <3>1
      <4> HIDE DEF S, e
      <4> QED
        BY <1>9, <3>1, <4>1, QueueEntry
    <3>2. CASE i = Len(queue) + 1
      <4>1. /\ queue'[i] = e /\ version' = version
            /\ e.version = snap[c] /\ e.op = op[c] /\ snap[c] <= version
        BY <1>1, <1>4, <3>2 DEF MInv, FileInv
      <4>2. e.op # "update" => AwaitedNext(e)
        BY <1>10
      <4> HIDE DEF S, e
      <4> QED
        BY <4>1, <4>2
    <3> QED
      BY <1>4, <3>1, <3>2
  <2>2. ASSUME NEW i \in 1..Len(queue'), NEW j \in 1..Len(queue'),
               queue'[i].op # "update", queue'[j].op # "update",
               queue'[i].client = queue'[j].client
        PROVE  i = j
    <3> HIDE DEF S
    <3>1. ASSUME NEW n \in 1..Len(queue'), queue'[n].op # "update", queue'[n].client = c
          PROVE  n = Len(queue) + 1
      BY <1>4, <1>9, <3>1
    <3>2. queue'[Len(queue) + 1].client = c
      BY <1>4
    <3>3. CASE i = Len(queue) + 1 \/ j = Len(queue) + 1
      BY <2>2, <3>1, <3>2, <3>3
    <3>4. CASE i \in 1..Len(queue) /\ j \in 1..Len(queue)
      <4>1. queue'[i] = queue[i] /\ queue'[j] = queue[j]
        BY <1>4, <3>4
      <4> QED
        BY <2>2, <3>4, <4>1 DEF MInv, QueueInv
    <3> QED
      BY <1>4, <3>3, <3>4
  <2>3. thread' # "exited"
    BY <1>1 DEF writerVars
  <2>4. \A i, j \in 1..Len(queue') : Distinct(i, j, queue')
    BY <2>2 DEF Distinct
  <2> QED
    BY <2>1, <2>3, <2>4, QueueNext
<1>12. AnswerInv'
  <2>1. pc'[c] \in {"idle", "waiting"} /\ (pc'[c] = "waiting" => answer'[c] = "none")
    BY <1>1, <1>2 DEF MInv, TypeOK, AnswerInv
  <2> QED
    BY <1>1, <1>8, <2>1 DEF MInv, AnswerInv, fileVars
<1>13. ShutdownInv'
  BY <1>1 DEF MInv, ShutdownInv, ShuttingDown, fileVars
<1>14. DiskStep
  BY <1>1 DEF MInv, TypeOK, DiskStep, fileVars
<1> QED
  BY <1>6, <1>7, <1>11, <1>12, <1>13, <1>14 DEF MInv

(* The other steps of a client.                                            *)
LEMMA OtherKeeps ==
    ASSUME MInv, NEW c \in Clients, Admit(c) \/ GiveUp(c) \/ Return(c)
    PROVE  MInv' /\ DiskStep
<1>1. pc \in [Clients -> {"idle", "admitting", "sending", "waiting"}]
      /\ answer \in [Clients -> {"none", "ok", "failed"}]
      /\ sender \in BOOLEAN /\ closed \in {"none", "ok", "failed"}
      /\ snap[c] \in Versions /\ acked \in Versions /\ synced \in Versions
      /\ acked <= synced /\ op[c] \in {"update", "flush", "shutdown"}
  BY DEF MInv, TypeOK, FileInv
<1>2. answer[c] \in {"none", "ok", "failed"} /\ answer = [answer EXCEPT ![c] = answer[c]]
  BY <1>1
<1>3. CASE Admit(c)
  <2>1. /\ pc[c] = "admitting" /\ sender' \in BOOLEAN /\ answer[c] = "none"
        /\ \/ pc' = [pc EXCEPT ![c] = "sending"] /\ answer' = answer
           \/ /\ pc' = [pc EXCEPT ![c] = "idle"]
              /\ answer' = [answer EXCEPT ![c] = "failed"]
        /\ UNCHANGED <<env, version, queue, writerVars, fileVars, op, snap, accepted, acked,
                       closed>>
    BY <1>1, <1>3 DEF Admit, Goto, Answer, MInv, AnswerInv
  <2>2. PICK l \in {"idle", "sending"}, a \in {"none", "failed"} :
           /\ pc' = [pc EXCEPT ![c] = l] /\ answer' = [answer EXCEPT ![c] = a]
           /\ l = "sending" => a = "none"
    BY <1>2, <2>1
  <2>3. MovesOn(c, l, a)
    BY <1>1, <2>1, <2>2 DEF MovesOn
  <2> QED
    BY <2>3, ClientKeeps
<1>4. CASE GiveUp(c)
  <2>1. /\ thread = "exited" /\ sender' \in BOOLEAN
        /\ pc' = [pc EXCEPT ![c] = "idle"] /\ answer' = [answer EXCEPT ![c] = "failed"]
        /\ UNCHANGED <<env, version, queue, writerVars, fileVars, op, snap, accepted,
                       acked, closed>>
    BY <1>1, <1>4 DEF GiveUp, Goto, Answer
  <2>2. MovesOn(c, "idle", "failed")
    BY <1>1, <2>1 DEF MovesOn
  <2> QED
    BY <2>2, ClientKeeps
<1>5. CASE Return(c)
  <2>1. /\ pc[c] = "waiting" /\ answer[c] # "none" /\ sender' \in BOOLEAN
        /\ pc' = [pc EXCEPT ![c] = "idle"] /\ answer' = [answer EXCEPT ![c] = answer[c]]
        /\ acked' = IF answer[c] = "ok" THEN Newer(acked, snap[c]) ELSE acked
        /\ closed' = IF op[c] = "shutdown" THEN answer[c] ELSE closed
        /\ UNCHANGED <<env, version, queue, writerVars, fileVars, op, snap, accepted>>
    BY <1>1, <1>2, <1>5 DEF Return, Goto
  <2>2. answer[c] = "ok" => snap[c] <= synced
    BY <2>1 DEF MInv, AnswerInv
  <2>3. acked' \in Versions /\ acked' <= synced
    BY <1>1, <2>1, <2>2 DEF Newer
  <2>4. CASE op[c] = "shutdown"
    <3>1. closed' = answer[c] /\ closed' \in {"none", "ok", "failed"}
      BY <1>2, <2>1, <2>4
    <3>2. MovesOn(c, "idle", answer[c])
      BY <2>1, <2>2, <2>3, <2>4, <3>1 DEF MovesOn
    <3> QED
      BY <1>2, <3>2, ClientKeeps
  <2>5. CASE op[c] # "shutdown"
    <3>1. closed' = closed
      BY <2>1, <2>5
    <3>2. MovesOn(c, "idle", answer[c])
      BY <1>1, <2>1, <2>3, <3>1 DEF MovesOn
    <3> QED
      BY <1>2, <3>2, ClientKeeps
  <2> QED
    BY <2>4, <2>5
<1> QED
  BY <1>3, <1>4, <1>5

-----------------------------------------------------------------------------
(* Steps of the writer. What it does to the file, whatever it took.        *)
Wrote ==
    /\ UNCHANGED <<env, version, sender, pc, op, snap, accepted, acked, closed>>
    /\ {persisted', disk', synced', pending'} \subseteq Versions
    /\ persisted' = synced' /\ synced <= synced' /\ synced' <= disk' /\ disk' <= version
    /\ disk <= disk' /\ pending' <= version
    /\ deadline' \in BOOLEAN /\ thread' \in {"running", "exited"}
    /\ thread' = "running" => disk' <= synced' \/ disk' <= pending'

LEMMA WroteKeeps ==
    ASSUME MInv, Wrote
    PROVE  /\ FileInv' /\ ShutdownInv' /\ DiskStep
           /\ /\ queue' \in Seq([op : {"update", "flush", "shutdown"}, version : Versions,
                                 client : Clients])
              /\ Len(queue') <= Capacity
              /\ answer' \in [Clients -> {"none", "ok", "failed"}]
              => TypeOK'
<1>1. /\ {version, persisted, disk, synced, pending, accepted, acked} \subseteq Versions
      /\ acked <= synced /\ accepted <= version /\ \A c \in Clients : snap[c] <= version
  BY DEF MInv, TypeOK, FileInv
<1>2. FileInv' /\ DiskStep
  BY <1>1 DEF Wrote, FileInv, DiskStep
<1>3. ShutdownInv'
  BY <1>1 DEF Wrote, MInv, ShutdownInv, ShuttingDown
<1>4. /\ {version', pending', persisted', disk', synced', accepted', acked'} \subseteq Versions
      /\ {sender', deadline'} \subseteq BOOLEAN
  BY <1>1 DEF Wrote, MInv, TypeOK
<1>5. /\ env' \in Scenarios /\ thread' \in {"running", "exited"}
      /\ pc' \in [Clients -> {"idle", "admitting", "sending", "waiting"}]
      /\ op' \in [Clients -> {"update", "flush", "shutdown"}]
      /\ snap' \in [Clients -> Versions] /\ closed' \in {"none", "ok", "failed"}
  BY DEF Wrote, MInv, TypeOK
<1> QED
  BY <1>2, <1>3, <1>4, <1>5 DEF TypeOK

(* The rest of a queue, when its head is taken.                            *)
LEMMA QueueTail ==
    ASSUME MInv, queue # <<>>
    PROVE  /\ Head(queue) = queue[1] /\ 1 \in 1..Len(queue)
           /\ Tail(queue) \in Seq([op : {"update", "flush", "shutdown"}, version : Versions,
                                  client : Clients])
           /\ Len(Tail(queue)) <= Capacity
           /\ \A i \in 1..Len(Tail(queue)) :
                 i + 1 \in 1..Len(queue) /\ i + 1 # 1 /\ Tail(queue)[i] = queue[i + 1]
<1> DEFINE S == [op : {"update", "flush", "shutdown"}, version : Versions, client : Clients]
<1>1. queue \in Seq(S) /\ Len(queue) <= Capacity
  BY DEF MInv, TypeOK
<1> HIDE DEF S
<1>2. /\ Head(queue) = queue[1] /\ 1 \in 1..Len(queue)
      /\ Tail(queue) \in Seq(S) /\ Len(Tail(queue)) <= Capacity
      /\ \A i \in 1..Len(Tail(queue)) :
            i + 1 \in 1..Len(queue) /\ i + 1 # 1 /\ Tail(queue)[i] = queue[i + 1]
  BY <1>1, queue # <<>>
<1> QED
  BY <1>2 DEF S

(* A command whose client is answered leaves the others waiting.           *)
LEMMA TailKeeps ==
    ASSUME MInv, queue # <<>>, queue' = Tail(queue), thread' = "running",
           UNCHANGED <<version, pc, op, snap>>,
           \/ answer' = answer
           \/ /\ Head(queue).op # "update"
              /\ \A c \in Clients \ {Head(queue).client} : answer'[c] = answer[c]
    PROVE  QueueInv'
<1>1. ASSUME NEW i \in 1..Len(queue')
      PROVE  queue'[i].version <= version' /\ (queue'[i].op # "update" => AwaitedNext(queue'[i]))
  <2>1. i + 1 \in 1..Len(queue) /\ i + 1 # 1 /\ queue'[i] = queue[i + 1] /\ Head(queue) = queue[1]
        /\ 1 \in 1..Len(queue)
    BY <1>1, QueueTail
  <2>2. queue[i + 1].version <= version /\ queue[i + 1].client \in Clients
    BY <2>1, QueueEntry
  <2>3. ASSUME queue[i + 1].op # "update" PROVE AwaitedNext(queue[i + 1])
    <3>1. Awaited(queue[i + 1])
      BY <2>1, <2>3, QueueEntry
    <3>2. Head(queue).op # "update" => queue[i + 1].client # Head(queue).client
      BY <2>1, <2>3 DEF MInv, QueueInv
    <3>3. answer'[queue[i + 1].client] = answer[queue[i + 1].client]
      BY <2>2, <3>2
    <3> QED
      BY <3>1, <3>3 DEF Awaited, AwaitedNext
  <2> QED
    BY <2>1, <2>2, <2>3
<1>2. ASSUME NEW i \in 1..Len(queue'), NEW j \in 1..Len(queue')
      PROVE  Distinct(i, j, queue')
  <2>1. /\ i + 1 \in 1..Len(queue) /\ queue'[i] = queue[i + 1]
        /\ j + 1 \in 1..Len(queue) /\ queue'[j] = queue[j + 1]
    BY <1>2, QueueTail
  <2>2. Distinct(i + 1, j + 1, queue)
    BY <2>1 DEF MInv, QueueInv, Distinct
  <2> QED
    BY <2>1, <2>2 DEF Distinct
<1> QED
  BY <1>1, <1>2, QueueNext

(* Answers that are not given leave those of before.                       *)
LEMMA AnswersKeep ==
    ASSUME MInv, Wrote, answer' = answer
    PROVE  AnswerInv'
<1>1. ASSUME NEW c \in Clients
      PROVE  snap[c] <= synced => snap'[c] <= synced'
  <2>1. snap[c] \in Versions /\ synced \in Versions /\ synced' \in Versions
        /\ synced <= synced' /\ snap' = snap
    BY DEF MInv, TypeOK, Wrote
  <2> QED
    BY ONLY <2>1, MaxAssumption DEF Versions
<1> QED
  BY <1>1 DEF Wrote, MInv, AnswerInv

(* An update's snapshot becomes what is pending.                           *)
LEMMA UpdateKeeps ==
    ASSUME MInv, TakeUpdate
    PROVE  MInv' /\ DiskStep
<1>1. /\ thread = "running" /\ queue # <<>> /\ queue' = Tail(queue)
      /\ pending' = Newer(pending, queue[1].version) /\ deadline' = TRUE
      /\ UNCHANGED <<env, version, sender, thread, fileVars, clientVars>>
  BY QueueTail DEF TakeUpdate
<1>2. queue[1].version \in Versions /\ queue[1].version <= version
  BY <1>1, QueueTail, QueueEntry
<1>3. Wrote
  BY SMTT(30), <1>1, <1>2 DEF Wrote, MInv, TypeOK, FileInv, Newer, fileVars, clientVars
<1>4. TypeOK' /\ FileInv' /\ ShutdownInv' /\ DiskStep
  BY <1>1, <1>3, WroteKeeps, QueueTail DEF clientVars, MInv, TypeOK
<1>5. QueueInv' /\ AnswerInv'
  BY <1>1, <1>3, TailKeeps, AnswersKeep DEF clientVars
<1> QED
  BY <1>4, <1>5 DEF MInv

(* An answer that is given is Ok only if its client's snapshot is safe.    *)
LEMMA AnswerKeeps ==
    ASSUME MInv, Wrote, NEW c \in Clients, NEW a \in {"ok", "failed"},
           pc[c] = "waiting", answer' = [answer EXCEPT ![c] = a],
           a = "ok" => snap[c] <= synced'
    PROVE  AnswerInv' /\ answer' \in [Clients -> {"none", "ok", "failed"}]
<1>1. answer \in [Clients -> {"none", "ok", "failed"}]
  BY DEF MInv, TypeOK
<1>2. answer'[c] = a /\ \A d \in Clients \ {c} : answer'[d] = answer[d]
  BY <1>1
<1>3. ASSUME NEW d \in Clients
      PROVE  snap[d] <= synced => snap'[d] <= synced'
  <2>1. snap[d] \in Versions /\ synced \in Versions /\ synced' \in Versions
        /\ synced <= synced' /\ snap' = snap
    BY DEF MInv, TypeOK, Wrote
  <2> QED
    BY ONLY <2>1, MaxAssumption DEF Versions
<1>4. snap' = snap /\ pc' = pc
  BY DEF Wrote
<1> QED
  BY <1>1, <1>2, <1>3, <1>4 DEF MInv, AnswerInv

(* The snapshot of a flush or shutdown is written with what is pending.    *)
LEMMA HeadAwaited ==
    ASSUME MInv, queue # <<>>, Head(queue).op # "update"
    PROVE  LET q == Head(queue)
               v == Newer(pending, q.version)
           IN  /\ q.client \in Clients /\ pc[q.client] = "waiting" /\ snap[q.client] = q.version
               /\ v \in Versions /\ pending <= v /\ q.version <= v /\ v <= version
               /\ q.version \in Versions
<1>1. /\ queue[1].client \in Clients /\ queue[1].version \in Versions
      /\ queue[1].version <= version /\ Awaited(queue[1]) /\ Head(queue) = queue[1]
  BY QueueTail, QueueEntry
<1>2. pending \in Versions /\ pending <= version
  BY DEF MInv, TypeOK, FileInv
<1> QED
  BY <1>1, <1>2 DEF Awaited, Newer

(* A flush, answered with what became of the write.                        *)
LEMMA FlushKeeps ==
    ASSUME MInv, TakeFlush
    PROVE  MInv' /\ DiskStep
<1> DEFINE q == Head(queue)
           v == Newer(pending, q.version)
<1>1. /\ thread = "running" /\ queue # <<>> /\ queue' = Tail(queue) /\ q.op = "flush"
      /\ UNCHANGED <<env, version, sender, thread, pc, op, snap, accepted, acked, closed>>
  BY DEF TakeFlush
<1>2. PICK a \in {"ok", "failed"} :
         /\ answer' = [answer EXCEPT ![q.client] = a]
         /\ \/ Persisted(v) /\ pending' = 0 /\ deadline' = FALSE
            \/ a = "failed" /\ NotPersisted(v) /\ pending' = v /\ deadline' = TRUE
  BY DEF TakeFlush, Idle, Retry, Answer
<1>3. /\ q.client \in Clients /\ pc[q.client] = "waiting" /\ snap[q.client] = q.version
      /\ v \in Versions /\ pending <= v /\ q.version <= v /\ v <= version
      /\ q.version \in Versions
  BY <1>1, HeadAwaited
<1>4. version \in Versions /\ 0 \in Versions /\ 0 <= version
  BY DEF MInv, TypeOK
<1> HIDE DEF v, q
<1>5. Wrote /\ (a = "ok" => snap[q.client] <= synced')
  <2>1. CASE Persisted(v) /\ pending' = 0 /\ deadline' = FALSE
    <3>1. /\ {persisted', disk', synced'} \subseteq Versions
          /\ persisted' = synced' /\ synced <= synced' /\ v <= synced' /\ synced' <= version
          /\ disk' = synced' /\ disk <= disk'
      BY <1>1, <1>3, <2>1, Writing
    <3>2. synced \in Versions
      BY DEF MInv, TypeOK
    <3>3. {persisted', disk', synced', pending'} \subseteq Versions
      BY <1>1, <1>3, <1>4, <2>1, <3>1, <3>2
    <3>4. /\ persisted' = synced' /\ synced <= synced' /\ synced' <= disk' /\ disk' <= version
          /\ disk <= disk' /\ pending' <= version
          /\ thread' = "running" => disk' <= synced' \/ disk' <= pending'
      BY <1>1, <1>3, <1>4, <2>1, <3>1, <3>2, <3>3
    <3>5. snap[q.client] <= synced'
      <4>1. synced' \in Versions /\ v <= synced' /\ q.version <= v /\ snap[q.client] = q.version
            /\ v \in Versions /\ q.version \in Versions
        BY <1>3, <3>1
      <4> QED
        BY ONLY <4>1, MaxAssumption DEF Versions
    <3>6. Wrote
      BY <1>1, <2>1, <3>3, <3>4 DEF Wrote
    <3> QED
      BY <3>5, <3>6
  <2>2. CASE a = "failed" /\ NotPersisted(v) /\ pending' = v /\ deadline' = TRUE
    <3>1. /\ {persisted', disk', synced'} \subseteq Versions
          /\ persisted' = synced' /\ synced' = synced /\ synced <= disk'
          /\ disk' <= version /\ disk <= disk' /\ (disk' <= synced' \/ disk' <= v)
      BY <1>1, <1>3, <2>2, Writing
    <3>2. synced \in Versions
      BY DEF MInv, TypeOK
    <3>3. {persisted', disk', synced', pending'} \subseteq Versions
      BY <1>1, <1>3, <1>4, <2>2, <3>1, <3>2
    <3>4. /\ persisted' = synced' /\ synced <= synced' /\ synced' <= disk' /\ disk' <= version
          /\ disk <= disk' /\ pending' <= version
          /\ thread' = "running" => disk' <= synced' \/ disk' <= pending'
      BY <1>1, <1>3, <1>4, <2>2, <3>1, <3>2, <3>3
    <3> QED
      BY <1>1, <1>3, <1>4, <2>2, <3>1, <3>2, <3>3, <3>4 DEF Wrote
  <2> QED
    BY <1>2, <2>1, <2>2
<1>6. AnswerInv' /\ answer' \in [Clients -> {"none", "ok", "failed"}]
  BY <1>2, <1>3, <1>5, AnswerKeeps
<1>7. TypeOK' /\ FileInv' /\ ShutdownInv' /\ DiskStep
  BY <1>1, <1>5, <1>6, WroteKeeps, QueueTail
<1>8. QueueInv'
  <2>1. \A c \in Clients \ {q.client} : answer'[c] = answer[c]
    BY <1>2 DEF MInv, TypeOK
  <2> QED
    BY <1>1, <2>1, TailKeeps DEF q
<1> QED
  BY <1>6, <1>7, <1>8 DEF MInv

(* A shutdown, which drops what is queued behind it.                       *)
LEMMA ShutdownStep ==
    ASSUME MInv, TakeShutdown
    PROVE  MInv' /\ DiskStep
<1> DEFINE q == Head(queue)
           v == Newer(pending, q.version)
<1>1. /\ thread = "running" /\ queue # <<>> /\ queue' = <<>> /\ q.op = "shutdown"
      /\ pending' = 0 /\ deadline' = FALSE /\ thread' = "exited"
      /\ UNCHANGED <<env, version, sender, pc, op, snap, accepted, acked, closed>>
  BY DEF TakeShutdown, Idle
<1>2. PICK a \in {"ok", "failed"} :
         /\ answer' = [answer EXCEPT ![q.client] = a]
         /\ Persisted(v) \/ (a = "failed" /\ NotPersisted(v))
  BY DEF TakeShutdown, Answer
<1>3. /\ q.client \in Clients /\ pc[q.client] = "waiting" /\ snap[q.client] = q.version
      /\ v \in Versions /\ pending <= v /\ q.version <= v /\ v <= version
      /\ q.version \in Versions
  BY <1>1, HeadAwaited
<1>4. version \in Versions /\ 0 \in Versions /\ 0 <= version
  BY DEF MInv, TypeOK
<1> HIDE DEF v, q
<1>5. Wrote /\ (a = "ok" => snap[q.client] <= synced')
  <2>1. CASE Persisted(v)
    <3>1. /\ {persisted', disk', synced'} \subseteq Versions
          /\ persisted' = synced' /\ synced <= synced' /\ v <= synced' /\ synced' <= version
          /\ disk' = synced' /\ disk <= disk'
      BY <1>1, <1>3, <2>1, Writing
    <3>2. synced \in Versions
      BY DEF MInv, TypeOK
    <3>3. {persisted', disk', synced', pending'} \subseteq Versions
      BY <1>1, <1>3, <1>4, <2>1, <3>1, <3>2
    <3>4. /\ persisted' = synced' /\ synced <= synced' /\ synced' <= disk' /\ disk' <= version
          /\ disk <= disk' /\ pending' <= version
          /\ thread' = "running" => disk' <= synced' \/ disk' <= pending'
      BY <1>1, <1>3, <1>4, <2>1, <3>1, <3>2, <3>3
    <3>5. snap[q.client] <= synced'
      <4>1. synced' \in Versions /\ v <= synced' /\ q.version <= v /\ snap[q.client] = q.version
            /\ v \in Versions /\ q.version \in Versions
        BY <1>3, <3>1
      <4> QED
        BY ONLY <4>1, MaxAssumption DEF Versions
    <3>6. Wrote
      BY <1>1, <2>1, <3>3, <3>4 DEF Wrote
    <3> QED
      BY <3>5, <3>6
  <2>2. CASE a = "failed" /\ NotPersisted(v)
    <3>1. /\ {persisted', disk', synced'} \subseteq Versions
          /\ persisted' = synced' /\ synced' = synced /\ synced <= disk'
          /\ disk' <= version /\ disk <= disk' /\ (disk' <= synced' \/ disk' <= v)
      BY <1>1, <1>3, <2>2, Writing
    <3>2. synced \in Versions
      BY DEF MInv, TypeOK
    <3>3. {persisted', disk', synced', pending'} \subseteq Versions
      BY <1>1, <1>3, <1>4, <2>2, <3>1, <3>2
    <3>4. /\ persisted' = synced' /\ synced <= synced' /\ synced' <= disk' /\ disk' <= version
          /\ disk <= disk' /\ pending' <= version
          /\ thread' = "running" => disk' <= synced' \/ disk' <= pending'
      BY <1>1, <1>3, <1>4, <2>2, <3>1, <3>2, <3>3
    <3> QED
      BY <1>1, <1>3, <1>4, <2>2, <3>1, <3>2, <3>3, <3>4 DEF Wrote
  <2> QED
    BY <1>2, <2>1, <2>2
<1>6. AnswerInv' /\ answer' \in [Clients -> {"none", "ok", "failed"}]
  BY <1>2, <1>3, <1>5, AnswerKeeps
<1>7. /\ Len(queue') = 0
      /\ queue' \in Seq([op : {"update", "flush", "shutdown"}, version : Versions,
                         client : Clients])
  BY <1>1
<1>8. TypeOK' /\ FileInv' /\ ShutdownInv' /\ DiskStep
  BY <1>5, <1>6, <1>7, WroteKeeps
<1>9. QueueInv'
  BY <1>1, <1>7 DEF QueueInv
<1> QED
  BY <1>6, <1>8, <1>9 DEF MInv

(* What is pending is written, or tried again later.                       *)
LEMMA PendingKeeps ==
    ASSUME MInv, WritePending \/ RetryPending
    PROVE  MInv' /\ DiskStep
<1>1. /\ thread = "running"
      /\ UNCHANGED <<env, version, sender, queue, thread, clientVars>>
      /\ \/ Persisted(pending) /\ pending' = 0 /\ deadline' = FALSE
         \/ NotPersisted(pending) /\ pending' = pending /\ deadline' = TRUE
  BY DEF WritePending, RetryPending, Idle, Retry
<1>2. pending \in Versions /\ pending <= version /\ pending <= pending
      /\ version \in Versions /\ 0 \in Versions /\ 0 <= version
  BY DEF MInv, TypeOK, FileInv
<1>3. Wrote
  <2>1. CASE Persisted(pending) /\ pending' = 0 /\ deadline' = FALSE
    <3>1. /\ {persisted', disk', synced'} \subseteq Versions
          /\ persisted' = synced' /\ synced <= synced' /\ pending <= synced' /\ synced' <= version
          /\ disk' = synced' /\ disk <= disk'
      BY <1>1, <1>2, <2>1, Writing
    <3>2. synced \in Versions
      BY DEF MInv, TypeOK
    <3>3. {persisted', disk', synced', pending'} \subseteq Versions
      BY <1>1, <1>2, <2>1, <3>1, <3>2
    <3>4. /\ persisted' = synced' /\ synced <= synced' /\ synced' <= disk' /\ disk' <= version
          /\ disk <= disk' /\ pending' <= version
          /\ thread' = "running" => disk' <= synced' \/ disk' <= pending'
      BY <1>1, <1>2, <2>1, <3>1, <3>2, <3>3
    <3> QED
      BY <1>1, <1>2, <2>1, <3>1, <3>2, <3>3, <3>4 DEF Wrote, clientVars
  <2>2. CASE NotPersisted(pending) /\ pending' = pending /\ deadline' = TRUE
    BY <1>1, <1>2, <2>2, Writing DEF Wrote, clientVars
  <2> QED
    BY <1>1, <2>1, <2>2
<1>4. TypeOK' /\ FileInv' /\ ShutdownInv' /\ DiskStep /\ AnswerInv'
  BY <1>1, <1>3, WroteKeeps, AnswersKeep DEF clientVars, MInv, TypeOK
<1>5. QueueInv'
  BY <1>1 DEF MInv, QueueInv, Awaited, clientVars
<1> QED
  BY <1>4, <1>5 DEF MInv

-----------------------------------------------------------------------------
(* A crash leaves what was synced, or what was renamed.                    *)
LEMMA CrashKeeps ==
    ASSUME MInv, Crash
    PROVE  MInv' /\ DiskStep
<1>1. /\ {disk, synced, acked} \subseteq Versions /\ synced <= disk /\ acked <= synced
      /\ env \in Scenarios
  BY DEF MInv, TypeOK, FileInv
<1>2. /\ disk' \in Versions /\ acked' = acked /\ acked <= disk'
      /\ synced' = disk' /\ persisted' = disk' /\ version' = disk'
      /\ disk' >= disk \/ disk' = synced
      /\ env' = env /\ sender' = TRUE /\ queue' = <<>> /\ thread' = "running"
      /\ pending' = 0 /\ deadline' = FALSE
      /\ pc' = [c \in Clients |-> "idle"] /\ op' = [c \in Clients |-> "update"]
      /\ snap' = [c \in Clients |-> 0] /\ answer' = [c \in Clients |-> "none"]
      /\ accepted' = 0 /\ closed' = "none"
  BY <1>1 DEF Crash, Idle
<1>3. /\ Len(queue') = 0
      /\ queue' \in Seq([op : {"update", "flush", "shutdown"}, version : Versions,
                         client : Clients])
  BY <1>2
<1>4. DiskStep
  BY <1>2 DEF DiskStep
<1>5. DiskStep /\ FileInv' /\ QueueInv' /\ AnswerInv' /\ ShutdownInv'
  BY <1>2, <1>3, <1>4 DEF FileInv, QueueInv, AnswerInv, ShutdownInv
<1>6. TypeOK'
  <2>1. {version', pending', persisted', disk', synced', accepted', acked'} \subseteq Versions
    BY <1>1, <1>2
  <2>2. /\ pc' \in [Clients -> {"idle", "admitting", "sending", "waiting"}]
        /\ op' \in [Clients -> {"update", "flush", "shutdown"}]
        /\ snap' \in [Clients -> Versions]
        /\ answer' \in [Clients -> {"none", "ok", "failed"}]
    BY <1>2
  <2>3. env' \in Scenarios /\ Len(queue') <= Capacity
    BY <1>1, <1>2, <1>3
  <2> QED
    BY <1>2, <1>3, <2>1, <2>2, <2>3 DEF TypeOK
<1> QED
  BY <1>5, <1>6 DEF MInv

(* Every step.                                                             *)
LEMMA MNext == MInv /\ [Next]_vars => MInv' /\ (DiskStep \/ UNCHANGED vars)
<1> SUFFICES ASSUME MInv, [Next]_vars PROVE MInv' /\ (DiskStep \/ UNCHANGED vars)
  OBVIOUS
<1>1. ASSUME NEW c \in Clients, Client(c) PROVE MInv' /\ DiskStep
  BY <1>1, SendKeeps, OtherKeeps DEF Client
<1>2. ASSUME NEW c \in Clients, NEW o \in {"update", "flush", "shutdown"}, Begin(c, o)
      PROVE  MInv' /\ DiskStep
  BY <1>2, BeginKeeps
<1>3. CASE Writer
  BY <1>3, UpdateKeeps, FlushKeeps, ShutdownStep, PendingKeeps DEF Writer, Take
<1>4. CASE Crash
  BY <1>4, CrashKeeps
<1>5. CASE UNCHANGED vars
  <2>1. UNCHANGED <<env, version, sender, queue, thread, pending, deadline, persisted, disk, synced,
                    pc, op, snap, answer, accepted, acked, closed>>
    BY <1>5 DEF vars, writerVars, fileVars, clientVars
  <2>2. TypeOK' /\ FileInv'
    BY <2>1 DEF MInv, TypeOK, FileInv
  <2>3. QueueInv' /\ AnswerInv'
    BY <2>1 DEF MInv, QueueInv, AnswerInv, Awaited
  <2>4. ShutdownInv'
    BY <2>1 DEF MInv, ShutdownInv, ShuttingDown
  <2> QED
    BY <1>5, <2>2, <2>3, <2>4 DEF MInv
<1> QED
  BY <1>1, <1>2, <1>3, <1>4, <1>5 DEF Next

-----------------------------------------------------------------------------
(* The inductive invariant holds throughout.                               *)
THEOREM MetaStoreInvariant == Spec => []MInv
BY MInit, MNext, PTL DEF Spec

(* Every variable of the store keeps its type, and the queue its bound.    *)
THEOREM MetaTypes == Spec => []TypeOK
<1>1. MInv => TypeOK
  BY DEF MInv
<1> QED
  BY <1>1, MetaStoreInvariant, PTL

(* What a flush or shutdown has reported as written survives every failed  *)
(* write, retry and crash, in the file and in memory.                      *)
THEOREM FlushIsDurable == Spec => []FlushDurable
<1>1. MInv => FlushDurable
  BY DEF MInv, TypeOK, FileInv, FlushDurable
<1> QED
  BY <1>1, MetaStoreInvariant, PTL

(* An orderly shutdown that returned Ok has left no accepted update out.   *)
THEOREM ShutdownIsComplete == Spec => []ShutdownKeeps
<1>1. MInv => ShutdownKeeps
  BY DEF MInv, TypeOK, FileInv, ShutdownInv, ShutdownKeeps
<1> QED
  BY <1>1, MetaStoreInvariant, PTL

(* The file is never replaced by an older one, except that a crash takes   *)
(* back a rename that was not synced.                                      *)
THEOREM FileNeverOlder == Spec => NeverOlder
<1>1. MInv /\ [Next]_vars => [disk' >= disk \/ disk' = synced]_vars
  BY MNext DEF DiskStep
<1> QED
  BY <1>1, MetaStoreInvariant, PTL DEF Spec, NeverOlder
=============================================================================
