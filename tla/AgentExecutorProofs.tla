------------------------ MODULE AgentExecutorProofs ------------------------
(***************************************************************************)
(* Proofs about AgentExecutor, for any calls, any tasks that pull the kill *)
(* switch and any scenarios.                                               *)
(***************************************************************************)
EXTENDS AgentExecutor, TLAPS

(* A tool that has no process yet is in no map, and nobody has taken it.   *)
Unstarted(k) ==
    /\ outer[k] \in {"idle", "queued"} => tool[k] = "none"
    /\ tool[k] \in {"none", "ready", "blocking", "register"} =>
          k \notin procs /\ \A u \in Killers : k \notin drained[u]

(* The task of a call cancels it once, after it has inserted the handle.   *)
HandleOK(k) ==
    /\ canceller["wrapper"][k] # "idle" => outer[k] \in {"cancelling", "done"}
    /\ canceller["wrapper"][k] \notin {"idle", "take"} => k \notin active

(* Without the kill switch the three maps are filled and emptied together, *)
(* as far as the tool and the cancellations of the call have got.          *)
MapOK(k) ==
    /\ k \in procs   => tool[k] \in {"byCall", "mapping", "await", "drop"}
    /\ k \in mapping => tool[k] \in {"await", "drop", "unmap", "unmapLost"}
    /\ k \in byCall  => tool[k] \in {"mapping", "await", "drop", "unmap", "uncall"}
    /\ k \in byCall /\ tool[k] \in {"mapping", "await", "drop"} => k \in procs
    /\ k \in byCall /\ tool[k] \in {"await", "drop", "unmap"} => k \in mapping
    /\ tool[k] = "byCall" => k \in procs
    /\ \A r \in Roles : canceller[r][k] \in {"procs", "mapping", "kill"} =>
          k \notin byCall
          /\ tool[k] \notin {"none", "ready", "blocking", "register", "byCall"}

CallInv == \A k \in Calls : Unstarted(k) /\ HandleOK(k)
MapInv  == "kill" \notin env => /\ \A u \in Killers : killer[u] = "idle"
                                /\ \A k \in Calls : MapOK(k)

EInv == TypeOK /\ CallInv /\ MapInv /\ NoneEscapes

USE DEF callVars, toolVars, mapVars, procVars, killVars, Goto, ToolGoto

(* Initially no call is under way and every map is empty.                  *)
LEMMA EInit == Init => EInv
<1> SUFFICES ASSUME Init PROVE EInv
    OBVIOUS
<1> USE DEF Init
<1>1. TypeOK
    BY DEF TypeOK, Outers, Tools, Cancels, Kills
<1>2. CallInv
    BY DEF CallInv, Unstarted, HandleOK, Roles
<1>3. MapInv
    BY DEF MapInv, MapOK, Roles
<1>4. NoneEscapes
    BY DEF NoneEscapes
<1> QED
    BY <1>1, <1>2, <1>3, <1>4 DEF EInv

(* A step of a cancellation moves that cancellation alone.                 *)
LEMMA StepFacts ==
    ASSUME TypeOK, NEW r \in Roles, NEW k \in Calls, NEW a, NEW b \in Cancels, Step(r, k, a, b)
    PROVE  /\ canceller' \in [Roles -> [Calls -> Cancels]]
           /\ canceller[r][k] = a /\ canceller'[r][k] = b
           /\ \A q \in Roles, j \in Calls :
                 q # r \/ j # k => canceller'[q][j] = canceller[q][j]
<1>1. canceller \in [Roles -> [Calls -> Cancels]]
    BY DEF TypeOK
<1>2. canceller' = [canceller EXCEPT ![r] = [canceller[r] EXCEPT ![k] = b]]
    BY <1>1 DEF Step
<1>3. [canceller[r] EXCEPT ![k] = b] \in [Calls -> Cancels]
    BY <1>1
<1> QED
    BY <1>1, <1>2, <1>3 DEF Step

(* Killing a set of processes.                                             *)
LEMMA KillFacts ==
    ASSUME TypeOK, NEW S, KillTrees(S)
    PROVE  /\ child' \in [Calls -> {"none", "alive", "dead"}] /\ tree' \in [Calls -> BOOLEAN]
           /\ \A k \in Calls : /\ child'[k] = IF k \in S THEN "dead" ELSE child[k]
                               /\ tree'[k] => tree[k] /\ k \notin S
BY DEF TypeOK, KillTrees

-----------------------------------------------------------------------------
(* Type correctness.                                                       *)

(* The steps of the reader and of the task of a call.                      *)
LEMMA ServeTypes ==
    ASSUME TypeOK, CallInv, NEW k \in Calls, Invoke(k) \/ CancelTool(k) \/ Serve(k)
    PROVE  TypeOK'
<1> USE DEF TypeOK, Outers, Tools
<1>1. CASE Invoke(k)
    BY <1>1 DEF Invoke
<1>2. CASE CancelTool(k)
    BY <1>2, StepFacts DEF CancelTool, Roles, Cancels
<1>3. CASE SpawnTool(k)
    BY <1>3 DEF SpawnTool
<1>4. CASE InsertHandle(k)
    BY <1>4 DEF InsertHandle
<1>5. CASE Join(k)
    BY <1>5 DEF Join
<1>6. CASE Report(k)
    BY <1>6 DEF Report
<1>7. CASE TimeOut(k)
    BY <1>7, StepFacts DEF TimeOut, Roles, Cancels
<1>8. CASE TimedOut(k)
    BY <1>8 DEF TimedOut, CallInv, HandleOK
<1> QED
    BY <1>1, <1>2, <1>3, <1>4, <1>5, <1>6, <1>7, <1>8 DEF Serve

(* The steps of a cancellation.                                            *)
LEMMA CancelTypes ==
    ASSUME TypeOK, NEW r \in Roles, NEW k \in Calls, CancelCall(r, k)
    PROVE  TypeOK'
<1> USE DEF TypeOK
<1>1. CASE TakeHandle(r, k)
    BY <1>1, StepFacts DEF TakeHandle, Cancels
<1>2. CASE Abort(r, k)
    BY <1>2, StepFacts DEF Abort, Cancels
<1>3. CASE TakePids(r, k)
    BY <1>3, StepFacts DEF TakePids, Cancels
<1>4. CASE RetainProcs(r, k)
    BY <1>4, StepFacts DEF RetainProcs, Cancels
<1>5. CASE RetainMapping(r, k)
    BY <1>5, StepFacts DEF RetainMapping, Cancels
<1>6. CASE KillChild(r, k)
    BY <1>6, StepFacts, KillFacts DEF KillChild, Cancels
<1> QED
    BY <1>1, <1>2, <1>3, <1>4, <1>5, <1>6 DEF CancelCall, KillCall

(* The steps of a tool.                                                    *)
LEMMA ToolTypes ==
    ASSUME TypeOK, NEW k \in Calls, RunTool(k)
    PROVE  TypeOK'
<1> USE DEF TypeOK, Tools
<1>1. CASE Poll(k)
    BY <1>1 DEF Poll
<1>2. CASE BlockingEnds(k)
    BY <1>2 DEF BlockingEnds
<1>3a. CASE Register(k)
    BY <1>3a DEF Register
<1>3b. CASE RegisterCall(k)
    BY <1>3b DEF RegisterCall
<1>3c. CASE RegisterMapping(k)
    BY <1>3c DEF RegisterMapping
<1>4a. CASE ChildEnded(k)
    BY <1>4a DEF ChildEnded, WaitEnds
<1>4b. CASE AbortedHere(k)
    BY <1>4b DEF AbortedHere, WaitEnds
<1>5. CASE CommandTimer(k)
    BY <1>5, KillFacts DEF CommandTimer, WaitEnds
<1>6. CASE Unregister(k)
    BY <1>6 DEF Unregister
<1>7. CASE Unmap(k)
    BY <1>7 DEF Unmap
<1>8. CASE Uncall(k)
    BY <1>8 DEF Uncall
<1>9. CASE DropChild(k)
    BY <1>9 DEF DropChild
<1> QED
    BY <1>1, <1>2, <1>3a, <1>3b, <1>3c, <1>4a, <1>4b, <1>5, <1>6, <1>7, <1>8, <1>9
    DEF RunTool

(* The steps of the kill switch.                                           *)
LEMMA KillTypes ==
    ASSUME TypeOK, NEW u \in Killers, Drain(u) \/ KillAll(u)
    PROVE  TypeOK'
<1> USE DEF TypeOK, Kills, KillStep
<1>1. CASE Drain(u)
    BY <1>1 DEF Drain
<1>2. CASE ClearCalls(u) \/ ClearMapping(u)
    BY ZenonT(40), <1>2 DEF ClearCalls, ClearMapping
<1>3. CASE KillDrained(u)
    BY <1>3, KillFacts DEF KillDrained
<1> QED
    BY <1>1, <1>2, <1>3 DEF KillAll

(* The steps of a child.                                                   *)
LEMMA ChildTypes ==
    ASSUME TypeOK, NEW k \in Calls, Fork(k) \/ Exit(k)
    PROVE  TypeOK'
<1>1. CASE Fork(k)
    BY <1>1 DEF TypeOK, Fork
<1>2. CASE Exit(k)
    BY <1>2 DEF TypeOK, Exit
<1> QED
    BY <1>1, <1>2

(* Every step keeps the types.                                             *)
LEMMA TypeStep == EInv /\ [Next]_vars => TypeOK'
<1> SUFFICES ASSUME EInv, [Next]_vars PROVE TypeOK'
    OBVIOUS
<1>1. CASE Next
    BY <1>1, ServeTypes, CancelTypes, ToolTypes, KillTypes, ChildTypes DEF Next, EInv
<1>2. CASE UNCHANGED vars
    BY <1>2 DEF vars, TypeOK, EInv
<1> QED
    BY <1>1, <1>2

-----------------------------------------------------------------------------
(* CallInv and MapInv speak of one call at a time. What a step leaves as   *)
(* it is for a call j, it leaves true for j.                               *)

SameCall(j) ==
    /\ outer'[j] = outer[j] /\ tool'[j] = tool[j]
    /\ (j \in active' <=> j \in active)
    /\ (j \in procs' <=> j \in procs) /\ (j \in byCall' <=> j \in byCall)
    /\ (j \in mapping' <=> j \in mapping)
    /\ \A r \in Roles : canceller'[r][j] = canceller[r][j]

(* What SameCall leaves alone keeps its invariants.                        *)
LEMMA SameCallKeeps ==
    ASSUME NEW j \in Calls, SameCall(j), UNCHANGED drained
    PROVE  /\ Unstarted(j) /\ HandleOK(j) => Unstarted(j)' /\ HandleOK(j)'
           /\ MapOK(j) => MapOK(j)'
BY DEF SameCall, Unstarted, HandleOK, MapOK, Roles

(* The reader and the task of a call.                                      *)
LEMMA ServeCalls ==
    ASSUME EInv, NEW k \in Calls, Invoke(k) \/ CancelTool(k) \/ Serve(k)
    PROVE  /\ \A j \in Calls \ {k} : SameCall(j)
           /\ Unstarted(k)' /\ HandleOK(k)'
           /\ MapOK(k) => MapOK(k)'
           /\ UNCHANGED killVars
<1> USE DEF EInv, CallInv, SameCall
<1>1. CASE Invoke(k)
    BY <1>1 DEF Invoke, TypeOK, Unstarted, HandleOK, MapOK, Roles
<1>2. CASE CancelTool(k)
    BY <1>2, StepFacts DEF CancelTool, TypeOK, Unstarted, HandleOK, MapOK, Roles, Cancels
<1>3. CASE SpawnTool(k)
    BY <1>3 DEF SpawnTool, TypeOK, Unstarted, HandleOK, MapOK, Roles
<1>4. CASE InsertHandle(k)
    BY <1>4 DEF InsertHandle, TypeOK, Unstarted, HandleOK, MapOK, Roles
<1>5. CASE Join(k)
    BY <1>5 DEF Join, TypeOK, Unstarted, HandleOK, MapOK, Roles
<1>6. CASE Report(k)
    BY <1>6 DEF Report, TypeOK, Unstarted, HandleOK, MapOK, Roles
<1>7. CASE TimeOut(k)
    BY <1>7, StepFacts DEF TimeOut, TypeOK, Unstarted, HandleOK, MapOK, Roles, Cancels
<1>8. CASE TimedOut(k)
    BY <1>8 DEF TimedOut, TypeOK, Unstarted, HandleOK, MapOK, Roles
<1> QED
    BY <1>1, <1>2, <1>3, <1>4, <1>5, <1>6, <1>7, <1>8 DEF Serve

(* A cancellation.                                                         *)
LEMMA CancelCalls ==
    ASSUME EInv, NEW r \in Roles, NEW k \in Calls, CancelCall(r, k)
    PROVE  /\ \A j \in Calls \ {k} : SameCall(j)
           /\ Unstarted(k)' /\ HandleOK(k)'
           /\ MapOK(k) => MapOK(k)'
           /\ UNCHANGED killVars
<1> USE DEF EInv, CallInv, SameCall
<1>1. CASE TakeHandle(r, k)
    BY <1>1, StepFacts DEF TakeHandle, Unstarted, HandleOK, MapOK, Roles, Cancels
<1>2. CASE Abort(r, k)
    BY <1>2, StepFacts DEF Abort, Unstarted, HandleOK, MapOK, Roles, Cancels
<1>3. CASE TakePids(r, k)
    BY <1>3, StepFacts DEF TakePids, Unstarted, HandleOK, MapOK, Roles, Cancels
<1>4. CASE RetainProcs(r, k)
    BY <1>4, StepFacts DEF RetainProcs, Unstarted, HandleOK, MapOK, Roles, Cancels
<1>5. CASE RetainMapping(r, k)
    BY <1>5, StepFacts DEF RetainMapping, Unstarted, HandleOK, MapOK, Roles, Cancels
<1>6. CASE KillChild(r, k)
    BY <1>6, StepFacts DEF KillChild, Unstarted, HandleOK, MapOK, Roles, Cancels
<1> QED
    BY <1>1, <1>2, <1>3, <1>4, <1>5, <1>6 DEF CancelCall, KillCall

(* The tool of a call.                                                     *)
LEMMA ToolCalls ==
    ASSUME EInv, NEW k \in Calls, RunTool(k)
    PROVE  /\ \A j \in Calls \ {k} : SameCall(j)
           /\ Unstarted(k)' /\ HandleOK(k)'
           /\ MapOK(k) => MapOK(k)'
           /\ UNCHANGED killVars
<1> USE DEF EInv, CallInv, SameCall, TypeOK, Unstarted, HandleOK, MapOK, Roles
<1>1. CASE Poll(k)
    BY <1>1 DEF Poll
<1>2. CASE BlockingEnds(k)
    BY <1>2 DEF BlockingEnds
<1>3. CASE Register(k)
    BY <1>3 DEF Register
<1>4. CASE RegisterCall(k)
    BY <1>4 DEF RegisterCall
<1>5. CASE RegisterMapping(k)
    BY <1>5 DEF RegisterMapping
<1>6. ASSUME NEW v, WaitEnds(k, v)
      PROVE  /\ \A j \in Calls \ {k} : SameCall(j)
             /\ Unstarted(k)' /\ HandleOK(k)'
             /\ MapOK(k) => MapOK(k)'
             /\ UNCHANGED killVars
    BY <1>6 DEF WaitEnds
<1>7. CASE Unregister(k)
    BY <1>7 DEF Unregister
<1>8. CASE Unmap(k)
    BY <1>8 DEF Unmap
<1>9. CASE Uncall(k)
    BY <1>9 DEF Uncall
<1>10. CASE DropChild(k)
    BY <1>10 DEF DropChild
<1>11. CASE ChildEnded(k) \/ CommandTimer(k) \/ AbortedHere(k)
    BY ONLY <1>6, <1>11 DEF ChildEnded, CommandTimer, AbortedHere
<1> QED
    BY ONLY <1>1, <1>2, <1>3, <1>4, <1>5, <1>7, <1>8, <1>9, <1>10, <1>11, RunTool(k) DEF RunTool

(* The kill switch empties the maps; it takes no call that has no process  *)
(* yet.                                                                    *)
LEMMA KillCalls ==
    ASSUME EInv, NEW u \in Killers, Drain(u) \/ KillAll(u)
    PROVE  CallInv' /\ "kill" \in env
<1> USE DEF EInv, CallInv, KillStep
<1>1. \A j \in Calls : HandleOK(j)'
  <2>1. UNCHANGED <<outer, active, canceller>>
    BY DEF Drain, KillAll, ClearCalls, ClearMapping, KillDrained
  <2> QED
    BY <2>1 DEF HandleOK
<1>2. CASE Drain(u)
    BY <1>1, <1>2 DEF Drain, TypeOK, Unstarted
<1>3. CASE KillAll(u)
  <2>1. UNCHANGED <<env, outer, tool, procs, drained>> /\ killer[u] # "idle"
    BY <1>3 DEF KillAll, ClearCalls, ClearMapping, KillDrained
  <2>2. "kill" \in env
    BY <2>1 DEF MapInv
  <2> QED
    BY <1>1, <2>1, <2>2 DEF Unstarted
<1> QED
    BY <1>2, <1>3

(* Every step keeps what is known of the calls and of the maps.            *)
LEMMA CallStep == EInv /\ [Next]_vars => CallInv' /\ MapInv'
<1> SUFFICES ASSUME EInv, [Next]_vars PROVE CallInv' /\ MapInv'
    OBVIOUS
<1>0. env' = env
  <2>1. \A k \in Calls : Invoke(k) \/ CancelTool(k) \/ Serve(k) => env' = env
    BY DEF Invoke, CancelTool, Serve, SpawnTool, InsertHandle, Join, Report, TimeOut, TimedOut
  <2>2. \A k \in Calls : RunTool(k) => env' = env
    BY DEF RunTool, Poll, BlockingEnds, Register, RegisterCall, RegisterMapping, ChildEnded,
           CommandTimer, AbortedHere, WaitEnds, Unregister, Unmap, Uncall, DropChild
  <2>3. \A r \in Roles, k \in Calls : CancelCall(r, k) => env' = env
    BY DEF CancelCall, KillCall, TakeHandle, Abort, TakePids, RetainProcs, RetainMapping,
           KillChild
  <2>4. \A u \in Killers : Drain(u) \/ KillAll(u) => env' = env
    BY DEF Drain, KillAll, ClearCalls, ClearMapping, KillDrained
  <2>5. \A k \in Calls : Fork(k) \/ Exit(k) => env' = env
    BY DEF Fork, Exit
  <2> QED
    BY <2>1, <2>2, <2>3, <2>4, <2>5 DEF Next, vars
<1>1. ASSUME NEW k \in Calls,
             \A j \in Calls \ {k} : SameCall(j),
             Unstarted(k)' /\ HandleOK(k)', MapOK(k) => MapOK(k)', UNCHANGED killVars
      PROVE  CallInv' /\ MapInv'
  <2>1. \A j \in Calls : Unstarted(j)' /\ HandleOK(j)' /\ (MapOK(j) => MapOK(j)')
    BY <1>1, SameCallKeeps DEF EInv, CallInv
  <2> QED
    BY <1>0, <1>1, <2>1 DEF EInv, CallInv, MapInv
<1>2. ASSUME NEW k \in Calls, Invoke(k) \/ CancelTool(k) \/ Serve(k)
      PROVE  CallInv' /\ MapInv'
    BY <1>1, <1>2, ServeCalls
<1>3. ASSUME NEW k \in Calls, RunTool(k) PROVE CallInv' /\ MapInv'
    BY <1>1, <1>3, ToolCalls
<1>4. ASSUME NEW r \in Roles, NEW k \in Calls, CancelCall(r, k) PROVE CallInv' /\ MapInv'
    BY <1>1, <1>4, CancelCalls
<1>5. ASSUME NEW u \in Killers, Drain(u) \/ KillAll(u) PROVE CallInv' /\ MapInv'
    BY <1>0, <1>5, KillCalls DEF MapInv
<1>6. ASSUME NEW k \in Calls, Fork(k) \/ Exit(k) PROVE CallInv' /\ MapInv'
  <2>1. UNCHANGED <<outer, active, tool, procs, byCall, mapping, canceller, killer, drained>>
    BY <1>6 DEF Fork, Exit
  <2>2. \A j \in Calls : SameCall(j)
    BY <2>1 DEF SameCall
  <2> QED
    BY <1>0, <2>1, <2>2, SameCallKeeps DEF EInv, CallInv, MapInv
<1>7. CASE UNCHANGED vars
  <2>1. \A j \in Calls : SameCall(j)
    BY <1>7 DEF SameCall, vars
  <2> QED
    BY <1>0, <1>7, <2>1, SameCallKeeps DEF EInv, CallInv, MapInv, vars
<1> QED
    BY <1>2, <1>3, <1>4, <1>5, <1>6, <1>7 DEF Next

-----------------------------------------------------------------------------
(* No step lets a child escape.                                            *)

(* Whatever step is taken, a living child stays within the reach of the   *)
(* kill switch.                                                            *)
LEMMA EscapeStep == EInv /\ [Next]_vars => NoneEscapes'
<1> SUFFICES ASSUME EInv, [Next]_vars PROVE NoneEscapes'
    OBVIOUS
<1> USE DEF EInv, NoneEscapes, Doomed, Unregistering
<1>1. ASSUME NEW k \in Calls, Invoke(k) \/ CancelTool(k) \/ Serve(k) PROVE NoneEscapes'
  <2>1. UNCHANGED <<child, tree, procs, killer, drained>>
        /\ \A j \in Calls : tool'[j] # tool[j] => tool[j] = "none"
    BY <1>1, ServeCalls DEF Invoke, CancelTool, Serve, SpawnTool, InsertHandle, Join, Report,
           TimeOut, TimedOut, CallInv, Unstarted, TypeOK
  <2>2. \A q \in Roles, j \in Calls : canceller[q][j] \in {"mapping", "kill"} =>
            canceller'[q][j] \in {"mapping", "kill"}
    BY <1>1, StepFacts DEF Invoke, CancelTool, Serve, SpawnTool, InsertHandle, Join, Report,
           TimeOut, TimedOut, Roles, Cancels
  <2> QED
    BY <2>1, <2>2
<1>2. ASSUME NEW r \in Roles, NEW k \in Calls, CancelCall(r, k) PROVE NoneEscapes'
  <2> USE StepFacts DEF Cancels
  <2>1. CASE TakeHandle(r, k) \/ Abort(r, k) \/ TakePids(r, k)
    BY <2>1 DEF TakeHandle, Abort, TakePids
  <2>2. CASE RetainProcs(r, k)
    BY <2>2 DEF RetainProcs
  <2>3. CASE RetainMapping(r, k)
    BY <2>3 DEF RetainMapping
  <2>4. CASE KillChild(r, k)
    <3>1. TypeOK /\ Step(r, k, "kill", "done") /\ KillTrees({k})
          /\ UNCHANGED <<tool, procs, killer, drained>>
      BY <2>4 DEF KillChild
    <3>2. \A q \in Roles, j \in Calls : q # r \/ j # k => canceller'[q][j] = canceller[q][j]
      BY <3>1, StepFacts
    <3>3. \A j \in Calls : /\ child'[j] = IF j \in {k} THEN "dead" ELSE child[j]
                           /\ tree'[j] => tree[j] /\ j \notin {k}
      BY <3>1, KillFacts
    <3>4. NoneEscapes
      OBVIOUS
    <3>5. ASSUME NEW j \in Calls, child'[j] = "alive"
          PROVE  j \in procs' \/ tool'[j] \in {"register"} \cup Unregistering \/ Doomed(j)'
      <4>1. j # k /\ child[j] = "alive"
        BY <3>3, <3>5
      <4>2. \A q \in Roles : canceller'[q][j] = canceller[q][j]
        BY <3>2, <4>1
      <4> QED
        BY ONLY <3>1, <3>4, <4>1, <4>2 DEF NoneEscapes, Doomed, Unregistering
    <3>6. ASSUME NEW u \in Killers, killer'[u] = "done", NEW j \in drained'[u]
          PROVE  child'[j] = "dead" /\ ~tree'[j]
      <4>1. j \in Calls /\ child[j] = "dead" /\ ~tree[j]
        BY <3>1, <3>4, <3>6 DEF TypeOK
      <4> QED
        BY <3>3, <4>1
    <3> QED
      BY <3>5, <3>6
  <2> QED
    BY <1>2, <2>1, <2>2, <2>3, <2>4 DEF CancelCall, KillCall
<1>3. ASSUME NEW k \in Calls, RunTool(k) PROVE NoneEscapes'
  <2> USE DEF TypeOK
  <2>1. CASE Poll(k)
    BY <2>1 DEF Poll, CallInv, Unstarted
  <2>2. CASE BlockingEnds(k)
    BY <2>2 DEF BlockingEnds
  <2>3. CASE Register(k) \/ RegisterCall(k) \/ RegisterMapping(k)
    BY <2>3 DEF Register, RegisterCall, RegisterMapping
  <2>4. CASE ChildEnded(k) \/ AbortedHere(k)
    BY <2>4 DEF ChildEnded, AbortedHere, WaitEnds
  <2>5. CASE CommandTimer(k)
    BY <2>5, KillFacts DEF CommandTimer, WaitEnds
  <2>6. CASE Unregister(k)
    BY <2>6 DEF Unregister
  <2>7. CASE Unmap(k)
    BY <2>7 DEF Unmap
  <2>8. CASE Uncall(k)
    BY <2>8 DEF Uncall
  <2>9. CASE DropChild(k)
    BY <2>9 DEF DropChild
  <2> QED
    BY <1>3, <2>1, <2>2, <2>3, <2>4, <2>5, <2>6, <2>7, <2>8, <2>9 DEF RunTool
<1>4. ASSUME NEW u \in Killers, Drain(u) \/ KillAll(u) PROVE NoneEscapes'
  <2> USE DEF TypeOK, KillStep
  <2>1. CASE Drain(u)
    BY <1>4, <2>1 DEF Drain
  <2>2. CASE ClearCalls(u)
    BY <2>2 DEF ClearCalls
  <2>3. CASE ClearMapping(u)
    BY <2>3 DEF ClearMapping
  <2>4. CASE KillDrained(u)
    BY <2>4, KillFacts DEF KillDrained
  <2> QED
    BY <1>4, <2>1, <2>2, <2>3, <2>4 DEF KillAll
<1>5. ASSUME NEW k \in Calls, Fork(k) \/ Exit(k) PROVE NoneEscapes'
    BY <1>5 DEF Fork, Exit, TypeOK
<1>6. CASE UNCHANGED vars
    BY <1>6 DEF vars
<1> QED
    BY <1>1, <1>2, <1>3, <1>4, <1>5, <1>6 DEF Next

-----------------------------------------------------------------------------
(* The inductive invariant holds throughout.                              *)
THEOREM ExecutorInvariant == Spec => []EInv
<1>1. EInv /\ [Next]_vars => EInv'
    BY TypeStep, CallStep, EscapeStep DEF EInv
<1> QED
    BY EInit, <1>1, PTL DEF Spec

(* The type invariant, and that active_calls counts no call that is over   *)
(* (executor.rs, execute_with_call_id and cancel).                         *)
THEOREM ExecutorTypes == Spec => []TypeOK
<1>1. EInv => TypeOK
    BY DEF EInv
<1> QED
    BY ExecutorInvariant, <1>1, PTL

(* The kill switch reaches every child there is (process_registry.rs,      *)
(* register_process_with_call, kill_call_processes and kill_all_active).   *)
THEOREM NoChildEscapes == Spec => []NoneEscapes
<1>1. EInv => NoneEscapes
    BY DEF EInv
<1> QED
    BY ExecutorInvariant, <1>1, PTL

(* Without the kill switch a tool that is over has left nothing in the     *)
(* maps (process_registry.rs, unregister_process and kill_call_processes). *)
THEOREM NothingIsLeft == Spec => []NothingLeft
<1>1. EInv => NothingLeft
    BY DEF EInv, MapInv, MapOK, NothingLeft
<1> QED
    BY ExecutorInvariant, <1>1, PTL
=============================================================================
