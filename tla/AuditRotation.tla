--------------------------- MODULE AuditRotation ---------------------------
(***************************************************************************)
(* The files of the audit trail: the active log and its archives .1, .2,   *)
(* ..., through rotations that may fail at any step, be retried as a       *)
(* whole, or be cut short by the end of the process.                       *)
(*                                                                         *)
(* Source: crates/server/src/audit.rs (rotate_log_files and its callers).  *)
(*                                                                         *)
(* A file is known by its segment: the number of the rotation it was       *)
(* started after, 0 standing for "no such file".                           *)
(***************************************************************************)
EXTENDS Naturals

CONSTANTS
    Retain,       \* retain_files, at least two: with one there is no archive
    MaxAttempts,  \* of a retried operation: IO_MAX_ATTEMPTS
    MaxSegments   \* bound on the files ever started

ASSUME RetainAssumption == Retain \in Nat /\ Retain >= 2
ASSUME AttemptsAssumption == MaxAttempts \in Nat \ {0}
ASSUME SegmentsAssumption == MaxSegments \in Nat

VARIABLES
    active,    \* the segment of the active log
    archive,   \* the segments of the archives, by generation
    step,      \* the generation the rotation moves next (0: the active log), or Idle
    attempt    \* of retry_io

vars == <<active, archive, step, attempt>>

Generations == 1..(Retain - 1)
Idle == Retain

Init ==
    /\ active = 1
    /\ archive = [g \in Generations |-> 0]
    /\ step = Idle /\ attempt = 0

(* persist_record finds the file full: flush, close, and the first attempt. *)
(* A rotation that failed left the full file in place: no record is        *)
(* admitted any more, but each of those already queued begins another.     *)
Begin ==
    /\ step = Idle
    /\ active < MaxSegments
    /\ step' = Retain - 1
    /\ attempt' = 1
    /\ UNCHANGED <<active, archive>>

(* The oldest archive is removed; one that is not there is no error.       *)
RemoveOldest ==
    /\ step = Retain - 1
    /\ archive' = [archive EXCEPT ![Retain - 1] = 0]
    /\ step' = Retain - 2
    /\ UNCHANGED <<active, attempt>>

(* Every other archive moves up by one, the oldest first; a rename of what *)
(* is not there leaves its target alone.                                   *)
ShiftArchive_Copies(g) == \* leaves the old name in place
    /\ step = g /\ g \in 1..(Retain - 2)
    /\ archive' = IF archive[g] = 0 THEN archive
                  ELSE [archive EXCEPT ![g + 1] = archive[g]]
    /\ step' = g - 1
    /\ UNCHANGED <<active, attempt>>

ShiftArchive(g) ==
    /\ step = g /\ g \in 1..(Retain - 2)
    /\ archive' = IF archive[g] = 0 THEN archive
                  ELSE [archive EXCEPT ![g + 1] = archive[g], ![g] = 0]
    /\ step' = g - 1
    /\ UNCHANGED <<active, attempt>>

(* The active log becomes .1, and the writer opens a new one.              *)
ArchiveActive ==
    /\ step = 0
    /\ archive' = [archive EXCEPT ![1] = active]
    /\ active' = active + 1
    /\ step' = Idle /\ attempt' = 0

(* A step fails. retry_io starts the whole rotation again for a transient  *)
(* error; the last attempt and a permanent error end it where it stands.   *)
Fail ==
    /\ step # Idle
    /\ \/ /\ attempt < MaxAttempts
          /\ attempt' = attempt + 1 /\ step' = Retain - 1
       \/ /\ attempt' = 0 /\ step' = Idle
    /\ UNCHANGED <<active, archive>>

(* The process ends, at any moment, and a new one opens the log again.     *)
Restart_Truncates == \* opens a new file, not the end of the old one
    /\ active < MaxSegments
    /\ active' = active + 1
    /\ step' = Idle /\ attempt' = 0
    /\ UNCHANGED archive

Restart ==
    /\ step' = Idle /\ attempt' = 0
    /\ UNCHANGED <<active, archive>>

Next ==
    \/ Begin \/ RemoveOldest \/ ArchiveActive \/ Fail \/ Restart
    \/ \E g \in Generations : ShiftArchive(g)

Spec == Init /\ [][Next]_vars

-----------------------------------------------------------------------------
Stored  == ({archive[g] : g \in Generations} \cup {active}) \ {0}
Deleted == (1..active) \ Stored

(* The type of every variable.                                             *)
TypeOK ==
    /\ active \in Nat
    /\ archive \in [Generations -> Nat]
    /\ step \in 0..Idle
    /\ attempt \in 0..MaxAttempts

(* The archives are in the order of their age, without duplicates, through *)
(* every failure and restart: export and tail rely on it.                  *)
ArchivesInOrder ==
    /\ \A g, h \in Generations :
          g < h /\ archive[g] # 0 /\ archive[h] # 0 => archive[g] > archive[h]
    /\ \A g \in Generations : archive[g] < active

(* What is deleted is older than everything that is kept: no failure makes *)
(* a rotation overwrite a recent file.                                     *)
KeepsNewest == \A d \in Deleted, s \in Stored : d < s
=============================================================================
