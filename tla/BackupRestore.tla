---------------------------- MODULE BackupRestore ----------------------------
(***************************************************************************)
(* Restoring a matched set of databases offline, and recovering from a     *)
(* restore that did not finish.                                            *)
(*                                                                         *)
(* A restore moves the current databases to a safety set and renames the   *)
(* staged ones into place, one file at a time, behind a journal; every     *)
(* start of the application recovers first.  A process may die between any *)
(* two steps, recovery's own included, and a power loss also undoes any    *)
(* directory change not yet flushed.  The content of a database is a       *)
(* number; its WAL is folded back before a restore touches it.             *)
(***************************************************************************)
EXTENDS Integers, FiniteSets

CONSTANTS
  Name,        \* the databases of a profile
  Absent,      \* "no such file"
  None,        \* "no journal"
  MaxContent,  \* bound: contents written to databases
  MaxFailures  \* bound: process deaths and power losses

ASSUME NameAssumption    == Name # {} /\ IsFiniteSet(Name)
ASSUME AbsentAssumption  == Absent \notin Int
ASSUME ContentAssumption == MaxContent \in Nat /\ MaxContent >= 1
ASSUME FailureAssumption == MaxFailures \in Nat

VARIABLES
  disk,      \* the directories as a running process sees them
  flushed,   \* the directories as a power loss is sure to leave them
  sets,      \* the published backup sets, the latest safety set aside
  op,        \* what the process holding the instance lock is doing
  purpose,   \* what it was started for
  written,   \* the latest content the application wrote
  failures   \* process deaths and power losses so far

vars == <<disk, flushed, sets, op, purpose, written, failures>>

Content == 0..MaxContent
Matched == [Name -> Content]
Files == [Name -> Content \cup {Absent}]
Nothing == [n \in Name |-> Absent]
Step == {"prepared", "moving", "installing", "complete"}
Journal == [step : Step, fresh : BOOLEAN, set : Matched, old : Files]
ASSUME NoneAssumption == None \notin Journal \cup Matched
Directories ==
  [live : Files,      \* the application's databases
   safety : Files,    \* the latest pre-restore set
   staged : Files,    \* the copy of the set being restored
   journal : Journal \cup {None}]
Op == {"off", "recover", "wipe", "rollback", "undo", "discard", "finish",
       "opening", "open", "restore", "swap"}

TypeOK ==
  /\ disk \in Directories
  /\ flushed \in Directories
  /\ sets \subseteq Matched
  /\ op \in Op
  /\ purpose \in {"open", "restore", "done"}
  /\ written \in Content
  /\ failures \in 0..MaxFailures

-----------------------------------------------------------------------------
journal == disk.journal
Incomplete(j) == j # None /\ j.step # "complete"

(* syncDir returns once the kernel has flushed the directories. *)
Synced == flushed = disk

(* Sets that verify: complete ones. *)
Sets == sets \cup ({disk.safety} \cap Matched)

(* What follows recovery, or a restore that is done. *)
Proceed ==
  CASE purpose = "open" -> "opening" [] purpose = "restore" -> "restore" [] OTHER -> "off"

(* Fault: rollback wants the whole safety set although the old databases   *)
(* may not have been moved yet.                                            *)
RollbackValidWhole == \A n \in Name : disk.safety[n] = journal.old[n]

(* validateRollback: every database is in the safety set as the manifest   *)
(* lists it, or still in place if the new ones are not being installed.    *)
RollbackValid ==
  \A n \in Name :
    IF disk.safety[n] = Absent
    THEN journal.step # "installing" /\ disk.live[n] # Absent
    ELSE disk.safety[n] = journal.old[n]

Init ==
  /\ disk = [live |-> Nothing, safety |-> Nothing, staged |-> Nothing, journal |-> None]
  /\ flushed = disk
  /\ sets = {[n \in Name |-> 1]}   \* brought from another computer
  /\ op = "off"
  /\ purpose = "done"
  /\ written = 1
  /\ failures = 0

(* The application or the restore command takes the instance lock. *)
Start(p) ==
  /\ op = "off"
  /\ op' = "recover"
  /\ purpose' = p
  /\ UNCHANGED <<disk, flushed, sets, written, failures>>

(* Fault: recovery takes a journal that is installing for a finished one. *)
RecoverForward ==
  /\ op = "recover"
  /\ op' = CASE journal = None            -> Proceed
             [] journal # None /\ journal.step \in {"installing", "complete"} -> "finish"
             [] Incomplete(journal) /\ journal.fresh        -> "wipe"
             [] OTHER -> IF RollbackValid THEN "rollback" ELSE "off"
  /\ UNCHANGED <<disk, flushed, sets, purpose, written, failures>>

(* recover: what the journal found asks for. *)
Recover ==
  /\ op = "recover"
  /\ op' = CASE journal = None            -> Proceed
             [] journal # None /\ journal.step = "complete" -> "finish"
             [] Incomplete(journal) /\ journal.fresh        -> "wipe"
             [] OTHER -> IF RollbackValid THEN "rollback" ELSE "off"
  /\ UNCHANGED <<disk, flushed, sets, purpose, written, failures>>

-----------------------------------------------------------------------------
(* Recovery. *)

(* rollbackFresh: every database there was installed by the restore. *)
Wipe(n) ==
  /\ op = "wipe"
  /\ disk.live[n] # Absent
  /\ disk' = [disk EXCEPT !.live[n] = Absent]
  /\ UNCHANGED <<flushed, sets, op, purpose, written, failures>>

Wiped ==
  /\ op = "wipe"
  /\ disk.live = Nothing
  /\ Synced
  /\ op' = "finish"
  /\ UNCHANGED <<disk, flushed, sets, purpose, written, failures>>

(* Fault: the safety copy is renamed back. *)
RollbackByRename(n) ==
  /\ op = "rollback"
  /\ disk.safety[n] \notin {Absent, disk.live[n]}
  /\ disk' = [disk EXCEPT !.live[n] = disk.safety[n], !.safety[n] = Absent]
  /\ UNCHANGED <<flushed, sets, op, purpose, written, failures>>

(* rollbackMember copies a database back; the safety set keeps its own. *)
Rollback(n) ==
  /\ op = "rollback"
  /\ disk.safety[n] \notin {Absent, disk.live[n]}
  /\ disk' = [disk EXCEPT !.live[n] = disk.safety[n]]
  /\ UNCHANGED <<flushed, sets, op, purpose, written, failures>>

RolledBack ==
  /\ op = "rollback"
  /\ \A n \in Name : disk.safety[n] \in {Absent, disk.live[n]}
  /\ Synced
  /\ op' = "undo"
  /\ UNCHANGED <<disk, flushed, sets, purpose, written, failures>>

(* finish, after a restore, a rollback or a wipe: the staged files go in   *)
(* any order, then the journal, then the directory is synced.              *)
FinishStage(n) ==
  /\ op \in {"finish", "undo"}
  /\ journal # None
  /\ disk.staged[n] # Absent
  /\ disk' = [disk EXCEPT !.staged[n] = Absent]
  /\ UNCHANGED <<flushed, sets, op, purpose, written, failures>>

FinishJournal ==
  /\ op \in {"finish", "undo"}
  /\ journal # None
  /\ disk.staged = Nothing
  /\ disk' = [disk EXCEPT !.journal = None]
  /\ UNCHANGED <<flushed, sets, op, purpose, written, failures>>

(* Fault: the safety set is removed after a finished restore, too. *)
FinishedDiscarding ==
  /\ op \in {"finish", "undo"}
  /\ journal = None
  /\ Synced
  /\ op' = "discard"
  /\ UNCHANGED <<disk, flushed, sets, purpose, written, failures>>

Finished ==
  /\ op \in {"finish", "undo"}
  /\ journal = None
  /\ Synced
  /\ op' = IF op = "undo" THEN "discard" ELSE Proceed
  /\ UNCHANGED <<disk, flushed, sets, purpose, written, failures>>

(* A rolled-back safety set is removed once nothing needs it. *)
Discard(n) ==
  /\ op = "discard"
  /\ disk.safety[n] # Absent
  /\ disk' = [disk EXCEPT !.safety[n] = Absent]
  /\ UNCHANGED <<flushed, sets, op, purpose, written, failures>>

Discarded ==
  /\ op = "discard"
  /\ disk.safety = Nothing
  /\ Synced
  /\ op' = Proceed
  /\ UNCHANGED <<disk, flushed, sets, purpose, written, failures>>

-----------------------------------------------------------------------------
(* The application. *)

(* A database that is missing is created, one after the other. *)
Create(n) ==
  /\ op = "opening"
  /\ Synced
  /\ disk.live[n] = Absent
  /\ disk' = [disk EXCEPT !.live[n] = 0]
  /\ flushed' = disk'
  /\ UNCHANGED <<sets, op, purpose, written, failures>>

Opened ==
  /\ op = "opening"
  /\ disk.live \in Matched
  /\ op' = "open"
  /\ UNCHANGED <<disk, flushed, sets, purpose, written, failures>>

(* A commit.  SQLite flushes the directory with the first sync of a WAL it *)
(* created, so what an earlier process left behind is flushed by then.     *)
Write(n) ==
  /\ op = "open"
  /\ Synced
  /\ written < MaxContent
  /\ written' = written + 1
  /\ disk' = [disk EXCEPT !.live[n] = written + 1]
  /\ flushed' = disk'
  /\ UNCHANGED <<sets, op, purpose, failures>>

(* Capture holds all three writers, so the copy is matched; the finished   *)
(* set is published by one rename.                                         *)
Capture ==
  /\ op = "open"
  /\ sets' = sets \cup {disk.live}
  /\ UNCHANGED <<disk, flushed, op, purpose, written, failures>>

-----------------------------------------------------------------------------
(* The restore. *)

(* A verified set is staged, the safety set's manifest written, and the    *)
(* journal names both.  A profile with only some databases is refused.     *)
(* Staging copies and syncs three databases: whatever an earlier process   *)
(* left unflushed is flushed by then.                                      *)
Restore(set) ==
  /\ op = "restore"
  /\ Synced
  /\ disk.live \in Matched \cup {Nothing}
  /\ sets' = Sets
  /\ flushed' = [disk EXCEPT !.safety = Nothing, !.staged = set]
  /\ disk' = [flushed' EXCEPT !.journal = [step |-> "prepared", fresh |-> disk.live = Nothing,
                                          set |-> set, old |-> disk.live]]
  /\ op' = "swap"
  /\ purpose' = "done"
  /\ UNCHANGED <<written, failures>>

(* Anything else than such a profile and a set that verifies is refused. *)
Refuse ==
  /\ op = "restore"
  /\ op' = "off"
  /\ UNCHANGED <<disk, flushed, sets, purpose, written, failures>>

(* The steps of swap in the order the journal names them. *)
NextStep ==
  CASE journal.step = "prepared" ->
         IF journal.fresh THEN "installing" ELSE "moving"
    [] journal.step = "moving" /\ disk.live = Nothing -> "installing"
    [] journal.step = "installing" /\ disk.staged = Nothing -> "complete"
    [] OTHER -> journal.step

(* Fault: the journal moves on before the files have reached the disk. *)
JournalStepUnsynced ==
  /\ op = "swap"
  /\ NextStep # journal.step
  /\ disk' = [disk EXCEPT !.journal.step = NextStep]
  /\ UNCHANGED <<flushed, sets, op, purpose, written, failures>>

JournalStep ==
  /\ op = "swap"
  /\ Synced
  /\ NextStep # journal.step
  /\ disk' = [disk EXCEPT !.journal.step = NextStep]
  /\ UNCHANGED <<flushed, sets, op, purpose, written, failures>>

MoveCurrent(n) ==
  /\ op = "swap"
  /\ Synced
  /\ journal.step = "moving"
  /\ disk.live[n] # Absent
  /\ disk' = [disk EXCEPT !.safety[n] = disk.live[n], !.live[n] = Absent]
  /\ UNCHANGED <<flushed, sets, op, purpose, written, failures>>

Install(n) ==
  /\ op = "swap"
  /\ Synced
  /\ journal.step = "installing"
  /\ disk.staged[n] # Absent
  /\ disk' = [disk EXCEPT !.live[n] = disk.staged[n], !.staged[n] = Absent]
  /\ UNCHANGED <<flushed, sets, op, purpose, written, failures>>

Swapped ==
  /\ op = "swap"
  /\ Synced
  /\ journal.step = "complete"
  /\ op' = "finish"
  /\ UNCHANGED <<disk, flushed, sets, purpose, written, failures>>

-----------------------------------------------------------------------------
(* The kernel writes directory changes back, on a sync or on its own. *)
Flush ==
  /\ ~ Synced
  /\ flushed' = disk
  /\ UNCHANGED <<disk, sets, op, purpose, written, failures>>

(* The process is killed, or a file operation fails and it gives up: the   *)
(* lock goes, the directories stay.  An open application may just be quit. *)
Die ==
  /\ op # "off"
  /\ failures < MaxFailures
  /\ failures' = failures + 1
  /\ op' = "off"
  /\ UNCHANGED <<disk, flushed, sets, purpose, written>>

Quit ==
  /\ op = "open"
  /\ op' = "off"
  /\ UNCHANGED <<disk, flushed, sets, purpose, written, failures>>

(* The power goes: of what was not flushed, each file's last rename and    *)
(* the journal's last write may or may not have reached the disk.          *)
PowerLoss(lost, j) ==
  LET left(dir) == [n \in Name |-> IF n \in lost THEN flushed[dir][n] ELSE disk[dir][n]]
  IN /\ failures < MaxFailures
     /\ failures' = failures + 1
     /\ op' = "off"
     /\ flushed' = [live |-> left("live"), safety |-> left("safety"),
                    staged |-> left("staged"), journal |-> j]
     /\ disk' = flushed'
     /\ UNCHANGED <<sets, purpose, written>>

Next ==
  \/ \E p \in {"open", "restore"} : Start(p)
  \/ Recover
  \/ \E n \in Name : Wipe(n) \/ Rollback(n) \/ FinishStage(n) \/ Discard(n)
  \/ Wiped \/ RolledBack \/ FinishJournal \/ Finished \/ Discarded
  \/ \E n \in Name : Create(n) \/ Write(n)
  \/ Opened \/ Capture \/ Quit
  \/ \E set \in Sets : Restore(set)
  \/ Refuse
  \/ \E n \in Name : MoveCurrent(n) \/ Install(n)
  \/ JournalStep \/ Swapped
  \/ Flush
  \/ Die
  \/ \E lost \in SUBSET Name, j \in {disk.journal, flushed.journal} : PowerLoss(lost, j)

Spec == Init /\ [][Next]_vars

(* A started process goes on, the kernel writes back in the end, and the   *)
(* user starts the application or the restore again.  Failures are finite. *)
RecoveryGoesOn ==
  /\ WF_vars(\E p \in {"open", "restore"} : Start(p))
  /\ WF_vars(Recover)
  /\ WF_vars(\E n \in Name : Wipe(n) \/ Rollback(n) \/ FinishStage(n) \/ Discard(n))
  /\ WF_vars(Wiped \/ RolledBack \/ FinishJournal \/ Finished \/ Discarded)
  /\ WF_vars(\E n \in Name : MoveCurrent(n) \/ Install(n))
  /\ WF_vars(JournalStep \/ Swapped)
  /\ WF_vars(Flush)

FairSpec == Spec /\ RecoveryGoesOn

-----------------------------------------------------------------------------
(* Properties. *)

(* Wherever a restore or a rollback was interrupted, recovery finds every  *)
(* replaced database in the safety set or still in place: it never refuses *)
(* (validateRollback).                                                     *)
RollbackPossible ==
  Incomplete(journal) /\ ~ journal.fresh => RollbackValid

(* The application never opens a half-restored profile: as long as a power *)
(* loss could bring an unfinished journal back, it shows the profile the   *)
(* restore found or the set it restored, whole.                            *)
AppSeesWholeProfile ==
  op \in {"opening", "open"} /\ Incomplete(flushed.journal) =>
    disk.live \in {flushed.journal.old, flushed.journal.set}

(* The profile recovery would leave if the process died now. *)
Profile == IF Incomplete(journal) THEN journal.old ELSE disk.live

Kept == (Sets \cup {Profile}) \cap Matched

(* Only the application's own commits replace a profile for good: no       *)
(* restore, rollback, crash or power loss loses one that could be restored *)
(* or was in use.                                                          *)
NoProfileLost == [][op \notin {"opening", "open"} => Kept \subseteq Kept']_vars

(* A restore that was interrupted is finished or undone. *)
RestoreEnds == journal # None ~> journal = None

(* The profile a power loss is sure to leave, and the restore under way. *)
DurableProfile == IF Incomplete(flushed.journal) THEN flushed.journal.old ELSE flushed.live
DurablePending == IF Incomplete(flushed.journal) THEN flushed.journal.set ELSE None

Atomic == INSTANCE AtomicRestore WITH profile <- DurableProfile, pending <- DurablePending

(* The journaled restore, its recovery and every failure in between act as *)
(* one atomic replacement of the profile, or as none.                      *)
ImplementsAtomicRestore == Atomic!Spec
=============================================================================
