--------------------------- MODULE BackupRestoreProofs ---------------------------
(***************************************************************************)
(* What a restore and its recovery keep true of every mixture of directory *)
(* changes that a power loss can leave, and the safety properties of       *)
(* BackupRestore that follow from it; then what a power loss may still     *)
(* undo: a restore loses no profile, and acts as one atomic replacement.   *)
(***************************************************************************)
EXTENDS BackupRestore, TLAPS

Journals == {disk.journal, flushed.journal} \ {None}

(* The journals that may come back are of one restore, of a profile that   *)
(* was whole or not there.                                                 *)
OneRestore ==
  /\ \A j \in Journals : j.old \in Matched \cup {Nothing} /\ (j.fresh <=> j.old = Nothing)
  /\ \A j, k \in Journals : j.old = k.old /\ j.set = k.set

(* What d holds of a database gives back its old content.                  *)
Held(j, d, n) ==
  IF d.safety[n] = Absent THEN j.step # "installing" /\ d.live[n] = j.old[n]
  ELSE d.safety[n] = j.old[n]

(* Whichever journal comes back, and with whichever files, the restore can *)
(* be undone.                                                              *)
Undoable ==
  \A j \in Journals : Incomplete(j) /\ ~ j.fresh =>
    \A n \in Name : Held(j, disk, n) /\ Held(j, flushed, n)

(* A restore that is over for the running process is over whole.           *)
Settled ==
  ~ Incomplete(journal) /\ Incomplete(flushed.journal) =>
    disk.live \in {flushed.journal.old, flushed.journal.set}

(* Where a restore stands between two of its steps.                        *)
Swapping ==
  op = "swap" =>
    /\ journal # None
    /\ journal.step \in {"prepared", "moving"} => disk.staged = journal.set
    /\ journal.step = "prepared" => disk.live = journal.old /\ disk.safety = Nothing
    /\ journal.step = "moving" =>
         ~ journal.fresh /\ \A n \in Name : disk.live[n] = Absent \/ disk.safety[n] = Absent
    /\ journal.step = "installing" =>
         \A n \in Name : \/ disk.staged[n] = journal.set[n] /\ disk.live[n] = Absent
                         \/ disk.staged[n] = Absent /\ disk.live[n] = journal.set[n]
    /\ journal.step = "complete" => disk.live = journal.set

(* What each stage of a recovery has found or done.                        *)
Recovering ==
  /\ op \in {"opening", "open", "restore", "discard"} => journal = None
  /\ op = "open" => disk.live \in Matched
  /\ op = "discard" => flushed.journal = None
  /\ op = "wipe" => Incomplete(journal) /\ journal.fresh
  /\ op = "rollback" => Incomplete(journal) /\ ~ journal.fresh
  /\ op = "undo" /\ journal # None => 
       Incomplete(journal) /\ ~ journal.fresh /\ disk.live = journal.old
  /\ op = "finish" /\ Incomplete(journal) => journal.fresh /\ disk.live = journal.old

IInv == TypeOK /\ OneRestore /\ Undoable /\ Settled /\ Swapping /\ Recovering

-----------------------------------------------------------------------------
LEMMA TypedInit == Init => TypeOK
  BY ContentAssumption, FailureAssumption
  DEF Init, TypeOK, Directories, Nothing, Files, Op, Content, Matched

LEMMA TypedStep == IInv /\ [Next]_vars => TypeOK'
  <1> SUFFICES ASSUME IInv, [Next]_vars PROVE TypeOK' OBVIOUS
  <1>0. TypeOK /\ Swapping /\ Recovering BY DEF IInv
  <1>1. disk \in Directories /\ flushed \in Directories BY <1>0 DEF TypeOK
  <1>2. ASSUME NEW p \in {"open", "restore"}, Start(p) PROVE TypeOK'
    BY <1>0, <1>2 DEF Start, TypeOK, Op
  <1>3. CASE Recover
    <2>1. Proceed \in Op BY DEF Proceed, Op
    <2>2. op' \in Op BY <1>0, <1>3, <2>1 DEF Recover, Op
    <2> QED BY <1>0, <1>3, <2>2 DEF Recover, TypeOK
  <1>4. ASSUME NEW n \in Name, Wipe(n) \/ Rollback(n) \/ FinishStage(n) \/ Discard(n)
        PROVE TypeOK'
    <2>1. disk.safety[n] \in Content \cup {Absent} BY <1>0, <1>1 DEF Directories, Files
    <2>2. Wipe(n) => disk' \in Directories
      BY <1>0, <1>1 DEF Wipe, Directories, Files
    <2>3. Rollback(n) => disk' \in Directories
      BY <1>0, <1>1, <2>1 DEF Rollback, Directories, Files
    <2>4. FinishStage(n) => disk' \in Directories
      BY <1>0, <1>1, <2>1 DEF FinishStage, Directories, Files
    <2>5. Discard(n) => disk' \in Directories
      BY <1>0, <1>1, <2>1 DEF Discard, Directories, Files
    <2> QED BY <1>0, <1>4, <2>2, <2>3, <2>4, <2>5 DEF Wipe, Rollback, FinishStage, Discard, TypeOK
  <1>5. CASE Wiped \/ RolledBack \/ Finished \/ Discarded
    <2>1. Proceed \in Op BY DEF Proceed, Op
    <2> QED BY <1>0, <1>5, <2>1 DEF Wiped, RolledBack, Finished, Discarded, TypeOK, Op
  <1>6. CASE FinishJournal
    <2>1. disk' \in Directories BY <1>0, <1>1, <1>6 DEF FinishJournal, Directories
    <2> QED BY <1>0, <1>6, <2>1 DEF FinishJournal, TypeOK
  <1>7. ASSUME NEW n \in Name, Create(n) \/ Write(n) PROVE TypeOK'
    <2>1. 0 \in Content /\ (written < MaxContent => written + 1 \in Content)
      BY <1>0, ContentAssumption DEF Content, TypeOK
    <2>2. Create(n) => disk' \in Directories
      BY <1>0, <1>1, <2>1 DEF Create, Directories, Files
    <2>3. Write(n) => disk' \in Directories
      BY <1>0, <1>1, <2>1 DEF Write, Directories, Files
    <2> QED BY <1>0, <1>7, <2>1, <2>2, <2>3 DEF Create, Write, TypeOK
  <1>8. CASE Opened \/ Quit \/ Refuse \/ Swapped \/ Flush
    BY <1>0, <1>8 DEF Opened, Quit, Refuse, Swapped, Flush, TypeOK, Op
  <1>9. CASE Capture
    BY <1>0, <1>9 DEF Capture, TypeOK, Recovering
  <1>10. ASSUME NEW set \in Sets, Restore(set) PROVE TypeOK'
    <2>1. Sets \subseteq Matched BY <1>0 DEF Sets, TypeOK
    <2>2. disk.live \in Files /\ set \in Files /\ Nothing \in Files
      BY <1>0, <1>1, <2>1 DEF Directories, Matched, Files, Nothing
    <2>3. flushed' \in Directories /\ flushed'.live = disk.live
      BY <1>0, <1>1, <1>10, <2>2 DEF Restore, Directories
    <2>4. disk'.journal \in Journal
      BY <1>0, <1>1, <1>10, <2>1, <2>2, <2>3 DEF Restore, Directories, Journal, Step
    <2>5. disk' \in Directories
      BY <1>0, <1>1, <1>10, <2>3, <2>4 DEF Restore, Directories
    <2> QED BY <1>0, <1>10, <2>1, <2>3, <2>5 DEF Restore, TypeOK, Op
  <1>11. ASSUME NEW n \in Name, MoveCurrent(n) \/ Install(n) PROVE TypeOK'
    <2>1. /\ disk.live[n] \in Content \cup {Absent} 
          /\ disk.staged[n] \in Content \cup {Absent}
      BY <1>0, <1>1 DEF Directories, Files
    <2>2. MoveCurrent(n) => disk' \in Directories
      <3>1. /\ [disk.live EXCEPT ![n] = Absent] \in Files
            /\ [disk.safety EXCEPT ![n] = disk.live[n]] \in Files
        BY <1>1, <2>1 DEF Directories, Files
      <3>2. disk \in [live : Files, safety : Files, staged : Files, journal : Journal \cup {None}]
        BY <1>1 DEF Directories
      <3>3. MoveCurrent(n) => disk' = [disk EXCEPT !.safety = [disk.safety EXCEPT ![n] = disk.live[n]],
                                                   !.live = [disk.live EXCEPT ![n] = Absent]]
        BY <3>2 DEF MoveCurrent
      <3> QED BY <3>1, <3>2, <3>3 DEF Directories
    <2>3. Install(n) => disk' \in Directories
      <3>1. /\ [disk.staged EXCEPT ![n] = Absent] \in Files
            /\ [disk.live EXCEPT ![n] = disk.staged[n]] \in Files
        BY <1>1, <2>1 DEF Directories, Files
      <3>2. disk \in [live : Files, safety : Files, staged : Files, journal : Journal \cup {None}]
        BY <1>1 DEF Directories
      <3>3. Install(n) => disk' = [disk EXCEPT !.live = [disk.live EXCEPT ![n] = disk.staged[n]],
                                               !.staged = [disk.staged EXCEPT ![n] = Absent]]
        BY <3>2 DEF Install
      <3> QED BY <3>1, <3>2, <3>3 DEF Directories
    <2> QED BY <1>0, <1>11, <2>2, <2>3 DEF MoveCurrent, Install, TypeOK
  <1>12. CASE JournalStep
    <2>1. journal \in Journal
      BY <1>0, <1>1, <1>12 DEF JournalStep, Swapping, Directories, journal
    <2>2. NextStep \in Step BY <2>1 DEF NextStep, Journal, Step
    <2>3. disk' \in Directories
      BY <1>0, <1>1, <1>12, <2>1, <2>2 DEF JournalStep, Directories, Journal, journal
    <2> QED BY <1>0, <1>12, <2>3 DEF JournalStep, TypeOK
  <1>13. CASE Die
    BY <1>0, <1>13, FailureAssumption DEF Die, TypeOK, Op
  <1>14. ASSUME NEW lost \in SUBSET Name, NEW j \in {disk.journal, flushed.journal}, PowerLoss(lost, j)
         PROVE TypeOK'
    <2>1. flushed' \in Directories
      BY <1>0, <1>1, <1>14 DEF PowerLoss, Directories, Files
    <2> QED BY <1>0, <1>14, <2>1, FailureAssumption DEF PowerLoss, TypeOK, Op
  <1>15. CASE UNCHANGED vars
    BY <1>0, <1>15 DEF vars, TypeOK
  <1> QED
    BY <1>2, <1>3, <1>4, <1>5, <1>6, <1>7, <1>8, <1>9, <1>10, <1>11, <1>12, <1>13, <1>14, <1>15
    DEF Next

-----------------------------------------------------------------------------
(* What depends on the directories alone stays with them.                  *)
Lasting == OneRestore /\ Undoable /\ Settled

LEMMA SameDirectories ==
  ASSUME Lasting, UNCHANGED <<disk, flushed>>
  PROVE  Lasting'
  BY DEF Lasting, OneRestore, Undoable, Settled, Journals, Incomplete, Held, journal

LEMMA InitHolds == Init => IInv
  <1> SUFFICES ASSUME Init PROVE IInv OBVIOUS
  <1>1. disk.journal = None /\ flushed.journal = None /\ op = "off" BY DEF Init
  <1> QED
    BY <1>1, TypedInit
    DEF IInv, OneRestore, Undoable, Settled, Swapping, Recovering, Journals, Incomplete, journal

(* Steps that leave the directories as they are.                           *)
LEMMA QuietKeeps ==
  ASSUME IInv, NEW p,
         \/ Start(p) \/ Recover \/ Wiped \/ RolledBack \/ Finished \/ Discarded
         \/ Opened \/ Quit \/ Refuse \/ Swapped \/ Capture \/ Die
  PROVE  Lasting' /\ Swapping' /\ Recovering'
<1>1. UNCHANGED <<disk, flushed>>
  BY DEF Start, Recover, Wiped, RolledBack, Finished, Discarded, Opened, Quit, Refuse, Swapped,
         Capture, Die
<1>2. Lasting'
  BY <1>1, SameDirectories DEF IInv, Lasting
<1>3. Proceed \in {"opening", "restore", "off"}
  BY DEF Proceed
<1>4. journal = None \/ journal \in Journal
  BY DEF IInv, TypeOK, Directories, journal
<1>5. CASE Start(p) \/ Quit \/ Refuse \/ Die
  <2>1. op' \in {"recover", "off"} BY <1>5 DEF Start, Quit, Refuse, Die
  <2> QED BY <1>2, <2>1 DEF Swapping, Recovering
<1>6. CASE Recover
  <2>1. \/ op' \in {"opening", "restore", "off"} /\ (op' = "off" \/ journal = None)
        \/ op' = "finish" /\ ~ Incomplete(journal)
        \/ op' = "wipe" /\ Incomplete(journal) /\ journal.fresh
        \/ op' = "rollback" /\ Incomplete(journal) /\ ~ journal.fresh
    BY <1>3, <1>6 DEF Recover, Incomplete
  <2> QED BY <1>1, <1>2, <2>1 DEF Swapping, Recovering, journal, Incomplete
<1>7. CASE Wiped
  <2>1. op' = "finish" /\ journal.fresh /\ Incomplete(journal) /\ disk.live = Nothing
    BY <1>7 DEF Wiped, IInv, Recovering
  <2>2. journal.old = Nothing
    BY <2>1 DEF IInv, OneRestore, Journals, journal, Incomplete
  <2> QED BY <1>1, <1>2, <2>1, <2>2 DEF Swapping, Recovering, journal, Incomplete
<1>8. CASE RolledBack
  <2>1. op' = "undo" /\ ~ journal.fresh /\ Incomplete(journal)
    BY <1>8 DEF RolledBack, IInv, Recovering
  <2>2. journal \in Journals /\ journal.old \in Files
    BY <2>1, <1>4 DEF Journals, journal, Incomplete, Journal
  <2>3. \A n \in Name : disk.live[n] = journal.old[n]
    BY <1>8, <2>1, <2>2 DEF RolledBack, IInv, Undoable, Held
  <2>4. disk.live = journal.old
    BY <2>2, <2>3 DEF IInv, TypeOK, Directories, Files
  <2> QED BY <1>1, <1>2, <2>1, <2>4 DEF Swapping, Recovering, journal, Incomplete
<1>9. CASE Finished \/ Discarded
  <2>1. journal = None /\ (op' = "discard" => flushed.journal = None)
        /\ op' \in {"discard", "opening", "restore", "off"}
    BY <1>3, <1>9 DEF Finished, Discarded, IInv, Recovering, Synced, journal
  <2> QED BY <1>1, <1>2, <2>1 DEF Swapping, Recovering, journal
<1>10. CASE Opened
  BY <1>1, <1>2, <1>10 DEF Opened, Swapping, Recovering, journal, IInv
<1>11. CASE Swapped
  <2>1. op' = "finish" /\ ~ Incomplete(journal) BY <1>11 DEF Swapped, Incomplete
  <2> QED BY <1>1, <1>2, <2>1 DEF Swapping, Recovering, journal, Incomplete
<1>12. CASE Capture
  BY <1>1, <1>2, <1>12 DEF Capture, Swapping, Recovering, journal, IInv
<1> QED
  BY <1>5, <1>6, <1>7, <1>8, <1>9, <1>10, <1>11, <1>12

(* The journal stays, and only databases being put away are lost: what can *)
(* be undone still can.                                                    *)
LEMMA WipeKeeps ==
  ASSUME IInv, NEW n \in Name, Wipe(n)
  PROVE  Lasting' /\ Swapping' /\ Recovering'
<1>1. op = "wipe" /\ op' = "wipe" /\ flushed' = flushed /\ Incomplete(journal) /\ journal.fresh
  BY DEF Wipe, IInv, Recovering
<1>2. disk'.journal = disk.journal
  BY DEF Wipe, IInv, TypeOK, Directories
<1>3. journal \in Journals
  BY <1>1 DEF Journals, Incomplete, journal
<1>4. \A j \in Journals : j.fresh
  BY <1>1, <1>3 DEF IInv, OneRestore
<1> QED
  BY <1>1, <1>2, <1>4
  DEF Lasting, IInv, OneRestore, Undoable, Settled, Swapping, Recovering, Journals, Incomplete, journal

LEMMA RollbackKeeps ==
  ASSUME IInv, NEW n \in Name, Rollback(n)
  PROVE  Lasting' /\ Swapping' /\ Recovering'
<1>1. /\ op = "rollback" /\ op' = "rollback" /\ flushed' = flushed
      /\ Incomplete(journal) /\ ~ journal.fresh /\ disk.safety[n] # Absent
  BY DEF Rollback, IInv, Recovering
<1>2. disk'.journal = disk.journal /\ disk'.safety = disk.safety
      /\ \A m \in Name \ {n} : disk'.live[m] = disk.live[m]
  BY DEF Rollback, IInv, TypeOK, Directories, Files
<1>3. Undoable'
  <2> SUFFICES ASSUME NEW j \in Journals', Incomplete(j), ~ j.fresh, NEW m \in Name
               PROVE  Held(j, disk, m)' /\ Held(j, flushed, m)'
    BY DEF Undoable, Incomplete
  <2>1. j \in Journals BY <1>1, <1>2 DEF Journals
  <2>2. Held(j, disk, m) /\ Held(j, flushed, m) BY <2>1 DEF IInv, Undoable
  <2> QED BY <1>1, <1>2, <2>2 DEF Held
<1> QED
  BY <1>1, <1>2, <1>3
  DEF Lasting, IInv, OneRestore, Settled, Swapping, Recovering, Journals, Incomplete, journal

LEMMA FinishStageKeeps ==
  ASSUME IInv, NEW n \in Name, FinishStage(n)
  PROVE  Lasting' /\ Swapping' /\ Recovering'
<1>1. op \in {"finish", "undo"} /\ op' = op /\ flushed' = flushed
  BY DEF FinishStage
<1>2. disk'.journal = disk.journal /\ disk'.safety = disk.safety /\ disk'.live = disk.live
  BY DEF FinishStage, IInv, TypeOK, Directories, Files
<1> QED
  BY <1>1, <1>2
  DEF Lasting, IInv, OneRestore, Undoable, Held, Settled, Swapping, Recovering, Journals, Incomplete,
      journal

LEMMA FinishJournalKeeps ==
  ASSUME IInv, FinishJournal
  PROVE  Lasting' /\ Swapping' /\ Recovering'
<1>1. op \in {"finish", "undo"} /\ op' = op /\ flushed' = flushed /\ journal # None
  BY DEF FinishJournal
<1>2. disk'.journal = None /\ disk'.safety = disk.safety /\ disk'.live = disk.live
  BY DEF FinishJournal, IInv, TypeOK, Directories, Files
<1>3. Journals' \subseteq Journals
  BY <1>1, <1>2 DEF Journals
<1>4. OneRestore' /\ Undoable'
  BY <1>1, <1>2, <1>3 DEF IInv, OneRestore, Undoable, Held, Incomplete
<1>5. Settled'
  <2> SUFFICES ASSUME Incomplete(flushed.journal)
               PROVE  disk.live \in {flushed.journal.old, flushed.journal.set}
    BY <1>1, <1>2 DEF Settled, Incomplete, journal
  <2>1. flushed.journal.old = journal.old
    BY <1>1 DEF Incomplete, IInv, OneRestore, Journals, journal
  <2>2. CASE Incomplete(journal)
    BY <1>1, <2>1, <2>2 DEF IInv, Recovering
  <2>3. CASE ~ Incomplete(journal)
    BY <2>3 DEF IInv, Settled
  <2> QED BY <2>2, <2>3
<1> QED
  BY <1>1, <1>2, <1>4, <1>5 DEF Lasting, Swapping, Recovering, Incomplete, journal

LEMMA DiscardKeeps ==
  ASSUME IInv, NEW n \in Name, Discard(n)
  PROVE  Lasting' /\ Swapping' /\ Recovering'
<1>1. op = "discard" /\ op' = op /\ flushed' = flushed /\ journal = None /\ flushed.journal = None
  BY DEF Discard, IInv, Recovering
<1>2. disk'.journal = None
  BY <1>1 DEF Discard, IInv, TypeOK, Directories, journal
<1> QED
  BY <1>1, <1>2
  DEF Lasting, OneRestore, Undoable, Settled, Swapping, Recovering, Journals, Incomplete, journal

(* The application changes a profile only when no journal can come back.   *)
LEMMA WriteKeeps ==
  ASSUME IInv, NEW n \in Name, Create(n) \/ Write(n)
  PROVE  Lasting' /\ Swapping' /\ Recovering'
<1>1. op \in {"opening", "open"} /\ op' = op /\ flushed' = disk' /\ journal = None
  BY DEF Create, Write, IInv, Recovering
<1>2. disk'.journal = None
  BY <1>1 DEF Create, Write, IInv, TypeOK, Directories, journal
<1>3. op = "open" => disk'.live \in Matched
  <2>1. op = "open" => Write(n) /\ written + 1 \in Content
    BY ContentAssumption DEF Create, Write, IInv, TypeOK, Content
  <2> QED
    BY <2>1 DEF Write, IInv, TypeOK, Directories, Recovering, Matched
<1> QED
  BY <1>1, <1>2, <1>3
  DEF Lasting, OneRestore, Undoable, Settled, Swapping, Recovering, Journals, Incomplete, journal

(* A journal and a safety set of its own are written before anything moves.*)
LEMMA RestoreIs ==
  ASSUME IInv, NEW set \in Sets, Restore(set)
  PROVE  /\ op' = "swap" /\ journal = None /\ disk.live \in Matched \cup {Nothing}
         /\ flushed'.journal = None /\ flushed'.live = disk.live /\ flushed'.safety = Nothing
         /\ flushed' \in Directories
         /\ disk'.journal = [step |-> "prepared", fresh |-> disk.live = Nothing,
                             set |-> set, old |-> disk.live]
         /\ disk'.live = disk.live /\ disk'.safety = Nothing /\ disk'.staged = set
         /\ Journals' = {disk'.journal} /\ disk'.journal.step = "prepared" /\ disk'.journal.old = disk.live
         /\ (disk'.journal.fresh <=> disk.live = Nothing) /\ disk'.journal.set = set
         /\ disk'.journal # None
<1>1. op' = "swap" /\ journal = None /\ disk.live \in Matched \cup {Nothing}
  BY DEF Restore, IInv, Recovering
<1>2. /\ flushed'.journal = None /\ flushed'.live = disk.live /\ flushed'.safety = Nothing
      /\ flushed' \in Directories
      /\ disk'.journal = [step |-> "prepared", fresh |-> disk.live = Nothing,
                          set |-> set, old |-> disk.live]
      /\ disk'.live = disk.live /\ disk'.safety = Nothing /\ disk'.staged = set
  <2>1. disk \in [live : Files, safety : Files, staged : Files, journal : Journal \cup {None}]
    BY DEF IInv, TypeOK, Directories
  <2>2. set \in Files /\ Nothing \in Files
    BY DEF IInv, TypeOK, Sets, Matched, Files, Nothing
  <2>3. /\ flushed'.journal = None /\ flushed'.live = disk.live /\ flushed'.safety = Nothing
        /\ flushed'.staged = set /\ flushed' \in Directories
    BY <1>1, <2>1, <2>2 DEF Restore, journal, Directories
  <2> QED
    BY <2>3 DEF Restore, Directories
<1>3. Journals' = {disk'.journal} /\ disk'.journal.step = "prepared" /\ disk'.journal.old = disk.live
      /\ (disk'.journal.fresh <=> disk.live = Nothing) /\ disk'.journal.set = set
      /\ disk'.journal # None
  <2>1. disk'.journal \in Journal
    <3>1. disk.live \in Files /\ set \in Matched
      BY DEF IInv, TypeOK, Directories, Sets
    <3> QED BY <1>2, <3>1 DEF Journal, Step
  <2>2. disk'.journal # None BY <2>1, NoneAssumption
  <2>3. Journals' = {disk'.journal} BY <1>2, <2>2 DEF Journals
  <2>4. /\ disk'.journal.step = "prepared" /\ disk'.journal.old = disk.live
        /\ disk'.journal.set = set
    BY <1>2
  <2>5. disk'.journal.fresh <=> disk.live = Nothing
    <3> DEFINE first == disk.live = Nothing
    <3>1. disk'.journal = [step |-> "prepared", fresh |-> first, set |-> set, old |-> disk.live]
      BY <1>2
    <3>2. first \in BOOLEAN OBVIOUS
    <3> HIDE DEF first
    <3>3. disk'.journal.fresh = first BY <3>1
    <3> QED BY <3>2, <3>3 DEF first
  <2> QED BY <2>2, <2>3, <2>4, <2>5
<1> QED BY <1>1, <1>2, <1>3

LEMMA RestoreKeeps ==
  ASSUME IInv, NEW set \in Sets, Restore(set)
  PROVE  Lasting' /\ Swapping' /\ Recovering'
<1>1. op' = "swap" /\ journal = None /\ disk.live \in Matched \cup {Nothing}
  BY RestoreIs
<1>2. /\ flushed'.journal = None /\ flushed'.live = disk.live /\ flushed'.safety = Nothing
      /\ flushed' \in Directories
      /\ disk'.journal = [step |-> "prepared", fresh |-> disk.live = Nothing,
                          set |-> set, old |-> disk.live]
      /\ disk'.live = disk.live /\ disk'.safety = Nothing /\ disk'.staged = set
  BY RestoreIs
<1>3. \A m \in Name : Nothing[m] = Absent
  BY DEF Nothing
<1>4. Journals' = {disk'.journal} /\ disk'.journal.step = "prepared" /\ disk'.journal.old = disk.live
      /\ (disk'.journal.fresh <=> disk.live = Nothing) /\ disk'.journal.set = set
      /\ disk'.journal # None
  BY RestoreIs
<1>5. OneRestore' BY <1>1, <1>4 DEF OneRestore
<1>6. Undoable' BY <1>2, <1>3, <1>4 DEF Undoable, Held
<1>7. Settled' BY <1>4 DEF Settled, Incomplete, journal
<1>8. Swapping' BY <1>2, <1>4 DEF Swapping, journal
<1> QED
  BY <1>1, <1>5, <1>6, <1>7, <1>8 DEF Lasting, Recovering

(* The steps of a restore.  Each begins when the directories are flushed,  *)
(* so at most its own change is undone by a power loss.                    *)
LEMMA JournalStepIs ==
  ASSUME IInv, JournalStep
  PROVE  /\ op = "swap" /\ op' = op /\ flushed = disk /\ flushed' = disk /\ NextStep # journal.step
         /\ journal \in Journal /\ journal # None /\ journal \in Journals
         /\ disk'.journal.step = NextStep /\ disk'.journal.old = journal.old
         /\ disk'.journal.set = journal.set /\ disk'.journal.fresh = journal.fresh
         /\ disk'.live = disk.live /\ disk'.safety = disk.safety /\ disk'.staged = disk.staged
         /\ disk'.journal # None
         /\ \A j \in Journals' : j = journal \/ j = disk'.journal
         /\ \/ journal.step = "prepared" /\ journal.fresh /\ NextStep = "installing"
            \/ journal.step = "prepared" /\ ~ journal.fresh /\ NextStep = "moving"
            \/ journal.step = "moving" /\ disk.live = Nothing /\ NextStep = "installing"
            \/ journal.step = "installing" /\ disk.staged = Nothing /\ NextStep = "complete"
         /\ journal.step = "installing" /\ disk.staged = Nothing => disk.live = journal.set
<1>1. op = "swap" /\ op' = op /\ flushed = disk /\ flushed' = disk /\ NextStep # journal.step
  BY DEF JournalStep, Synced
<1>2. journal \in Journal /\ journal # None /\ journal \in Journals
  BY <1>1, NoneAssumption DEF IInv, Swapping, TypeOK, Directories, Journals, journal
<1>3. disk' = [disk EXCEPT !.journal = [journal EXCEPT !.step = NextStep]]
  BY <1>2 DEF JournalStep, IInv, TypeOK, Directories, journal
<1>4. /\ disk'.journal.step = NextStep /\ disk'.journal.old = journal.old
      /\ disk'.journal.set = journal.set /\ disk'.journal.fresh = journal.fresh
      /\ disk'.live = disk.live /\ disk'.safety = disk.safety /\ disk'.staged = disk.staged
      /\ disk'.journal # None
  <2>1. disk \in [live : Files, safety : Files, staged : Files, journal : Journal \cup {None}]
    BY DEF IInv, TypeOK, Directories
  <2>2. NextStep \in Step BY <1>2 DEF NextStep, Journal, Step
  <2>3. disk'.journal = [journal EXCEPT !.step = NextStep] /\ disk'.journal \in Journal
    BY <1>2, <1>3, <2>1, <2>2 DEF Journal
  <2>4. disk'.live = disk.live /\ disk'.safety = disk.safety /\ disk'.staged = disk.staged
    BY <1>3, <2>1
  <2> QED BY <1>2, <2>3, <2>4, NoneAssumption DEF Journal
<1>5. \A j \in Journals' : j = journal \/ j = disk'.journal
  BY <1>1 DEF Journals, journal
<1>6. \/ journal.step = "prepared" /\ journal.fresh /\ NextStep = "installing"
      \/ journal.step = "prepared" /\ ~ journal.fresh /\ NextStep = "moving"
      \/ journal.step = "moving" /\ disk.live = Nothing /\ NextStep = "installing"
      \/ journal.step = "installing" /\ disk.staged = Nothing /\ NextStep = "complete"
  BY <1>1, <1>2 DEF NextStep, Journal, Step
<1>7. \A m \in Name : Nothing[m] = Absent
  BY DEF Nothing
<1>8. ASSUME journal.step = "installing", disk.staged = Nothing
      PROVE  disk.live = journal.set
  <2>1. \A m \in Name : journal.set[m] # Absent
    BY <1>2, AbsentAssumption DEF Journal, Matched, Content
  <2>2. \A m \in Name : disk.live[m] = journal.set[m]
    BY <1>1, <1>7, <1>8, <2>1 DEF IInv, Swapping
  <2> QED BY <1>2, <2>2 DEF IInv, TypeOK, Directories, Files, Journal, Matched
<1> QED BY <1>1, <1>2, <1>4, <1>5, <1>6, <1>8

LEMMA JournalStepKeeps ==
  ASSUME IInv, JournalStep
  PROVE  Lasting' /\ Swapping' /\ Recovering'
<1>1. op = "swap" /\ op' = op /\ flushed = disk /\ flushed' = disk /\ NextStep # journal.step
  BY JournalStepIs
<1>2. journal \in Journal /\ journal # None /\ journal \in Journals
  BY JournalStepIs
<1>4. /\ disk'.journal.step = NextStep /\ disk'.journal.old = journal.old
      /\ disk'.journal.set = journal.set /\ disk'.journal.fresh = journal.fresh
      /\ disk'.live = disk.live /\ disk'.safety = disk.safety /\ disk'.staged = disk.staged
      /\ disk'.journal # None
  BY JournalStepIs
<1>5. \A j \in Journals' : j = journal \/ j = disk'.journal
  BY JournalStepIs
<1>6. OneRestore'
  BY <1>2, <1>4, <1>5 DEF IInv, OneRestore
<1>7. \/ journal.step = "prepared" /\ journal.fresh /\ NextStep = "installing"
      \/ journal.step = "prepared" /\ ~ journal.fresh /\ NextStep = "moving"
      \/ journal.step = "moving" /\ disk.live = Nothing /\ NextStep = "installing"
      \/ journal.step = "installing" /\ disk.staged = Nothing /\ NextStep = "complete"
  BY JournalStepIs
<1>8. \A m \in Name : Nothing[m] = Absent
  BY DEF Nothing
<1>9. ASSUME journal.step = "moving", disk.live = Nothing
      PROVE  \A m \in Name : disk.safety[m] = journal.old[m] /\ journal.old[m] # Absent
  <2>1. ~ journal.fresh BY <1>1, <1>9 DEF IInv, Swapping
  <2>2. \A m \in Name : journal.old[m] # Absent
    BY <1>2, <2>1, AbsentAssumption DEF IInv, OneRestore, Matched, Content
  <2>3. \A m \in Name : Held(journal, disk, m)
    BY <1>2, <1>9, <2>1 DEF IInv, Undoable, Incomplete
  <2> QED BY <1>8, <1>9, <2>2, <2>3 DEF Held
<1>10. journal.step = "installing" /\ disk.staged = Nothing => disk.live = journal.set
  BY JournalStepIs
<1>11. Undoable'
  <2> SUFFICES ASSUME NEW j \in Journals', Incomplete(j), ~ j.fresh, NEW m \in Name
               PROVE  Held(j, disk', m) /\ Held(j, disk, m)
    BY <1>1 DEF Undoable, Incomplete, Held
  <2>1. CASE j = journal
    BY <1>2, <1>4, <2>1 DEF IInv, Undoable, Held
  <2>2. CASE j = disk'.journal /\ NextStep = "installing"
    <3>1. journal.step = "moving" /\ disk.live = Nothing BY <1>4, <1>7, <2>2
    <3> QED BY <1>4, <1>9, <2>2, <3>1 DEF Held
  <2>3. CASE j = disk'.journal /\ NextStep = "moving"
    <3>1. journal.step = "prepared" /\ ~ journal.fresh BY <1>7, <2>3
    <3>2. Held(journal, disk, m) BY <1>2, <3>1 DEF IInv, Undoable, Incomplete
    <3> QED BY <1>4, <2>3, <3>1, <3>2 DEF Held
  <2> QED BY <1>4, <1>5, <1>7, <2>1, <2>2, <2>3 DEF Incomplete
<1>12. Settled'
  <2>1. NextStep = "complete" => disk.live = journal.set
    BY <1>7, <1>10
  <2> QED BY <1>1, <1>4, <1>7, <2>1 DEF Settled, Incomplete, journal
<1>13. Swapping'
  <2>1. CASE NextStep = "installing" /\ journal.step = "prepared"
    <3>1. disk.live = Nothing /\ disk.staged = journal.set
      BY <1>1, <1>2, <1>7, <2>1 DEF IInv, Swapping, OneRestore
    <3> QED BY <1>4, <1>8, <2>1, <3>1 DEF Swapping, journal
  <2>2. CASE NextStep = "installing" /\ journal.step = "moving"
    BY <1>1, <1>4, <1>7, <1>8, <2>2 DEF IInv, Swapping, journal
  <2>3. CASE NextStep = "moving"
    BY <1>1, <1>4, <1>7, <1>8, <2>3 DEF IInv, Swapping, journal
  <2>4. CASE NextStep = "complete"
    BY <1>1, <1>4, <1>7, <1>10, <2>4 DEF Swapping, journal
  <2> QED BY <1>7, <2>1, <2>2, <2>3, <2>4
<1> QED
  BY <1>1, <1>6, <1>11, <1>12, <1>13 DEF Lasting, Recovering

LEMMA MoveCurrentIs ==
  ASSUME IInv, NEW n \in Name, MoveCurrent(n)
  PROVE  /\ op = "swap" /\ op' = op /\ flushed = disk /\ flushed' = disk
         /\ journal.step = "moving" /\ disk.live[n] # Absent
         /\ disk'.journal = journal /\ disk'.staged = disk.staged
         /\ disk'.safety[n] = disk.live[n] /\ disk'.live[n] = Absent
         /\ \A m \in Name \ {n} : disk'.live[m] = disk.live[m] /\ disk'.safety[m] = disk.safety[m]
<1>1. /\ op = "swap" /\ op' = op /\ flushed = disk /\ flushed' = disk
      /\ journal.step = "moving" /\ disk.live[n] # Absent
  BY DEF MoveCurrent, Synced
<1>2. /\ disk'.journal = journal /\ disk'.staged = disk.staged
      /\ disk'.safety[n] = disk.live[n] /\ disk'.live[n] = Absent
      /\ \A m \in Name \ {n} : disk'.live[m] = disk.live[m] /\ disk'.safety[m] = disk.safety[m]
  <2>1. disk \in [live : Files, safety : Files, staged : Files, journal : Journal \cup {None}]
    BY DEF IInv, TypeOK, Directories
  <2>2. disk' = [disk EXCEPT !.safety = [disk.safety EXCEPT ![n] = disk.live[n]],
                             !.live = [disk.live EXCEPT ![n] = Absent]]
    BY <2>1 DEF MoveCurrent
  <2>3. /\ disk'.journal = disk.journal /\ disk'.staged = disk.staged
        /\ disk'.safety = [disk.safety EXCEPT ![n] = disk.live[n]]
        /\ disk'.live = [disk.live EXCEPT ![n] = Absent]
    BY <2>1, <2>2
  <2> QED BY <2>1, <2>3 DEF Files, journal
<1> QED BY <1>1, <1>2

LEMMA MoveCurrentKeeps ==
  ASSUME IInv, NEW n \in Name, MoveCurrent(n)
  PROVE  Lasting' /\ Swapping' /\ Recovering'
<1>1. /\ op = "swap" /\ op' = op /\ flushed = disk /\ flushed' = disk
      /\ journal.step = "moving" /\ disk.live[n] # Absent
  BY MoveCurrentIs
<1>2. /\ disk'.journal = journal /\ disk'.staged = disk.staged
      /\ disk'.safety[n] = disk.live[n] /\ disk'.live[n] = Absent
      /\ \A m \in Name \ {n} : disk'.live[m] = disk.live[m] /\ disk'.safety[m] = disk.safety[m]
  BY MoveCurrentIs
<1>3. Journals' = Journals /\ Journals = {journal} /\ ~ journal.fresh
  BY <1>1, <1>2 DEF Journals, journal, IInv, Swapping
<1>4. \A m \in Name : Held(journal, disk, m)
  BY <1>1, <1>3 DEF IInv, Undoable, Incomplete, Swapping
<1>5. disk.live[n] = journal.old[n]
  <2>1. disk.safety[n] = Absent
    BY <1>1 DEF IInv, Swapping
  <2> QED BY <1>4, <2>1 DEF Held
<1>6. Undoable'
  BY <1>1, <1>2, <1>3, <1>4, <1>5 DEF Undoable, Held, Incomplete
<1> QED
  BY <1>1, <1>2, <1>3, <1>6
  DEF IInv, Lasting, OneRestore, Settled, Swapping, Recovering, Incomplete, journal

LEMMA InstallIs ==
  ASSUME IInv, NEW n \in Name, Install(n)
  PROVE  /\ op = "swap" /\ op' = op /\ flushed = disk /\ flushed' = disk
         /\ journal.step = "installing" /\ disk.staged[n] # Absent
         /\ disk'.journal = journal /\ disk'.safety = disk.safety
         /\ disk'.live[n] = disk.staged[n] /\ disk'.staged[n] = Absent
         /\ \A m \in Name \ {n} : disk'.live[m] = disk.live[m] /\ disk'.staged[m] = disk.staged[m]
<1>1. /\ op = "swap" /\ op' = op /\ flushed = disk /\ flushed' = disk
      /\ journal.step = "installing" /\ disk.staged[n] # Absent
  BY DEF Install, Synced
<1>2. /\ disk'.journal = journal /\ disk'.safety = disk.safety
      /\ disk'.live[n] = disk.staged[n] /\ disk'.staged[n] = Absent
      /\ \A m \in Name \ {n} : disk'.live[m] = disk.live[m] /\ disk'.staged[m] = disk.staged[m]
  <2>1. disk \in [live : Files, safety : Files, staged : Files, journal : Journal \cup {None}]
    BY DEF IInv, TypeOK, Directories
  <2>2. disk' = [disk EXCEPT !.live = [disk.live EXCEPT ![n] = disk.staged[n]],
                             !.staged = [disk.staged EXCEPT ![n] = Absent]]
    BY <2>1 DEF Install
  <2>3. /\ disk'.journal = disk.journal /\ disk'.safety = disk.safety
        /\ disk'.live = [disk.live EXCEPT ![n] = disk.staged[n]]
        /\ disk'.staged = [disk.staged EXCEPT ![n] = Absent]
    BY <2>1, <2>2
  <2> QED BY <2>1, <2>3 DEF Files, journal
<1> QED BY <1>1, <1>2

LEMMA InstallKeeps ==
  ASSUME IInv, NEW n \in Name, Install(n)
  PROVE  Lasting' /\ Swapping' /\ Recovering'
<1>1. /\ op = "swap" /\ op' = op /\ flushed = disk /\ flushed' = disk
      /\ journal.step = "installing" /\ disk.staged[n] # Absent
  BY InstallIs
<1>2. /\ disk'.journal = journal /\ disk'.safety = disk.safety
      /\ disk'.live[n] = disk.staged[n] /\ disk'.staged[n] = Absent
      /\ \A m \in Name \ {n} : disk'.live[m] = disk.live[m] /\ disk'.staged[m] = disk.staged[m]
  BY InstallIs
<1>3. Journals' = Journals /\ Journals = {journal}
  BY <1>1, <1>2 DEF Journals, journal, IInv, Swapping
<1>4. Undoable'
  BY <1>1, <1>2, <1>3 DEF IInv, Undoable, Held, Incomplete
<1>5. Swapping'
  BY <1>1, <1>2 DEF IInv, Swapping, journal
<1> QED
  BY <1>1, <1>2, <1>3, <1>4, <1>5
  DEF IInv, Lasting, OneRestore, Settled, Recovering, Incomplete, journal

(* What the kernel writes back, and what a power loss leaves, mixes states *)
(* each of which can be undone.                                            *)
LEMMA FlushKeeps ==
  ASSUME IInv, Flush
  PROVE  Lasting' /\ Swapping' /\ Recovering'
<1>1. op' = op /\ disk' = disk /\ flushed' = disk /\ Journals' \subseteq Journals
  BY DEF Flush, Journals
<1> QED
  BY <1>1
  DEF IInv, Lasting, OneRestore, Undoable, Held, Settled, Swapping, Recovering, Incomplete, journal

LEMMA PowerLossKeeps ==
  ASSUME IInv, NEW lost \in SUBSET Name, NEW j \in {disk.journal, flushed.journal}, PowerLoss(lost, j)
  PROVE  Lasting' /\ Swapping' /\ Recovering'
<1>1. /\ op' = "off" /\ disk' = flushed' /\ disk'.journal = j
      /\ \A n \in Name : \/ /\ disk'.live[n] = disk.live[n] /\ disk'.safety[n] = disk.safety[n]
                         \/ /\ disk'.live[n] = flushed.live[n] /\ disk'.safety[n] = flushed.safety[n]
  BY DEF PowerLoss
<1>2. Journals' \subseteq Journals
  BY <1>1 DEF Journals
<1>3. Undoable'
  BY <1>1, <1>2 DEF IInv, Undoable, Held, Incomplete
<1> QED
  BY <1>1, <1>2, <1>3 DEF IInv, Lasting, OneRestore, Settled, Swapping, Recovering, journal

LEMMA StepHolds == IInv /\ [Next]_vars => IInv'
<1> SUFFICES ASSUME IInv, [Next]_vars PROVE IInv' OBVIOUS
<1>1. TypeOK'
  BY TypedStep
<1>2. Lasting' /\ Swapping' /\ Recovering'
  <2>1. CASE UNCHANGED vars
    <3>1. Lasting' BY <2>1, SameDirectories DEF vars, IInv, Lasting
    <3> QED BY <2>1, <3>1 DEF vars, IInv, Swapping, Recovering, Incomplete, journal
  <2>2. CASE Next
    BY <2>2, QuietKeeps, WipeKeeps, RollbackKeeps, FinishStageKeeps, FinishJournalKeeps, DiscardKeeps,
       WriteKeeps, RestoreKeeps, JournalStepKeeps, MoveCurrentKeeps, InstallKeeps, FlushKeeps,
       PowerLossKeeps
    DEF Next
  <2> QED BY <2>1, <2>2
<1> QED
  BY <1>1, <1>2 DEF IInv, Lasting

-----------------------------------------------------------------------------
(* The invariant of restores and recoveries holds in every reachable state,*)
(* for any databases, contents and number of failures.                     *)
THEOREM Invariant == Spec => []IInv
  BY InitHolds, StepHolds, PTL DEF Spec

(* Every variable keeps its type (backup_restore.go, the journal's and the *)
(* directories' shapes).                                                   *)
THEOREM TypeCorrect == Spec => []TypeOK
<1>1. IInv => TypeOK BY DEF IInv
<1> QED BY Invariant, <1>1, PTL

(* Recovery never refuses to roll back (validateRollback).                 *)
THEOREM RollbackAlwaysPossible == Spec => []RollbackPossible
<1>1. IInv => RollbackPossible
  <2> SUFFICES ASSUME IInv, Incomplete(journal), ~ journal.fresh PROVE RollbackValid
    BY DEF RollbackPossible
  <2>1. journal \in Journals BY DEF Journals, journal, Incomplete
  <2>2. \A n \in Name : Held(journal, disk, n) /\ journal.old[n] # Absent
    BY <2>1, AbsentAssumption DEF IInv, Undoable, OneRestore, Matched, Content
  <2> QED BY <2>2 DEF RollbackValid, Held
<1> QED BY Invariant, <1>1, PTL

(* The application never opens a half-restored profile (recover, at every  *)
(* start).                                                                 *)
THEOREM ProfileIsWhole == Spec => []AppSeesWholeProfile
<1>1. IInv => AppSeesWholeProfile
  BY DEF IInv, Recovering, Settled, AppSeesWholeProfile, Incomplete
<1> QED BY Invariant, <1>1, PTL

-----------------------------------------------------------------------------
(* A profile in use does not change in a power loss.                       *)
Still == ~ Incomplete(journal) => flushed.live = disk.live

(* Nor, before a restore has reached the disk, does the profile it found.  *)
Requested ==
  Incomplete(journal) /\ ~ Incomplete(flushed.journal) =>
    disk.live = journal.old /\ flushed.live = journal.old

(* Safety sets are only taken apart, never mixed, once no restore is open. *)
Apart == \A n \in Name : disk.safety[n] \in {Absent, flushed.safety[n]}

SetsSafe ==
  /\ \A j \in Journals : j.set \in sets
  /\ \A j \in Journals :
       Incomplete(j) /\ j.fresh => disk.safety = Nothing /\ flushed.safety = Nothing
  /\ ~ Incomplete(journal) => Apart

Undoing ==
  /\ op \in {"undo", "finish"} => flushed.live = disk.live /\ Apart
  /\ op \in {"undo", "discard"} => \A n \in Name : disk.safety[n] \in {Absent, disk.live[n]}

Durable == Still /\ Requested /\ SetsSafe /\ Undoing

-----------------------------------------------------------------------------
LEMMA DurableInit == Init => Durable
<1> SUFFICES ASSUME Init PROVE Durable OBVIOUS
<1>1. disk.journal = None /\ flushed.journal = None /\ op = "off" /\ flushed = disk BY DEF Init
<1> QED
  BY <1>1
  DEF Durable, Still, Requested, SetsSafe, Apart, Undoing, Journals, Incomplete, journal

(* Steps that leave the directories as they are.                           *)
LEMMA QuietDurable ==
  ASSUME IInv, Durable, NEW p,
         \/ Start(p) \/ Recover \/ Wiped \/ RolledBack \/ Finished \/ Discarded
         \/ Opened \/ Quit \/ Refuse \/ Swapped \/ Capture \/ Die
  PROVE  Durable'
<1>1. UNCHANGED <<disk, flushed>> /\ sets \subseteq sets'
  BY DEF Start, Recover, Wiped, RolledBack, Finished, Discarded, Opened, Quit, Refuse, Swapped,
         Capture, Die
<1>2. Still' /\ Requested' /\ SetsSafe'
  BY <1>1 DEF Durable, Still, Requested, SetsSafe, Apart, Journals, Incomplete, journal
<1>3. Proceed \in {"opening", "restore", "off"}
  BY DEF Proceed
<1>4. op' \in {"undo", "finish"} => flushed.live = disk.live /\ Apart
  <2>1. CASE Recover
    BY <1>3, <2>1 DEF Recover, Durable, Still, SetsSafe, Incomplete
  <2>2. CASE Wiped \/ RolledBack \/ Swapped
    BY <2>2 DEF Wiped, RolledBack, Swapped, Synced, Apart
  <2>3. CASE Start(p) \/ Finished \/ Discarded \/ Opened \/ Quit \/ Refuse \/ Capture \/ Die
    BY <1>3, <2>3
    DEF Start, Finished, Discarded, Opened, Quit, Refuse, Capture, Die, Durable, Undoing
  <2> QED BY <2>1, <2>2, <2>3
<1>5. op' \in {"undo", "discard"} => \A n \in Name : disk.safety[n] \in {Absent, disk.live[n]}
  BY <1>3
  DEF Start, Recover, Wiped, RolledBack, Finished, Discarded, Opened, Quit, Refuse, Swapped,
      Capture, Die, Durable, Undoing
<1> QED
  BY <1>1, <1>2, <1>4, <1>5 DEF Durable, Undoing, Apart

LEMMA WipeDurable ==
  ASSUME IInv, Durable, NEW n \in Name, Wipe(n)
  PROVE  Durable'
<1>1. /\ op = "wipe" /\ op' = "wipe" /\ flushed' = flushed /\ sets' = sets
      /\ Incomplete(journal) /\ journal.fresh /\ disk.live[n] # Absent
  BY DEF Wipe, IInv, Recovering
<1>2. disk'.journal = disk.journal /\ disk'.safety = disk.safety
  BY DEF Wipe, IInv, TypeOK, Directories
<1>3. Incomplete(flushed.journal)
  <2>1. journal.old = Nothing
    BY <1>1 DEF IInv, OneRestore, Journals, journal, Incomplete
  <2> QED BY <1>1, <2>1 DEF Durable, Requested, Nothing
<1> QED
  BY <1>1, <1>2, <1>3
  DEF Durable, Still, Requested, SetsSafe, Apart, Undoing, Journals, Incomplete, journal

LEMMA RollbackDurable ==
  ASSUME IInv, Durable, NEW n \in Name, Rollback(n)
  PROVE  Durable'
<1>1. /\ op = "rollback" /\ op' = "rollback" /\ flushed' = flushed /\ sets' = sets
      /\ Incomplete(journal) /\ ~ journal.fresh
      /\ disk.safety[n] # Absent /\ disk.safety[n] # disk.live[n]
  BY DEF Rollback, IInv, Recovering
<1>2. disk'.journal = disk.journal /\ disk'.safety = disk.safety
  BY DEF Rollback, IInv, TypeOK, Directories
<1>3. Incomplete(flushed.journal)
  <2>1. Held(journal, disk, n)
    BY <1>1 DEF IInv, Undoable, Journals, journal, Incomplete
  <2> QED BY <1>1, <2>1 DEF Durable, Requested, Held
<1> QED
  BY <1>1, <1>2, <1>3
  DEF Durable, Still, Requested, SetsSafe, Apart, Undoing, Journals, Incomplete, journal

LEMMA FinishStageDurable ==
  ASSUME IInv, Durable, NEW n \in Name, FinishStage(n)
  PROVE  Durable'
<1>1. op' = op /\ flushed' = flushed /\ sets' = sets
  BY DEF FinishStage
<1>2. disk'.journal = disk.journal /\ disk'.safety = disk.safety /\ disk'.live = disk.live
  BY DEF FinishStage, IInv, TypeOK, Directories
<1> QED
  BY <1>1, <1>2
  DEF Durable, Still, Requested, SetsSafe, Apart, Undoing, Journals, Incomplete, journal

LEMMA FinishJournalDurable ==
  ASSUME IInv, Durable, FinishJournal
  PROVE  Durable'
<1>1. op \in {"finish", "undo"} /\ op' = op /\ flushed' = flushed /\ sets' = sets
  BY DEF FinishJournal
<1>2. disk'.journal = None /\ disk'.safety = disk.safety /\ disk'.live = disk.live
  BY DEF FinishJournal, IInv, TypeOK, Directories
<1>3. Journals' \subseteq Journals
  BY <1>1, <1>2 DEF Journals
<1>4. flushed.live = disk.live /\ Apart
  BY <1>1 DEF Durable, Undoing
<1> QED
  BY <1>1, <1>2, <1>3, <1>4
  DEF Durable, Still, Requested, SetsSafe, Apart, Undoing, Incomplete, journal

LEMMA DiscardDurable ==
  ASSUME IInv, Durable, NEW n \in Name, Discard(n)
  PROVE  Durable'
<1>1. /\ op = "discard" /\ op' = op /\ flushed' = flushed /\ sets' = sets
      /\ journal = None /\ flushed.journal = None
  BY DEF Discard, IInv, Recovering
<1>2. /\ disk'.journal = disk.journal /\ disk'.live = disk.live
      /\ \A m \in Name : disk'.safety[m] \in {Absent, disk.safety[m]}
  BY DEF Discard, IInv, TypeOK, Directories, Files
<1>3. Journals' = {}
  BY <1>1, <1>2 DEF Journals, journal
<1> QED
  BY <1>1, <1>2, <1>3
  DEF Durable, Still, Requested, SetsSafe, Apart, Undoing, Incomplete, journal

LEMMA WriteDurable ==
  ASSUME IInv, Durable, NEW n \in Name, Create(n) \/ Write(n)
  PROVE  Durable'
<1>1. op \in {"opening", "open"} /\ op' = op /\ flushed' = disk' /\ sets' = sets /\ journal = None
  BY DEF Create, Write, IInv, Recovering
<1>2. disk'.journal = None
  BY <1>1 DEF Create, Write, IInv, TypeOK, Directories, journal
<1> QED
  BY <1>1, <1>2
  DEF Durable, Still, Requested, SetsSafe, Apart, Undoing, Journals, Incomplete, journal

LEMMA RestoreDurable ==
  ASSUME IInv, Durable, NEW set \in Sets, Restore(set)
  PROVE  Durable'
<1>1. /\ op' = "swap" /\ journal = None
      /\ flushed'.journal = None /\ flushed'.live = disk.live /\ flushed'.safety = Nothing
      /\ disk'.live = disk.live /\ disk'.safety = Nothing
      /\ Journals' = {disk'.journal} /\ disk'.journal.step = "prepared"
      /\ disk'.journal.old = disk.live /\ disk'.journal.set = set /\ disk'.journal # None
  BY RestoreIs
<1>2. set \in sets'
  BY DEF Restore
<1> QED
  BY <1>1, <1>2
  DEF Durable, Still, Requested, SetsSafe, Apart, Undoing, Incomplete, journal

LEMMA JournalStepDurable ==
  ASSUME IInv, Durable, JournalStep
  PROVE  Durable'
<1>1. /\ op = "swap" /\ op' = op /\ flushed = disk /\ flushed' = disk
      /\ journal # None /\ journal \in Journals /\ journal.step # "complete"
      /\ disk'.journal.set = journal.set /\ disk'.journal.fresh = journal.fresh
      /\ disk'.live = disk.live /\ disk'.safety = disk.safety
      /\ \A j \in Journals' : j = journal \/ j = disk'.journal
  BY JournalStepIs
<1>2. sets' = sets BY DEF JournalStep
<1>3. Incomplete(journal) BY <1>1 DEF Incomplete
<1>4. SetsSafe'
  BY <1>1, <1>2, <1>3 DEF Durable, SetsSafe, Apart
<1> QED
  BY <1>1, <1>3, <1>4
  DEF Durable, Still, Requested, Undoing, Incomplete, journal

LEMMA MoveDurable ==
  ASSUME IInv, Durable, NEW n \in Name, MoveCurrent(n) \/ Install(n)
  PROVE  Durable'
<1>1. /\ op = "swap" /\ op' = op /\ flushed = disk /\ flushed' = disk /\ disk'.journal = journal
      /\ journal.step \in {"moving", "installing"}
      /\ journal.step = "moving" \/ disk'.safety = disk.safety
  BY MoveCurrentIs, InstallIs
<1>2. sets' = sets BY DEF MoveCurrent, Install
<1>3. Journals' = Journals /\ Journals = {journal} /\ Incomplete(journal)
  BY <1>1 DEF Journals, journal, IInv, Swapping, Incomplete
<1>4. journal.step = "moving" => ~ journal.fresh
  BY <1>1 DEF IInv, Swapping
<1> QED
  BY <1>1, <1>2, <1>3, <1>4
  DEF Durable, Still, Requested, SetsSafe, Undoing, Incomplete, journal

LEMMA FlushDurable ==
  ASSUME IInv, Durable, Flush
  PROVE  Durable'
<1>1. op' = op /\ disk' = disk /\ flushed' = disk /\ sets' = sets /\ Journals' \subseteq Journals
  BY DEF Flush, Journals
<1> QED
  BY <1>1
  DEF Durable, Still, Requested, SetsSafe, Apart, Undoing, Incomplete, journal

LEMMA PowerLossIs ==
  ASSUME IInv, NEW lost \in SUBSET Name, NEW j \in {disk.journal, flushed.journal}, PowerLoss(lost, j)
  PROVE  /\ op' = "off" /\ disk' = flushed' /\ disk'.journal = j /\ sets' = sets
         /\ Journals' \subseteq Journals
         /\ disk.live = flushed.live => disk'.live = disk.live
         /\ disk.safety = flushed.safety => disk'.safety = disk.safety
<1>1. /\ op' = "off" /\ disk' = flushed' /\ disk'.journal = j /\ sets' = sets
      /\ disk'.live = [n \in Name |-> IF n \in lost THEN flushed.live[n] ELSE disk.live[n]]
      /\ disk'.safety = [n \in Name |-> IF n \in lost THEN flushed.safety[n] ELSE disk.safety[n]]
  BY DEF PowerLoss
<1>2. /\ disk.live = [n \in Name |-> disk.live[n]]
      /\ disk.safety = [n \in Name |-> disk.safety[n]]
  BY DEF IInv, TypeOK, Directories, Files
<1>3. Journals' \subseteq Journals
  BY <1>1 DEF Journals
<1> QED BY <1>1, <1>2, <1>3

LEMMA PowerLossDurable ==
  ASSUME IInv, Durable,
         NEW lost \in SUBSET Name, NEW j \in {disk.journal, flushed.journal}, PowerLoss(lost, j)
  PROVE  Durable'
<1>1. /\ op' = "off" /\ disk' = flushed' /\ sets' = sets /\ Journals' \subseteq Journals
      /\ disk.safety = flushed.safety => disk'.safety = disk.safety
  BY PowerLossIs
<1> QED
  BY <1>1
  DEF Durable, Still, Requested, SetsSafe, Apart, Undoing, Incomplete, journal

LEMMA DurableStep == IInv /\ Durable /\ [Next]_vars => Durable'
<1> SUFFICES ASSUME IInv, Durable, [Next]_vars PROVE Durable' OBVIOUS
<1>1. CASE UNCHANGED vars
  BY <1>1
  DEF vars, Durable, Still, Requested, SetsSafe, Apart, Undoing, Journals, Incomplete, journal
<1>2. CASE Next
  BY <1>2, QuietDurable, WipeDurable, RollbackDurable, FinishStageDurable, FinishJournalDurable,
     DiscardDurable, WriteDurable, RestoreDurable, JournalStepDurable, MoveDurable, FlushDurable,
     PowerLossDurable
  DEF Next
<1> QED BY <1>1, <1>2

-----------------------------------------------------------------------------
(* No profile is lost.                                                     *)
LEMMA KeepsIfIn ==
  ASSUME sets \subseteq sets',
         disk.safety \in Matched => disk.safety \in sets' \/ disk.safety = disk'.safety
                                    \/ disk.safety = Profile',
         Profile \in Matched => Profile \in sets' \/ Profile = disk'.safety \/ Profile = Profile'
  PROVE  Kept \subseteq Kept'
  BY DEF Kept, Sets

(* A safety set that is whole holds what the restore found.                *)
LEMMA WholeSafety ==
  ASSUME IInv, Durable, disk.safety \in Matched
  PROVE  /\ Incomplete(journal) => disk.safety = journal.old
         /\ ~ Incomplete(journal) => disk.safety = flushed.safety
<1>1. \A n \in Name : disk.safety[n] # Absent
  BY AbsentAssumption DEF Matched, Content
<1>2. flushed.safety \in Files /\ disk.safety \in Files
  BY DEF IInv, TypeOK, Directories
<1>3. ASSUME Incomplete(journal) PROVE disk.safety = journal.old
  <2>1. journal \in Journals BY <1>3 DEF Journals, Incomplete, journal
  <2>2. ~ journal.fresh
    BY <1>1, <1>3, <2>1, NameAssumption DEF Durable, SetsSafe, Nothing
  <2>3. \A n \in Name : disk.safety[n] = journal.old[n]
    BY <1>1, <1>3, <2>1, <2>2 DEF IInv, Undoable, Held
  <2>4. journal.old \in Files
    BY <1>3 DEF Incomplete, journal, IInv, TypeOK, Directories, Journal
  <2> QED BY <1>2, <2>3, <2>4 DEF Files
<1>4. ASSUME ~ Incomplete(journal) PROVE disk.safety = flushed.safety
  <2>1. \A n \in Name : disk.safety[n] = flushed.safety[n]
    BY <1>1, <1>4 DEF Durable, SetsSafe, Apart
  <2> QED BY <1>2, <2>1 DEF Files
<1> QED BY <1>3, <1>4

LEMMA RecoveryLosesNothing ==
  ASSUME IInv, Durable, NEW n \in Name,
         Wipe(n) \/ Rollback(n) \/ FinishStage(n) \/ FinishJournal
  PROVE  Kept \subseteq Kept'
<1>1. sets' = sets /\ (FinishJournal => op \in {"finish", "undo"} /\ journal # None)
  BY DEF Wipe, Rollback, FinishStage, FinishJournal
<1>2. disk'.safety = disk.safety
  BY DEF Wipe, Rollback, FinishStage, FinishJournal, IInv, TypeOK, Directories
<1>3. Profile' = Profile
  <2>1. CASE Wipe(n) \/ Rollback(n)
    <3>1. disk'.journal = disk.journal
      BY <2>1 DEF Wipe, Rollback, IInv, TypeOK, Directories
    <3>2. Incomplete(journal)
      BY <2>1 DEF Wipe, Rollback, IInv, Recovering
    <3> QED BY <3>1, <3>2 DEF Profile, Incomplete, journal
  <2>2. CASE FinishStage(n)
    <3>1. disk'.journal = disk.journal /\ disk'.live = disk.live
      BY <2>2 DEF FinishStage, IInv, TypeOK, Directories
    <3> QED BY <3>1 DEF Profile, Incomplete, journal
  <2>3. CASE FinishJournal
    <3>1. disk'.journal = None /\ disk'.live = disk.live
      BY <2>3 DEF FinishJournal, IInv, TypeOK, Directories
    <3>2. Incomplete(journal) => disk.live = journal.old
      BY <1>1, <2>3 DEF IInv, Recovering
    <3> QED BY <3>1, <3>2 DEF Profile, Incomplete, journal
  <2> QED BY <2>1, <2>2, <2>3
<1> QED BY <1>1, <1>2, <1>3, KeepsIfIn

(* The safety set of a rolled-back restore goes only when the profile in   *)
(* place equals it.                                                        *)
LEMMA DiscardLosesNothing ==
  ASSUME IInv, Durable, NEW n \in Name, Discard(n)
  PROVE  Kept \subseteq Kept'
<1>1. op = "discard" /\ sets' = sets /\ journal = None
  BY DEF Discard, IInv, Recovering
<1>2. disk'.journal = None /\ disk'.live = disk.live
  BY <1>1 DEF Discard, IInv, TypeOK, Directories, journal
<1>3. Profile = disk.live /\ Profile' = disk.live
  BY <1>1, <1>2 DEF Profile, Incomplete, journal
<1>4. disk.safety \in Matched => disk.safety = disk.live
  <2> SUFFICES ASSUME disk.safety \in Matched PROVE disk.safety = disk.live OBVIOUS
  <2>1. \A m \in Name : disk.safety[m] # Absent
    BY AbsentAssumption DEF Matched, Content
  <2>2. \A m \in Name : disk.safety[m] = disk.live[m]
    BY <1>1, <2>1 DEF Durable, Undoing
  <2> QED BY <2>2 DEF IInv, TypeOK, Directories, Files
<1> QED BY <1>1, <1>3, <1>4, KeepsIfIn

LEMMA RestoreLosesNothing ==
  ASSUME IInv, Durable, NEW set \in Sets, Restore(set)
  PROVE  Kept \subseteq Kept'
<1>1. /\ journal = None /\ disk'.journal.step = "prepared"
      /\ disk'.journal.old = disk.live /\ disk'.journal # None
  BY RestoreIs
<1>2. sets' = Sets BY DEF Restore
<1>3. Profile = disk.live /\ Profile' = disk.live
  BY <1>1 DEF Profile, Incomplete, journal
<1>4. disk.safety \in Matched => disk.safety \in sets'
  BY <1>2 DEF Sets
<1>5. sets \subseteq sets'
  BY <1>2 DEF Sets
<1> QED BY <1>3, <1>4, <1>5, KeepsIfIn

(* When the restore is complete, the safety set holds the old profile.     *)
LEMMA JournalStepLosesNothing ==
  ASSUME IInv, Durable, JournalStep
  PROVE  Kept \subseteq Kept'
<1>1. /\ op = "swap" /\ journal \in Journal /\ journal # None /\ journal \in Journals
      /\ disk'.journal.step = NextStep /\ disk'.journal.old = journal.old
      /\ disk'.safety = disk.safety /\ disk'.journal # None /\ journal.step # "complete"
      /\ NextStep = "complete" => journal.step = "installing"
  BY JournalStepIs
<1>2. sets' = sets BY DEF JournalStep
<1>3. Incomplete(journal) /\ Profile = journal.old
  BY <1>1 DEF Profile, Incomplete
<1>4. CASE NextStep # "complete"
  <2>1. Profile' = journal.old
    BY <1>1, <1>4 DEF Profile, Incomplete, journal
  <2> QED BY <1>1, <1>2, <1>3, <2>1, KeepsIfIn
<1>5. CASE NextStep = "complete"
  <2>1. ASSUME journal.old \in Matched PROVE journal.old = disk.safety
    <3>1. ~ journal.fresh
      <4>1. journal.old # Nothing
        BY <2>1, NameAssumption, AbsentAssumption DEF Matched, Nothing, Content
      <4> QED BY <1>1, <4>1 DEF IInv, OneRestore
    <3>2. \A n \in Name : journal.old[n] = disk.safety[n]
      BY <1>1, <1>3, <1>5, <3>1 DEF IInv, Undoable, Held
    <3> QED BY <2>1, <3>2 DEF Matched, IInv, TypeOK, Directories, Files
  <2> QED BY <1>1, <1>2, <1>3, <2>1, KeepsIfIn
<1> QED BY <1>4, <1>5

LEMMA MoveLosesNothing ==
  ASSUME IInv, Durable, NEW n \in Name, MoveCurrent(n) \/ Install(n)
  PROVE  Kept \subseteq Kept'
<1>1. /\ op = "swap" /\ disk'.journal = journal /\ journal.step \in {"moving", "installing"}
      /\ \/ journal.step = "moving" /\ disk.live[n] # Absent
         \/ disk'.safety = disk.safety
  BY MoveCurrentIs, InstallIs
<1>2. sets' = sets BY DEF MoveCurrent, Install
<1>3. Incomplete(journal) BY <1>1 DEF Incomplete, IInv, Swapping
<1>4. Profile' = Profile
  BY <1>1, <1>3 DEF Profile, Incomplete, journal
<1>5. journal.step = "moving" /\ disk.live[n] # Absent => disk.safety[n] = Absent
  BY <1>1 DEF IInv, Swapping
<1>6. disk.safety \in Matched => disk.safety[n] # Absent
  BY AbsentAssumption DEF Matched, Content
<1> QED BY <1>1, <1>2, <1>4, <1>5, <1>6, KeepsIfIn

LEMMA PowerLossLosesNothing ==
  ASSUME IInv, Durable,
         NEW lost \in SUBSET Name, NEW j \in {disk.journal, flushed.journal}, PowerLoss(lost, j)
  PROVE  Kept \subseteq Kept'
<1>1. /\ disk'.journal = j /\ sets' = sets
      /\ disk.live = flushed.live => disk'.live = disk.live
      /\ disk.safety = flushed.safety => disk'.safety = disk.safety
  BY PowerLossIs
<1>2. CASE Incomplete(journal)
  <2>1. Profile = journal.old /\ journal \in Journals
    BY <1>2 DEF Profile, Journals, Incomplete, journal
  <2>2. Profile' = journal.old
    <3>1. CASE Incomplete(j)
      <4>1. j \in Journals BY <3>1 DEF Journals, Incomplete
      <4> QED BY <1>1, <2>1, <3>1, <4>1 DEF IInv, OneRestore, Profile, Incomplete, journal
    <3>2. CASE ~ Incomplete(j)
      <4>1. disk.live = journal.old /\ flushed.live = journal.old
        BY <1>2, <3>2 DEF Durable, Requested, journal
      <4> QED BY <1>1, <3>2, <4>1 DEF Profile, Incomplete, journal
    <3> QED BY <3>1, <3>2
  <2> QED BY <1>1, <1>2, <2>1, <2>2, WholeSafety, KeepsIfIn
<1>3. CASE ~ Incomplete(journal)
  <2>1. Profile = disk.live /\ disk'.live = disk.live
    BY <1>1, <1>3 DEF Profile, Durable, Still
  <2>2. Profile = Profile' \/ Profile \in sets
    <3>1. CASE Incomplete(j)
      <4>1. j = flushed.journal /\ j \in Journals
        BY <1>3, <3>1 DEF Journals, Incomplete, journal
      <4>2. disk.live \in {j.old, j.set} BY <1>3, <3>1, <4>1 DEF IInv, Settled
      <4>3. Profile' = j.old BY <1>1, <3>1 DEF Profile, Incomplete, journal
      <4> QED BY <2>1, <4>1, <4>2, <4>3 DEF Durable, SetsSafe
    <3>2. CASE ~ Incomplete(j)
      BY <1>1, <2>1, <3>2 DEF Profile, Incomplete, journal
    <3> QED BY <3>1, <3>2
  <2> QED BY <1>1, <1>3, <2>2, WholeSafety, KeepsIfIn
<1> QED BY <1>2, <1>3

LEMMA QuietLosesNothing ==
  ASSUME NEW p,
         \/ Start(p) \/ Recover \/ Wiped \/ RolledBack \/ Finished \/ Discarded
         \/ Opened \/ Quit \/ Refuse \/ Swapped \/ Capture \/ Die \/ Flush
  PROVE  Kept \subseteq Kept'
<1>1. disk' = disk /\ sets \subseteq sets'
  BY DEF Start, Recover, Wiped, RolledBack, Finished, Discarded, Opened, Quit, Refuse, Swapped,
         Capture, Die, Flush
<1>2. Profile' = Profile
  BY <1>1 DEF Profile, Incomplete, journal
<1> QED BY <1>1, <1>2, KeepsIfIn

(* No restore, rollback, crash or power loss loses a profile that could be *)
(* restored or was in use (swap, recover, finish).                         *)
THEOREM ProfilesKept == Spec => NoProfileLost
<1>1. IInv /\ Durable /\ [Next]_vars => [op \notin {"opening", "open"} => Kept \subseteq Kept']_vars
  <2> SUFFICES ASSUME IInv, Durable, Next, op \notin {"opening", "open"} PROVE Kept \subseteq Kept'
    OBVIOUS
  <2>1. \A n \in Name : ~ Create(n) /\ ~ Write(n)
    BY DEF Create, Write
  <2> QED
    BY <2>1, QuietLosesNothing, RecoveryLosesNothing, DiscardLosesNothing, RestoreLosesNothing,
       JournalStepLosesNothing, MoveLosesNothing, PowerLossLosesNothing, NameAssumption
    DEF Next
<1>2. Spec => []Durable
  BY Invariant, DurableInit, DurableStep, PTL DEF Spec
<1> QED BY <1>1, <1>2, Invariant, PTL DEF Spec, NoProfileLost

-----------------------------------------------------------------------------
(* One atomic replacement.                                                 *)
LEMMA SameDurable ==
  ASSUME flushed'.live = flushed.live, flushed'.journal = flushed.journal
  PROVE  UNCHANGED Atomic!vars
  BY DEF Atomic!vars, DurableProfile, DurablePending, Incomplete

(* What reaches the disk, whole or in part, decides at most whether a      *)
(* restore is pending, done or undone.                                     *)
LEMMA ReachesDisk ==
  ASSUME IInv, Durable,
         NEW j \in {disk.journal, flushed.journal}, flushed'.journal = j,
         disk.live = flushed.live => flushed'.live = disk.live
  PROVE  [Atomic!Next]_(Atomic!vars)
<1>1. flushed.live = disk.live => flushed'.live = disk.live
  OBVIOUS
<1>2. CASE Incomplete(flushed.journal)
  <2>1. /\ flushed.journal \in Journals /\ flushed.journal.set \in Matched
        /\ DurableProfile = flushed.journal.old /\ DurablePending = flushed.journal.set
        /\ DurablePending # None
    BY <1>2, NoneAssumption
    DEF Incomplete, Journals, DurableProfile, DurablePending, IInv, TypeOK, Directories, Journal
  <2>2. CASE Incomplete(j)
    <3>1. j \in Journals BY <2>2 DEF Incomplete, Journals
    <3>2. j.old = flushed.journal.old /\ j.set = flushed.journal.set
      BY <2>1, <3>1 DEF IInv, OneRestore
    <3>3. DurableProfile' = DurableProfile /\ DurablePending' = DurablePending
      BY <2>1, <2>2, <3>2 DEF DurableProfile, DurablePending, Incomplete
    <3> QED BY <3>3 DEF Atomic!vars
  <2>3. CASE ~ Incomplete(j)
    <3>1. j = disk.journal /\ ~ Incomplete(journal)
      BY <1>2, <2>3 DEF journal
    <3>2. disk.live = flushed.live
      BY <3>1 DEF Durable, Still
    <3>3. disk.live \in {flushed.journal.old, flushed.journal.set}
      BY <1>2, <3>1 DEF IInv, Settled
    <3>4. DurableProfile' \in {DurableProfile, DurablePending} /\ DurablePending' = None
      BY <1>1, <2>1, <2>3, <3>2, <3>3 DEF DurableProfile, DurablePending, Incomplete
    <3> QED BY <2>1, <3>4 DEF Atomic!Next, Atomic!Apply, Atomic!Abandon
  <2> QED BY <2>2, <2>3
<1>3. CASE ~ Incomplete(flushed.journal)
  <2>1. DurableProfile = flushed.live /\ DurablePending = None
    BY <1>3 DEF DurableProfile, DurablePending
  <2>2. CASE Incomplete(j)
    <3>1. j = disk.journal /\ Incomplete(journal) /\ j.set \in Matched
      BY <1>3, <2>2 DEF journal, Incomplete, IInv, TypeOK, Directories, Journal
    <3>2. j.old = flushed.live
      BY <1>3, <3>1 DEF Durable, Requested, journal
    <3>3. DurableProfile' = DurableProfile /\ DurablePending' = j.set
      BY <2>1, <2>2, <3>2 DEF DurableProfile, DurablePending, Incomplete
    <3>4. j.set \in [Name -> Atomic!Content]
      BY <3>1 DEF Matched, Content, Atomic!Content
    <3> QED BY <2>1, <3>3, <3>4 DEF Atomic!Next, Atomic!Request
  <2>3. CASE ~ Incomplete(j)
    <3>1. disk.live = flushed.live
      <4>1. CASE Incomplete(journal) BY <1>3, <4>1 DEF Durable, Requested
      <4>2. CASE ~ Incomplete(journal) BY <4>2 DEF Durable, Still
      <4> QED BY <4>1, <4>2
    <3>2. DurableProfile' = DurableProfile /\ DurablePending' = DurablePending
      BY <1>1, <2>1, <2>3, <3>1 DEF DurableProfile, DurablePending, Incomplete
    <3> QED BY <3>2 DEF Atomic!vars
  <2> QED BY <2>2, <2>3
<1> QED BY <1>2, <1>3

(* The application writes when nothing is left to reach the disk.          *)
LEMMA WriteIsAtomic ==
  ASSUME IInv, NEW n \in Name, Create(n) \/ Write(n)
  PROVE  Atomic!Next
<1>1. op \in {"opening", "open"} /\ flushed = disk /\ flushed' = disk' /\ journal = None
  BY DEF Create, Write, Synced, IInv, Recovering
<1>2. PICK c \in Content : disk' = [disk EXCEPT !.live[n] = c]
  <2>1. 0 \in Content /\ (written < MaxContent => written + 1 \in Content)
    BY ContentAssumption DEF IInv, TypeOK, Content
  <2> QED BY <2>1 DEF Create, Write
<1>3. disk'.journal = None /\ disk'.live = [disk.live EXCEPT ![n] = c]
  BY <1>1, <1>2 DEF IInv, TypeOK, Directories, journal
<1>4. /\ DurablePending = None /\ DurablePending' = None
      /\ DurableProfile = disk.live /\ DurableProfile' = disk'.live
  BY <1>1, <1>3 DEF DurableProfile, DurablePending, Incomplete, journal
<1>5. Atomic!Write(n, c)
  BY <1>3, <1>4 DEF Atomic!Write
<1>6. c \in Atomic!Content
  BY DEF Content, Atomic!Content
<1> QED BY <1>5, <1>6 DEF Atomic!Next

LEMMA AtomicStep ==
  ASSUME IInv, Durable, [Next]_vars
  PROVE  [Atomic!Next]_(Atomic!vars)
<1>1. CASE flushed' = flushed
  BY <1>1, SameDurable
<1>2. ASSUME NEW n \in Name, Create(n) \/ Write(n) PROVE Atomic!Next
  BY <1>2, WriteIsAtomic
<1>3. ASSUME NEW set \in Sets, Restore(set) PROVE UNCHANGED Atomic!vars
  <2>1. flushed = disk /\ journal = None /\ flushed'.journal = None /\ flushed'.live = disk.live
    BY <1>3, RestoreIs DEF Restore, Synced
  <2> QED BY <2>1, SameDurable DEF journal
<1>4. CASE Flush
  <2>1. flushed' = disk BY <1>4 DEF Flush
  <2> QED BY <2>1, ReachesDisk
<1>5. ASSUME NEW lost \in SUBSET Name, NEW j \in {disk.journal, flushed.journal}, PowerLoss(lost, j)
      PROVE  [Atomic!Next]_(Atomic!vars)
  <2>1. flushed'.journal = j /\ (disk.live = flushed.live => flushed'.live = disk.live)
    BY <1>5, PowerLossIs
  <2> QED BY <2>1, ReachesDisk
<1>6. CASE UNCHANGED vars
  BY <1>1, <1>6 DEF vars
<1> QED
  BY <1>1, <1>2, <1>3, <1>4, <1>5, <1>6
  DEF Next, Start, Recover, Wipe, Rollback, FinishStage, Discard, Wiped, RolledBack, FinishJournal,
      Finished, Discarded, Opened, Capture, Quit, Refuse, MoveCurrent, Install, JournalStep, Swapped,
      Die

LEMMA AtomicInit == Init => Atomic!Init
  BY DEF Init, Nothing, Atomic!Init, DurableProfile, DurablePending, Incomplete

(* The journaled restore, its recovery and every failure in between act as *)
(* one atomic replacement of the profile, or as none (swap, recover).      *)
THEOREM RestoreIsAtomic == Spec => ImplementsAtomicRestore
<1>1. IInv /\ Durable /\ [Next]_vars => [Atomic!Next]_(Atomic!vars)
  BY AtomicStep
<1>2. Spec => []Durable
  BY Invariant, DurableInit, DurableStep, PTL DEF Spec
<1> QED
  BY <1>1, <1>2, AtomicInit, Invariant, PTL DEF Spec, ImplementsAtomicRestore, Atomic!Spec
=============================================================================
