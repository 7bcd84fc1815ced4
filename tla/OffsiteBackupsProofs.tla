-------------------------- MODULE OffsiteBackupsProofs --------------------------
(***************************************************************************)
(* For any limits whose margin holds a transaction (Limit + TxLimit <=     *)
(* Promise), any retention and any faults: no attempt and no transaction   *)
(* outlives its deadline, and as long as the wall clock is never set back  *)
(* no change is farther than the promised time from a set that is stored   *)
(* and no day of the retention's window loses its set.  One failure pauses *)
(* no changes if the limits leave room for a second attempt.               *)
(*                                                                         *)
(* The promise is not inductive by itself: it needs that the set which     *)
(* covers changes is in the bucket, which the retention could undo were it *)
(* not the newest of all when the retention runs.                          *)
(***************************************************************************)
EXTENDS OffsiteBackups, FiniteSetTheorems, WellFoundedInduction, TLAPS

Sets == [name : Int, at : Nat, intact : BOOLEAN]
Receipts == [at : Nat, name : Int]
Jobs == [at : Nat, name : Int, pc : {"capture", "upload", "verify", "prune"}, intact : BOOLEAN]

Typed ==
  /\ now \in 0..MaxTime /\ wall \in Int /\ looked \in BOOLEAN /\ faults \in 0..MaxFaults
  /\ store \subseteq Sets /\ status \in {None} \union Receipts /\ job \in {None} \union Jobs
  /\ tx \in {Never} \union Nat /\ last \in {Never} \union Nat
  /\ \A o \in store : o.at <= now
  /\ \A o, p \in store : o.name = p.name => o = p
  /\ job # None => job.at <= now /\ now <= job.at + Attempt
  /\ tx # Never => tx <= now /\ now <= tx + TxLimit
  /\ status # None => status.at <= now

LEMMA NoneIsNoRecord == None \notin Receipts /\ None \notin Jobs
  <1>1. \A r \in Receipts : r # None
    BY DEF Receipts, None
  <1>2. \A r \in Jobs : r # None
    BY DEF Jobs, None
  <1> QED BY <1>1, <1>2

LEMMA TypedInit == Init => Typed
  <1> SUFFICES ASSUME Init PROVE Typed OBVIOUS
  <1>1. 0 \in 0..MaxTime /\ 0 \in 0..MaxFaults
    BY OffsiteAssumption
  <1>2. status = None /\ job = None /\ tx = Never /\ last = Never /\ store = {}
    BY DEF Init
  <1>3. now = 0 /\ wall = 0 /\ looked = FALSE /\ faults = 0
    BY DEF Init
  <1>4. looked \in BOOLEAN
    BY <1>3
  <1>5. /\ now \in 0..MaxTime /\ wall \in Int /\ faults \in 0..MaxFaults
        /\ tx \in {Never} \union Nat /\ last \in {Never} \union Nat
    BY <1>1, <1>2, <1>3
  <1>6. /\ store \subseteq Sets /\ \A o \in store : o.at <= now
        /\ \A o, p \in store : o.name = p.name => o = p
    BY <1>2
  <1> QED BY <1>2, <1>4, <1>5, <1>6 DEF Typed

LEMMA TypedStep == Typed /\ [Next]_vars => Typed'
  <1> SUFFICES ASSUME Typed, [Next]_vars PROVE Typed' OBVIOUS
  <1> USE OffsiteAssumption, NoneIsNoRecord
  <1>1. CASE BeginWrite
    BY <1>1 DEF BeginWrite, Typed, Never
  <1>2. CASE Finish
    BY <1>2 DEF Finish, Typed, Never
  <1>3. CASE Look
    <2>1. job' \in Jobs /\ job'.at = now
      BY <1>3 DEF Look, Typed, Jobs, Wall
    <2> QED BY <1>3, <2>1 DEF Look, Typed
  <1>4. CASE Capture
    <2>1. job' \in Jobs /\ job'.at = job.at /\ job # None
      BY <1>4 DEF Capture, Typed, Jobs
    <2> QED BY <1>4, <2>1 DEF Capture, Typed
  <1>5. CASE FailAttempt
    BY <1>5 DEF FailAttempt, Typed
  <1>6. ASSUME Upload PROVE Typed'
    <2>1. PICK intact \in BOOLEAN :
            /\ job' = [job EXCEPT !.pc = "verify", !.intact = intact]
            /\ store' = store \union {[name |-> job.name, at |-> job.at, intact |-> intact]}
      BY <1>6 DEF Upload
    <2>2. job' \in Jobs /\ job'.at = job.at /\ job # None /\ job \in Jobs
      BY <1>6, <2>1 DEF Upload, Typed, Jobs
    <2>3. store' \subseteq Sets
      BY <2>1, <2>2 DEF Typed, Sets, Jobs
    <2>4. \A o \in store' : o.at <= now
      BY <2>1, <2>2 DEF Typed
    <2>5. \A o, p \in store' : o.name = p.name => o = p
      BY <1>6, <2>1 DEF Upload, Typed
    <2> QED BY <1>6, <2>2, <2>3, <2>4, <2>5 DEF Upload, Typed
  <1>7. CASE Verify
    <2>1. job' \in Jobs /\ job'.at = job.at /\ job # None /\ job \in Jobs
      BY <1>7 DEF Verify, Typed, Jobs
    <2>2. status' \in Receipts /\ status'.at = job.at
      BY <1>7, <2>1 DEF Verify, Coverage, Receipts, Jobs
    <2> QED BY <1>7, <2>1, <2>2 DEF Verify, Typed
  <1>8. CASE Prune
    <2>1. store' \subseteq store
      BY <1>8 DEF Prune
    <2> QED BY <1>8, <2>1 DEF Prune, Typed
  <1>9. CASE Restart
    BY <1>9 DEF Restart, Typed
  <1>10. CASE StepClock
    <2>1. wall' \in Int
      BY <1>10 DEF StepClock, Typed
    <2> QED BY <1>10, <2>1 DEF StepClock, Typed
  <1>11. CASE Tick
    <2>1. now' = now + 1 /\ now' \in 0..MaxTime
      BY <1>11 DEF Tick, Typed
    <2>2. job # None => job.at \in Nat
      BY DEF Typed, Jobs
    <2>3. \A o \in store : o.at \in Nat
      BY DEF Typed, Sets
    <2>4. status # None => status.at \in Nat
      BY DEF Typed, Receipts
    <2>5. \A o \in store' : o.at <= now'
      BY <1>11, <2>1, <2>3 DEF Tick, Typed
    <2>6. job' # None => job'.at <= now' /\ now' <= job'.at + Attempt
      BY <1>11, <2>1, <2>2 DEF Tick, Typed
    <2>7. tx' # Never => tx' <= now' /\ now' <= tx' + TxLimit
      BY <1>11, <2>1 DEF Tick, Typed
    <2>8. UNCHANGED <<wall, store, status, job, faults, tx, last>> /\ looked' \in BOOLEAN
      BY <1>11 DEF Tick
    <2>9. status' # None => status'.at <= now'
      BY <2>1, <2>4, <2>8 DEF Typed
    <2> QED BY <2>1, <2>5, <2>6, <2>7, <2>8, <2>9 DEF Typed
  <1>12. CASE UNCHANGED vars
    BY <1>12 DEF vars, Typed
  <1> QED BY <1>1, <1>2, <1>3, <1>4, <1>5, <1>6, <1>7, <1>8, <1>9, <1>10, <1>11, <1>12 DEF Next

(* Names are unique, and no attempt and no transaction outlives its        *)
(* deadline (manager.go:104, hosted_backup.go:18), whatever the clock does.*)
THEOREM TypeCorrect == Spec => []TypeOK
  <1>1. ASSUME Typed PROVE TypeOK
    <2>1. \A o \in store : o.at \in 0..now
      BY <1>1 DEF Typed, Sets
    <2>3. \A o \in store : o.intact \in BOOLEAN
      BY <1>1 DEF Typed, Sets
    <2>2. job # None => job.pc \in {"capture", "upload", "verify", "prune"}
      BY <1>1 DEF Typed, Jobs
    <2>4. now \in 0..MaxTime /\ looked \in BOOLEAN /\ faults \in 0..MaxFaults
      BY <1>1 DEF Typed
    <2>5. \A o, p \in store : o.name = p.name => o = p
      BY <1>1 DEF Typed
    <2>6. /\ job # None => job.at <= now /\ now <= job.at + Attempt
          /\ tx # Never => tx <= now /\ now <= tx + TxLimit
          /\ status # None => status.at <= now
      BY <1>1 DEF Typed
    <2> QED BY <2>1, <2>2, <2>3, <2>4, <2>5, <2>6, Zenon DEF TypeOK
  <1> QED BY TypedInit, TypedStep, <1>1, PTL DEF Spec

-----------------------------------------------------------------------------
(* Nothing stored is newer than the attempt under way, by either clock.    *)
Ordered ==
  /\ \A o \in store : o.name <= Wall
  /\ job # None => /\ job.name <= Wall
                   /\ \A o \in store : o.at <= job.at /\ o.name <= job.name

(* A stored set gives back what was captured no earlier than t.            *)
Held(t) == \E o \in store : o.intact /\ t <= o.at

(* What has been sent well is stored, and so is what covers changes.       *)
Stored ==
  /\ job # None /\ job.pc \in {"verify", "prune"} /\ job.intact =>
       \E o \in store : o.intact /\ o.at = job.at /\ o.name = job.name
  /\ job # None /\ job.pc = "prune" => job.intact /\ (status # None => status.at = job.at)
  /\ status # None => Held(status.at)

(* A transaction is admitted within the limit of a stored set.             *)
Margin ==
  /\ tx # Never => \E o \in store : o.intact /\ tx < o.at + Limit
  /\ LossBounded

IInv == Typed /\ Ordered /\ Stored /\ Margin

LEMMA InitHolds == Init => IInv
  BY TypedInit DEF Init, IInv, Ordered, Stored, Margin, LossBounded, Never

(* The newest set of all outlives the retention.                           *)
LEMMA NewestIsKept ==
  ASSUME Typed, NEW o \in store, \A p \in store : p.name <= o.name
  PROVE  Kept(o)
  <1>1. {p \in store : p.name > o.name} = {}
    BY DEF Typed, Sets
  <1>2. Cardinality({p \in store : p.name > o.name}) < Newest
    BY <1>1, FS_EmptySet, OffsiteAssumption
  <1> QED BY <1>2 DEF Kept

(* Every step keeps the invariant while the clock is never set back.       *)
LEMMA StepHolds == ASSUME Steps \subseteq Nat PROVE IInv /\ [Next]_vars => IInv'
  <1> SUFFICES ASSUME IInv, [Next]_vars PROVE IInv' OBVIOUS
  <1> USE OffsiteAssumption, NoneIsNoRecord
  <1>0. Typed /\ Typed'
    BY TypedStep DEF IInv
  <1>a. now \in Nat /\ wall \in Int /\ (tx # Never => tx \in Nat) /\ (last # Never => last \in Nat)
    BY <1>0 DEF Typed
  <1>b. \A o \in store : o.at \in Nat /\ o.name \in Int
    BY <1>0 DEF Typed, Sets
  <1>c. job # None => job \in Jobs /\ job.at \in Nat /\ job.name \in Int
    BY <1>0 DEF Typed, Jobs
  <1>d. status # None => status.at \in Nat
    BY <1>0 DEF Typed, Receipts
  <1>1. CASE BeginWrite
    <2>1. UNCHANGED <<now, wall, store, status, job, last>> /\ tx' = now /\ status # None
          /\ now - status.at < Limit
      BY <1>1 DEF BeginWrite, Writable
    <2>2. \E o \in store : o.intact /\ now < o.at + Limit
      <3>1. PICK o \in store : o.intact /\ status.at <= o.at
        BY <2>1 DEF IInv, Stored, Held
      <3> QED BY <2>1, <3>1, <1>a, <1>b, <1>d
    <2> QED BY <1>0, <2>1, <2>2 DEF IInv, Ordered, Stored, Held, Margin, LossBounded, Wall
  <1>2. CASE Finish
    <2>1. UNCHANGED <<now, wall, store, status, job>> /\ tx' = Never /\ tx # Never /\ last' \in {last, now}
      BY <1>2 DEF Finish
    <2>2. \E o \in store : o.intact /\ now < o.at + Promise
      <3>1. PICK o \in store : o.intact /\ tx < o.at + Limit
        BY <2>1 DEF IInv, Margin
      <3>2. now <= tx + TxLimit
        BY <1>0, <2>1 DEF Typed
      <3> QED BY <2>1, <3>1, <3>2, <1>a, <1>b
    <2>3. LossBounded'
      BY <2>1, <2>2 DEF IInv, Margin, LossBounded
    <2> QED BY <1>0, <2>1, <2>3 DEF IInv, Ordered, Stored, Held, Margin, Wall
  <1>3. CASE Look
    <2>1. /\ UNCHANGED <<now, wall, store, status, tx, last>> /\ job' # None
          /\ job'.at = now /\ job'.name = Wall /\ job'.pc = "capture"
      BY <1>3, <1>0, <1>a DEF Look, None
    <2>2. \A o \in store : o.at <= now
      BY <1>0 DEF Typed
    <2>3. Ordered'
      BY <2>1, <2>2, <1>a DEF IInv, Ordered, Wall
    <2> QED BY <1>0, <2>1, <2>3 DEF IInv, Stored, Held, Margin, LossBounded
  <1>4. CASE Capture
    <2>1. /\ UNCHANGED <<now, wall, store, status, tx, last>> /\ job # None
          /\ job'.at = job.at /\ job'.name = job.name /\ job'.pc = "upload"
      BY <1>4, <1>c DEF Capture, Jobs
    <2> QED BY <1>0, <2>1 DEF IInv, Ordered, Stored, Held, Margin, LossBounded, Wall
  <1>5. CASE FailAttempt
    <2>1. UNCHANGED <<now, wall, store, status, tx, last>> /\ job' = None
      BY <1>5 DEF FailAttempt
    <2> QED BY <1>0, <2>1 DEF IInv, Ordered, Stored, Held, Margin, LossBounded, Wall
  <1>6. ASSUME Upload PROVE IInv'
    <2>1. PICK intact \in BOOLEAN :
            /\ job' = [job EXCEPT !.pc = "verify", !.intact = intact]
            /\ store' = store \union {[name |-> job.name, at |-> job.at, intact |-> intact]}
      BY <1>6 DEF Upload
    <2>2. UNCHANGED <<now, wall, status, tx, last>> /\ job # None
      BY <1>6 DEF Upload
    <2>3. job'.at = job.at /\ job'.name = job.name /\ job'.pc = "verify" /\ job'.intact = intact
      BY <2>1, <2>2, <1>c DEF Jobs
    <2>4. Ordered'
      BY <2>1, <2>2, <2>3, <1>c, <1>a DEF IInv, Ordered, Wall
    <2>5. Stored'
      <3>1. PICK o : o = [name |-> job.name, at |-> job.at, intact |-> intact]
        OBVIOUS
      <3>2. o.name = job.name /\ o.at = job.at /\ o.intact = intact /\ o \in store'
        BY <2>1, <3>1
      <3>3. status # None => \E p \in store : p.intact /\ status.at <= p.at
        BY DEF IInv, Stored, Held
      <3>4. store \subseteq store' /\ status' = status /\ job' # None
        BY <2>1, <2>2, <2>3, <1>c DEF Jobs, None
      <3>5. status' # None => \E p \in store' : p.intact /\ status'.at <= p.at
        BY <3>3, <3>4
      <3>6. job'.intact => \E p \in store' : p.intact /\ p.at = job'.at /\ p.name = job'.name
        BY <2>3, <3>2
      <3>7. job'.pc # "prune"
        BY <2>3
      <3> QED BY <3>5, <3>6, <3>7 DEF Stored, Held
    <2>6. Margin'
      BY <2>1, <2>2 DEF IInv, Margin, LossBounded
    <2> QED BY <1>0, <2>4, <2>5, <2>6 DEF IInv
  <1>7. CASE Verify
    <2>1. /\ UNCHANGED <<now, wall, store, tx, last>> /\ job # None /\ job.pc = "verify" /\ job.intact
          /\ job'.at = job.at /\ job'.name = job.name /\ job'.pc = "prune" /\ job'.intact = job.intact
          /\ status'.at = job.at
      BY <1>7, <1>c DEF Verify, Coverage, Jobs
    <2>2. PICK o \in store : o.intact /\ o.at = job.at /\ o.name = job.name
      BY <2>1 DEF IInv, Stored
    <2>3. Stored'
      BY <2>1, <2>2, <1>b DEF Stored, Held
    <2>4. Ordered' /\ Margin'
      BY <2>1 DEF IInv, Ordered, Margin, LossBounded, Wall
    <2> QED BY <1>0, <2>3, <2>4 DEF IInv
  <1>8. CASE Prune
    <2>1. /\ UNCHANGED <<now, wall, status, tx, last>> /\ job' = None /\ job # None /\ job.pc = "prune"
          /\ store' \subseteq store
      BY <1>8 DEF Prune
    <2>2. PICK o \in store : o.intact /\ o.at = job.at /\ o.name = job.name
      BY <2>1 DEF IInv, Stored
    <2>3. \A p \in store : p.name <= o.name /\ p.at <= o.at
      BY <2>1, <2>2 DEF IInv, Ordered
    <2>4. o \in store'
      BY <1>8, <1>0, <2>3, NewestIsKept DEF Prune
    <2>5. Ordered'
      BY <2>1 DEF IInv, Ordered, Wall
    <2>6. Stored'
      BY <2>1, <2>2, <2>4, <1>d DEF IInv, Stored, Held
    <2>7. \A t \in Nat, k \in Nat : (\E p \in store : p.intact /\ t < p.at + k) => t < o.at + k
      BY <2>3, <1>b
    <2>8. Margin'
      <3>1. tx' # Never => \E p \in store' : p.intact /\ tx' < p.at + Limit
        BY <2>1, <2>2, <2>4, <2>7, <1>a DEF IInv, Margin
      <3>2. LossBounded'
        BY <2>1, <2>2, <2>4, <2>7, <1>a DEF IInv, Margin, LossBounded
      <3> QED BY <3>1, <3>2 DEF Margin
    <2> QED BY <1>0, <2>5, <2>6, <2>8 DEF IInv
  <1>9. CASE Restart
    <2>1. UNCHANGED <<now, wall, store, last>> /\ job' = None /\ status' = None /\ tx' = Never
      BY <1>9 DEF Restart
    <2> QED BY <1>0, <2>1 DEF IInv, Ordered, Stored, Margin, LossBounded, Wall
  <1>10. ASSUME StepClock PROVE IInv'
    <2>1. PICK by \in Steps : wall' = wall + by
      BY <1>10 DEF StepClock
    <2>2. UNCHANGED <<now, store, status, job, tx, last>>
      BY <1>10 DEF StepClock
    <2>3. Wall \in Int /\ Wall' \in Int /\ Wall <= Wall'
      BY <2>1, <2>2, <1>a DEF Wall
    <2>4. Ordered'
      BY <2>2, <2>3, <1>b, <1>c DEF IInv, Ordered
    <2> QED BY <1>0, <2>2, <2>4 DEF IInv, Stored, Held, Margin, LossBounded
  <1>11. CASE Tick
    <2>1. UNCHANGED <<wall, store, status, job, tx, last>> /\ now' = now + 1
      BY <1>11 DEF Tick
    <2>2. Wall \in Int /\ Wall' \in Int /\ Wall <= Wall'
      BY <2>1, <1>a DEF Wall
    <2>3. Ordered'
      BY <2>1, <2>2, <1>b, <1>c DEF IInv, Ordered
    <2> QED BY <1>0, <2>1, <2>3 DEF IInv, Stored, Held, Margin, LossBounded
  <1>12. CASE UNCHANGED vars
    BY <1>0, <1>12 DEF vars, IInv, Ordered, Stored, Held, Margin, LossBounded, Wall
  <1> QED BY <1>1, <1>2, <1>3, <1>4, <1>5, <1>6, <1>7, <1>8, <1>9, <1>10, <1>11, <1>12 DEF Next

(* As long as the wall clock is never set back, every change but those of  *)
(* less than the promised time after some stored set is in that set:       *)
(* whatever fails, is damaged, is removed or restarts in between.          *)
THEOREM LossIsBounded == ASSUME Steps \subseteq Nat PROVE Spec => []LossBounded
  <1>1. IInv => LossBounded
    BY DEF IInv, Margin
  <1>2. IInv /\ [Next]_vars => IInv'
    BY StepHolds
  <1> QED BY InitHolds, <1>1, <1>2, PTL DEF Spec
-----------------------------------------------------------------------------
(* The first failure delays the next capture by an attempt.                *)
Slack == IF faults = 0 THEN 0 ELSE Attempt

(* While the wall clock is left alone, a set's name is its time, and the   *)
(* next attempt begins when it is due, or when the one that failed ended.  *)
Unstepped ==
  steps \in Nat /\ (steps = 0 => wall = 0 /\ (job # None => job.name = job.at))

Timely ==
  status # None /\ faults <= 1 /\ steps = 0 =>
    /\ status.name = status.at
    /\ job # None /\ job.pc = "prune" => job.at = status.at
    /\ job # None /\ job.pc # "prune" => job.at <= status.at + Interval + Slack
    /\ job = None => now <= status.at + Interval + Slack
    /\ job = None /\ looked /\ CaptureDue => now < status.at + Interval + Slack

Flow == Typed /\ Unstepped /\ Timely /\ (job # None /\ looked => job.at = now)

(* Every day on which a set was verified holds a set while it is in the    *)
(* window of the retention, and the set of the attempt once it is sent.    *)
Since(d) == Wall - KeepDays * DayLength <= d * DayLength
DaysHeld == \A d \in days : Since(d) => \E o \in store : Day(o.name) = d
Dated == IInv /\ days \subseteq Int /\ DaysHeld

-----------------------------------------------------------------------------
LEMMA FlowInit == Init => Flow
  <1> SUFFICES ASSUME Init PROVE Flow OBVIOUS
  <1>1. Typed
    BY TypedInit
  <1> QED BY <1>1 DEF Init, Flow, Unstepped, Timely

(* A step in which neither faults nor the wall clock change keeps what a   *)
(* job is called.                                                          *)
LEMMA FlowStep ==
  ASSUME Attempt <= Interval
  PROVE  Flow /\ [Next]_vars => Flow'
  <1> SUFFICES ASSUME Flow, [Next]_vars PROVE Flow' OBVIOUS
  <1> USE NoneIsNoRecord
  <1>0. Typed /\ Typed' /\ Unstepped /\ Timely /\ (job # None /\ looked => job.at = now)
    BY TypedStep DEF Flow
  <1>a. now \in Nat /\ wall \in Int /\ faults \in Nat /\ steps \in Nat
    BY <1>0, OffsiteAssumption DEF Typed, Unstepped
  <1>b. Attempt \in Nat /\ Interval \in Nat /\ 0 < Attempt /\ 0 < Interval
    BY OffsiteAssumption
  <1>c. job # None => /\ job \in Jobs /\ job.at \in Nat /\ job.name \in Int
                      /\ job.at <= now /\ now <= job.at + Attempt
    BY <1>0 DEF Typed, Jobs
  <1>d. status # None => status.at \in Nat /\ status.name \in Int /\ status.at <= now
    BY <1>0 DEF Typed, Receipts
  <1>e. Slack \in Nat /\ (faults = 1 => Slack = Attempt) /\ (faults = 0 => Slack = 0)
    BY <1>b DEF Slack
  <1>1. CASE BeginWrite
    BY <1>0, <1>1 DEF BeginWrite, Flow, Unstepped, Timely, CaptureDue, Slack
  <1>2. CASE Finish
    BY <1>0, <1>2 DEF Finish, Flow, Unstepped, Timely, CaptureDue, Slack
  <1>3. CASE Look
    <2>1. /\ UNCHANGED <<now, wall, status, faults, steps>> /\ job = None /\ job' # None
          /\ job'.at = now /\ job'.name = Wall /\ job'.pc = "capture"
      BY <1>3, <1>0, <1>a DEF Look, None
    <2>2. Unstepped'
      BY <1>0, <1>a, <2>1 DEF Unstepped, Wall
    <2>3. Timely'
      BY <1>0, <1>a, <2>1 DEF Timely, Slack
    <2> QED BY <1>0, <2>1, <2>2, <2>3 DEF Flow
  <1>4. CASE Capture
    <2>1. /\ UNCHANGED <<now, wall, status, faults, steps, looked>> /\ job # None /\ job' # None
          /\ job'.at = job.at /\ job'.name = job.name /\ job.pc = "capture" /\ job'.pc = "upload"
      BY <1>4, <1>0, <1>c DEF Capture, Jobs, Typed
    <2> QED BY <1>0, <2>1 DEF Flow, Unstepped, Timely, CaptureDue, Slack
  <1>5. CASE FailAttempt
    <2>1. /\ UNCHANGED <<now, wall, status, looked, steps>> /\ job # None /\ job' = None
          /\ faults' = faults + 1
      BY <1>5 DEF FailAttempt
    <2>2. ASSUME status # None, faults' <= 1, steps = 0
          PROVE  /\ status.name = status.at /\ Slack' = Attempt
                 /\ now <= status.at + Interval + Attempt
                 /\ looked /\ CaptureDue => now < status.at + Interval + Attempt
      <3>1. faults = 0 /\ Slack' = Attempt /\ Slack = 0 /\ status.name = status.at
        BY <1>0, <1>a, <1>e, <2>1, <2>2 DEF Timely, Slack
      <3>2. job.at <= status.at + Interval
        <4>1. CASE job.pc = "prune"
          BY <1>0, <1>a, <1>b, <1>c, <1>d, <2>1, <2>2, <3>1, <4>1 DEF Timely
        <4>2. CASE job.pc # "prune"
          BY <1>0, <1>a, <1>b, <1>c, <1>d, <2>1, <2>2, <3>1, <4>2 DEF Timely
        <4> QED BY <4>1, <4>2
      <3>3. now <= status.at + Interval + Attempt
        BY <1>a, <1>b, <1>c, <1>d, <2>1, <2>2, <3>2
      <3>4. looked => now < status.at + Interval + Attempt
        BY <1>0, <1>a, <1>b, <1>c, <1>d, <2>1, <2>2, <3>2
      <3> QED BY <3>1, <3>3, <3>4
    <2>3. Timely'
      BY <2>1, <2>2 DEF Timely, CaptureDue
    <2> QED BY <1>0, <2>1, <2>3 DEF Flow, Unstepped
  <1>6. ASSUME Upload PROVE Flow'
    <2>1. PICK intact \in BOOLEAN : job' = [job EXCEPT !.pc = "verify", !.intact = intact]
      BY <1>6 DEF Upload
    <2>2. UNCHANGED <<now, wall, status, looked, faults, steps>> /\ job # None /\ job.pc = "upload"
      BY <1>6 DEF Upload
    <2>3. job'.at = job.at /\ job'.name = job.name /\ job'.pc = "verify" /\ job' # None
      BY <1>c, <2>1, <2>2 DEF Jobs, None
    <2> QED BY <1>0, <2>2, <2>3 DEF Flow, Unstepped, Timely, CaptureDue, Slack
  <1>7. CASE Verify
    <2>1. /\ UNCHANGED <<now, wall, looked, faults, steps>> /\ job # None /\ job' # None
          /\ job'.at = job.at /\ job'.name = job.name /\ job'.pc = "prune"
          /\ status'.at = job.at /\ status'.name = job.name
      BY <1>7, <1>c DEF Verify, Coverage, Jobs, None
    <2> QED BY <1>0, <2>1 DEF Flow, Unstepped, Timely
  <1>8. CASE Prune
    <2>1. /\ UNCHANGED <<now, wall, status, looked, faults, steps>> /\ job # None /\ job' = None
          /\ job.pc = "prune"
      BY <1>8 DEF Prune
    <2>2. ASSUME status # None, faults <= 1, steps = 0
          PROVE  /\ status.name = status.at /\ now <= status.at + Interval + Slack
                 /\ ~(looked /\ CaptureDue)
      <3>1. status.at = job.at /\ status.name = status.at
        BY <1>0, <2>1, <2>2 DEF Timely
      <3>2. now <= status.at + Interval + Slack
        BY <1>a, <1>b, <1>c, <1>d, <1>e, <2>1, <2>2, <3>1
      <3>3. looked => now - status.at = 0
        BY <1>0, <1>a, <2>1, <3>1
      <3> QED BY <1>b, <2>2, <3>1, <3>2, <3>3 DEF CaptureDue
    <2>3. Timely'
      BY <2>1, <2>2 DEF Timely, Slack, CaptureDue
    <2> QED BY <1>0, <2>1, <2>3 DEF Flow, Unstepped
  <1>9. CASE Restart
    <2>1. UNCHANGED <<now, wall, looked, steps>> /\ job' = None /\ status' = None
      BY <1>9 DEF Restart
    <2> QED BY <1>0, <2>1 DEF Flow, Unstepped, Timely
  <1>10. CASE StepClock
    <2>1. steps' = steps + 1 /\ UNCHANGED <<now, job, looked>>
      BY <1>10 DEF StepClock
    <2>2. steps' \in Nat /\ steps' # 0
      BY <1>a, <2>1
    <2> QED BY <1>0, <2>1, <2>2 DEF Flow, Unstepped, Timely
  <1>11. CASE Tick
    <2>1. /\ UNCHANGED <<wall, status, job, faults, steps>> /\ now' = now + 1 /\ looked' = FALSE
          /\ job = None /\ CaptureDue => looked
      BY <1>11 DEF Tick
    <2>2. ASSUME status # None, faults <= 1, steps = 0, job = None
          PROVE  now + 1 <= status.at + Interval + Slack
      <3>1. CASE CaptureDue
        BY <1>0, <1>a, <1>b, <1>d, <1>e, <2>1, <2>2, <3>1 DEF Timely
      <3>2. CASE ~CaptureDue
        BY <1>a, <1>b, <1>d, <1>e, <2>2, <3>2 DEF CaptureDue
      <3> QED BY <3>1, <3>2
    <2>3. Timely'
      BY <1>0, <2>1, <2>2 DEF Timely, Slack
    <2> QED BY <1>0, <2>1, <2>3 DEF Flow, Unstepped
  <1>12. CASE UNCHANGED vars
    BY <1>0, <1>12 DEF vars, Flow, Unstepped, Timely, CaptureDue, Slack
  <1> QED BY <1>1, <1>2, <1>3, <1>4, <1>5, <1>6, <1>7, <1>8, <1>9, <1>10, <1>11, <1>12 DEF Next

(* A failure pauses no changes while the clock is left alone, for all      *)
(* limits that leave room for a capture in time and two attempts           *)
(* (manager.go:94: five minutes and twice two are less than fourteen).     *)
THEOREM ChangesFlow ==
  ASSUME Attempt <= Interval, Interval + 2 * Attempt < Limit
  PROVE  Spec => []WritesFlow
  <1>1. ASSUME Flow PROVE WritesFlow
    <2> SUFFICES ASSUME status # None, faults <= 1, steps = 0 PROVE Writable
      BY DEF WritesFlow
    <2>1. /\ Typed /\ Unstepped /\ Timely /\ wall = 0 /\ status.name = status.at
          /\ faults \in Nat
      BY <1>1, OffsiteAssumption DEF Flow, Typed, Unstepped, Timely
    <2>2. now \in Nat /\ status.at \in Nat /\ status.at <= now
      BY <2>1 DEF Typed, Receipts
    <2>3. Attempt \in Nat /\ Interval \in Nat /\ Limit \in Nat
      BY OffsiteAssumption
    <2>4. Slack \in Nat /\ Slack <= Attempt
      BY <2>3 DEF Slack
    <2>5. job # None => job.at \in Nat /\ now <= job.at + Attempt
      BY <2>1 DEF Typed, Jobs
    <2>6. now <= status.at + Interval + 2 * Attempt
      <3>1. CASE job = None
        BY <2>1, <2>2, <2>3, <2>4, <3>1 DEF Timely
      <3>2. CASE job # None /\ job.pc = "prune"
        BY <2>1, <2>2, <2>3, <2>5, <3>2 DEF Timely
      <3>3. CASE job # None /\ job.pc # "prune"
        BY <2>1, <2>2, <2>3, <2>4, <2>5, <3>3 DEF Timely
      <3> QED BY <3>1, <3>2, <3>3
    <2> QED BY <2>1, <2>2, <2>3, <2>6 DEF Writable, Wall
  <1>2. Flow /\ [Next]_vars => Flow'
    BY FlowStep
  <1> QED BY FlowInit, <1>1, <1>2, PTL DEF Spec

-----------------------------------------------------------------------------
LEMMA DayIs ==
  ASSUME NEW name \in Int
  PROVE  /\ Day(name) \in Int
         /\ Day(name) * DayLength <= name
         /\ name < (Day(name) + 1) * DayLength
  BY OffsiteAssumption DEF Day

(* The last set of a day outlives the retention while its day is kept.     *)
LEMMA LastOfDayIsKept ==
  ASSUME Typed, NEW d \in Int, Since(d), \E o \in store : Day(o.name) = d
  PROVE  \E o \in store : Day(o.name) = d /\ Kept(o)
  <1> DEFINE T == {o \in store : Day(o.name) = d}
  <1>1. PICK end \in Int : end = (d + 1) * DayLength
    BY OffsiteAssumption
  <1>2. \A o \in T : o.name \in Int /\ end - o.name \in Nat /\ d * DayLength <= o.name
    <2> SUFFICES ASSUME NEW o \in T
                 PROVE  o.name \in Int /\ end - o.name \in Nat /\ d * DayLength <= o.name
      OBVIOUS
    <2>1. o.name \in Int
      BY DEF Typed, Sets
    <2> QED BY <1>1, <2>1, DayIs
  <1> DEFINE lefts == {end - o.name : o \in T}
  <1>3. lefts \subseteq Nat /\ lefts # {}
    BY <1>2
  <1>4. PICK n \in lefts : \A m \in lefts : <<m, n>> \notin OpToRel(<, Nat)
    <2> HIDE DEF lefts
    <2> QED BY <1>3, NatLessThanWellFounded, WFMin
  <1>5. PICK o \in T : n = end - o.name
    OBVIOUS
  <1>6. ASSUME NEW p \in store, Day(p.name) = Day(o.name) PROVE p.name <= o.name
    <2>1. p \in T /\ end - p.name \in lefts /\ end - p.name \in Nat /\ n \in Nat
      BY <1>2, <1>5, <1>6
    <2>2. ~(end - p.name < n)
      BY <1>4, <2>1 DEF OpToRel
    <2> QED BY <1>2, <1>5, <2>1, <2>2
  <1>7. o.name >= Wall - KeepDays * DayLength
    <2>1. PICK from \in Int : from = d * DayLength
      BY OffsiteAssumption
    <2>2. PICK window \in Int : window = KeepDays * DayLength
      BY OffsiteAssumption
    <2>3. Wall \in Int
      BY DEF Typed, Wall
    <2>4. Wall - window <= from /\ from <= o.name /\ o.name \in Int
      BY <1>2, <2>1, <2>2 DEF Since
    <2> QED BY <2>2, <2>3, <2>4
  <1>8. Kept(o)
    BY <1>6, <1>7 DEF Kept
  <1> QED BY <1>8

LEMMA DatedInit == Init => Dated
  BY InitHolds DEF Init, Dated, DaysHeld

LEMMA DatedStep == ASSUME Steps \subseteq Nat PROVE Dated /\ [Next]_vars => Dated'
  <1> SUFFICES ASSUME Dated, [Next]_vars PROVE Dated' OBVIOUS
  <1>0. IInv /\ IInv' /\ Typed /\ days \subseteq Int /\ DaysHeld
    BY StepHolds DEF Dated, IInv
  <1>a. now \in Nat /\ wall \in Int
    BY <1>0 DEF Typed
  <1>1. CASE BeginWrite \/ Finish \/ Look \/ Capture \/ FailAttempt \/ Restart \/ UNCHANGED vars
    <2>1. UNCHANGED <<now, wall, store, days>>
      BY <1>1 DEF BeginWrite, Finish, Look, Capture, FailAttempt, Restart, vars
    <2> QED BY <1>0, <2>1 DEF Dated, DaysHeld, Since, Wall
  <1>2. CASE Upload
    <2>1. UNCHANGED <<now, wall, days>> /\ store \subseteq store'
      BY <1>2 DEF Upload
    <2> QED BY <1>0, <2>1 DEF Dated, DaysHeld, Since, Wall
  <1>3. CASE Verify
    <2>1. /\ UNCHANGED <<now, wall, store>> /\ days' = days \union {Day(job.name)}
          /\ job # None /\ job.pc = "verify" /\ job.intact
      BY <1>3 DEF Verify
    <2>2. PICK o \in store : o.name = job.name
      BY <1>0, <2>1 DEF IInv, Stored
    <2>3. Day(job.name) \in Int /\ Day(o.name) = Day(job.name)
      <3>1. job.name \in Int
        BY <1>0, <2>1 DEF Typed, Jobs
      <3> QED BY <2>2, <3>1, DayIs
    <2> QED BY <1>0, <2>1, <2>2, <2>3 DEF Dated, DaysHeld, Since, Wall
  <1>4. CASE Prune
    <2>1. UNCHANGED <<now, wall, days>> /\ \A o \in store : Kept(o) => o \in store'
      BY <1>4 DEF Prune
    <2>2. ASSUME NEW d \in days, Since(d) PROVE \E o \in store' : Day(o.name) = d
      <3>1. d \in Int /\ \E o \in store : Day(o.name) = d
        BY <1>0, <2>2 DEF DaysHeld
      <3> QED BY <1>0, <2>1, <2>2, <3>1, LastOfDayIsKept
    <2> QED BY <1>0, <2>1, <2>2 DEF Dated, DaysHeld, Since, Wall
  <1>5. CASE StepClock \/ Tick
    <2>1. UNCHANGED <<store, days>> /\ Wall \in Int /\ Wall' \in Int /\ Wall <= Wall'
      <3>1. CASE StepClock
        <4>1. PICK by \in Steps : wall' = wall + by
          BY <3>1 DEF StepClock
        <4> QED BY <1>a, <3>1, <4>1 DEF StepClock, Wall
      <3>2. CASE Tick
        BY <1>a, <3>2 DEF Tick, Wall
      <3> QED BY <1>5, <3>1, <3>2
    <2>2. \A d \in days : Since(d)' => Since(d)
      <3> SUFFICES ASSUME NEW d \in days, Since(d)' PROVE Since(d)
        OBVIOUS
      <3>1. PICK from \in Int : from = d * DayLength
        BY <1>0, OffsiteAssumption
      <3>2. PICK window \in Int : window = KeepDays * DayLength
        BY OffsiteAssumption
      <3>3. Wall' - window <= from
        BY <3>1, <3>2 DEF Since
      <3> QED BY <2>1, <3>1, <3>2, <3>3 DEF Since
    <2> QED BY <1>0, <2>1, <2>2 DEF Dated, DaysHeld
  <1> QED BY <1>1, <1>2, <1>3, <1>4, <1>5 DEF Next

(* No day of the window is without its set once it had one, whatever the   *)
(* retention removes and wherever it stops (retention.go:29), as long as   *)
(* the wall clock is never set back.                                       *)
THEOREM DaysAreKept == ASSUME Steps \subseteq Nat PROVE Spec => []DaysKept
  <1>1. Dated => DaysKept
    BY DEF Dated, DaysHeld, Since, DaysKept
  <1>2. Dated /\ [Next]_vars => Dated'
    BY DatedStep
  <1> QED BY DatedInit, <1>1, <1>2, PTL DEF Spec
=============================================================================
