------------------------------ MODULE OffsiteBackups ------------------------------
(***************************************************************************)
(* The hosted server's off-site backups (offsite/manager.go, r2.go,        *)
(* retention.go and db/hosted_backup.go): encrypted sets are captured,     *)
(* uploaded and read back, old ones are removed, and changes are admitted  *)
(* only while the last verified set is recent.  Attempts fail anywhere,    *)
(* uploads are damaged, the server restarts, and its wall clock may be     *)
(* stepped; durations are measured by the monotonic clock.                 *)
(***************************************************************************)
EXTENDS Integers, FiniteSets

CONSTANTS
  Limit,      \* coverage after a capture (14 minutes in the code)
  TxLimit,    \* longest transaction (30 seconds)
  Promise,    \* the loss that is promised never to be reached (15 minutes)
  Interval,   \* time from one capture to the next (5 minutes)
  Attempt,    \* longest attempt (2 minutes)
  Newest,     \* sets kept however old (12)
  KeepDays,   \* days that keep one set each (30)
  DayLength,
  Steps,      \* what the wall clock may be stepped by
  MaxSteps,   \* bound: steps of the wall clock
  MaxFaults,  \* bound: attempts that fail, and restarts
  MaxTime     \* bound: the time at which the clocks stop

ASSUME OffsiteAssumption ==
  /\ {Limit, TxLimit, Promise, Interval, Attempt, Newest, KeepDays, DayLength,
      MaxSteps, MaxFaults, MaxTime} \subseteq Nat
  /\ 0 < Attempt /\ 0 < Newest /\ 0 < DayLength /\ Steps \subseteq Int
  /\ Limit + TxLimit <= Promise

VARIABLES
  now,      \* the monotonic clock
  wall,     \* what the wall clock is ahead of it
  store,    \* the bucket: [name, at, intact] per set
  status,   \* the capture that covers changes: [at, name], or None
  job,      \* the attempt under way, or None
  looked,   \* whether Run has looked in this minute
  faults,   \* attempts that failed, and restarts
  tx,       \* when the write transaction was admitted, or Never
  last,     \* when the last change was committed, or Never
  days,     \* days, by the wall clock, on which a set was verified
  steps
vars == <<now, wall, store, status, job, looked, faults, tx, last, days, steps>>

None == [none |-> TRUE]
Never == -1
Wall == now + wall
Day(name) == name \div DayLength

Init ==
  /\ now = 0 /\ wall = 0 /\ store = {} /\ status = None /\ job = None /\ looked = FALSE
  /\ faults = 0 /\ tx = Never /\ last = Never /\ days = {} /\ steps = 0

-----------------------------------------------------------------------------
(* CheckWrite and BeginWrite.  The time of a capture has lost its          *)
(* monotonic reading, so its age is told by the wall clock; the start of   *)
(* the attempt has kept it.                                                *)

Writable ==
  status # None /\ status.name <= Wall /\ Wall - status.name < Limit /\ now - status.at < Limit

(* The guard is asked when the writer is held.  A capture holds it too.    *)
BeginWrite ==
  /\ tx = Never /\ Writable
  /\ tx' = now
  /\ UNCHANGED <<now, wall, store, status, job, looked, faults, last, days, steps>>

(* The transaction commits, or ends without.                               *)
Finish ==
  /\ tx # Never
  /\ tx' = Never /\ last' \in {last, now}
  /\ UNCHANGED <<now, wall, store, status, job, looked, faults, days, steps>>

-----------------------------------------------------------------------------
(* Run looks every minute, and at once after an attempt that took longer.  *)

\* mutant: a capture is due when the one before has run out
CaptureDueAtLimit == status # None => now - status.at >= Limit

CaptureDue == status # None => now - status.at >= Interval

Look ==
  /\ job = None /\ ~looked /\ CaptureDue
  /\ looked' = TRUE
  /\ job' = [at |-> now, name |-> Wall, pc |-> "capture", intact |-> FALSE]
  /\ UNCHANGED <<now, wall, store, status, faults, tx, last, days, steps>>

(* The time of the set is read before the writer is waited for.            *)
Capture ==
  /\ job # None /\ job.pc = "capture" /\ tx = Never
  /\ job' = [job EXCEPT !.pc = "upload"]
  /\ UNCHANGED <<now, wall, store, status, looked, faults, tx, last, days, steps>>

(* The capture, the network or the two minutes fail, or what was read back *)
(* differs; the coverage stays.                                            *)
FailAttempt ==
  /\ job # None /\ faults < MaxFaults
  /\ job' = None /\ faults' = faults + 1
  /\ UNCHANGED <<now, wall, store, status, looked, tx, last, days, steps>>

(* One object appears under the set's name, possibly not as it was sent.   *)
(* Names tell nanoseconds: no two attempts share one.                      *)
Upload ==
  /\ job # None /\ job.pc = "upload" /\ \A o \in store : o.name # job.name
  /\ \E intact \in BOOLEAN :
       /\ faults = MaxFaults => intact
       /\ job' = [job EXCEPT !.pc = "verify", !.intact = intact]
       /\ store' = store \union {[name |-> job.name, at |-> job.at, intact |-> intact]}
  /\ UNCHANGED <<now, wall, status, looked, faults, tx, last, days, steps>>

\* mutant: changes are covered from the end of the attempt
CoverageFromEnd == [at |-> now, name |-> Wall]

Coverage == [at |-> job.at, name |-> job.name]

(* The object is read back, and only then covers changes.                  *)
Verify ==
  /\ job # None /\ job.pc = "verify" /\ job.intact
  /\ job' = [job EXCEPT !.pc = "prune"]
  /\ status' = Coverage /\ days' = days \union {Day(job.name)}
  /\ UNCHANGED <<now, wall, store, looked, faults, tx, last, steps>>

\* mutant: sets of a day that is held already are not told apart from others
KeptNewestOnly(o) ==
  \/ Cardinality({p \in store : p.name > o.name}) < Newest
  \/ o.name > Wall

Kept(o) ==
  \/ Cardinality({p \in store : p.name > o.name}) < Newest
  \/ /\ \A p \in store : Day(p.name) = Day(o.name) => p.name <= o.name
     /\ o.name >= Wall - KeepDays * DayLength
  \/ o.name > Wall

(* Sets are removed from the newest on, and any removal may fail.          *)
Prune ==
  /\ job # None /\ job.pc = "prune"
  /\ \E from \in {o.name : o \in store} \union {Never} :
       store' = {o \in store : o.name < from \/ Kept(o)}
  /\ job' = None
  /\ UNCHANGED <<now, wall, status, looked, faults, tx, last, days, steps>>

(* No receipt survives a restart.                                          *)
Restart ==
  /\ faults < MaxFaults /\ faults' = faults + 1
  /\ status' = None /\ job' = None /\ tx' = Never
  /\ UNCHANGED <<now, wall, store, looked, last, days, steps>>

StepClock ==
  /\ steps < MaxSteps /\ steps' = steps + 1
  /\ \E by \in Steps : Wall + by >= 0 /\ wall' = wall + by
  /\ UNCHANGED <<now, store, status, job, looked, faults, tx, last, days>>

(* Transactions and attempts end at their deadlines and Run looks every    *)
(* minute: time passes no deadline.                                        *)
Tick ==
  /\ now < MaxTime
  /\ tx # Never => now < tx + TxLimit
  /\ job # None => now < job.at + Attempt
  /\ job = None /\ CaptureDue => looked
  /\ now' = now + 1 /\ looked' = FALSE
  /\ UNCHANGED <<wall, store, status, job, faults, tx, last, days, steps>>

Next ==
  \/ BeginWrite \/ Finish
  \/ Look \/ Capture \/ FailAttempt \/ Upload \/ Verify \/ Prune
  \/ Restart \/ StepClock \/ Tick

Spec == Init /\ [][Next]_vars

-----------------------------------------------------------------------------
(* The shape of the state: names are unique, no attempt and no transaction *)
(* outlives its deadline.                                                  *)
TypeOK ==
  /\ now \in 0..MaxTime /\ looked \in BOOLEAN /\ faults \in 0..MaxFaults
  /\ \A o \in store : o.at \in 0..now /\ o.intact \in BOOLEAN
  /\ \A o, p \in store : o.name = p.name => o = p
  /\ job # None => /\ job.pc \in {"capture", "upload", "verify", "prune"}
                   /\ job.at <= now /\ now <= job.at + Attempt
  /\ tx # Never => tx <= now /\ now <= tx + TxLimit
  /\ status # None => status.at <= now

(* Whenever the host is lost, some stored set gives back every change but  *)
(* those of less than the promised time after its capture (manager.go:36,  *)
(* hosted_backup.go:18): the admission, the transaction's own time, the    *)
(* upload, its check and the retention together keep that promise.  It is  *)
(* kept while the wall clock is set back by less than the newest sets      *)
(* reach; CoverageIsStored is what a longer set-back breaks.               *)
LossBounded ==
  last # Never => \E o \in store : o.intact /\ last < o.at + Promise

(* A failure does not pause the league: the next attempt comes in time     *)
(* (manager.go:94), as long as the wall clock is left alone.               *)
WritesFlow == status # None /\ faults <= 1 /\ steps = 0 => Writable

(* Every day with a verified set has a set for as long as days are kept    *)
(* (r2.go:77), unless the clock was set back to days that were let go:     *)
(* after a net set-back nothing is said.                                   *)
DaysKept ==
  wall >= 0 => \A d \in days : Wall - KeepDays * DayLength <= d * DayLength =>
                 \E o \in store : Day(o.name) = d

(* BACKUPS.md:96: "Wall-clock rollback cannot extend coverage": the set    *)
(* that changes are admitted on is in the bucket.                          *)
CoverageIsStored ==
  status # None => \E o \in store : o.name = status.name /\ o.intact
=============================================================================
