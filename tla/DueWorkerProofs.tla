----------------------------- MODULE DueWorkerProofs -----------------------------
(***************************************************************************)
(* For any leagues, work, processors and clocks: the state is typed, what  *)
(* the due worker records is due by the true time when it records it, the  *)
(* closing of a draft apart, and the worker sleeps through no deadline it  *)
(* could have known.                                                       *)
(*                                                                         *)
(* The first argument is the transaction's: between its check and its      *)
(* record nobody else writes and the clock gains no trust it lacked, so a  *)
(* record admitted twice was checked against a clock that was right.  The  *)
(* second follows a pass: work of a league that had its turn is later than *)
(* the sleep, or the league failed; work of the league whose turn it is    *)
(* lies ahead, or is still to be scanned or recorded.                      *)
(***************************************************************************)
EXTENDS DueWorker, WellFoundedInduction, SequenceTheorems, TLAPS

(* Every step of the worker keeps the fields it remembers things in.       *)
Shape ==
  DOMAIN worker = {"pc", "leagues", "kinds", "at", "todo", "item", "stale", "next", "failed",
                   "slept", "until"}

(* What the check left true of the work about to be recorded: pending,     *)
(* decidable, and, a draft apart, due by the true time if the clock is     *)
(* trusted.                                                                *)
Checked ==
  worker.pc = "append" =>
    \A i \in worker.item :
      Pending(i) /\ i \notin stuck /\ (synced /\ i.kind \notin Closings => deadline[i] <= now)

IInv == TypeOK /\ worker.todo \subseteq Items /\ Shape /\ Checked

LEMMA InitHolds == Init => IInv
  <1> SUFFICES ASSUME Init PROVE IInv OBVIOUS
  <1>1. /\ now \in 0..MaxTime /\ synced \in BOOLEAN /\ skew \in Int /\ (synced => skew = 0)
        /\ deadline \in [Items -> {None} \union 0..(MaxTime + Stand)]
    BY DueAssumption DEF Init, None
  <1>2. /\ worker.pc = "ready" /\ worker.item = {} /\ worker.todo = {} /\ Shape
    BY DEF Init, Fresh, Shape
  <1> QED BY <1>1, <1>2 DEF Init, IInv, TypeOK, Checked

(* What a step of the worker that records nothing leaves alone.            *)
LEMMA WorkerOnly ==
  ASSUME IInv, UNCHANGED <<now, synced, skew, deadline, stuck>>,
         unheard' \subseteq Items,
         Shape', worker'.item \subseteq Items, worker'.todo \subseteq Items,
         worker'.pc \in {"ready", "league", "scan", "take", "open", "check", "date", "asleep"}
  PROVE  IInv'
  BY DEF IInv, TypeOK, Checked

LEMMA FailedIsShaped ==
  ASSUME IInv, worker' = Failed
  PROVE  Shape' /\ worker'.pc = "league" /\ worker'.item = {} /\ worker'.todo = {}
  BY DEF Failed, IInv, Shape

LEMMA StepHolds == IInv /\ [Next]_vars => IInv'
  <1> SUFFICES ASSUME IInv, [Next]_vars PROVE IInv' OBVIOUS
  <1> USE DEF Keep
  <1>1. CASE Begin
    <2>1. Shape' /\ worker'.item = {} /\ worker'.todo = {} /\ worker'.pc \in {"league", "asleep"}
      BY <1>1 DEF Begin, Fresh, Shape
    <2> QED BY <1>1, <2>1, WorkerOnly DEF Begin, IInv, TypeOK
  <1>2. CASE NextLeague
    <2>1. Shape' /\ worker'.item = worker.item /\ worker'.todo = worker.todo
          /\ worker'.pc \in {"asleep", "scan"}
      BY <1>2 DEF NextLeague, Sleep, IInv, Shape
    <2> QED BY <1>2, <2>1, WorkerOnly DEF NextLeague, IInv, TypeOK
  <1>3. CASE Scan
    <2>1. CASE worker' = Failed
      BY <1>3, <2>1, FailedIsShaped, WorkerOnly DEF Scan, IInv, TypeOK
    <2>2. CASE worker' = [worker EXCEPT !.pc = "take", !.todo = Due(League, Head(worker.kinds), Clock)]
      <3>1. Shape' /\ worker'.item = worker.item /\ worker'.pc = "take"
            /\ worker'.todo = Due(League, Head(worker.kinds), Clock)
        BY <2>2 DEF IInv, Shape
      <3>2. worker'.todo \subseteq Items
        BY <3>1 DEF Due
      <3> QED BY <1>3, <3>1, <3>2, WorkerOnly DEF Scan, IInv, TypeOK
    <2> QED BY <1>3, <2>1, <2>2 DEF Scan
  <1>4. CASE Take
    <2>1. CASE worker.todo = {}
      <3>1. Shape' /\ worker'.item = {} /\ worker'.todo = worker.todo /\ worker'.pc \in {"date", "scan"}
        BY <1>4, <2>1 DEF Take, IInv, Shape
      <3> QED BY <1>4, <3>1, WorkerOnly DEF Take, IInv, TypeOK
    <2>2. CASE worker.todo # {} /\ worker' = Failed
      BY <1>4, <2>2, FailedIsShaped, WorkerOnly DEF Take, IInv, TypeOK
    <2>3. ASSUME NEW i \in worker.todo,
                 worker' = [worker EXCEPT !.pc = "open", !.item = {i}, !.todo = @ \ {i}, !.stale = FALSE]
          PROVE  IInv'
      <3>1. Shape' /\ worker'.item = {i} /\ worker'.todo \subseteq worker.todo /\ worker'.pc = "open"
        BY <2>3 DEF IInv, Shape
      <3> QED BY <1>4, <3>1, WorkerOnly DEF Take, IInv, TypeOK
    <2> QED BY <1>4, <2>1, <2>2, <2>3 DEF Take
  <1>5. CASE Open
    <2>1. CASE worker' = Failed
      BY <1>5, <2>1, FailedIsShaped, WorkerOnly DEF Open, IInv, TypeOK
    <2>2. CASE worker' = [worker EXCEPT !.pc = "check"]
      <3>1. Shape' /\ worker'.item = worker.item /\ worker'.todo = worker.todo /\ worker'.pc = "check"
        BY <2>2 DEF IInv, Shape
      <3> QED BY <1>5, <3>1, WorkerOnly DEF Open, IInv, TypeOK
    <2> QED BY <1>5, <2>1, <2>2 DEF Open
  <1>6. CASE Check
    <2>1. CASE worker' = Failed
      BY <1>6, <2>1, FailedIsShaped, WorkerOnly DEF Check, IInv, TypeOK
    <2>2. CASE worker' = [worker EXCEPT !.pc = "append"] /\ \A i \in worker.item : Recordable(i)
      <3>1. Shape' /\ worker'.item = worker.item /\ worker'.todo = worker.todo /\ worker'.pc = "append"
        BY <2>2 DEF IInv, Shape
      <3>2. synced => Clock = now
        BY DEF IInv, TypeOK, Clock
      <3>3. \A i \in worker.item :
              Pending(i) /\ i \notin stuck /\ (synced /\ i.kind \notin Closings => deadline[i] <= now)
        BY <2>2, <3>2 DEF Recordable
      <3> QED BY <1>6, <3>1, <3>3 DEF Check, IInv, TypeOK, Checked, Pending
    <2> QED BY <1>6, <2>1, <2>2 DEF Check
  <1>7. CASE Record
    <2>1. CASE worker' = Failed /\ UNCHANGED <<deadline, stuck, signal>>
      BY <1>7, <2>1, FailedIsShaped, WorkerOnly DEF Record, IInv, TypeOK
    <2>2. CASE worker' # Failed \/ ~UNCHANGED <<deadline, stuck, signal>>
      <3>1. worker' = [worker EXCEPT !.pc = "take", !.item = {}]
        BY <1>7, <2>2 DEF Record
      <3>2. Shape' /\ worker'.item = {} /\ worker'.todo = worker.todo /\ worker'.pc = "take"
        BY <3>1 DEF IInv, Shape
      <3>3. deadline' \in [Items -> {None} \union 0..(MaxTime + Stand)] /\ stuck' \subseteq Items
        BY <1>7, <2>2 DEF Record, IInv, TypeOK
      <3> QED BY <1>7, <3>2, <3>3 DEF Record, IInv, TypeOK, Checked
    <2> QED BY <2>1, <2>2
  <1>8. CASE Date
    <2>1. CASE worker' = Failed
      BY <1>8, <2>1, FailedIsShaped, WorkerOnly DEF Date, IInv, TypeOK
    <2>2. CASE worker' # Failed
      <3>1. Shape' /\ worker'.item = worker.item /\ worker'.todo = worker.todo /\ worker'.pc = "league"
        BY <1>8, <2>2 DEF Date, IInv, Shape
      <3> QED BY <1>8, <3>1, WorkerOnly DEF Date, IInv, TypeOK
    <2> QED BY <2>1, <2>2
  <1>9. CASE WakeUp
    <2>1. Shape' /\ worker'.item = {} /\ worker'.todo = {} /\ worker'.pc = "ready"
      BY <1>9 DEF WakeUp, Fresh, Shape
    <2> QED BY <1>9, <2>1, WorkerOnly DEF WakeUp, IInv, TypeOK
  <1>10. ASSUME NEW i \in Items, NEW own \in BOOLEAN, Change(i, own) PROVE IInv'
    <2>1. Shape' /\ worker'.item = worker.item /\ worker'.todo = worker.todo /\ worker'.pc = worker.pc
      BY <1>10 DEF Change, IInv, Shape
    <2>2. worker.pc # "append"
      BY <1>10 DEF Change, InTransaction
    <2>3. now + Stand \in 0..(MaxTime + Stand)
      BY DueAssumption DEF IInv, TypeOK
    <2>4. deadline' \in [Items -> {None} \union 0..(MaxTime + Stand)]
      BY <1>10, <2>3 DEF Change, IInv, TypeOK
    <2>5. stuck' \subseteq Items /\ unheard' \subseteq Items
      BY <1>10 DEF Change, IInv, TypeOK
    <2> QED BY <1>10, <2>1, <2>2, <2>4, <2>5 DEF Change, IInv, TypeOK, Checked
  <1>11. ASSUME NEW l \in Range(Leagues), Break(l) PROVE IInv'
    BY <1>11 DEF Break, IInv, TypeOK, Shape, Checked, Pending
  <1>12. CASE LoseSync
    BY <1>12, DueAssumption DEF LoseSync, IInv, TypeOK, Shape, Checked, Pending
  <1>13. CASE RegainSync
    BY <1>13 DEF RegainSync, InTransaction, IInv, TypeOK, Shape, Checked
  <1>14. CASE Restart
    <2>1. Shape' /\ worker'.item = {} /\ worker'.todo = {} /\ worker'.pc = "ready"
      BY <1>14 DEF Restart, Fresh, Shape
    <2> QED BY <1>14, <2>1, WorkerOnly DEF Restart, IInv, TypeOK
  <1>15. CASE Tick
    <2>1. now' \in 0..MaxTime /\ now <= now'
      BY <1>15, DueAssumption DEF Tick, IInv, TypeOK
    <2>2. \A i \in worker.item : deadline[i] \in Int
      BY DueAssumption DEF IInv, TypeOK, None
    <2>3. Checked'
      BY <1>15, <2>1, <2>2 DEF Tick, IInv, TypeOK, Checked, Pending
    <2> QED BY <1>15, <2>1, <2>3 DEF Tick, IInv, TypeOK, Shape
  <1>16. CASE UNCHANGED vars
    BY <1>16 DEF vars, IInv, TypeOK, Shape, Checked, Pending
  <1> QED
    BY <1>1, <1>2, <1>3, <1>4, <1>5, <1>6, <1>7, <1>8, <1>9, <1>10, <1>11, <1>12, <1>13,
       <1>14, <1>15, <1>16 DEF Next, Work

(* The inductive invariant of the due worker.                              *)
THEOREM Invariant == Spec => []IInv
  BY InitHolds, StepHolds, PTL DEF Spec

(* The state is typed, and a clock that is called synchronised is right.   *)
THEOREM TypeCorrect == Spec => []TypeOK
  <1>1. IInv => TypeOK BY DEF IInv
  <1> QED BY Invariant, <1>1, PTL

(* Whatever is recorded is pending and decidable, and if it is no closing  *)
(* of a draft it is due when it is recorded (due_admission.go:26,          *)
(* bid_due.go:65, commissioner.go:554).                                    *)
THEOREM RecordsAreDue == Spec => RecordedWhenDue
  <1>1. ASSUME IInv, [Next]_vars
        PROVE  [worker.pc = "append" /\ deadline' # deadline =>
                  \A i \in worker.item :
                    Pending(i) /\ i \notin stuck /\ (i.kind \notin Closings => deadline[i] <= now)]_vars
    <2> SUFFICES ASSUME worker.pc = "append", deadline' # deadline
                 PROVE  \A i \in worker.item :
                          Pending(i) /\ i \notin stuck /\ (i.kind \notin Closings => deadline[i] <= now)
      OBVIOUS
    <2>1. CASE Record
      BY <1>1, <2>1 DEF Record, IInv, Checked
    <2>2. CASE ~Record
      <3>1. deadline' = deadline
        BY <1>1, <2>2 DEF Next, Work, vars, Keep, Begin, NextLeague, Scan, Take, Open, Check, Date, WakeUp,
             Change, InTransaction, Break, LoseSync, RegainSync, Restart, Tick
      <3> QED BY <3>1
    <2> QED BY <2>1, <2>2
  <1> QED BY Invariant, <1>1, PTL DEF Spec, RecordedWhenDue

-----------------------------------------------------------------------------
(* What is still to be waited for.                                         *)
Workers ==
  [pc : {"ready", "league", "scan", "take", "open", "check", "append", "date", "asleep"},
   leagues : Seq(Range(Leagues)), kinds : Seq(Range(Kinds)), at : Int,
   todo : SUBSET Items, item : SUBSET Items, stale : BOOLEAN, next : {None} \union Nat,
   failed : SUBSET Range(Leagues), slept : Int, until : Int]

InPass == worker.pc \notin {"ready", "asleep"}
OnTurn == worker.pc \notin {"ready", "asleep", "league"}

(* Work is taken up only between a scan and the end of what it found.      *)
Cleared ==
  /\ worker.pc \in {"league", "scan", "take", "date"} => worker.item = {}
  /\ worker.pc \in {"league", "scan", "date"} => worker.todo = {}
  /\ OnTurn => worker.leagues # <<>> /\ (worker.pc # "date" => worker.kinds # <<>>)

(* A league that had its turn failed, or the sleep ends by its deadlines.  *)
Settled(i) ==
  i.league \in worker.failed \/ (worker.next # None /\ worker.next <= deadline[i])

(* In its league's turn, work is ahead or yet to be found or recorded.     *)
Facing(i) ==
  \/ deadline[i] > worker.at
  \/ i \in worker.todo \union worker.item
  \/ worker.pc = "scan" /\ i.kind \in Range(worker.kinds)
  \/ worker.pc \in {"take", "open", "check", "append"} /\ i.kind \in Range(Tail(worker.kinds))

Watched(i) ==
  /\ synced
  /\ i.league \notin Range(worker.leagues) => Settled(i)
  /\ OnTurn => worker.at <= now
  /\ OnTurn /\ i.league = League => Facing(i)

Watchful ==
  InPass /\ ~signal => \A i \in Items \ (stuck \union unheard) : Pending(i) => Watched(i)

WInv == worker \in Workers /\ signal \in BOOLEAN /\ Cleared /\ Watchful /\ NeverOversleeps

LEMMA MinIs ==
  ASSUME NEW S, S \subseteq Nat, S # {}
  PROVE  Min(S) \in S /\ \A y \in S : Min(S) <= y
<1>1. PICK x \in S : \A y \in S : <<y, x>> \notin OpToRel(<, Nat)
  BY NatLessThanWellFounded, WFMin
<1>2. \A y \in S : x <= y
  <2> SUFFICES ASSUME NEW y \in S, ~(x <= y) PROVE FALSE
    OBVIOUS
  <2>1. x \in Nat /\ y \in Nat /\ y < x
    OBVIOUS
  <2>2. <<y, x>> \in OpToRel(<, Nat)
    BY <2>1 DEF OpToRel
  <2> QED BY <1>1, <2>2
<1> QED BY <1>2 DEF Min

LEMMA MaxIs ==
  ASSUME NEW a \in Int, NEW b \in Int
  PROVE  Max({a, b}) = IF a >= b THEN a ELSE b
BY DEF Max

LEMMA WaitIs ==
  ASSUME NEW next \in {None} \union Nat, NEW failed \in BOOLEAN, Clock \in Int
  PROVE  /\ Wait(next, failed) \in Nat
         /\ next # None => Wait(next, failed) <= Max({0, next - Clock})
         /\ failed => Wait(next, failed) <= Retry
<1> DEFINE S == {Reconcile} \union (IF failed THEN {Retry} ELSE {})
                \union (IF next # None THEN {Max({0, next - Clock})} ELSE {})
<1>1. next # None => Max({0, next - Clock}) \in Nat
  <2> SUFFICES ASSUME next # None PROVE Max({0, next - Clock}) \in Nat
    OBVIOUS
  <2>1. PICK d \in Int : d = next - Clock
    BY DEF None
  <2>2. PICK zero : zero = 0
    OBVIOUS
  <2> QED BY <2>1, MaxIs
<1>2. S \subseteq Nat /\ S # {}
  BY <1>1, DueAssumption
<1>3. Wait(next, failed) = Min(S)
  BY DEF Wait
<1>4. /\ next # None => Max({0, next - Clock}) \in S
      /\ failed => Retry \in S
  OBVIOUS
<1> HIDE DEF S
<1> QED BY <1>2, <1>3, <1>4, MinIs

LEMMA RangeIs ==
  ASSUME NEW X, NEW s \in Seq(X)
  PROVE  /\ Range(s) \subseteq X /\ (s = <<>> => Range(s) = {})
         /\ s # <<>> => /\ Tail(s) \in Seq(X) /\ Head(s) \in X
                        /\ Range(s) = {Head(s)} \union Range(Tail(s))
         /\ Len(s) = 1 => Range(Tail(s)) = {}
<1>1. Range(s) \subseteq X /\ (s = <<>> => Range(s) = {})
  BY DEF Range
<1>2. ASSUME s # <<>>
      PROVE  /\ Tail(s) \in Seq(X) /\ Head(s) \in X /\ Range(s) = {Head(s)} \union Range(Tail(s))
             /\ Len(s) = 1 => Range(Tail(s)) = {}
  <2> DEFINE n == Len(s)
             u == Tail(s)
  <2>1. n \in Nat /\ n >= 1 /\ DOMAIN s = 1..n
    BY <1>2
  <2>2. /\ u \in Seq(X) /\ Head(s) \in X /\ Head(s) = s[1]
        /\ Len(u) = n - 1 /\ DOMAIN u = 1..(n - 1) /\ \A k \in 1..(n - 1) : u[k] = s[k + 1]
    BY <1>2
  <2> HIDE DEF n, u
  <2>3. ASSUME NEW x \in Range(s) PROVE x \in {Head(s)} \union Range(u)
    <3>1. PICK k \in 1..n : x = s[k]
      BY <2>1 DEF Range
    <3>2. CASE k = 1
      BY <2>2, <3>1, <3>2
    <3>3. CASE k # 1
      <4>1. PICK j \in 1..(n - 1) : k = j + 1
        <5>1. k - 1 \in 1..(n - 1) /\ k = (k - 1) + 1
          BY <2>1, <3>3
        <5> QED BY <5>1
      <4> QED BY <2>2, <3>1, <4>1 DEF Range
    <3> QED BY <3>2, <3>3
  <2>4. ASSUME NEW x \in {Head(s)} \union Range(u) PROVE x \in Range(s)
    <3>1. CASE x = Head(s)
      BY <2>1, <2>2, <3>1 DEF Range
    <3>2. CASE x \in Range(u)
      <4>1. PICK k \in 1..(n - 1) : x = u[k]
        BY <2>2, <3>2 DEF Range
      <4>2. k + 1 \in 1..n
        BY <2>1
      <4> QED BY <2>1, <2>2, <4>1, <4>2 DEF Range
    <3> QED BY <2>4, <3>1, <3>2
  <2>5. n = 1 => Range(u) = {}
    BY <2>2 DEF Range
  <2> QED BY <2>2, <2>3, <2>4, <2>5 DEF n, u
<1>3. Len(s) = 1 => s # <<>>
  OBVIOUS
<1> QED BY <1>1, <1>2, <1>3

LEMMA TailLeft ==
  ASSUME NEW X, NEW s \in Seq(X), s # <<>>, Len(s) # 1
  PROVE  Tail(s) # <<>>
<1>1. Len(s) \in Nat /\ Len(s) # 0 /\ Len(Tail(s)) = Len(s) - 1
  OBVIOUS
<1>2. Len(Tail(s)) # 0
  BY <1>1
<1>3. PICK e \in Seq(X) : e = <<>> /\ Len(e) = 0
  BY EmptySeq
<1> QED BY <1>2, <1>3

EndOf(w, failed, rest, none) ==
  [w EXCEPT !.pc = "league", !.failed = failed, !.leagues = rest, !.todo = {}, !.item = {},
            !.kinds = none, !.stale = FALSE]

LEMMA EndTyped ==
  ASSUME NEW w \in Workers, NEW failed \in SUBSET Range(Leagues), NEW rest \in Seq(Range(Leagues)),
         NEW none \in Seq(Range(Kinds)), NEW v, v = EndOf(w, failed, rest, none)
  PROVE  v \in Workers
BY DEF Workers, EndOf

LEMMA EndIs ==
  ASSUME NEW w \in Workers, NEW failed, NEW rest, NEW none, NEW v, v = EndOf(w, failed, rest, none)
  PROVE  /\ v.pc = "league" /\ v.failed = failed /\ v.leagues = rest
         /\ v.todo = {} /\ v.item = {} /\ v.next = w.next
BY DEF Workers, EndOf

(* A league that fails is looked at again a retry later.                   *)
LEMMA FailedWatched ==
  ASSUME WInv, OnTurn, worker' = Failed, UNCHANGED <<now, synced, skew, deadline, stuck, signal, unheard>>
  PROVE  WInv'
<1>1. worker \in Workers /\ worker.leagues \in Seq(Range(Leagues)) /\ worker.leagues # <<>>
  BY DEF WInv, Workers, Cleared
<1>2. /\ Tail(worker.leagues) \in Seq(Range(Leagues)) /\ League \in Range(Leagues)
      /\ Range(worker.leagues) = {League} \union Range(Tail(worker.leagues))
  BY <1>1, RangeIs DEF League
<1>3. PICK e \in Seq(Range(Kinds)) : e = <<>>
  BY EmptySeq
<1>4. PICK rest \in Seq(Range(Leagues)) : rest = Tail(worker.leagues)
  BY <1>2
<1>5. PICK l \in Range(Leagues) : l = League
  BY <1>2
<1>6. PICK failed \in SUBSET Range(Leagues) : failed = worker.failed \union {l}
  BY <1>1 DEF Workers
<1>7. /\ worker' \in Workers /\ worker'.pc = "league" /\ worker'.failed = worker.failed \union {l}
      /\ worker'.leagues = rest /\ worker'.todo = {} /\ worker'.item = {} /\ worker'.next = worker.next
  <2>1. PICK w \in Workers : w = worker
    BY <1>1
  <2>2. worker' = EndOf(w, failed, rest, e)
    BY <1>3, <1>4, <1>5, <1>6, <2>1, Zenon DEF Failed, EndOf
  <2>3. PICK v : v = EndOf(w, failed, rest, e)
    OBVIOUS
  <2>4. /\ v \in Workers /\ v.pc = "league" /\ v.failed = failed /\ v.leagues = rest
        /\ v.todo = {} /\ v.item = {} /\ v.next = w.next
    BY <2>3, EndTyped, EndIs
  <2> QED BY <1>6, <2>1, <2>2, <2>3, <2>4
<1>8. Cleared'
  BY <1>7 DEF Cleared, OnTurn
<1>9. Watchful'
  <2> SUFFICES ASSUME ~signal, NEW i \in Items \ (stuck \union unheard), Pending(i)
               PROVE  Watched(i)'
    BY <1>7 DEF Watchful, InPass, Pending
  <2>1. Watched(i)
    BY DEF WInv, Watchful, InPass, OnTurn
  <2>2. i.league \notin Range(rest) => Settled(i)'
    <3>1. CASE i.league = l
      BY <1>7, <3>1 DEF Settled
    <3>2. CASE i.league # l
      BY <1>2, <1>4, <1>5, <1>7, <2>1, <3>2 DEF Watched, Settled
    <3> QED BY <3>1, <3>2
  <2> QED BY <1>7, <2>1, <2>2 DEF Watched, OnTurn
<1>10. NeverOversleeps'
  BY <1>7 DEF NeverOversleeps
<1> QED BY <1>7, <1>8, <1>9, <1>10 DEF WInv

LEMMA WatchInit == Init => WInv
<1> SUFFICES ASSUME Init PROVE WInv
  OBVIOUS
<1>1. worker = Fresh /\ signal = FALSE
  BY DEF Init
<1>2. Fresh \in Workers /\ Fresh.pc = "ready" /\ Fresh.item = {} /\ Fresh.todo = {}
  <2>1. <<>> \in Seq(Range(Leagues)) /\ <<>> \in Seq(Range(Kinds)) /\ 0 \in Int
    BY EmptySeq
  <2> QED BY <2>1 DEF Fresh, Workers
<1> QED BY <1>1, <1>2 DEF WInv, Cleared, OnTurn, Watchful, InPass, NeverOversleeps

LEMMA ClockIs == IInv => /\ Clock \in Int /\ now \in Nat
                         /\ synced => Clock = now
                         /\ \A i \in Items : Pending(i) => deadline[i] \in Nat
<1> SUFFICES ASSUME IInv PROVE /\ Clock \in Int /\ now \in Nat
                               /\ synced => Clock = now
                               /\ \A i \in Items : Pending(i) => deadline[i] \in Nat
  OBVIOUS
<1>1. MaxTime \in Nat /\ Stand \in Nat
  BY DueAssumption
<1> QED BY <1>1 DEF IInv, TypeOK, Clock, Pending

SleepOf(w, from, until, failed, at) ==
  [w EXCEPT !.pc = "asleep", !.slept = from, !.until = until, !.failed = failed, !.at = at]

LEMMA SleepTyped ==
  ASSUME NEW w \in Workers, NEW from \in Int, NEW until \in Int, NEW failed \in SUBSET Range(Leagues),
         NEW at \in Int, NEW v, v = SleepOf(w, from, until, failed, at)
  PROVE  v \in Workers
BY DEF Workers, SleepOf

LEMMA SleepIs ==
  ASSUME NEW w \in Workers, NEW from, NEW until, NEW failed, NEW at, NEW v,
         v = SleepOf(w, from, until, failed, at)
  PROVE  v.pc = "asleep" /\ v.slept = from /\ v.until = until /\ v.failed = failed
BY DEF Workers, SleepOf

LEMMA FreshIs ==
  /\ Fresh \in Workers /\ Fresh.pc = "ready" /\ Fresh.item = {} /\ Fresh.todo = {} /\ Fresh.next = None
<1>1. <<>> \in Seq(Range(Leagues)) /\ <<>> \in Seq(Range(Kinds)) /\ 0 \in Int
  BY EmptySeq
<1> QED BY <1>1 DEF Fresh, Workers

LEMMA BeginWatched ==
  ASSUME IInv, WInv, Begin
  PROVE  WInv'
<1>1. Clock \in Int /\ now \in Nat /\ signal' \in BOOLEAN
  BY ClockIs DEF WInv, Begin
<1>2. CASE synced
  <2>1. PICK all \in Seq(Range(Leagues)) : all = Leagues
    BY DueAssumption
  <2>2. worker' = [Fresh EXCEPT !.pc = "league", !.leagues = all] /\ unheard' = {} /\ synced'
    BY <1>2, <2>1 DEF Begin
  <2>3. PICK w \in Workers : w = Fresh
    BY FreshIs
  <2>4. PICK v : v = [w EXCEPT !.pc = "league", !.leagues = all]
    OBVIOUS
  <2>5. v \in Workers /\ v.pc = "league" /\ v.leagues = all /\ v.item = w.item /\ v.todo = w.todo
    BY <2>4 DEF Workers
  <2>6. worker' = v /\ v.item = {} /\ v.todo = {}
    BY <2>2, <2>3, <2>4, <2>5, FreshIs
  <2>7. \A i \in Items : Watched(i)'
    <3>1. \A i \in Items : i.league \in Range(all)
      BY <2>1, DueAssumption
    <3> QED BY <2>2, <2>5, <2>6, <3>1 DEF Watched, OnTurn
  <2> QED BY <1>1, <2>5, <2>6, <2>7 DEF WInv, Cleared, OnTurn, Watchful, InPass, NeverOversleeps
<1>3. CASE ~synced
  <2>1. PICK all \in SUBSET Range(Leagues) : all = Range(Leagues)
    OBVIOUS
  <2>2. PICK until \in Int : until = now + Wait(None, TRUE) /\ until <= now + Retry
    <3>1. PICK b \in BOOLEAN : b = TRUE
      OBVIOUS
    <3>2. PICK next \in {None} \union Nat : next = None
      OBVIOUS
    <3>3. Wait(next, b) \in Nat /\ Wait(next, b) <= Retry
      BY <1>1, <3>1, WaitIs
    <3>4. Wait(None, TRUE) = Wait(next, b)
      BY <3>1, <3>2
    <3>5. PICK r \in Nat : r = Retry
      BY DueAssumption
    <3>6. PICK n \in Nat : n = Wait(None, TRUE) /\ n <= r
      BY <3>3, <3>4, <3>5
    <3>7. PICK t \in Nat : t = now
      BY <1>1
    <3>8. t + n \in Int /\ t + n <= t + r
      <4>1. n <= r
        BY <3>6
      <4> QED BY <4>1
    <3> QED BY <3>5, <3>6, <3>7, <3>8
  <2>3. PICK w \in Workers : w = Fresh
    BY FreshIs
  <2>4. PICK v : v = [w EXCEPT !.pc = "asleep", !.slept = now, !.until = until, !.failed = all]
    OBVIOUS
  <2>5. worker' = v
    BY <1>3, <2>1, <2>2, <2>3, <2>4 DEF Begin
  <2>6. PICK from \in Int : from = now
    BY <1>1
  <2>7. v = [w EXCEPT !.pc = "asleep", !.slept = from, !.until = until, !.failed = all]
    BY <2>4, <2>6
  <2>8. /\ v \in Workers /\ v.pc = "asleep" /\ v.slept = from /\ v.until = until /\ v.failed = all
        /\ v.item = w.item /\ v.todo = w.todo
    BY <2>7 DEF Workers
  <2>9. NeverOversleeps'
    <3>1. \A i \in Items : i.league \in all
      BY <2>1, DueAssumption
    <3>2. worker'.until <= worker'.slept + Retry /\ worker'.failed = all
      BY <2>2, <2>5, <2>6, <2>8
    <3> QED BY <3>1, <3>2 DEF NeverOversleeps
  <2> QED BY <1>1, <2>5, <2>8, <2>9 DEF WInv, Cleared, OnTurn, Watchful, InPass
<1> QED BY <1>2, <1>3

LEMMA TurnWatched ==
  ASSUME IInv, WInv, NextLeague
  PROVE  WInv'
<1>1. /\ Clock \in Int /\ now \in Nat /\ signal' \in BOOLEAN /\ (synced => Clock = now)
      /\ UNCHANGED <<now, synced, skew, deadline, stuck, signal, unheard>>
      /\ \A i \in Items : Pending(i) => deadline[i] \in Nat
  BY ClockIs DEF WInv, NextLeague, Keep
<1>2. worker \in Workers /\ worker.pc = "league" /\ worker.item = {} /\ worker.todo = {}
  BY DEF NextLeague, WInv, Cleared
<1>3. CASE worker.leagues = <<>>
  <2>1. PICK failed \in SUBSET Range(Leagues) : failed = worker.failed
    BY <1>2 DEF Workers
  <2>2. PICK b \in BOOLEAN : b = (failed # {})
    OBVIOUS
  <2>3. PICK next \in {None} \union Nat : next = worker.next
    BY <1>2 DEF Workers
  <2>4. /\ Wait(next, failed # {}) \in Nat
        /\ next # None => Wait(next, failed # {}) <= Max({0, next - Clock})
        /\ failed # {} => Wait(next, failed # {}) <= Retry
    BY <1>1, <2>2, WaitIs
  <2>5. PICK until \in Int : until = now + Wait(next, failed # {})
    BY <1>1, <2>4
  <2>6. PICK w \in Workers : w = worker
    BY <1>2
  <2>7. PICK zero \in Int : zero = 0
    OBVIOUS
  <2>8. PICK from \in Int : from = now
    BY <1>1
  <2>9. worker' = SleepOf(w, from, until, failed, zero)
    BY <1>3, <2>1, <2>3, <2>5, <2>6, <2>7, <2>8 DEF NextLeague, Sleep, SleepOf
  <2>10. PICK v : v = SleepOf(w, from, until, failed, zero)
    OBVIOUS
  <2>11. v \in Workers /\ v.pc = "asleep" /\ v.slept = from /\ v.until = until /\ v.failed = failed
    BY <2>10, SleepTyped, SleepIs
  <2>12. ASSUME ~signal, NEW i \in Items \ (stuck \union unheard), Pending(i)
         PROVE  \/ until <= Max({from, deadline[i]})
                \/ i.league \in failed /\ until <= from + Retry
    <3>1. Watched(i)
      BY <1>2, <2>12 DEF WInv, Watchful, InPass
    <3>2. synced /\ Settled(i)
      <4>1. Range(worker.leagues) = {}
        BY <1>3 DEF Range
      <4> QED BY <3>1, <4>1 DEF Watched
    <3>3. CASE i.league \in failed
      BY <1>1, <2>4, <2>5, <2>8, <3>3, DueAssumption
    <3>4. CASE i.league \notin failed
      <4>1. next # None /\ next <= deadline[i] /\ next \in Nat /\ deadline[i] \in Nat
        BY <1>1, <2>1, <2>3, <2>12, <3>2, <3>4 DEF Settled
      <4>2. PICK d \in Int : d = next - now
        BY <1>1, <4>1
      <4>3. Max({0, d}) = IF 0 >= d THEN 0 ELSE d
        BY MaxIs
      <4>4. Wait(next, failed # {}) <= Max({0, d})
        BY <1>1, <2>4, <3>2, <4>1, <4>2
      <4>5. Max({from, deadline[i]}) = IF from >= deadline[i] THEN from ELSE deadline[i]
        BY <4>1, MaxIs
      <4> QED BY <1>1, <2>4, <2>5, <2>8, <4>1, <4>2, <4>3, <4>4, <4>5
    <3> QED BY <3>3, <3>4
  <2>13. NeverOversleeps'
    BY <1>1, <2>9, <2>10, <2>11, <2>12 DEF NeverOversleeps, Pending
  <2>14. Cleared' /\ Watchful'
    BY <2>9, <2>10, <2>11 DEF Cleared, OnTurn, Watchful, InPass
  <2> QED BY <1>1, <2>9, <2>10, <2>11, <2>13, <2>14 DEF WInv
<1>4. CASE worker.leagues # <<>>
  <2>1. PICK kinds \in Seq(Range(Kinds)) : kinds = Kinds
    BY DueAssumption
  <2>2. PICK at \in Int : at = Clock
    BY <1>1
  <2>3. PICK w \in Workers : w = worker
    BY <1>2
  <2>4. PICK v : v = [w EXCEPT !.pc = "scan", !.kinds = kinds, !.at = at]
    OBVIOUS
  <2>5. worker' = v
    BY <1>4, <2>1, <2>2, <2>3, <2>4 DEF NextLeague
  <2>6. v \in Workers
    BY <2>4 DEF Workers
  <2>7. /\ v.pc = "scan" /\ v.kinds = kinds /\ v.at = at /\ v.leagues = w.leagues /\ v.next = w.next
        /\ v.failed = w.failed /\ v.item = w.item /\ v.todo = w.todo
    BY <2>4 DEF Workers
  <2>8. Cleared'
    BY <1>2, <1>4, <2>1, <2>3, <2>5, <2>7, DueAssumption DEF Cleared, OnTurn
  <2>9. Watchful'
    <3> SUFFICES ASSUME ~signal, NEW i \in Items \ (stuck \union unheard), Pending(i)
                 PROVE  Watched(i)'
      BY <1>1 DEF Watchful, Pending
    <3>1. Watched(i)
      BY <1>2 DEF WInv, Watchful, InPass
    <3>2. i.kind \in Range(kinds)
      BY <2>1, DueAssumption
    <3>3. at <= now /\ synced
      BY <1>1, <2>2, <3>1 DEF Watched
    <3>4. i.league \notin Range(w.leagues) => i.league \in w.failed \/ (w.next # None /\ w.next <= deadline[i])
      BY <2>3, <3>1 DEF Watched, Settled
    <3> QED BY <1>1, <2>5, <2>7, <3>2, <3>3, <3>4 DEF Watched, Settled, Facing, League
  <2>10. NeverOversleeps'
    BY <2>5, <2>7 DEF NeverOversleeps
  <2> QED BY <1>1, <2>5, <2>6, <2>8, <2>9, <2>10 DEF WInv
<1> QED BY <1>3, <1>4

(* A step within a turn that leaves what is remembered of other leagues.   *)
LEMMA WithinTurn ==
  ASSUME IInv, WInv, OnTurn, UNCHANGED <<now, synced, skew, deadline, stuck, signal, unheard>>,
         NEW v \in Workers, worker' = v,
         v.pc \in {"scan", "take", "open", "check", "append", "date"},
         v.leagues = worker.leagues, v.failed = worker.failed, v.next = worker.next, v.at = worker.at,
         v.pc \in {"scan", "take", "date"} => v.item = {}, v.pc \in {"scan", "date"} => v.todo = {},
         v.pc # "date" => v.kinds # <<>>,
         \A i \in Items \ (stuck \union unheard) :
           Pending(i) /\ Watched(i) /\ i.league = League /\ ~(deadline[i] > worker.at) =>
             \/ i \in v.todo \union v.item
             \/ v.pc = "scan" /\ i.kind \in Range(v.kinds)
             \/ v.pc \in {"take", "open", "check", "append"} /\ i.kind \in Range(Tail(v.kinds))
  PROVE  WInv'
<1>1. Cleared'
  BY DEF WInv, Cleared, OnTurn
<1>2. Watchful'
  <2> SUFFICES ASSUME ~signal, NEW i \in Items \ (stuck \union unheard), Pending(i)
               PROVE  Watched(i)'
    BY DEF Watchful, Pending
  <2>1. Watched(i) /\ OnTurn
    BY DEF WInv, Watchful, InPass, OnTurn
  <2>2. i.league \notin Range(v.leagues) => Settled(i)'
    BY <2>1 DEF Watched, Settled
  <2>3. League' = League
    BY DEF League
  <2>4. i.league = League => Facing(i)'
    BY <2>1 DEF Facing
  <2> QED BY <2>1, <2>2, <2>3, <2>4 DEF Watched, OnTurn
<1>3. NeverOversleeps'
  BY DEF NeverOversleeps
<1> QED BY <1>1, <1>2, <1>3 DEF WInv

LEMMA ScanWatched ==
  ASSUME IInv, WInv, Scan
  PROVE  WInv'
<1>1. /\ worker \in Workers /\ worker.pc = "scan" /\ worker.item = {} /\ worker.todo = {} /\ OnTurn
      /\ worker.kinds # <<>>
      /\ UNCHANGED <<now, synced, skew, deadline, stuck, signal, unheard>>
  BY DEF WInv, Scan, Keep, Cleared, OnTurn
<1>2. CASE worker' = Failed
  BY <1>1, <1>2, FailedWatched
<1>3. CASE worker' = [worker EXCEPT !.pc = "take", !.todo = Due(League, Head(worker.kinds), Clock)]
  <2>1. PICK found \in SUBSET Items : found = Due(League, Head(worker.kinds), Clock)
    BY DEF Due
  <2>2. PICK w \in Workers : w = worker
    BY <1>1
  <2>3. PICK v : v = [w EXCEPT !.pc = "take", !.todo = found]
    OBVIOUS
  <2>4. v \in Workers
    BY <2>3 DEF Workers
  <2>5. /\ v.pc = "take" /\ v.todo = found /\ v.leagues = w.leagues /\ v.failed = w.failed /\ v.next = w.next
        /\ v.at = w.at /\ v.item = w.item /\ v.kinds = w.kinds
    BY <2>3 DEF Workers
  <2>6. worker' = v
    BY <1>3, <2>1, <2>2, <2>3
  <2>7. ASSUME NEW i \in Items \ (stuck \union unheard), Pending(i), Watched(i)
        PROVE  i.league = League /\ ~(deadline[i] > worker.at) =>
                 i \in found \/ i.kind \in Range(Tail(v.kinds))
    <3>1. worker.kinds # <<>> /\ synced /\ worker.at <= now
      BY <1>1, <2>7 DEF Watched
    <3>2. /\ worker.kinds \in Seq(Range(Kinds))
          /\ Range(worker.kinds) = {Head(worker.kinds)} \union Range(Tail(worker.kinds))
      <4>1. worker.kinds \in Seq(Range(Kinds))
        BY <1>1 DEF Workers
      <4> QED BY <3>1, <4>1, RangeIs
    <3>3. ASSUME i.league = League, ~(deadline[i] > worker.at)
          PROVE  i \in found \/ i.kind \in Range(Tail(v.kinds))
      <4>1. i.kind \in Range(worker.kinds)
        BY <1>1, <2>7, <3>3 DEF Watched, Facing
      <4>2. deadline[i] <= Clock
        <5>1. worker.at \in Int /\ deadline[i] \in Nat /\ Clock = now /\ now \in Nat
          BY <1>1, <2>7, <3>1, ClockIs DEF Workers
        <5> QED BY <3>1, <3>3, <5>1
      <4>3. i.kind = Head(worker.kinds) => i \in Due(League, Head(worker.kinds), Clock)
        BY <2>7, <3>3, <4>2 DEF Due
      <4> QED BY <2>1, <2>2, <2>5, <3>2, <4>1, <4>3
    <3> QED BY <2>2, <2>5, <3>1, <3>3
  <2> QED BY <1>1, <2>2, <2>4, <2>5, <2>6, <2>7, WithinTurn
<1> QED BY <1>2, <1>3 DEF Scan

LEMMA TakeWatched ==
  ASSUME IInv, WInv, Take
  PROVE  WInv'
<1>1. /\ worker \in Workers /\ worker.pc = "take" /\ worker.item = {} /\ OnTurn
      /\ worker.kinds # <<>>
      /\ UNCHANGED <<now, synced, skew, deadline, stuck, signal, unheard>>
  BY DEF WInv, Take, Keep, Cleared, OnTurn
<1>2. worker.kinds \in Seq(Range(Kinds))
  BY <1>1 DEF Workers
<1>3. PICK w \in Workers : w = worker
  BY <1>1
<1>4. CASE worker.todo = {}
  <2>1. PICK pc \in {"date", "scan"} : pc = IF Len(worker.kinds) = 1 THEN "date" ELSE "scan"
    OBVIOUS
  <2>2. PICK rest : rest = Tail(worker.kinds)
    OBVIOUS
  <2>3. PICK v : v = [w EXCEPT !.pc = pc, !.kinds = rest, !.stale = FALSE, !.item = {}]
    OBVIOUS
  <2>4. worker' = v
    BY <1>3, <1>4, <2>1, <2>2, <2>3 DEF Take
  <2>5. /\ v.pc = pc /\ v.todo = w.todo /\ v.leagues = w.leagues /\ v.failed = w.failed /\ v.next = w.next
        /\ v.at = w.at /\ v.item = {} /\ v.kinds = rest
    BY <2>3 DEF Workers
  <2>6. v \in Workers
    <3>1. rest \in Seq(Range(Kinds))
      BY <1>1, <1>2, <2>2
    <3> QED BY <2>3, <3>1 DEF Workers
  <2>7. ASSUME NEW i \in Items \ (stuck \union unheard), Pending(i), Watched(i)
        PROVE  i.league = League /\ ~(deadline[i] > worker.at) => pc = "scan" /\ i.kind \in Range(rest)
    <3>3. Len(worker.kinds) = 1 => Range(rest) = {}
      BY <1>2, <2>2, RangeIs
    <3>4. i.league = League /\ ~(deadline[i] > worker.at) => i.kind \in Range(rest)
      BY <1>1, <1>4, <2>2, <2>7 DEF Watched, Facing
    <3> QED BY <2>1, <3>3, <3>4
  <2>8. pc # "date" => rest # <<>>
    <3>1. PICK kinds \in Seq(Range(Kinds)) : kinds = worker.kinds
      BY <1>2
    <3>2. kinds # <<>> /\ Len(kinds) # 1 => Tail(kinds) # <<>>
      BY TailLeft
    <3> QED BY <1>1, <2>1, <2>2, <3>1, <3>2
  <2> QED BY <1>1, <1>3, <1>4, <2>1, <2>8, <2>4, <2>5, <2>6, <2>7, WithinTurn
<1>5. CASE worker.todo # {} /\ worker' = Failed
  BY <1>1, <1>5, FailedWatched
<1>6. ASSUME NEW j \in worker.todo,
             worker' = [worker EXCEPT !.pc = "open", !.item = {j}, !.todo = @ \ {j}, !.stale = FALSE]
      PROVE  WInv'
  <2>1. PICK one \in SUBSET Items : one = {j}
    BY <1>1 DEF Workers
  <2>2. PICK left \in SUBSET Items : left = worker.todo \ {j}
    BY <1>1 DEF Workers
  <2>3. PICK v : v = [w EXCEPT !.pc = "open", !.item = one, !.todo = left, !.stale = FALSE]
    OBVIOUS
  <2>4. worker' = v
    BY <1>3, <1>6, <2>1, <2>2, <2>3
  <2>5. v \in Workers
    BY <2>3 DEF Workers
  <2>6. /\ v.pc = "open" /\ v.todo = left /\ v.leagues = w.leagues /\ v.failed = w.failed /\ v.next = w.next
        /\ v.at = w.at /\ v.item = one /\ v.kinds = w.kinds
    BY <2>3 DEF Workers
  <2>7. ASSUME NEW i \in Items \ (stuck \union unheard), Pending(i), Watched(i)
        PROVE  i.league = League /\ ~(deadline[i] > worker.at) =>
                 i \in v.todo \union v.item \/ i.kind \in Range(Tail(v.kinds))
    <3>1. i.league = League => Facing(i)
      BY <1>1, <2>7 DEF Watched
    <3>2. worker.todo \subseteq v.todo \union v.item
      BY <2>1, <2>2, <2>6
    <3> QED BY <1>1, <1>3, <2>6, <3>1, <3>2 DEF Facing
  <2> QED BY <1>1, <1>3, <2>4, <2>5, <2>6, <2>7, WithinTurn
<1> QED BY <1>4, <1>5, <1>6 DEF Take

MovedOf(w, pc, item) == [w EXCEPT !.pc = pc, !.item = item]

LEMMA PcIs ==
  ASSUME NEW w \in Workers, NEW item \in SUBSET Items, NEW v,
         NEW pc \in {"scan", "take", "open", "check", "append", "date"},
         v = MovedOf(w, pc, item)
  PROVE  /\ v \in Workers /\ v.pc = pc /\ v.item = item /\ v.todo = w.todo /\ v.leagues = w.leagues
         /\ v.failed = w.failed /\ v.next = w.next /\ v.at = w.at /\ v.kinds = w.kinds
<1>1. v \in Workers
  BY DEF Workers, MovedOf
<1> QED BY <1>1 DEF Workers, MovedOf

(* The write transaction takes its item further, or the league fails.      *)
LEMMA TransactionWatched ==
  ASSUME IInv, WInv, worker.pc \in {"open", "check"}, Keep, NEW pc \in {"check", "append"},
         worker' = [worker EXCEPT !.pc = pc] \/ worker' = Failed
  PROVE  WInv'
<1>1. /\ worker \in Workers /\ OnTurn /\ worker.kinds # <<>>
      /\ UNCHANGED <<now, synced, skew, deadline, stuck, signal, unheard>>
  BY DEF WInv, Keep, Cleared, OnTurn
<1>2. CASE worker' = Failed
  BY <1>1, <1>2, FailedWatched
<1>3. CASE worker' = [worker EXCEPT !.pc = pc]
  <2>1. PICK w \in Workers : w = worker
    BY <1>1
  <2>2. PICK item \in SUBSET Items : item = w.item
    BY DEF Workers
  <2>3. PICK v : v = MovedOf(w, pc, item)
    OBVIOUS
  <2>4. v = [w EXCEPT !.pc = pc]
    BY <2>2, <2>3 DEF Workers, MovedOf
  <2>5. worker' = v
    BY <1>3, <2>1, <2>4
  <2>6. /\ v \in Workers /\ v.pc = pc /\ v.item = w.item /\ v.todo = w.todo /\ v.leagues = w.leagues
        /\ v.failed = w.failed /\ v.next = w.next /\ v.at = w.at /\ v.kinds = w.kinds
    <3>1. pc \in {"scan", "take", "open", "check", "append", "date"}
      OBVIOUS
    <3>2. /\ v \in Workers /\ v.pc = pc /\ v.item = item /\ v.todo = w.todo /\ v.leagues = w.leagues
          /\ v.failed = w.failed /\ v.next = w.next /\ v.at = w.at /\ v.kinds = w.kinds
      BY <2>3, <3>1, PcIs
    <3> QED BY <2>2, <3>2
  <2>7. ASSUME NEW i \in Items \ (stuck \union unheard), Watched(i)
        PROVE  i.league = League /\ ~(deadline[i] > worker.at) =>
                 i \in v.todo \union v.item \/ i.kind \in Range(Tail(v.kinds))
    BY <1>1, <2>1, <2>6, <2>7 DEF Watched, Facing
  <2> QED BY <1>1, <2>1, <2>5, <2>6, <2>7, WithinTurn
<1> QED BY <1>2, <1>3

(* What was recorded wakes the worker again.                               *)
LEMMA RecordWatched ==
  ASSUME IInv, WInv, Record
  PROVE  WInv'
<1>1. /\ worker \in Workers /\ worker.pc = "append" /\ OnTurn /\ worker.kinds # <<>> /\ worker.leagues # <<>>
      /\ UNCHANGED <<now, synced, skew, unheard>>
  BY DEF WInv, Record, Cleared, OnTurn
<1>2. CASE worker' = Failed /\ UNCHANGED <<deadline, stuck, signal>>
  BY <1>1, <1>2, FailedWatched
<1>3. CASE signal' = TRUE /\ worker' = [worker EXCEPT !.pc = "take", !.item = {}]
  <2>1. PICK w \in Workers : w = worker
    BY <1>1
  <2>2. PICK item \in SUBSET Items : item = {}
    OBVIOUS
  <2>3. PICK pc \in {"scan", "take", "open", "check", "append", "date"} : pc = "take"
    OBVIOUS
  <2>4. PICK v : v = MovedOf(w, pc, item)
    OBVIOUS
  <2>5. worker' = v
    BY <1>3, <2>1, <2>2, <2>3, <2>4 DEF MovedOf
  <2>6. v \in Workers /\ v.pc = "take" /\ v.item = {} /\ v.leagues = w.leagues /\ v.kinds = w.kinds
    <3>1. v \in Workers /\ v.pc = pc /\ v.item = item /\ v.leagues = w.leagues /\ v.kinds = w.kinds
      BY <2>4, PcIs
    <3> QED BY <2>2, <2>3, <3>1
  <2> QED BY <1>1, <1>3, <2>1, <2>5, <2>6 DEF WInv, Cleared, OnTurn, Watchful, NeverOversleeps
<1> QED BY <1>2, <1>3 DEF Record

LEMMA DateWatched ==
  ASSUME IInv, WInv, Date
  PROVE  WInv'
<1>1. /\ worker \in Workers /\ worker.pc = "date" /\ OnTurn /\ worker.item = {} /\ worker.todo = {}
      /\ worker.leagues # <<>>
      /\ UNCHANGED <<now, synced, skew, deadline, stuck, signal, unheard>>
  BY DEF WInv, Date, Keep, Cleared, OnTurn
<1>2. CASE worker' = Failed
  BY <1>1, <1>2, FailedWatched
<1>3. CASE worker' # Failed
  <2>1. PICK nearest : nearest = Upcoming(League) \union ({worker.next} \ {None})
    OBVIOUS
  <2>2. nearest \subseteq Nat
    <3>1. worker.next \in {None} \union Nat
      BY <1>1 DEF Workers
    <3>2. Upcoming(League) \subseteq Nat
      BY ClockIs DEF Upcoming
    <3> QED BY <2>1, <3>1, <3>2
  <2>3. PICK next \in {None} \union Nat : next = IF nearest = {} THEN None ELSE Min(nearest)
    BY <2>2, MinIs
  <2>4. \A y \in nearest : next # None /\ next <= y
    <3> SUFFICES ASSUME NEW y \in nearest PROVE next # None /\ next <= y
      OBVIOUS
    <3>1. next = Min(nearest) /\ next \in Nat /\ next <= y
      BY <2>2, <2>3, MinIs
    <3> QED BY <3>1 DEF None
  <2>5. PICK w \in Workers : w = worker
    BY <1>1
  <2>6. /\ Tail(worker.leagues) \in Seq(Range(Leagues))
        /\ Range(worker.leagues) = {League} \union Range(Tail(worker.leagues))
    <3>1. worker.leagues \in Seq(Range(Leagues))
      BY <1>1 DEF Workers
    <3> QED BY <1>1, <3>1, RangeIs DEF League
  <2>7. PICK rest \in Seq(Range(Leagues)) : rest = Tail(worker.leagues)
    BY <2>6
  <2>8. PICK v : v = [w EXCEPT !.pc = "league", !.leagues = rest, !.next = next]
    OBVIOUS
  <2>9. worker' = v
    BY <1>3, <2>1, <2>3, <2>5, <2>7, <2>8 DEF Date
  <2>10. v \in Workers
    BY <2>8 DEF Workers
  <2>11. /\ v.pc = "league" /\ v.leagues = rest /\ v.next = next /\ v.failed = w.failed
         /\ v.item = w.item /\ v.todo = w.todo
    BY <2>8 DEF Workers
  <2>12. ASSUME ~signal, NEW i \in Items \ (stuck \union unheard), Pending(i)
         PROVE  Watched(i)'
    <3>1. Watched(i)
      BY <1>1, <2>12 DEF WInv, Watchful, InPass
    <3>2. ASSUME i.league \notin Range(rest)
          PROVE  i.league \in v.failed \/ (next # None /\ next <= deadline[i])
      <4>1. CASE i.league = League
        <5>1. deadline[i] > worker.at
          BY <1>1, <3>1, <4>1 DEF Watched, Facing
        <5>2. deadline[i] \in nearest
          BY <2>1, <2>12, <4>1, <5>1 DEF Upcoming
        <5> QED BY <2>4, <5>2
      <4>2. CASE i.league # League
        <5>1. Settled(i)
          BY <2>6, <2>7, <3>1, <3>2, <4>2 DEF Watched
        <5>2. CASE i.league \in worker.failed
          BY <2>5, <2>11, <5>2
        <5>3. CASE worker.next # None /\ worker.next <= deadline[i]
          <6>1. worker.next \in nearest /\ worker.next \in Nat /\ deadline[i] \in Nat
            BY <2>1, <2>2, <2>12, <5>3, ClockIs
          <6>2. next # None /\ next <= worker.next /\ next \in Nat
            BY <2>4, <6>1
          <6> QED BY <5>3, <6>1, <6>2
        <5> QED BY <5>1, <5>2, <5>3 DEF Settled
      <4> QED BY <4>1, <4>2
    <3> QED BY <1>1, <2>9, <2>11, <3>1, <3>2 DEF Watched, Settled, OnTurn
  <2>13. Watchful'
    BY <1>1, <2>12 DEF Watchful, Pending
  <2> QED BY <1>1, <2>5, <2>9, <2>10, <2>11, <2>13 DEF WInv, Cleared, OnTurn, NeverOversleeps
<1> QED BY <1>2, <1>3

LEMMA FreshWatched ==
  ASSUME WInv, worker' = Fresh, signal' \in BOOLEAN
  PROVE  WInv'
BY FreshIs DEF WInv, Cleared, OnTurn, Watchful, InPass, NeverOversleeps

-----------------------------------------------------------------------------
(* What others do: what nobody was told of is not counted on.              *)
LEMMA ChangeWatched ==
  ASSUME IInv, WInv, NEW c \in Items, NEW own \in BOOLEAN, Change(c, own)
  PROVE  WInv'
<1>1. /\ worker \in Workers /\ signal' = (signal \/ own) /\ signal' \in BOOLEAN
      /\ UNCHANGED <<now, synced, skew>>
      /\ unheard' = IF own THEN unheard ELSE unheard \union {c}
  BY DEF WInv, Change
<1>2. /\ worker' \in Workers /\ worker'.pc = worker.pc /\ worker'.leagues = worker.leagues
      /\ worker'.kinds = worker.kinds /\ worker'.at = worker.at /\ worker'.todo = worker.todo
      /\ worker'.item = worker.item /\ worker'.next = worker.next /\ worker'.failed = worker.failed
      /\ worker'.slept = worker.slept /\ worker'.until = worker.until
  <2>1. CASE worker' = worker
    BY <1>1, <2>1
  <2>2. CASE worker' = [worker EXCEPT !.stale = TRUE]
    <3>1. PICK w \in Workers : w = worker
      BY <1>1
    <3>2. PICK v : v = [w EXCEPT !.stale = TRUE]
      OBVIOUS
    <3>3. v \in Workers
      BY <3>2 DEF Workers
    <3>4. /\ v.pc = w.pc /\ v.leagues = w.leagues /\ v.kinds = w.kinds /\ v.at = w.at /\ v.todo = w.todo
          /\ v.item = w.item /\ v.next = w.next /\ v.failed = w.failed /\ v.slept = w.slept
          /\ v.until = w.until
      BY <3>2 DEF Workers
    <3> QED BY <2>2, <3>1, <3>2, <3>3, <3>4
  <2> QED BY <2>1, <2>2 DEF Change
<1>3. Cleared'
  BY <1>2 DEF WInv, Cleared, OnTurn
<1>4. ASSUME ~signal', NEW i \in Items \ (stuck \union unheard)', Pending(i)'
      PROVE  /\ i \in Items \ (stuck \union unheard) /\ Pending(i) /\ ~signal
             /\ deadline'[i] = deadline[i]
  <2>1. i # c /\ ~own /\ ~signal
    BY <1>1, <1>4
  <2>2. deadline \in [Items -> {None} \union 0..(MaxTime + Stand)]
    BY DEF IInv, TypeOK
  <2>3. deadline'[i] = deadline[i] /\ (i \in stuck' <=> i \in stuck)
    BY <2>1, <2>2 DEF Change
  <2> QED BY <1>1, <1>4, <2>1, <2>3 DEF Pending
<1>5. Watchful'
  <2> SUFFICES ASSUME InPass', ~signal', NEW i \in Items \ (stuck \union unheard)', Pending(i)'
               PROVE  Watched(i)'
    BY DEF Watchful
  <2>1. InPass /\ Watched(i) /\ deadline'[i] = deadline[i]
    BY <1>2, <1>4 DEF WInv, Watchful, InPass
  <2>2. Settled(i) => Settled(i)'
    BY <1>2, <2>1 DEF Settled
  <2>3. (OnTurn' <=> OnTurn) /\ League' = League /\ (Facing(i) => Facing(i)')
    BY <1>2, <2>1 DEF OnTurn, League, Facing
  <2> QED BY <1>1, <1>2, <2>1, <2>2, <2>3 DEF Watched
<1>6. NeverOversleeps'
  <2> SUFFICES ASSUME worker'.pc = "asleep", ~signal', NEW i \in Items \ (stuck \union unheard)', Pending(i)'
               PROVE  \/ worker'.until <= Max({worker'.slept, deadline'[i]})
                      \/ i.league \in worker'.failed /\ worker'.until <= worker'.slept + Retry
    BY DEF NeverOversleeps
  <2>1. /\ i \in Items \ (stuck \union unheard) /\ Pending(i) /\ ~signal /\ deadline'[i] = deadline[i]
    BY <1>4
  <2>2. \/ worker.until <= Max({worker.slept, deadline[i]})
        \/ i.league \in worker.failed /\ worker.until <= worker.slept + Retry
    BY <1>2, <2>1 DEF WInv, NeverOversleeps
  <2> QED BY <1>2, <2>1, <2>2
<1> QED BY <1>1, <1>2, <1>3, <1>5, <1>6 DEF WInv

(* Time passes, the clock is trusted again, leagues break.                 *)
LEMMA ElsewhereWatched ==
  ASSUME IInv, WInv, UNCHANGED <<deadline, stuck, signal, worker, unheard>>, now' \in Nat, now <= now',
         synced => synced'
  PROVE  WInv'
<1>1. /\ worker \in Workers /\ signal \in BOOLEAN /\ Cleared /\ Watchful /\ NeverOversleeps
      /\ now \in Nat /\ worker.at \in Int
  BY ClockIs DEF WInv, Workers
<1>2. Cleared' /\ NeverOversleeps'
  BY <1>1 DEF Cleared, OnTurn, NeverOversleeps, Pending
<1>3. Watchful'
  <2> SUFFICES ASSUME InPass', ~signal', NEW i \in Items \ (stuck \union unheard)', Pending(i)'
               PROVE  Watched(i)'
    BY DEF Watchful
  <2>1. InPass /\ ~signal /\ i \in Items \ (stuck \union unheard) /\ Pending(i)
    BY DEF InPass, Pending
  <2>2. Watched(i)
    BY <1>1, <2>1 DEF Watchful
  <2> QED BY <1>1, <2>2 DEF Watched, Settled, OnTurn, Facing, League
<1> QED BY <1>1, <1>2, <1>3 DEF WInv

LEMMA LoseSyncWatched ==
  ASSUME WInv, LoseSync
  PROVE  WInv'
BY DEF WInv, LoseSync, Cleared, OnTurn, Watchful, NeverOversleeps

LEMMA WatchStep == IInv /\ WInv /\ [Next]_vars => WInv'
<1> SUFFICES ASSUME IInv, WInv, [Next]_vars PROVE WInv'
  OBVIOUS
<1>1. CASE Open
  <2>1. PICK pc \in {"check", "append"} : pc = "check"
    OBVIOUS
  <2> QED BY <1>1, <2>1, TransactionWatched DEF Open
<1>2. CASE Check
  <2>1. PICK pc \in {"check", "append"} : pc = "append"
    OBVIOUS
  <2> QED BY <1>2, <2>1, TransactionWatched DEF Check
<1>3. CASE WakeUp \/ Restart
  BY <1>3, FreshWatched DEF WakeUp, Restart, WInv
<1>4. CASE \E i \in Items, own \in BOOLEAN : Change(i, own)
  BY <1>4, ChangeWatched
<1>5. CASE \/ \E l \in Range(Leagues) : Break(l)
           \/ RegainSync
           \/ UNCHANGED vars
  <2>1. now' = now /\ now \in Nat /\ (synced => synced') /\ UNCHANGED <<deadline, stuck, signal, worker, unheard>>
    BY <1>5, ClockIs DEF Break, RegainSync, vars
  <2>2. now' \in Nat /\ now <= now'
    BY <2>1
  <2> QED BY <2>1, <2>2, ElsewhereWatched
<1>6. CASE Tick
  <2>1. /\ now' = now + 1 /\ now \in Nat /\ (synced => synced')
        /\ UNCHANGED <<deadline, stuck, signal, worker, unheard>>
    BY <1>6, ClockIs DEF Tick
  <2>2. now' \in Nat /\ now <= now'
    BY <2>1
  <2> QED BY <2>1, <2>2, ElsewhereWatched
<1>7. CASE LoseSync
  BY <1>7, LoseSyncWatched
<1> QED BY <1>1, <1>2, <1>3, <1>4, <1>5, <1>6, <1>7, BeginWatched, TurnWatched, ScanWatched, TakeWatched,
           RecordWatched, DateWatched DEF Next, Work

(* Asleep and not notified, the worker gets up in time for all work it was *)
(* told of (due_worker.go:93).                                             *)
THEOREM WakesInTime == Spec => []NeverOversleeps
<1>1. WInv => NeverOversleeps
  BY DEF WInv
<1> QED BY <1>1, Invariant, WatchInit, WatchStep, PTL DEF Spec

=============================================================================
