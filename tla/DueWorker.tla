-------------------------------- MODULE DueWorker --------------------------------
(***************************************************************************)
(* The hosted due worker (leagueservice/due_worker.go): one goroutine that *)
(* records waivers, bids and closed drafts when they fall due, league by   *)
(* league, and sleeps until the next deadline it read.  Users and other    *)
(* processes change the leagues meanwhile, a league may fail, and the host *)
(* clock may lose its synchronisation and be wrong until it has it again.  *)
(***************************************************************************)
EXTENDS Integers, Sequences, FiniteSets, FiniteSetsExt, SequencesExt

CONSTANTS
  Leagues,     \* in the order they are processed
  Items,       \* work that may fall due: [league, kind, id]
  Kinds,       \* the processors, in the order they run
  Skips,       \* kinds whose processor leaves out what cannot be decided now
  Closings,    \* kinds that are due when the last clock has run out: the drafts
  Reconcile,   \* longest sleep
  Retry,       \* sleep after a failure
  Stand,       \* time from a change to the deadline it sets
  Skews,       \* how far a clock without synchronisation may be off
  MaxTime,     \* bound: the time at which the clock stops
  MaxChanges   \* bound: changes by others, silent changes and restarts

ASSUME DueAssumption ==
  /\ Leagues \in Seq(Range(Leagues)) /\ Kinds \in Seq(Range(Kinds)) /\ Kinds # <<>>
  /\ \A i \in Items : i.league \in Range(Leagues) /\ i.kind \in Range(Kinds)
  /\ {Reconcile, Retry, Stand, MaxTime, MaxChanges} \subseteq Nat
  /\ 0 < Retry /\ Retry < Reconcile /\ 0 < Stand /\ Skews \subseteq Int
  /\ Skips \union Closings \subseteq Range(Kinds)

VARIABLES
  now,       \* the true time
  synced,    \* the kernel calls its clock synchronised
  skew,      \* what the clock is off by
  deadline,  \* per item: when the pending work is due (a draft: when its last pick
             \* is used), or None
  stuck,     \* items that cannot be decided: a tie, missing facts, a refusal
  broken,    \* leagues in which every read or write fails
  signal,    \* the worker was notified since it last looked
  worker,    \* where the worker is, and what it remembers
  unheard,   \* items that changed since the pass began without a notification
  changes
vars == <<now, synced, skew, deadline, stuck, broken, signal, worker, unheard, changes>>

None == -100
Pending(i) == deadline[i] # None
Clock == now + skew

(* What the processor of a kind finds due in a league, at time t.          *)
Due(l, k, t) ==
  {i \in Items : /\ i.league = l /\ i.kind = k /\ Pending(i) /\ deadline[i] <= t
                 /\ k \in Skips => i \notin stuck}

-----------------------------------------------------------------------------
Fresh == [pc |-> "ready", leagues |-> <<>>, kinds |-> <<>>, at |-> 0, todo |-> {}, item |-> {},
          stale |-> FALSE, next |-> None, failed |-> {}, slept |-> 0, until |-> 0]

Init ==
  /\ now = 0 /\ synced \in BOOLEAN /\ skew \in (IF synced THEN {0} ELSE Skews)
  /\ deadline \in [Items -> {None, Stand}] /\ stuck = {} /\ broken = {}
  /\ signal = FALSE /\ worker = Fresh /\ unheard = {} /\ changes = 0

League == Head(worker.leagues)
OnIt(l) == worker.pc = "open" /\ League = l
InTransaction == worker.pc \in {"check", "append"}

Wait(next, failed) ==
  Min({Reconcile} \union (IF failed THEN {Retry} ELSE {})
      \union (IF next # None THEN {Max({0, next - Clock})} ELSE {}))

Sleep(failed) ==
  [worker EXCEPT !.pc = "asleep", !.slept = now, !.until = now + Wait(worker.next, failed # {}),
                 !.failed = failed, !.at = 0]

(* Run and step: a pass begins only while the clock is trusted.            *)
Begin ==
  /\ worker.pc = "ready"
  /\ worker' = IF synced THEN [Fresh EXCEPT !.pc = "league", !.leagues = Leagues]
               ELSE [Fresh EXCEPT !.pc = "asleep", !.slept = now, !.until = now + Wait(None, TRUE),
                                  !.failed = Range(Leagues)]
  /\ unheard' = IF synced THEN {} ELSE unheard
  /\ UNCHANGED <<now, synced, skew, deadline, stuck, broken, signal, changes>>

Keep == UNCHANGED <<now, synced, skew, deadline, stuck, broken, signal, unheard, changes>>

(* processLeague reads the time before it does anything else.              *)
NextLeague ==
  /\ worker.pc = "league"
  /\ worker' = IF worker.leagues = <<>> THEN Sleep(worker.failed)
               ELSE [worker EXCEPT !.pc = "scan", !.kinds = Kinds, !.at = Clock]
  /\ Keep

\* mutant: the first league that fails ends the pass
FailedPass == [worker EXCEPT !.pc = "league", !.failed = @ \union {League}, !.leagues = <<>>,
                             !.todo = {}, !.item = {},
                             !.kinds = <<>>, !.stale = FALSE]

(* The first error ends the league, not the pass.                          *)
Failed == [worker EXCEPT !.pc = "league", !.failed = @ \union {League}, !.leagues = Tail(@),
                         !.todo = {}, !.item = {},
                             !.kinds = <<>>, !.stale = FALSE]

Scan ==
  /\ worker.pc = "scan"
  /\ worker' = IF League \in broken THEN Failed
               ELSE [worker EXCEPT !.pc = "take", !.todo = Due(League, Head(worker.kinds), Clock)]
  /\ Keep

(* The records are read again for each piece of work, and their number is  *)
(* the version it is sent at: stale once anybody else records a change.    *)
Take ==
  /\ worker.pc = "take"
  /\ IF worker.todo = {}
     THEN worker' = [worker EXCEPT !.pc = IF Len(worker.kinds) = 1 THEN "date" ELSE "scan",
                                   !.kinds = Tail(@), !.stale = FALSE, !.item = {}]
     ELSE \E i \in worker.todo :
            worker' = IF League \in broken THEN Failed
                      ELSE [worker EXCEPT !.pc = "open", !.item = {i}, !.todo = @ \ {i},
                                          !.stale = FALSE]
  /\ Keep

(* The write transaction: admitted, checked at the time it reads itself,   *)
(* admitted again and written.  Nobody else writes meanwhile.              *)
Open ==
  /\ worker.pc = "open"
  /\ worker' = IF synced THEN [worker EXCEPT !.pc = "check"] ELSE Failed
  /\ Keep

\* mutant: what the scan found due is taken to be due still
RecordableAsScanned(i) == i \notin stuck /\ Pending(i)

(* Every processor looks at the time again under the lock, but the one     *)
(* that closes drafts: it is refused a draft that is closed or unreadable, *)
(* not one that is no longer finished.                                     *)
Recordable(i) ==
  i \notin stuck /\ Pending(i) /\ (i.kind \notin Closings => deadline[i] <= Clock)

Check ==
  /\ worker.pc = "check"
  /\ worker' = IF ~worker.stale /\ \A i \in worker.item : Recordable(i)
               THEN [worker EXCEPT !.pc = "append"] ELSE Failed
  /\ Keep

Record ==
  /\ worker.pc = "append"
  /\ IF synced /\ League \notin broken
     THEN /\ deadline' = [i \in Items |-> IF i \in worker.item THEN None ELSE deadline[i]]
          /\ \E i \in Items : stuck' \in {stuck, stuck \union {i}} /\ i.league = League
          /\ signal' = TRUE
          /\ worker' = [worker EXCEPT !.pc = "take", !.item = {}]
     ELSE worker' = Failed /\ UNCHANGED <<deadline, stuck, signal>>
  /\ UNCHANGED <<now, synced, skew, broken, unheard, changes>>

\* mutant: only what is still ahead when the league is done is waited for
UpcomingAtEnd(l) == {deadline[i] : i \in {j \in Items : j.league = l /\ Pending(j) /\ deadline[j] > Clock}}

(* NextDueDeadline, NextDraftDeadline: the deadlines that were ahead when  *)
(* the league's turn began.                                                *)
Upcoming(l) == {deadline[i] : i \in {j \in Items : j.league = l /\ Pending(j) /\ deadline[j] > worker.at}}

Date ==
  /\ worker.pc = "date"
  /\ LET nearest == Upcoming(League) \union ({worker.next} \ {None})
     IN  worker' = IF League \in broken THEN Failed
                   ELSE [worker EXCEPT !.pc = "league", !.leagues = Tail(@),
                                       !.next = IF nearest = {} THEN None ELSE Min(nearest)]
  /\ Keep

(* The hosted adapter's own wake follows the store's signal of the same    *)
(* commit; one slot stands for both.                                       *)
WakeUp ==
  /\ worker.pc = "asleep"
  /\ signal \/ now >= worker.until \/ now = MaxTime
  /\ worker' = Fresh
  /\ signal' = IF signal THEN FALSE ELSE signal
  /\ UNCHANGED <<now, synced, skew, deadline, stuck, broken, unheard, changes>>

-----------------------------------------------------------------------------
(* A change somebody else commits: work begins, its deadline moves, it is  *)
(* done or withdrawn, it becomes decidable or not; a finished draft is     *)
(* restored, and its clock runs again.  Only the changes made through this *)
(* process's store are signalled.                                          *)
Change(i, own) ==
  /\ ~InTransaction /\ i.league \notin broken /\ changes < MaxChanges
  /\ own => synced
  /\ \/ /\ Pending(i) /\ i.kind \notin Closings => now < deadline[i]
        /\ deadline' = [deadline EXCEPT ![i] = now + Stand]
        /\ UNCHANGED stuck
     \/ Pending(i) /\ deadline' = [deadline EXCEPT ![i] = None] /\ UNCHANGED stuck
     \/ Pending(i) /\ i \in stuck /\ stuck' = stuck \ {i} /\ UNCHANGED deadline
     \/ Pending(i) /\ i \notin stuck /\ stuck' = stuck \union {i} /\ UNCHANGED deadline
  /\ worker' = IF OnIt(i.league) THEN [worker EXCEPT !.stale = TRUE] ELSE worker
  /\ signal' = (signal \/ own)
  /\ unheard' = IF own THEN unheard ELSE unheard \union {i}
  /\ changes' = changes + 1
  /\ UNCHANGED <<now, synced, skew, broken>>

Break(l) ==
  /\ broken' = IF l \in broken THEN broken \ {l} ELSE broken \union {l}
  /\ UNCHANGED <<now, synced, skew, deadline, stuck, signal, worker, unheard, changes>>

LoseSync ==
  /\ synced /\ synced' = FALSE /\ skew' \in Skews
  /\ unheard' = Items
  /\ UNCHANGED <<now, deadline, stuck, broken, signal, worker, changes>>

(* A time daemon needs longer to call the clock synchronised again than a  *)
(* transaction may take.                                                   *)
RegainSync ==
  /\ ~synced /\ ~InTransaction
  /\ synced' = TRUE /\ skew' = 0
  /\ UNCHANGED <<now, deadline, stuck, broken, signal, worker, unheard, changes>>

Restart ==
  /\ changes < MaxChanges /\ changes' = changes + 1
  /\ worker' = Fresh /\ signal' = FALSE
  /\ UNCHANGED <<now, synced, skew, deadline, stuck, broken, unheard>>

Tick ==
  /\ now < MaxTime /\ now' = now + 1
  /\ UNCHANGED <<synced, skew, deadline, stuck, broken, signal, worker, unheard, changes>>

Work == Begin \/ NextLeague \/ Scan \/ Take \/ Open \/ Check \/ Record \/ Date \/ WakeUp

Next ==
  \/ Work
  \/ \E i \in Items, own \in BOOLEAN : Change(i, own)
  \/ \E l \in Range(Leagues) : Break(l)
  \/ LoseSync \/ RegainSync \/ Restart \/ Tick

Spec == Init /\ [][Next]_vars
FairSpec == Spec /\ WF_vars(Work) /\ WF_vars(Tick)

-----------------------------------------------------------------------------
(* The shape of the state; a clock that is called synchronised is right.   *)
TypeOK ==
  /\ now \in 0..MaxTime /\ synced \in BOOLEAN /\ skew \in Int /\ (synced => skew = 0)
  /\ deadline \in [Items -> {None} \union 0..(MaxTime + Stand)]
  /\ stuck \subseteq Items /\ unheard \subseteq Items /\ worker.item \subseteq Items
  /\ worker.pc \in {"ready", "league", "scan", "take", "open", "check", "append", "date", "asleep"}

(* The worker records work that is pending, decidable and due by the true  *)
(* time when it is recorded, whatever it saw before and whatever the clock *)
(* said.  Only a draft it closes need not be finished any more.            *)
RecordedWhenDue ==
  [][worker.pc = "append" /\ deadline' # deadline =>
       \A i \in worker.item :
         Pending(i) /\ i \notin stuck /\ (i.kind \notin Closings => deadline[i] <= now)]_vars

(* Asleep and not notified, the worker gets up by the deadline of all work *)
(* it could record: at once if that has passed, a retry later if its       *)
(* league failed, and by the next reconciliation if nobody told it.        *)
NeverOversleeps ==
  worker.pc = "asleep" /\ ~signal =>
    \A i \in Items \ (stuck \union unheard) : Pending(i) =>
      \/ worker.until <= Max({worker.slept, deadline[i]})
      \/ i.league \in worker.failed /\ worker.until <= worker.slept + Retry

(* Work that is due and stays decidable is recorded, whatever happens to   *)
(* other leagues, as long as its own league can be read and written and    *)
(* the clock is trusted.                                                   *)
Processable(i) ==
  /\ Pending(i) /\ deadline[i] <= now /\ synced /\ i.league \notin broken
  /\ \A j \in Items : j.league = i.league => j \notin stuck
DueIsRecorded == \A i \in Items : []<>~Processable(i)

(* "The app itself may only close a draft that has used its last pick", is *)
(* said of it, and is not so: restored after the scan, it is closed.       *)
ClosesOnlyFinished ==
  [][worker.pc = "append" /\ deadline' # deadline =>
       \A i \in worker.item : deadline[i] <= now]_vars
=============================================================================
