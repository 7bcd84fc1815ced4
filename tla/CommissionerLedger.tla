--------------------------- MODULE CommissionerLedger ---------------------------
(***************************************************************************)
(* The ledger of one league (store/history/commissioner.go and around it): *)
(* one database, several stores that cache its decoded records and their   *)
(* replay, changes that arrive any number of times and as late as they     *)
(* like, alone or in batches, and seasons whose books are closed.          *)
(*                                                                         *)
(* A reader holds a snapshot of the database for as long as it likes, so   *)
(* it may be served any earlier state of the ledger at any time.           *)
(***************************************************************************)
EXTENDS Integers, Sequences, FiniteSets, SequencesExt, FiniteSetsExt

CONSTANTS
  Stores,       \* stores open on the database
  Commands,     \* changes somebody may ask for: [request, principal, kind, target]
  Submissions,  \* sequences of them sent as one; of length one except for a batch
  Start,        \* the start a created native league is recorded with
  MaxEntries    \* bound: entries of the ledger

Live == {"pick", "restore"}
Kinds == {"create", "import", "seed", "rules", "roll", "revert", "cut", "correct"} \union Live

ASSUME LedgerAssumption ==
  /\ MaxEntries \in Nat
  /\ \A c \in Commands \union {Start} :
       c.kind \in Kinds /\ {"request", "principal", "target"} \subseteq DOMAIN c
  /\ \A cs \in Submissions : cs \in Seq(Commands) /\ Len(cs) > 0
  /\ Start.kind = "seed" /\ Start \notin Commands
  /\ \A c \in Commands : c.kind = "create" => c.request # Start.request \* that and ".native-start"

VARIABLES
  rows,   \* the committed entries: [command, expected], each with the version it was made at
  books,  \* revision of a rollover -> the books closed with it
  cache,  \* per store: records, the books they carry, the replay remembered with them
  tx,     \* the one write transaction, or None
  reply   \* the last answer to a submission, or None
vars == <<rows, books, cache, tx, reply>>

None == [none |-> TRUE]
Empty == [records |-> <<>>, base |-> 0, active |-> <<>>]

-----------------------------------------------------------------------------
(* commissioner.Replay.  An entry's identity is its request key.           *)

Positions(es, request) == {i \in 1..Len(es) : es[i].command.request = request}

\* mutant: compensations are walked in the order they were recorded
CompensatedForwards(es) ==
  LET kind(i) == es[i].command.kind
      step(active, i) ==
        IF ~active[i] \/ kind(i) \notin {"revert", "correct"} THEN active
        ELSE [j \in 1..Len(es) |->
                IF j \notin Positions(es, es[i].command.target) THEN active[j]
                ELSE kind(i) = "revert" /\ ~active[j]]
  IN  FoldLeft(step, [i \in 1..Len(es) |-> TRUE], [i \in 1..Len(es) |-> i])

(* An entry in force that compensates another.  One that is not in the     *)
(* list is left: replayed alone, the end of a ledger may hold such.        *)
Compensate(es, i, active) ==
  LET kind == es[i].command.kind
  IN  IF ~active[i] \/ kind \notin {"revert", "correct"} THEN active
      ELSE [j \in 1..Len(es) |->
              IF j \notin Positions(es, es[i].command.target) THEN active[j]
              ELSE kind = "revert" /\ ~active[j]]

(* What is in force when the entries from the i-th on have been walked.    *)
Walk(es) ==
  LET walked[i \in 1..(Len(es) + 1)] ==
        IF i > Len(es) THEN [j \in 1..Len(es) |-> TRUE] ELSE Compensate(es, i, walked[i + 1])
  IN  walked

Compensated(es) == Walk(es)[1]

(* A restore in force sets aside what came between its target and it.      *)
Restores(es, j, active) ==
  IF es[j].command.kind # "restore" \/ ~active[j] THEN active
  ELSE [i \in 1..Len(es) |->
          active[i] /\ ~( es[i].command.kind \in Live /\ i < j
                         /\ \E c \in Positions(es, es[j].command.target) : c < i)]

(* What is in force when the restores among the first j have been.         *)
Asides(es, active) ==
  LET aside[j \in 0..Len(es)] == IF j = 0 THEN active ELSE Restores(es, j, aside[j - 1])
  IN  aside

SetAside(es, active) == Asides(es, active)[Len(es)]

ReplayFull(es) == SetAside(es, Compensated(es))

\* mutant: a later reversal of an entry in the books is not noticed
AddsToBooks(es, base) ==
  \A i \in (base + 1)..Len(es) : es[i].command.kind # "restore"

(* usableClosedBooks: nothing after the books compensates into them.       *)
LeavesBooks(es, base) ==
  \A i \in (base + 1)..Len(es) :
    /\ es[i].command.kind # "restore"
    /\ es[i].command.kind \in {"revert", "correct"} =>
         \A j \in Positions(es, es[i].command.target) : j > base

Replay(es, base, closed) ==
  IF base > 0 /\ LeavesBooks(es, base)
  THEN closed[base] \o ReplayFull(SubSeq(es, base + 1, Len(es)))
  ELSE ReplayFull(es)

-----------------------------------------------------------------------------
(* cachedTransactionRecords, on a snapshot of the database with n entries. *)
(* An absent or damaged summary leaves the books out (`absent').           *)

Rollovers(es) == {i \in 1..Len(es) : es[i].command.kind = "roll"}

LoadBooks(es, absent) == IF absent \/ Rollovers(es) = {} THEN 0 ELSE Max(Rollovers(es))

\* mutant: whatever is newer than the snapshot is kept
StillCurrentAlways(hit, n) == hit

StillCurrent(hit, n) == IF Len(hit.records) > n THEN Empty ELSE hit

Served(cached, db, closed, n, absent) ==
  LET hit  == StillCurrent(cached, n)
      tail == SubSeq(db, Len(hit.records) + 1, n)
      list == hit.records \o tail
      base == IF hit.records = <<>> \/ Rollovers(tail) # {} THEN LoadBooks(list, absent) ELSE hit.base
  IN  IF Len(hit.records) = n THEN hit
      ELSE [records |-> list, base |-> base, active |-> Replay(list, base, closed)]

-----------------------------------------------------------------------------
Init ==
  /\ rows = <<>> /\ books = <<>> /\ cache = [s \in Stores |-> Empty]
  /\ tx = None /\ reply = None

Absent(n) == IF Rollovers(SubSeq(rows, 1, n)) = {} THEN {FALSE} ELSE BOOLEAN

(* A reader of the store whose transaction began when the ledger had n     *)
(* entries: its answer is what the cache then holds.                       *)
Read(s, n, absent) ==
  /\ cache' = [cache EXCEPT ![s] = Served(@, rows, books, n, absent)]
  /\ reply' = None
  /\ UNCHANGED <<rows, books, tx>>

(* Too many other leagues were read, or the process started again.         *)
Forget(s) ==
  /\ cache' = [cache EXCEPT ![s] = Empty]
  /\ reply' = None
  /\ UNCHANGED <<rows, books, tx>>

-----------------------------------------------------------------------------
(* The handling of one change in a write transaction t.                    *)

(* The version a change is checked at: its caller's, or for a later change *)
(* of a batch the one the batch has reached.                               *)
ExpectedNow(t) == IF t.receipts = <<>> THEN t.expected ELSE Len(t.list)

Current(t) == [command |-> Head(t.todo), expected |-> ExpectedNow(t)]

Prior(t) == Positions(t.list, Head(t.todo).request)

(* MatchesRetry: same person, same change, prepared at the same version.   *)
Retried(t) == \E i \in Prior(t) : t.list[i] = Current(t)

(* What an entry comes to: the first of the chain of reversals it ends.    *)
Roots(es) ==
  LET root[j \in 1..Len(es)] ==
        LET back == {k \in Positions(es, es[j].command.target) : k < j}
        IN  IF es[j].command.kind = "revert" /\ back # {} THEN root[Max(back)] ELSE j
  IN  root

Root(es, i) == Roots(es)[i]

(* Changes a rollover captures, by rolloverKind.                           *)
Seasonal == {"rules", "roll", "correct"}

\* mutant: only the change itself is looked at, not what it reverses
SeasonRefusesOutright(es, active, i) ==
  LET later == {es[j].command.kind : j \in {k \in (i + 1)..Len(es) : active[k]}}
  IN  IF es[i].command.kind = "roll" THEN later \intersect Seasonal # {}
      ELSE es[i].command.kind \in Seasonal /\ "roll" \in later

(* rolloverReversalRefusal                                                 *)
SeasonRefuses(es, active, i) ==
  LET root  == Root(es, i)
      later == {es[j].command.kind : j \in {k \in (root + 1)..Len(es) : active[k]}}
  IN  IF es[root].command.kind = "roll" THEN later \intersect Seasonal # {}
      ELSE es[root].command.kind \in Seasonal /\ "roll" \in later

(* What checkAppend asks of the kinds modelled.                            *)
Admissible(t) ==
  LET c      == Head(t.todo)
      es     == t.list
      active == Replay(es, t.base, t.closed)
      target == Positions(es, c.target)
  IN  /\ ExpectedNow(t) = Len(es)
      /\ c.kind \in {"create", "import"} <=> es = <<>>
      /\ c.kind = "seed" => \A i \in 1..Len(es) : es[i].command.kind # "seed"
      /\ c.kind = "revert" =>
           /\ \E i \in target : es[i].command.kind \notin Live \union {"seed"}
           /\ \A i \in target : ~SeasonRefuses(es, active, i)
      /\ c.kind = "correct" =>
           \E i \in target : /\ active[i] /\ es[i].command.kind \in {"cut", "pick"}
                             /\ ~SeasonRefuses(es, active, i)
      /\ c.kind = "restore" => \E i \in target : active[i] /\ es[i].command.kind \in Live

\* mutant: the version and the change are checked before the request
RefusedUnlessAdmissible(t) == ~Admissible(t)

(* A request that was recorded is looked up before anything else about the *)
(* change is checked.                                                      *)
Refused(t) == ~Retried(t) /\ (Prior(t) # {} \/ ~Admissible(t))

Answered(t) == [t EXCEPT !.todo = Tail(@), !.list = t.db, !.receipts = Append(@, Min(Prior(t)))]

(* closeRolloverBooks: db is the ledger with the change in it.             *)
BooksClosed(t, db) ==
  IF Head(t.todo).kind # "roll" THEN t.closed
  ELSE [r \in DOMAIN t.closed \union {Len(db)} |->
          IF r = Len(db) THEN ReplayFull(db) ELSE t.closed[r]]

(* appendCommissioner, and in the same transaction the start of a native   *)
(* league and the books a rollover closes.                                 *)
Recorded(t) ==
  LET start == IF Head(t.todo).kind = "create" THEN <<[command |-> Start, expected |-> 1]>> ELSE <<>>
      db    == t.db \o <<Current(t)>> \o start
  IN  [t EXCEPT !.todo = Tail(@), !.db = db, !.list = db, !.base = 0,
                !.receipts = Append(@, Len(t.db) + 1), !.closed = BooksClosed(t, db)]

AsSent(t, n) ==
  /\ n + Len(t.sent) <= Len(rows)
  /\ \A k \in 1..Len(t.sent) :
       rows[n + k] = [command |-> t.sent[k], expected |-> t.expected + k - 1]

(* The answer, and whether all of it had been recorded as it was sent.     *)
Answer(t, outcome) ==
  [outcome |-> outcome, batch |-> Len(t.sent) > 1,
   recorded |-> \E n \in 0..Len(rows) : AsSent(t, n),
   exact |-> \A k \in 1..Len(t.receipts) : t.db[t.receipts[k]].command = t.sent[k]]

Step(t) ==
  IF Refused(t) THEN tx' = None /\ reply' = Answer(t, "refused")
  ELSE LET done == IF Retried(t) THEN Answered(t) ELSE Recorded(t)
       IN  Len(done.db) <= MaxEntries /\ tx' = done /\ reply' = None

(* ExecuteCommissioner and ExecuteCommissionerBatch take the one write     *)
(* transaction, read the ledger and handle the first change; the caller    *)
(* had prepared it at version e.                                           *)
Submit(s, cs, e, absent) ==
  LET read == Served(cache[s], rows, books, Len(rows), absent)
  IN  /\ tx = None
      /\ Step([sent |-> cs, todo |-> cs, expected |-> e, list |-> read.records,
               base |-> read.base, db |-> rows, closed |-> books, receipts |-> <<>>])
      /\ cache' = [cache EXCEPT ![s] = read]
      /\ UNCHANGED <<rows, books>>

(* A batch reads what it wrote itself past the cache (eventsInTransaction).*)
Continue ==
  /\ tx # None /\ tx.todo # <<>>
  /\ Step(tx)
  /\ UNCHANGED <<rows, books, cache>>

Commit ==
  /\ tx # None /\ tx.todo = <<>>
  /\ rows' = tx.db /\ books' = tx.closed
  /\ tx' = None /\ reply' = Answer(tx, "receipts")
  /\ UNCHANGED cache

\* mutant: what a failed submission wrote stays
AbortKeeping ==
  /\ tx # None
  /\ rows' = tx.db /\ books' = tx.closed
  /\ tx' = None /\ reply' = None
  /\ UNCHANGED cache

(* The transaction fails, its caller gives up, or the process dies.        *)
Abort ==
  /\ tx # None
  /\ tx' = None /\ reply' = None
  /\ UNCHANGED <<rows, books, cache>>

(* A change is sent as prepared now, or again as it was when recorded; a   *)
(* bound: one prepared earlier and never recorded is refused without more. *)
Versions(cs) == {Len(rows)} \union {rows[i].expected : i \in Positions(rows, Head(cs).request)}

Next ==
  \/ \E s \in Stores, n \in 0..Len(rows) : \E absent \in Absent(n) : Read(s, n, absent)
  \/ \E s \in Stores : Forget(s)
  \/ \E s \in Stores, cs \in Submissions : \E e \in Versions(cs), absent \in Absent(Len(rows)) :
       Submit(s, cs, e, absent)
  \/ Continue
  \/ Commit
  \/ Abort

Spec == Init /\ [][Next]_vars

-----------------------------------------------------------------------------
Prefix(n) == SubSeq(rows, 1, n)

(* The shape of the state: books are closed at rollovers only, a store's   *)
(* records carry books it could have loaded, a transaction is under way    *)
(* somewhere in its submission.                                            *)
TypeOK ==
  /\ Len(rows) <= MaxEntries
  /\ \A i \in 1..Len(rows) : rows[i].command \in Commands \union {Start} /\ rows[i].expected \in 0..Len(rows)
  /\ DOMAIN books = Rollovers(rows)
  /\ \A s \in Stores : cache[s].base \in {0} \union Rollovers(cache[s].records)
  /\ tx # None => /\ tx.sent \in Submissions
                  /\ Len(tx.receipts) + Len(tx.todo) = Len(tx.sent)

(* Whatever is in a store's cache, a reader whose snapshot holds n entries *)
(* is served exactly those: never an entry of a transaction that was rolled*)
(* back, nor one newer than its snapshot.                                  *)
ServedAsRecorded ==
  \A s \in Stores, n \in 0..Len(rows), absent \in BOOLEAN :
    Served(cache[s], rows, books, n, absent).records = Prefix(n)

(* What counts, read with the closed books and the remembered replay, is   *)
(* what the whole ledger says.                                             *)
BooksAgree ==
  \A s \in Stores, n \in 0..Len(rows), absent \in BOOLEAN :
    Served(cache[s], rows, books, n, absent).active = ReplayFull(Prefix(n))

(* A reversal that is itself reversed leaves no trace: everything stands   *)
(* as if neither had been recorded.                                        *)
ReversalsUndone ==
  \A n \in 1..Len(rows) :
    LET before == Prefix(n - 1)
    IN  \A i \in Positions(before, rows[n].command.target) :
          rows[n].command.kind = "revert" /\ rows[i].command.kind = "revert"
            /\ ReplayFull(before)[i] =>
          \A x \in 1..(n - 1) \ {i} :
            ReplayFull(Prefix(n))[x] = ReplayFull(RemoveAt(before, i))[IF x < i THEN x ELSE x - 1]

(* A season in force counts on the changes it captured: each of them is in *)
(* force or not as it was when the season began.                           *)
Captures(j) ==
  \A i \in 1..(j - 1) :
    rows[i].command.kind \in Seasonal => ReplayFull(rows)[i] = ReplayFull(Prefix(j - 1))[i]

Reversed(j) == \E k \in (j + 1)..Len(rows) : rows[k].command.kind = "revert" /\ Root(rows, k) = j

(* ... unless the rollover was itself reversed and restored meanwhile.     *)
SeasonKept == \A j \in Rollovers(rows) : ReplayFull(rows)[j] /\ ~Reversed(j) => Captures(j)

(* rollover_command.go:237: "a change a rollover captured cannot be        *)
(* reversed once the league has moved past it".                            *)
CapturedStays == \A j \in Rollovers(rows) : ReplayFull(rows)[j] => Captures(j)

(* A receipt names the entry its request made, and a change that was       *)
(* recorded is never refused when it is sent again, whatever was recorded  *)
(* since.                                                                  *)
AnswersAreTrue ==
  reply # None => /\ reply.exact
                  /\ reply.outcome = "refused" /\ ~reply.batch => ~reply.recorded

(* migration_import.go:70, of each change of a batch: "A retried request   *)
(* returns its stored receipt."                                            *)
RetriedBatchAnswered ==
  reply # None /\ reply.outcome = "refused" => ~reply.recorded

(* The ledger is one list that grows by whole submissions.                 *)
Promise == INSTANCE RequestLog WITH entries <- [i \in 1..Len(rows) |-> rows[i]]
ImplementsRequestLog == Promise!Spec
=============================================================================
