# A verification of The War Room

The War Room runs dynasty fantasy-football leagues: a desktop program and a
server in Go, SQLite databases, and one append-only ledger per league.  This
directory holds TLA+ models of the parts of it that keep a promise across
processes, databases, failures or long histories, the TLC configurations that
check them on small instances, and TLAPS proofs of the results that matter most.
Every definition is a reading of the code under `src/`; `PROJECT.json` names the
lines.

    tlc -workers 4 -config MCLeagueTransfer.cfg MCLeagueTransfer.tla
    tlapm LeagueTransferProofs.tla
    tlapm LeagueGovernanceProofs.tla
    tlapm DueWorkerProofs.tla
    tlapm OffsiteBackupsProofs.tla
    tlapm BackupRestoreProofs.tla
    tlapm AccountsProofs.tla
    tlapm CommissionerLedgerProofs.tla
    tlapm RookieDraftProofs.tla

## The system

Paths are under `src/internal/` unless they say otherwise.

| Part | State it keeps | Operations | What is hard |
|---|---|---|---|
| **League transfer** (`leaguetransfer`, `store/history/transfer*.go`, `src/cmd/twr`) | per database: the league's rows, the import receipt, a table of authority transitions; export files | export, import, seal, activate, abort | two databases without a common transaction; lost replies, retries, stale files, reverse moves |
| **Offline backup restore** (`db/backup*.go`, `app/platform`) | three databases, a staged copy, a safety set, a journal; published backup sets | capture, restore, recover | crashes and power losses between renames, and in the recovery itself |
| Backup retention (`db/backup_retention.go`) | dated sets | prune | calendar boundaries |
| Ledger and mutation door (`store/history/commissioner.go`, `events.go`, `commissioner/ledger.go`, `leagueservice/mutations.go`) | `league_event`, a cache of decoded records | execute, retry, revert, fold | stale cache, retries, reversals of reversals |
| Due worker (`leagueservice/due_*.go`) | one wake slot, the next deadline | wake, step, run | lost notifications, failing leagues, an untrusted clock |
| Off-site backup gate (`offsite`, `db/hosted_backup.go`) | time of the last verified capture | back up, admit a write | slow uploads, clocks, restarts |
| People, roles and succession (`governance`, `commissioner/succession.go`) | seats, roles, deputies, invitations, votes | some twenty events folded in order | sequences of legal changes |
| Rookie draft (`engine/rookiedraft`) | picks, cursor, deadline | select, skip, insert, change, pause, restart | acts that arrive after picks expired |
| Market (`commissioner/market`) | claims, bids, trades, rosters | submit, process when due | due work meeting changes of the same players |
| Accounts (`accounts`, `store/accounts`) | accounts, codes, sessions, tokens, authenticators | enrol, log in, step up, reset, revoke | codes used twice, resets racing sessions |
| HTTP server (`serverhttp`) | streams, budgets, confirmations | commands, invalidations | a commit between the head and the view |
| Owner updates (`releasetrust`) | update cache, remembered version | stage | interrupted downloads |
| Everything else | | | migration from MFL, rules and calendar, numeric engines, ingestion, what-if databases, user interface: see the notes in `PROJECT.json` |

How they meet: every change of a league goes through the mutation door into
`league_event`; due worker, desktop and server are its callers, and the folds
(people, draft, market) are computed from its rows.  League transfer moves the rows
of a league between databases and closes the door with a trigger.  Backup restore
replaces whole databases underneath all of it, offline.  The off-site gate can
refuse the door's transactions; the invalidation stream watches their commits.

`PROJECT.json` lists what is hard to test in each part, line by line ("hazards"),
with the properties that watch it or the reason why none does.

## Plan

1. `LeagueTransfer` with its abstract specification and proofs. **Done.**
2. `BackupRestore` with its abstract specification, and proofs of all its safety
   properties. **Done.**
3. `LeagueGovernance`: seats, roles, deputies, step-down, takeover, votes and
   elections, with proofs of all its safety properties. **Done.**
4. `CommissionerLedger`: the append transaction, caches, retries, reversals and closed
   books; abstract specification `RequestLog`, with proofs of all its properties. **Done.**
5. `DueWorker`: wakes, failures and an untrusted clock, with liveness of due work and
   proofs of its safety. **Done.**
6. `OffsiteBackups`: what a lost server loses, with proofs of all its properties.
   **Done.**
7. `DraftEngine` and `RookieDraft`: the replayed draft, with proofs of all its
   properties. **Done.**
8. `Accounts`: codes, counters, sessions, generations, with proofs of all its properties. **Done.**

The pruning of local sets and the server's stream of invalidations were planned and
are not modelled; see "Not modelled".

## League transfer

| Module | Role |
|---|---|
| `LeagueAuthority` | what the move promises: one league, one home or a pause, an append-only ledger served from the home |
| `LeagueTransfer` | the databases, the files, the operator's commands; all properties |
| `MCLeagueTransfer` + three `.cfg` | instances for TLC |
| `LeagueTransferInduction` | the inductive invariant `IInv` |
| `LeagueTransferProofs` | the theorems |

### State and actions

`events`, `receipt`, `fence` and `decided` are the tables of each database
(`league_event`, `league_import`, the last row of `transfer_transition`, and all of
its rows as move and state).  A league's history is a set of rows: the code compares
row lists by equality and by prefix, rows are never changed or removed, and each is
written in one database and then only copied, so the order adds nothing.  `exports`
is what each file carries; a file is identified by its content digest.  `issued`
numbers the move UUIDs in the order they were drawn, which is how the model writes
"fresh"; generations chosen by an operator before the first move (`Seed`) are zero or
negative.  `preflight`, `deciding` and `saving` are commands in progress, at the
points where they hold no transaction, or a transaction on one side only.

An action is one transaction or one point at which a command can be interrupted:

* `Append` is a league command's commit; the trigger is its last guard.
* `ExportGeneration`, `Capture`, `SaveFails`: `league-export save` reads the
  generation in one transaction and the rows in a later snapshot.
* `StageTransfer`: `league-import`, rows and then the receipt in one transaction.
* `CheckTransferDestination`, `SealTransfer`, `SealEnds`: move "seal"; the
  destination is read before, and not together with, the source's transaction.
* `DecideTransfer` takes the source's writer; `ReceiveTransfer`, `FindActivated` or
  `CancelAtDestination` is the destination's own transaction; `CommitSource` is the
  source's.  `DecideFails` may come at any point between, and leaves what the
  destination committed.

Two comparisons of the code are merged into guards: `decideMove`'s match of the held
fence against the file and the destination (the operator gives the right file; a
wrong one is refused without effect), and the audit anchor at the seal, which can
only refuse (`SealEnds`).  Any operator stands for the commissioner's authorization.
Player identities, blobs, encryption and the roster restore point travel with the
rows and decide nothing.  A copy of a whole database file made outside the program
is outside the model, as its README excludes it.

### What is checked

| Run | Instance | Shows |
|---|---|---|
| `transfer_safety` | 3 databases, 2 events, 2 files, 4 moves, 2 commands in flight; symmetry in databases other than the origin, events and files; 480,103 states | `AtMostOneWritable`; `WritableHoldsLedger`; `OneOutcome`; `SourceFollowsDestination`; `ReadOnlyCopiesAreFrozen`; `ImplementsAuthority` |
| `transfer_live` | 2 databases, 3 moves (there, back, there again); 4,745 states, no symmetry | `PauseEnds` |

Four moves in three databases let every two of them meet: the same direction twice, a
reverse move, a chain, and a move to a third copy from a stale file, with a move before
and one after; three databases are the fewest in which two destinations of one source,
or a destination with plans of its own, exist.  Two files let one be staler than the
other and both than their source; a second command in flight lets a seal overtake a
decision.  The theorems below carry the safety results to every instance.

The fairness in `FairSpec` is the operator's: both decisions are tried again and
again, and each step of an attempt that is possible again and again is taken in the
end.  Strong fairness is needed because an attempt may be interrupted at each step
any number of times; the recovery instructions of `leaguetransfer/README.md` ask the
operator for nothing else.

**Disagreement with the documentation.** `leaguetransfer/README.md:200` promises that
"activation retry finishes source retirement" after a lost reply.  If the destination
has meanwhile sealed and aborted a move of its own, it is active under that second
move, `checkDestinationDecision` refuses the retry for good
(`transfer_destination.go:70`), and the source stays sealed: no data is lost and there
is one authority, but the source can neither be retired nor receive the league back.
`RetryFinishesRetirement` states the promise, and `MCLeagueTransferRetirement.cfg`
reproduces its violation.

### What is proved

For every set of databases, events, files and seeds and every bound:

* `TypeCorrect`, `NeverTwoWritable`, `NoEventLost`, `MoveEndsOneWay`: the type
  invariant and the three state invariants;
* `SourceFollows` and `CopiesAreFrozen`: the two action properties;
* `AuthorityImplemented`: `Spec` implements `LeagueAuthority`.

The assumptions are the named ones of `LeagueTransfer` (the origin is a database, the
founding row an event, seeds are not positive, bounds are natural numbers).

None of the properties is inductive.  `NeverTwoWritable` depends on what the sealed
source will still do, that on what its destination recorded, and that on which moves
exist at all.  `IInv` ties them together: every move that was issued names one source
and one destination; a database's transitions are about moves it took part in; a move
active at the destination is sealed or moved at the source; what a file names is a
generation that was reached with those rows; and every copy's rows are those of the
newest authority or a part of them.  `LeagueTransferProofs` shows that Init implies
`IInv`, that each action preserves it (one lemma per action), and that it implies the
properties; the refinement follows from it step by step, each action a write, a pause,
a resumption or a stutter of `LeagueAuthority`.

Liveness (`PauseEnds`) is model-checked only.

## Backup restore

| Module | Role |
|---|---|
| `AtomicRestore` | what a restore promises: the profile is replaced at once or not at all |
| `BackupRestore` | directories, journal, recovery, the application, failures; all properties |
| `MCBackupRestore` + its `.cfg` | the instance for TLC |
| `BackupRestoreProofs` | the inductive invariant `IInv` and the state invariants; its extension `Durable`, the action property and the refinement |

### State and actions

`disk` is what running processes see: the live databases, the latest pre-restore set,
the staged copy and the journal.  `flushed` is what a power loss is sure to leave.  A
database's content is a number, `Absent` when there is no file; its WAL and
shared-memory companions are folded into it, as `checkpointOffline` does before a
restore.  `sets` are the published backup sets other than the latest safety set, `op`
is what the process holding the instance lock is doing and `purpose` what it was
started for.

A restore (`Restore`, `JournalStep`, `MoveCurrent`, `Install`, `Swapped`), recovery
(`Recover`, `Wipe`, `Rollback`, `FinishStage`, `FinishJournal`, `Discard`) and the
application (`Create`, `Opened`, `Write`, `Capture`, `Quit`) are one action per file
operation.  The code takes the databases in a fixed order and the model in any order,
which includes it.  A directory sync waits until `flushed = disk`, and the kernel's
`Flush` may come at any time before.  `Die` is a killed process or a file operation
that fails: the code then returns and the journal stays.  `PowerLoss` chooses, for
each database and for the journal, whether its last unflushed change had reached the
disk; a rename is atomic.  SQLite syncs the directory with the first sync of a file it
created, so commits of the application wait for earlier changes to be flushed, and
staging (which copies and syncs three databases) leaves nothing older unflushed.

Not modelled: the staging and safety directories orphaned by a crash before the
journal is written (never read again), backups before migrations and the daily
schedule, the pruning of old sets, journals of newer versions (refused).

### What is checked

| Run | Instance | Shows |
|---|---|---|
| `restore_safety` | 2 databases, contents 0 to 2, 3 failures; no symmetry; 209,633 states | `RollbackPossible`; `AppSeesWholeProfile`; `NoProfileLost`; `ImplementsAtomicRestore`; `RestoreEnds` |

Two databases give a first and a last rename, in either order, and a profile that is a
mixture; two contents besides the empty one tell the old profile, the restored set and
a mixture apart; three failures interrupt a restore, its recovery and the recovery
after that.

`FairSpec` assumes that a started process goes on, the kernel writes back in the end
and the user starts the program or the restore again; failures are bounded by
`MaxFailures`, as no recovery ends while it is interrupted for ever.

### What is proved

For every finite set of databases, any contents and any number of failures:

* `TypeCorrect`, `RollbackAlwaysPossible`, `ProfileIsWhole`: the type invariant and the
  two state invariants;
* `ProfilesKept`: the action property `NoProfileLost`;
* `RestoreIsAtomic`: `Spec` implements `AtomicRestore`.

The assumptions are the named ones of `BackupRestore`: there is a database, `Absent` is
not a content and `None` neither a journal nor a set.

The properties are not inductive, because a power loss mixes the files of two states.
`IInv` says what is true of both: every journal that can come back is of one restore
(`OneRestore`) and can be undone with either state's files (`Undoable`); what the
running process takes as finished is whole (`Settled`); and it relates journal, live,
safety and staged files between any two steps of a restore (`Swapping`) and of a recovery
(`Recovering`).  `Durable` adds what a power loss can no longer change: the live
databases while no restore is open or before its journal is flushed (`Still`,
`Requested`), a safety set that is only taken apart once it is of no use (`SetsSafe`,
`Undoing`).  With both, each step that changes `flushed` decides at most whether a
restore is pending, applied or abandoned, which is the refinement (`ReachesDisk`).

`RestoreEnds` is model-checked only.

## People, roles and succession

| Module | Role |
|---|---|
| `LeagueGovernance` | the fold of the people events with their permissions; all properties |
| `MCLeagueGovernance` + six `.cfg` | instances for TLC |
| `LeagueGovernanceProofs` | the theorems |

### State and actions

The variables are fields of `governance.State`.  `teams`, `seat` and `caretaker` stand
for the franchises (named 1 to `teams`, as `resizedFranchises` numbers them), `invites`
for the invitations in order, `roles`, `deputies`, `pending` and `outgoing` for the
fields of those names (`deputies` is `coCommissioners`), and `vote` for the one vote
that is not closed: `openVote` refuses a second.  Closed votes are only read by their
identity, so `votes` counts them; `elected` remembers what the elections decided and is
used by properties alone.

A step is one recorded command.  The ledger refuses a command whose event the fold
refuses (`CheckGovernanceAppend`), so a guard is the permission in
`AuthorizeRecords` together with the errors of the event's `apply`, and
`checkRoleChangesSomething` for grants.  Every command of a person also counts as that
person's activity (`withActivity`, `RecordedBy`); commands about anything else do
that alone (`OtherCommand`, with `ActivityObserved`).

Two clocks matter, and both are steps of their own.  `PeriodEnds` is the end of an
open election's or runoff's period.  `GoesQuiet` is the moment a person with recorded
activity has been inactive for the longer of the two periods, which is what
`takeoverWaitedLongest` asks; `InactivitySet` changes the periods and may make anybody
but its author quiet or active again.  The model lets the clock take these steps at any
time, so no order of deadlines and commands is left out, at the price of orders that
given periods exclude.  A person a takeover made commissioner may be quiet already:
the code keeps activity per person, not per office, and so does the model.

Candidates are people of the model; the code accepts any name.  Of candidates with
equal ballots in a first round the code takes the first name, the model any.

Not modelled: names and abilities of franchises, report visibility, reversals of
people changes (they refold a shorter history, and belong to the ledger), the refusal
to remove a franchise that holds players, and the refusal of a resize once play has
begun (so the model allows more).

### What is checked

| Run | Instance | Shows |
|---|---|---|
| `governance_people` | 3 people, 1 or 2 franchises, 3 role changes, 1 seating, 1 invitation, no votes, one person's inactivity followed; 534,467 states | `SuccessionConsistent`; `DeputiesInOrder`; `OneSeatEach`; `FranchisesAccounted`; `TurnsMoveOn` |
| `governance_election` | 3 people, 2 franchises, 4 role changes, 2 seatings, 1 vote, no caretakers; 534,880 states | `StaysGoverned`; `ElectionDecides` |
| `governance_headless` | 2 people, 2 franchises, no role changes | a violation of `SomebodyCanElect`, below |

All are symmetric in the people, apart from `Watched`, those whose inactivity an
instance follows: one person where takeovers matter, who may be the commissioner or a
deputy, and nobody in the other runs.  `Minded` leaves caretakers, which no vote reads,
out of the runs about votes.  `MinTeams` is `minFranchises`.  Three people give a
commissioner with two deputies, or one deputy and somebody who is promoted over the
commissioner.  In the election two owners of two
franchises tie in a runoff while the third, who is no candidate, has a role that judges;
four changes of roles give that role and take it away between the ruling and the closing
it would have been counted at.  The same owners carry a vote-out (both) and fail one
(one).  Every property here is also a theorem, so the bounds limit only what TLC has
seen, not what is known; a franchise that comes or goes during a vote is covered by the
proof alone.

`StaysGoverned` has two exceptions, because the code has them too: they are the first
two disagreements below.  It says that there is no third way.

**Disagreements found.**

* `SomebodyCanElect` (`governance_headless`): the creator of a league who steps down
  before anybody else has a role leaves a league that needs an election
  (`ElectionNeeded`), and nobody who may open it: that takes a co-commissioner or a
  Director (`votes.go:59`, `commissioner/succession.go:166`), and only a commissioner
  makes one.  `Target_UI_Spec_2026-10.md:624` says "The co-commissioner at once; if
  none, or they decline, the owners elect one".  The same happens when a deputy who is
  asked, and is the only person with a role, gives up the deputy's role.
* `LeagueCanBeLed` (`MCLeagueGovernanceLockout.cfg`): owners may elect the commissioner
  who stepped down.  `transfer` (`succession.go:77`) gives that person the office and
  takes it away again, and clears `outgoing`: nobody is commissioner, and no election
  can be opened, against the same line.
* `ReadyMeansClosable` (`MCLeagueGovernanceReady.cfg`): an election whose period ends
  without a ballot is called ready to close (`elections.go:88`), cannot be closed
  (`:121`), voted in or replaced.
* `NobodyEntrenches` (`MCLeagueGovernanceEntrench.cfg`): the target of a vote-out can
  revoke the roles of everybody entitled to close it, whatever the ballots say
  (`commissioner/succession.go:166`; `src/docs/ui/Target_UI_Spec_2026-10.md:669`).

The first is a run; the configurations of the other three reproduce them and are not
among the runs.

Two more observations have no document to disagree with.  Closing a vote-out whose
target has stepped down already starts the succession again and asks a deputy who
declined, which is why `TurnsMoveOn` leaves out the closing of votes.  And ballots of
franchises that were given up after casting them still count, while the thresholds
follow the number of franchises left.

### What is proved

For any finite set of people and any bounds, `LeagueGovernanceProofs` proves the type
invariant and every property of the passing runs: `StateIsTyped`,
`LeagueStaysGoverned`, `SuccessionIsConsistent`, `DeputiesAreInOrder`,
`OneSeatPerPerson`, `FranchisesAreAccounted`, `TurnsOnlyMoveOn` and `ElectionsDecide`.
The assumptions are that `Principal` is finite, `None` is nobody, and the bounds are
natural numbers.

The invariant `IInv` is the conjunction of the state properties.  Few are inductive
alone: `SuccessionConsistent` survives the revocation of a deputy only because
`DeputiesInOrder` says that the list names each deputy once; `OneSeatEach` needs
`FranchisesAccounted`, since `assign` looks for a person's other seat among the
franchises the league has now.  Each command has a lemma (named after it, ending in
"Keeps"); `AdvanceIs`, `FirstDeputyIsOne`, `WithoutDeletes` and `ReorderingKeepsPeople`
say what the searches and changes of the deputies' list do.

`LeagueStaysGoverned` has a lemma for each command that may take a role (ending in
"Governs").  A commissioner who leaves is followed by a deputy, named or found, or
there is none, and then an election is needed and a Director may open it; if there is
no Director either, the one who left was the only person with a role.  An acceptance
leaves the commissioner whom `SuccessionConsistent` says there is, and a closed vote
puts its winner in office, unless the winner is the one being replaced.
`ElectionsDecide` adds the invariant `RunoffBallots` (the ballots of a runoff are for
its candidates), and `TurnsOnlyMoveOn` shows that only a decline changes whose turn it
is without a change of roles or a closed vote.

## Ledger of a league

| Module | Role |
|---|---|
| `RequestLog` | what the ledger promises: one list that grows by whole submissions, each change under a request key of its own |
| `CommissionerLedger` | the append transaction, the caches, replay, closed books; all properties |
| `CommissionerLedgerProofs` | the invariants and theorems |
| `MCCommissionerLedger` + three `.cfg` | instances for TLC |

### State and actions

`rows` are the rows of `league_event` with the version each was recorded at, `books`
the summaries a rollover stores, `cache` what each store remembers (decoded records,
the books they carry, the replay), `tx` the one write transaction and `reply` the last
answer to a submission.

* `Read` is `cachedTransactionRecords` in a read transaction that began when the
  ledger had `n` entries; `Forget` is the eviction of a league, or a restart.
* `Submit` takes the writer (`ExecuteCommissioner`, `ExecuteCommissionerBatch`), reads
  through the cache and handles the first change; `Continue` handles the next change of
  a batch; `Commit` and `Abort` end the transaction.
* `Refused`, `Retried`, `Answered` and `Recorded` are the order of checks of one change:
  the request key first, then the version, then the change itself.  A created league
  gets its start in the same transaction, a rollover closes its books in it.

`ReplayFull` is `commissioner.Replay`: reversals and corrections are walked from the
newest back, then draft restores set aside what lies between their checkpoint and
themselves.  `Replay` is the same with the closed books used as its beginning when
nothing after them reaches into them (`usableClosedBooks`).  Changes are kinds with a
target: what a trade or a contract does to its own subject decides nothing here.  A
change that was prepared earlier than the present version and was never recorded is
refused without more and is not submitted by the model.

### What is checked

| Run | Instance | Shows |
|---|---|---|
| `ledger` | 1 store, 12 changes, one batch of two, at most 6 entries; 57,650 states | `ServedAsRecorded`; `BooksAgree`; `ReversalsUndone`; `SeasonKept`; `AnswersAreTrue`; `ImplementsRequestLog` |
| `ledger_season` | 6 changes about one season, at most 6 entries | a violation of `CapturedStays`, below |

Stores share nothing but the database, and a commit leaves every cache as it is: what
another store records looks to a store like what it recorded itself, so one store with
readers of every snapshot shows what several do.  Six entries hold a league's start, a change, a
rollover, a reversal, its reversal and one more; a batch that fails in the middle; and
a request key used by two different changes (`Undo`, `UndoOther`).

**Disagreement found.** `rolloverReversalRefusal` promises that "a change a rollover
captured cannot be reversed once the league has moved past it".  Reverse the rollover,
reverse a rule it captured (nothing refuses: the rollover is out of force), then
reverse the first reversal: the root of that is the rollover, the rule lies before it,
and a reversal is no seasonal kind.  The rollover is in force again with a captured
change undone.  `CapturedStays` states the promise and `ledger_season` refutes it;
`SeasonKept` says that this is the only way.

Another one is reproduced by `MCCommissionerLedgerBatch.cfg` (`RetriedBatchAnswered`)
and is not among the runs.  `migration_import.go:70` and `leaguemigration/service.go:251`
say that a batch sent again is a retry.  For every change after the first the version
is computed anew (`migration_import.go:44`), so a batch that was committed and is sent
again does not match what was recorded, and is refused.

### What is proved

For any stores, changes, submissions and bound on the ledger's length,
`CommissionerLedgerProofs` proves every property of the run `ledger`:

* `LedgerHolds`: the invariant `IInv`;
* `ReadersServed`, `BooksTrusted`, `RetriesAnswered`: `ServedAsRecorded`, `BooksAgree`
  and `AnswersAreTrue`;
* `OneList`: `Spec` implements `RequestLog`;
* `SeasonsKept` and `ReversalsLeaveNoTrace`: `SeasonKept` and `ReversalsUndone`.

`IInv` says that the ledger is well formed (`Ledger`: no two entries share a key, what is
reversed, corrected or returned to is there and came before); that the books are those of its rollovers, each
with the replay of the ledger up to it (`ClosedBooks`); that every cache is a beginning
of the ledger with books it could have loaded and its own replay (`Remembers`); and of
the transaction under way that its list is what it has read and written, and its
receipts answer what it has handled (`TxOK`).  `OrderlyState` is a second invariant, for
seasons: corrections and restores have targets of the kinds that admit them (`Suited`)
and seasons keep what they captured, in the list of the transaction under way as in the
ledger.  TLC finds no violation of either in the run's instance.

The replay walks the ledger twice, so `Walk`, `Asides` and `Roots` are recursive
functions, and the lemmas compare two of them entry by entry: the replay of the whole
with that of the books and the rest (`LeavesBooks`), of a ledger with one entry more,
and of one with an entry less.  Their inductions are over a set of naturals (`NatsIn`,
from the well-foundedness of `<`), as the prover has no induction rule for formulas.

The assumption is `LedgerAssumption`: changes have the fields that are read, submissions
are not empty, and the start of a created league has a key of its own
(`native_assets.go:93` appends to the request's; `Commands` contains no change with it).

## Rookie draft

| Module | Role |
|---|---|
| `DraftEngine` | `engine/rookiedraft`: the replay of acts, as operators without state |
| `RookieDraft` | the recorded entries, the checks at the writer, the clock; all properties |
| `MCRookieDraft` + three `.cfg` | instances for TLC |
| `RookieDraftProofs` | the theorems |

### State and actions

`ledger` holds the draft's entries, `now` is the store's clock, and `board` is the
draft as everybody reads it: the replay of the entries in force up to `now`.  The code
stores no such thing; the variable is defined anew in every step, so that properties
can compare two readings.  `bad` stands for the error a replay returns.

`OwnerPick` is an owner's choice, recorded without trying it on the draft; `SkipPick`,
`Assign`, `InsertAfter`, `ChangePick`, `Timer`, `Archive` and `Restore` are the
commissioner's live changes, each tried on the draft as it would stand (`LiveChange`).
`SetOrder` records another first-round order, `Correct` takes back a selection and
`Revert` reverses an entry, which is tried on the draft only under the conditions of
`checkDraftReversal`.  `Tick` is time: picks whose clocks run out are skipped by the
reading, not by an entry.

Contracts, slots, the setup wizard and the rookies' ranking are left out; who holds a
traded pick is the constant `Owner`.

### What is checked

| Run | Instance | Shows |
|---|---|---|
| `draft` | 2 franchises, 1 round, 2 rookies, 2 orders, 4 entries, time 0 to 2, clock of 1; symmetry in the rookies; about 265,000 states | `CursorDivides`; `ReadableUnlessRevived`; `TurnUndisturbed`; `UsedStaysUsed`; `RestoreReturns`; `TimeOnlyExpires` |

Two picks let one be on the clock and one used, skipped or ahead; two rookies let a
pick be changed; four entries hold a choice, something that undoes it, something that
undoes that, and a live change on top.  A clock of one lets a pick run out at either
instant, so that an act arrives after, at and before its deadline.

Where the code's own words say more than it does, the weaker property is the one
checked and the stronger is stated in the module:

* `AlwaysReadable` (`draft_commands.go:119`): a draft with picks "must keep an order and
  a clock that still give every one of them its place".  `checkDraftReversal` asks
  whether the draft has picks before the change (`draft_commands.go:153`), so the
  reversal of a correction that had emptied the draft is not tried, and may revive a
  pick that no longer has a place.  `ReadableUnlessRevived` says that this is the only
  way.
* `PicksNamedOnce` (`MCRookieDraftNames.cfg`): a `PickRef` "names one pick of a draft"
  (`acts.go:47`), but the number of an extra pick starts at one again when the pick it
  is inserted after is itself an extra, so two may share a name.
* `RestoreIsAsLabelled` (`MCRookieDraftLabel.cfg`): every restore is shown as "Restored
  the ... to how it stood after" its checkpoint (`draft_restore.go:39`).  The restores
  are applied from the oldest on, so one that a later restore sets aside has already
  set its own entries aside; with a checkpoint between them, they stay away.
  `RestoreReturns` is the same for checkpoints with only live changes since.

The last two configurations reproduce what they describe and are not among the runs.

### What is proved

`RookieDraftProofs` proves every property of the run, for any franchises, rounds,
orders, owners, clock, start and durations and for ledgers of any length, from
`EngineAssumption` and `DraftAssumption` (a first-round order names every franchise
once; of `Owner` only that it is a function).  None of the bounds is used.

The inductive invariant, `DraftInv`, is small: the entries form a `Log` (in the order of
their instants, each about an earlier one, none of the running draft before its start)
and the board is their reading.  Everything else is about one replay:

* Every act and the clock keep a timeline `Good`: the scheduled picks before the cursor
  are used, the others are not, the cursor is on a pick that takes a turn or past the
  last (`ApplyIs`, `AdvanceIs`).  Hence `BoardIsWhole` and `CursorAlwaysDivides`.
* Looking at the clock twice is looking once, at the later instant (`AdvanceAdds`): what
  makes a draft that is never stored the same for everybody who reads it, and
  `TimeOnlyExpiresClocks` true.
* An entry of the running draft is one act more at the end of the same replay
  (`AppendActive`, `AppendActs`, `ActRecorded`), so that what the act does to a timeline
  it does to the board: `TurnIsUndisturbed`, `UsedPicksStay`.
* A checkpoint still in force was passed over by no restore in between
  (`CheckpointHolds`), so a restore to it leaves the acts up to it and itself
  (`CutsTo`): `RestoreBringsBack`.
* `ReadableUntilRevived` compares what is checked at each entry with what is not: an
  owner's choice is written untried but is always taken (`PickTaken`), and a reversal is
  untried only when nothing live is in force.

`FirstIs`, `KeptIs`, `WalkIs` and the like unfold the recursive functions of the model.

## Due worker

| Module | Role |
|---|---|
| `DueWorker` | the goroutine, its wake slot, the clock's admission, others' changes; all properties |
| `MCDueWorker` + two `.cfg` | instances for TLC |
| `DueWorkerProofs` | the theorems |

### State and actions

`deadline` and `stuck` are what the ledger says of each item of work: when it falls
due (a draft to be closed: when its last pick is used), and whether it cannot be
decided (a tie, missing facts, a refusal).  `worker` is
the goroutine's position and local state; `signal` the slot that coalesces
notifications; `synced` and `skew` the kernel's word on its clock and how far the clock
is off.  `unheard` are items that changed without a notification, by another process.

A pass is `Begin` (the clock must be trusted), `NextLeague`, then per processor `Scan`
and per item `Take`, `Open`, `Check` and `Record`, then `Date`; `WakeUp` ends the
sleep.  Those are the points between which the code holds no transaction or reads the
time anew.  Users and other processes take `Change` between any two of them, except
inside the write transaction; `Break` makes a league unreadable or readable again;
`LoseSync` may come at any time, `RegainSync` not within a transaction, because a time
daemon needs longer than a transaction may take.  `Restart` forgets everything the
goroutine knew.  What a processor computes is abstracted to recording that the work is
done; a processor either skips what cannot be decided (`Skips`) or fails on it.  Under
the writer all of them look at the time again, but for the closing of finished drafts
(`Closings`, `Recordable`): `CloseFinishedDrafts` finds the drafts in one reading and
closes them at the revision of another.

### What is checked

| Run | Instance | Shows |
|---|---|---|
| `due` | 2 leagues in order, a waiver in one and a draft to close in the other, sleeps of 2 and 1, time 0 to 2, 2 changes or restarts, a clock 2 ahead; 870,028 states | `NeverOversleeps`; `RecordedWhenDue`; `DueIsRecorded` |

Two leagues are the fewest in which one may hold up the other; two changes are enough
for work that appears behind the worker's back and moves again, and for a restart
after a silent change.  `FairSpec` assumes that the goroutine goes on and that time
passes; that is the scheduler's and the clock's doing.  Nothing is assumed of the clock's
synchronisation, of the leagues that fail, or of anybody's changes: `DueIsRecorded`
says that work cannot stay processable for ever.  It asks that nothing of the same
league is stuck, because that is what the code does: `processLeague` returns with the
first error, so a waiver window that is always refused stops the bids and the closing
of drafts of its own league in every pass (retried every `Retry`), though not those of
other leagues.

**Disagreement with the code's own words.** `clockDraftAuthorizer` says that "the app
itself may only close a draft that has used its last pick"
(`store/history/draft.go:109`).  If a commissioner restores a finished draft after the
worker found it finished and before it reads the ledger again (`draft.go:136-137`),
nothing at the writer asks whether the draft is still finished
(`draft_commands.go:182`, `draft_close.go:125`), and the app closes the draft that was
just reopened.  `ClosesOnlyFinished` states the comment and `MCDueWorkerDrafts.cfg`
reproduces its violation; it is not among the runs.  `RecordedWhenDue` asks of the
closing of a draft only that it is pending and decidable.

### What is proved

`RecordsAreDue` proves `RecordedWhenDue` for any leagues, items, processors, times and
clock errors, and `TypeCorrect` the type invariant, with the assumption
`DueAssumption`.  The property is not inductive: that the item is due when it is
recorded was established one step before, by a clock that may have lost its
synchronisation since.  `IInv` adds what `Checked` says: between check and append, if
the clock is still called synchronised, the item was checked with the true time (unless
it is the closing of a draft), and nobody has changed it.

`WakesInTime` proves `NeverOversleeps`, with the same assumption; it uses that there is
a processor, of which the code has five.  `WInv` follows a pass: unless a notification waits, decidable
work nobody changed silently is not before the end of the sleep if its league had its
turn, or its league failed (`Settled`); and in its league's turn it lies ahead of the
time read first, or is found and not yet recorded, or its processor is still to run
(`Facing`).  This is also why the deadlines of a league are asked for with the time its
turn began, and not with the time it ended: `UpcomingAtEnd` loses what falls due in
between.  The liveness property `DueIsRecorded` is model-checked only.

## Off-site backups

| Module | Role |
|---|---|
| `OffsiteBackups` | captures, uploads, the retention, the admission of changes; all properties |
| `MCOffsiteBackups` + two `.cfg` | instances for TLC |
| `OffsiteBackupsProofs` | the theorems |

### State and actions

`store` is the bucket, `status` the capture that covers changes, `job` the attempt
under way, `tx` the time the write transaction was admitted.  `now` is the monotonic
clock and `wall` what the wall clock is ahead of it: a set is named by the wall clock,
its age is told by both (`Writable`).  `last`, the time of the last committed change,
and `days`, the days with a verified set, are history for the properties.

`BeginWrite` and `Finish` are a change; `Look`, `Capture`, `Upload`, `Verify` and
`Prune` an attempt, which can fail at each of them (`FailAttempt`) and may leave a
damaged object in the bucket; a pruning that fails leaves the older sets.  `Restart`
forgets the coverage, `StepClock` steps the wall clock.  `Tick` passes no deadline:
transactions and attempts are cut off at theirs by contexts, and `Run` looks every
minute.

### What is checked

| Run | Instance | Shows |
|---|---|---|
| `offsite` | coverage 5, transaction 1, promise 6, interval 2, attempt 1; 2 newest sets and 2 days of 3 units are kept; 3 faults, one step of the wall clock by -1 or 2, time 0 to 8; 3,289,838 states | `LossBounded`; `WritesFlow`; `DaysKept` |

The code's figures (14 minutes, 30 seconds, 15, 5 and 2 minutes, 12 sets, 30 days) are
scaled so that the order of all sums that matter is kept: coverage outlives one failed
attempt and the next, and not three.  Eight units hold three days and four captures,
more than the retention keeps.

### What is proved

`LossIsBounded` proves `LossBounded` for all limits with `Limit + TxLimit <= Promise`,
any retention and any faults, provided that the wall clock is never set back
(`Steps \subseteq Nat`).  `IInv` adds to the property that
what was sent well and what covers changes is in the bucket (`Stored`), that nothing
there is newer than the attempt under way by either clock (`Ordered`), and that a
transaction was admitted within the limit of a stored set (`Margin`); the newest
set of all outlives every pruning (`NewestIsKept`).

`ChangesFlow` proves `WritesFlow` for all limits with `Attempt <= Interval` and
`Interval + 2 * Attempt < Limit` (2 and 5 minutes, 9 and 14), whatever the clock's
steps.  `Flow` bounds where the next attempt begins by the capture that covers
changes, the interval, and one attempt more after a failure (`Timely`).
`DaysAreKept` proves `DaysKept` where the wall clock is never set back: the last set of a day
stays while the day is in the window (`LastOfDayIsKept`).  With a clock that is set
back, a day could return into the window after it was let go.

The proviso is needed.  When the wall clock is set back, sets with later names stay the
newest; from the twelfth on, every new set is removed by the retention in the attempt
that verified it (`retention.go:37`), while the manager counts it as coverage
(`manager.go:88`).  `BACKUPS.md:96` says that "wall-clock rollback cannot extend
coverage".  `CoverageIsStored` and `MCOffsiteBackupsRollback.cfg` reproduce this; it is
not among the runs.  The run `offsite` steps the clock back by less than it takes.  One
observation without a document: an upload that fails its verification stays in the
bucket under a valid name, and may be the only set the retention keeps of its day.

## Accounts

| Module | Role |
|---|---|
| `Accounts` | credentials, requests between their reads and writes, resets, restores; all properties |
| `AccountsProofs` | the invariant and the theorems |
| `MCAccounts` + two `.cfg` | instances for TLC |

### State and actions

`db` are the account tables: passwords, generations, the epoch of sign-ins,
invitations, sessions, tokens, authenticators, printed codes.  `copy` is a backup of
them, `requests` the requests that have read and not yet written, `change` the league
change that holds the writer.  Every secret is random: it is a kind and the number of
its drawing, and `made` says for whom.  `accepted` (what the last step let through),
`spent`, `ended` and `stepped` are history for the properties.

A store method is one transaction and one action.  What a service does before it, such
as verifying a password or matching a code of the authenticator, is a step of its own
(`Authenticate`, `ReadFactor`, `AskToken`), because an account may be recovered or
reset in between: `SignIn`, `SetUp`, `Confirm`, `StepUp`, `PrintCodes` and `IssueToken`
come after it, any number of times for any number of equal requests, and `GiveUp` ends
it.  A request carries what the caller knew when it was made (`knows`): a code of an
authenticator, or a proof, that is drawn later cannot have come with it.  What is
written at the end of a request is let through by its password too, so the password
counts as accepted in that step, together with the code, the proof or the session.  `Invite`, `Redeem`, `Touch`, `SignOut`, `RevokeToken`, `Recover` and
`ConsoleRecover` need no more than their transaction.  `BeginChange`, `RecordChange`
and `AbortChange` are a league change, admitted when it takes the writer and again
before its entry is written.  `ResetSignIns` is the operator's response to an incident;
`BackUp` and `Restore` are the off-site copy and its installation on another host,
which resets sign-ins, printed codes and open invitations.

A unit of time is the life of an authenticator code, accepted one unit early or late.
`AccountsAssumption` says that a restore takes at least three of them; a code used just
before the host was lost would otherwise be accepted again, as the copy does not know
of its use.  The passwords of the copy are valid again after a restore.

### What is checked

| Run | Instance | Shows |
|---|---|---|
| `accounts` | 2 people, one of them privileged; 1 kind of request in flight, in any number; 7 secrets, 5 of them there at the start; time 1 to 4; 927,900 states | `OnlyOnce`; `EndedAreRefused`; `ProofsAreRecent` |

Two further secrets are enough for each pair: a password and a session under it, two
proofs, two factors, a session and a token.  Two equal requests are enough for a code
used twice, and one kind in flight for a recovery, a reset or another request's write
between its read and its write.

**Disagreement with the code's own words.** `AuthGeneration` "fences every
credential/delegation issued before a reset", and admission "must compare the issuance
generation again inside the write transaction" (`store/accounts/recovery.go:120-121`).
`BeginTOTP` writes without asking for the password again (`totp.go:29`; `CreateSession`
does, `sessions.go:64`): a setup of an authenticator that was asked for with the old
password installs its seed after the account was recovered.  The seed is not confirmed
by that: a confirmation verifies the password then valid.  `EndedAreFenced` states the comment
and `MCAccountsSetup.cfg` reproduces its violation; it is not among the runs.
`EndedAreRefused` says that this is the only way: no sign-in, code, proof or reprint
gets through with a password that was recovered from.

### What is proved

For any users, lives of codes and invitations, requests in flight and bounds,
`AccountsProofs` proves the invariant (`CredentialsHold`) and each property of the run:
`CodesGoodOnce` (`OnlyOnce`), `EndedRefused` (`EndedAreRefused`) and `ProofsRecent`
(`ProofsAreRecent`), from `AccountsAssumption`.

They are about steps, and each step that accepts something is shown to accept what is
good in the state before (`AcceptedIsGood`).  `IInv` says what good rests on: everybody's
credentials are their own, in the tables and in every backup (`Owned`); what was used is
marked, behind the counter, gone, or out of its window (`Unspent`); what was ended is
gone, marked, or of an earlier epoch or generation (`Dead`); and the proof an account
holds was given for the factor it has (`Proven`).  `Awareness` adds that a request which
knows the present seed or proof of its account was made with its present password, for a
recovery removes both: that is why a confirmation, a step-up and a reprint need not ask
for the password again.  A backup is only `Owned`: what it
does not know of is undone by what `Restore` resets, and by the time a restore takes.

## Limits

TLC checks bounded instances.  The theorems hold for every instance but only of the
models: SQLite's transactions, the file system's atomic rename, the digests, random
secrets and the operating system's locks are assumed.  Liveness, `ENABLED` and fairness
are outside the proofs, and induction over data has to be brought into the form of a set
of naturals.  Model-checked only are the liveness properties `PauseEnds`, `RestoreEnds`
and `DueIsRecorded`.  Every other property of a passing run is a theorem.

## Not modelled

* **Market, commissioner commands, MFL migration, rules.**  Some thirty thousand lines
  validate one command each against rosters, contracts and caps.  They run inside the
  ledger's transaction, which `CommissionerLedger` models, and share no state but its
  rows; what remains is sequential validation of data, which tests reach.
* **Competition, scoring, valuation, ingestion.**  Numeric folds over statistics and
  the import of statistics; without state of their own between calls.
* **HTTP server, desktop client, status console, frontend, application services.**
  Routing, forwarding, wording.  The admission of a change over HTTP is in `Accounts`;
  the stream of invalidations only asks clients to read again.
* **Governance checkpoint and identities.**  The checkpoint stores the fold that
  `LeagueGovernance` models.
* **Backup retention of local sets.**  A pure function of the names of the sets; the
  retention that decides what can be recovered from a lost host is in `OffsiteBackups`.
* **Owner updates.**  Downloads under one lock; the metadata protocol belongs to a
  library.
* **Transactions coordinator and what-if leagues, season recovery sets.**  They write
  separate databases that are never authoritative.
* **Database layer.**  SQLite's guarantees are what all models assume.

Within the modelled parts, the sections above say what is left out, and the notes of
`PROJECT.json` repeat it for each component.
