--------------------------- MODULE LeagueTransfer ---------------------------
(***************************************************************************)
(* Moving one league between databases.                                    *)
(*                                                                         *)
(* Every database keeps its own copy of the league's history and its own   *)
(* append-only table of authority transitions; nothing coordinates two     *)
(* databases but the operator's `league-move` command, which runs one      *)
(* transaction on the source and one on the destination.  The history is a *)
(* set of event rows, an export is a generation and a set of rows, and a   *)
(* UUID is numbered in the order it was drawn.                             *)
(***************************************************************************)
EXTENDS Integers, FiniteSets

CONSTANTS
  Database,     \* history databases (their transfer_identity)
  Origin,       \* the database the league was created in
  Event,        \* rows of league_event
  Founding,     \* the row that created the league
  Content,      \* export files, named by their content digest
  Seed,         \* generations an operator picks before the first move
  None,         \* "no file", "no database"
  MaxMoves,     \* bound: seals that may commit
  MaxInFlight   \* bound: export and seal commands in flight at once

ASSUME DatabaseAssumption == Origin \in Database /\ None \notin Database
ASSUME EventAssumption    == Founding \in Event
ASSUME ContentAssumption  == None \notin Content
ASSUME SeedAssumption     == Seed \subseteq {g \in Int : g <= 0} /\ Seed # {}
ASSUME BoundAssumption    == MaxMoves \in Nat /\ MaxInFlight \in Nat

VARIABLES
  events,     \* events[d]: the league's rows in database d
  receipt,    \* receipt[d]: file staged there by an import, or None
  fence,      \* fence[d]: the latest row of d's transfer_transition
  decided,    \* decided[d]: <<move, state>> of every row of that table
  exports,    \* exports[c]: what file c carries; no rows means not written
  issued,     \* number of move UUIDs drawn so far
  preflight,  \* seal commands between the destination check and the seal
  deciding,   \* deciding[d]: progress of the command holding d's writer
  saving      \* export commands between the generation and the rows

vars ==
  <<events, receipt, fence, decided, exports, issued, preflight, deciding, saving>>

State == {"none", "active", "sealed", "moved", "cancelled", "receiving"}
Generation == Seed \cup Nat
Fence == [move : Nat, epoch : Generation, content : Content \cup {None},
          peer : Database \cup {None}, state : State]
Export == [epoch : Generation, rows : SUBSET Event]
Seal == [source : Database, target : Database, content : Content]
Saving == [source : Database, epoch : Generation]
Progress == {"idle", "activate", "abort", "activated", "aborted"}

NoFence == [move |-> 0, epoch |-> CHOOSE g \in Seed : TRUE,
            content |-> None, peer |-> None, state |-> "none"]

TypeOK ==
  /\ events \in [Database -> SUBSET Event]
  /\ receipt \in [Database -> Content \cup {None}]
  /\ fence \in [Database -> Fence]
  /\ decided \in [Database -> SUBSET (Nat \X State)]
  /\ exports \in [Content -> Export]
  /\ issued \in Nat
  /\ preflight \subseteq Seal
  /\ deciding \in [Database -> Progress]
  /\ saving \subseteq Saving

-----------------------------------------------------------------------------
(* What the transactions read. *)

Written(c) == exports[c].rows # {}

(* Fault: the trigger forgets that an imported copy is inactive. *)
EventGuardIgnoringImport(d) == fence[d].state \in {"none", "active", "receiving"}

(* The BEFORE INSERT trigger on league_event. *)
EventGuard(d) ==
  /\ fence[d].state \in {"none", "active", "receiving"}
  /\ receipt[d] # None => fence[d].state \in {"active", "receiving"}

(* TransferStatus: the bit the desktop and the server show. *)
Writable(d) ==
  \/ fence[d].state = "active"
  \/ fence[d].state = "none" /\ receipt[d] = None /\ events[d] # {}

(* The fence moveFence builds for file c and destination t; no move yet. *)
Proposal(t, c) == [move |-> 0, epoch |-> exports[c].epoch, content |-> c,
                   peer |-> t, state |-> "none"]

InactiveCopyMatches(t, f) ==
  fence[t].state \in {"none", "cancelled"} =>
    receipt[t] # None /\ receipt[t] = f.content /\ exports[receipt[t]].epoch = f.epoch

(* Faults: the cancelled transitions are not looked up; an abort is let    *)
(* through when the move is already active; a cancelled move refuses       *)
(* everything, the retried abort included.                                 *)
DestinationForgetsCancelled(t, f, activate) ==
  /\ fence[t].state = "active" => fence[t].move = f.move /\ activate
  /\ fence[t].state = "moved" => fence[t].move = f.epoch
  /\ fence[t].state \notin {"sealed", "receiving"}
  /\ InactiveCopyMatches(t, f)

DestinationLetsAbortThrough(t, f, activate) ==
  /\ activate => <<f.move, "cancelled">> \notin decided[t]
  /\ fence[t].state = "active" => fence[t].move = f.move
  /\ fence[t].state = "moved" => fence[t].move = f.epoch
  /\ fence[t].state \notin {"sealed", "receiving"}
  /\ InactiveCopyMatches(t, f)

DestinationRefusesCancelled(t, f, activate) ==
  /\ <<f.move, "cancelled">> \notin decided[t]
  /\ fence[t].state = "active" => fence[t].move = f.move /\ activate
  /\ fence[t].state = "moved" => fence[t].move = f.epoch
  /\ fence[t].state \notin {"sealed", "receiving"}
  /\ InactiveCopyMatches(t, f)

(* Whether destination t may take decision `activate` for fence f. *)
DestinationAllows(t, f, activate) ==
  /\ activate => <<f.move, "cancelled">> \notin decided[t]
  /\ fence[t].state = "active" => fence[t].move = f.move /\ activate
  /\ fence[t].state = "moved" => fence[t].move = f.epoch
  /\ fence[t].state \notin {"sealed", "receiving"}
  /\ InactiveCopyMatches(t, f)

(* The destination holds an unchanged part of the sealed history: all of   *)
(* it, unless it is a retired authority that only lags behind.             *)
PrefixOfSealed(t, f) ==
  /\ events[t] \subseteq exports[f.content].rows
  /\ fence[t].state # "moved" => events[t] = exports[f.content].rows

(* Fault: an inactive import may be the source of a move. *)
SourceMaySealImport(s, c) ==
  /\ fence[s].state = "active" => fence[s].epoch = exports[c].epoch
  /\ fence[s].state \in {"none", "active"}

(* The source owns the generation the file names, and is no inactive copy. *)
SourceMaySeal(s, c) ==
  /\ fence[s].state = "active" => fence[s].epoch = exports[c].epoch
  /\ fence[s].state \in {"none", "active"}
  /\ fence[s].state = "none" => receipt[s] = None

(* Fault: a file that lags behind the source is taken as current. *)
ExportIsPrefix(s, c) == exports[c].rows \subseteq events[s]

(* The exported rows are exactly the rows held. *)
ExportIsCurrent(s, c) == events[s] = exports[c].rows

AlreadyActive(t, f) == fence[t].state = "active" /\ fence[t].move = f.move

-----------------------------------------------------------------------------
Init ==
  /\ events = [d \in Database |-> IF d = Origin THEN {Founding} ELSE {}]
  /\ receipt = [d \in Database |-> None]
  /\ fence = [d \in Database |-> NoFence]
  /\ decided = [d \in Database |-> {}]
  /\ exports = [c \in Content |-> [epoch |-> NoFence.epoch, rows |-> {}]]
  /\ issued = 0
  /\ preflight = {}
  /\ deciding = [d \in Database |-> "idle"]
  /\ saving = {}

(* A league command commits on database d.  Its request got past the       *)
(* ordinary checks (the league exists here); the trigger has the last word.*)
Append(d, e) ==
  /\ deciding[d] = "idle"
  /\ events[d] # {}
  /\ \A x \in Database : e \notin events[x]
  /\ EventGuard(d)
  /\ events' = [events EXCEPT ![d] = @ \cup {e}]
  /\ UNCHANGED <<receipt, fence, decided, exports, issued, preflight, deciding, saving>>

InFlight == Cardinality(preflight) + Cardinality(saving)

(* `league-export save`, first half: the generation is the one the latest  *)
(* transition names, or the operator's if there is none.  It is read in a  *)
(* transaction of its own.                                                 *)
ExportGeneration(d, g) ==
  /\ InFlight < MaxInFlight
  /\ fence[d].state # "none" => g = fence[d].epoch
  /\ saving' = saving \cup {[source |-> d, epoch |-> g]}
  /\ UNCHANGED <<events, receipt, fence, decided, exports, issued, preflight, deciding>>

(* Second half: the rows are read in a later snapshot, of any copy, paused *)
(* and read-only ones included; an empty history is refused.               *)
Capture(x, c) ==
  /\ ~ Written(c)
  /\ events[x.source] # {}
  /\ exports' = [exports EXCEPT ![c] = [epoch |-> x.epoch, rows |-> events[x.source]]]
  /\ saving' = saving \ {x}
  /\ UNCHANGED <<events, receipt, fence, decided, issued, preflight, deciding>>

(* The export stops before the file is complete, and the file is removed. *)
SaveFails(x) ==
  /\ saving' = saving \ {x}
  /\ UNCHANGED <<events, receipt, fence, decided, exports, issued, preflight, deciding>>

(* `league-import`: rows first, the receipt last, in one transaction.      *)
(* Importing the same file again returns the receipt and changes nothing.  *)
StageTransfer(d, c) ==
  /\ deciding[d] = "idle"
  /\ Written(c)
  /\ receipt[d] = None
  /\ events[d] = {}
  /\ EventGuard(d)
  /\ events' = [events EXCEPT ![d] = exports[c].rows]
  /\ receipt' = [receipt EXCEPT ![d] = c]
  /\ UNCHANGED <<fence, decided, exports, issued, preflight, deciding, saving>>

(* Move "seal", first half: the destination is read in a transaction of    *)
(* its own, so it may have changed by the time the source is sealed.       *)
CheckTransferDestination(s, t, c) ==
  /\ s # t
  /\ Written(c)
  /\ InFlight < MaxInFlight
  /\ DestinationAllows(t, Proposal(t, c), TRUE)
  /\ preflight' = preflight \cup {[source |-> s, target |-> t, content |-> c]}
  /\ UNCHANGED <<events, receipt, fence, decided, exports, issued, deciding, saving>>

(* Move "seal", second half: under the source writer the exported rows     *)
(* must be exactly the rows held, and the source must own the generation.  *)
(* The audit anchor can only add a refusal, which is SealEnds.             *)
SealTransfer(p) ==
  LET s == p.source
      f == [Proposal(p.target, p.content) EXCEPT !.move = issued + 1, !.state = "sealed"]
  IN /\ deciding[s] = "idle"
     /\ issued < MaxMoves
     /\ SourceMaySeal(s, p.content)
     /\ ExportIsCurrent(s, p.content)
     /\ issued' = issued + 1
     /\ fence' = [fence EXCEPT ![s] = f]
     /\ decided' = [decided EXCEPT ![s] = @ \cup {<<f.move, "sealed">>}]
     /\ preflight' = preflight \ {p}
     /\ UNCHANGED <<events, receipt, exports, deciding, saving>>

(* The seal returns without a transition: a repeat of the seal held, a     *)
(* refusal, or the process is gone.                                        *)
SealEnds(p) ==
  /\ preflight' = preflight \ {p}
  /\ UNCHANGED <<events, receipt, fence, decided, exports, issued, deciding, saving>>

(* Move "activate" or "abort": the source writer is taken and the fence    *)
(* found sealed.  Until the command ends no other writer enters source s.  *)
DecideTransfer(s, decision) ==
  /\ deciding[s] = "idle"
  /\ fence[s].state = "sealed"
  /\ deciding' = [deciding EXCEPT ![s] = decision]
  /\ UNCHANGED <<events, receipt, fence, decided, exports, issued, preflight, saving>>

(* The destination's own transaction commits while the source writer is    *)
(* held: the missing rows, "receiving", then "active" under a generation   *)
(* named by the move.                                                      *)
ReceiveTransfer(s) ==
  LET f == fence[s]
      t == f.peer
  IN /\ deciding[s] = "activate"
     /\ deciding[t] = "idle"
     /\ DestinationAllows(t, f, TRUE)
     /\ ~ AlreadyActive(t, f)
     /\ PrefixOfSealed(t, f)
     /\ events' = [events EXCEPT ![t] = exports[f.content].rows]
     /\ fence' = [fence EXCEPT ![t] = [f EXCEPT !.state = "active", !.epoch = f.move]]
     /\ decided' = [decided EXCEPT ![t] =
                      @ \cup {<<f.move, "receiving">>, <<f.move, "active">>}]
     /\ deciding' = [deciding EXCEPT ![s] = "activated"]
     /\ UNCHANGED <<receipt, exports, issued, preflight, saving>>

(* A retry finds this very move already active at the destination, which   *)
(* changes nothing there.                                                  *)
FindActivated(s) ==
  LET f == fence[s]
  IN /\ deciding[s] \in {"activate", "abort"}
     /\ deciding[f.peer] = "idle"
     /\ DestinationAllows(f.peer, f, deciding[s] = "activate")
     /\ AlreadyActive(f.peer, f)
     /\ deciding' = [deciding EXCEPT ![s] =
                       IF @ = "activate" THEN "activated" ELSE "aborted"]
     /\ UNCHANGED <<events, receipt, fence, decided, exports, issued, preflight, saving>>

(* The destination records that the move was cancelled; a retired          *)
(* authority keeps its own transition on top, for a later reverse.         *)
CancelAtDestination(s) ==
  LET f == fence[s]
      t == f.peer
  IN /\ deciding[s] = "abort"
     /\ deciding[t] = "idle"
     /\ DestinationAllows(t, f, FALSE)
     /\ ~ AlreadyActive(t, f)
     /\ fence' = IF fence[t].state = "moved" THEN fence
                 ELSE [fence EXCEPT ![t] = [f EXCEPT !.state = "cancelled"]]
     /\ decided' = [decided EXCEPT ![t] = @ \cup {<<f.move, "cancelled">>}]
     /\ deciding' = [deciding EXCEPT ![s] = "aborted"]
     /\ UNCHANGED <<events, receipt, exports, issued, preflight, saving>>

(* The state the source records for what its destination did. *)
SourceOutcome(progress) == IF progress = "activated" THEN "moved" ELSE "active"

(* Fault: the source commits without waiting for its destination. *)
CommitSourceUnasked(s) ==
  LET outcome == IF deciding[s] \in {"activate", "activated"} THEN "moved" ELSE "active"
  IN /\ deciding[s] # "idle"
     /\ fence' = [fence EXCEPT ![s].state = outcome]
     /\ decided' = [decided EXCEPT ![s] = @ \cup {<<fence[s].move, outcome>>}]
     /\ deciding' = [deciding EXCEPT ![s] = "idle"]
     /\ UNCHANGED <<events, receipt, exports, issued, preflight, saving>>

(* The source transaction commits the same outcome and lets its writer go. *)
CommitSource(s) ==
  LET outcome == SourceOutcome(deciding[s])
  IN /\ deciding[s] \in {"activated", "aborted"}
     /\ fence' = [fence EXCEPT ![s].state = outcome]
     /\ decided' = [decided EXCEPT ![s] = @ \cup {<<fence[s].move, outcome>>}]
     /\ deciding' = [deciding EXCEPT ![s] = "idle"]
     /\ UNCHANGED <<events, receipt, exports, issued, preflight, saving>>

(* The decision stops anywhere before the source commits: the destination  *)
(* refuses or is busy too long, its reply is lost, the process dies.  The  *)
(* source transaction rolls back; what the destination committed stays.    *)
DecideFails(s) ==
  /\ deciding[s] # "idle"
  /\ deciding' = [deciding EXCEPT ![s] = "idle"]
  /\ UNCHANGED <<events, receipt, fence, decided, exports, issued, preflight, saving>>

Next ==
  \/ \E d \in Database, e \in Event : Append(d, e)
  \/ \E d \in Database, g \in Seed \cup 1..issued : ExportGeneration(d, g)
  \/ \E x \in saving, c \in Content : Capture(x, c)
  \/ \E x \in saving : SaveFails(x)
  \/ \E d \in Database, c \in Content : StageTransfer(d, c)
  \/ \E s, t \in Database, c \in Content : CheckTransferDestination(s, t, c)
  \/ \E p \in preflight : SealTransfer(p) \/ SealEnds(p)
  \/ \E s \in Database, decision \in {"activate", "abort"} : DecideTransfer(s, decision)
  \/ \E s \in Database :
       \/ ReceiveTransfer(s)
       \/ FindActivated(s)
       \/ CancelAtDestination(s)
       \/ CommitSource(s)
       \/ DecideFails(s)

Spec == Init /\ [][Next]_vars

(* The operator keeps repeating both actions with the original file until  *)
(* one attempt is not interrupted, which is the recovery the code asks     *)
(* for: each step of an attempt then succeeds if it is possible again and  *)
(* again, and a command that cannot go on ends.                            *)
OperatorRetries ==
  \A s \in Database :
    /\ \A decision \in {"activate", "abort"} : SF_vars(DecideTransfer(s, decision))
    /\ SF_vars(ReceiveTransfer(s))
    /\ SF_vars(FindActivated(s))
    /\ SF_vars(CancelAtDestination(s))
    /\ SF_vars(CommitSource(s))
    /\ WF_vars(DecideFails(s))

FairSpec == Spec /\ OperatorRetries

-----------------------------------------------------------------------------
(* Properties. *)

Ledger == UNION {events[d] : d \in Database}

(* Two copies of the league never accept changes at the same time, across  *)
(* seals, activations, aborts, crashes between the two commits, reverse    *)
(* moves and stale files (README of leaguetransfer: "zero writable copies, *)
(* never two").                                                            *)
AtMostOneWritable ==
  \A d, x \in Database : Writable(d) /\ Writable(x) => d = x

(* The copy that accepts changes holds every change ever committed         *)
(* anywhere: no move and no reverse move loses an event.                   *)
WritableHoldsLedger ==
  \A d \in Database : Writable(d) => events[d] = Ledger

(* A move ends one way: if one database went on as the authority because   *)
(* of it, no other did, and the database that activated it never recorded  *)
(* it as cancelled.                                                        *)
OneOutcome ==
  \A d, x \in Database : \A m \in 1..issued :
    <<m, "active">> \in decided[d] =>
      /\ <<m, "active">> \in decided[x] => d = x
      /\ <<m, "cancelled">> \notin decided[d]

(* A source leaves its pause only with the outcome its destination has     *)
(* already made durable.                                                   *)
SourceFollowsDestination ==
  [][\A s \in Database :
       LET m == fence[s].move
           t == fence[s].peer
       IN fence[s].state = "sealed" /\ fence'[s] # fence[s] =>
            \/ fence'[s].state = "moved"  /\ <<m, "active">> \in decided[t]
            \/ fence'[s].state = "active" /\ <<m, "cancelled">> \in decided[t]]_vars

(* A copy nobody may write keeps its rows until it becomes the authority,  *)
(* and the rows it gains then are the ones the paused source held.         *)
ReadOnlyCopiesAreFrozen ==
  [][\A d \in Database :
       events[d] # {} /\ ~ Writable(d) /\ events'[d] # events[d] =>
         /\ Writable(d)'
         /\ \E s \in Database : fence[s].state = "sealed" /\ events'[d] = events[s]]_vars

(* A source is paused for a move its destination has not taken over. *)
Pending(s) ==
  /\ fence[s].state = "sealed"
  /\ <<fence[s].move, "active">> \notin decided[fence[s].peer]

(* An operator who keeps retrying gets the league writable again           *)
(* somewhere: a pause never lasts, whatever was interrupted.               *)
PauseEnds == \A s \in Database : Pending(s) ~> \E d \in Database : Writable(d)

(* The moving copies behave as one league with one home: the home is the  *)
(* copy that may be written, the ledger every committed row.               *)
Home ==
  IF \E d \in Database : Writable(d) THEN CHOOSE d \in Database : Writable(d) ELSE None

Served == IF Home = None THEN {} ELSE events[Home]

Authority == INSTANCE LeagueAuthority
  WITH Nowhere <- None, home <- Home, ledger <- Ledger, served <- Served

(* Every step of the databases is a step of the promised league: writes    *)
(* land only at the home, the home changes only through a pause, and the   *)
(* database that resumes serves the whole history.                         *)
ImplementsAuthority == Authority!Spec

(* "If activation committed but its reply was lost, ... activation retry   *)
(* finishes source retirement" (leaguetransfer/README.md:200): while the   *)
(* destination that activated the move is the league's authority and the   *)
(* source is still sealed for it, the destination accepts the retry.       *)
RetryFinishesRetirement ==
  \A s \in Database :
    LET t == fence[s].peer
    IN /\ fence[s].state = "sealed" /\ ~ Pending(s) /\ deciding[s] = "idle"
       /\ Writable(t) /\ deciding[t] = "idle"
       => DestinationAllows(t, fence[s], TRUE)
=============================================================================
