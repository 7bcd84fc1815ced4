------------------------------ MODULE RookieDraft ------------------------------
(***************************************************************************)
(* A rookie draft in the ledger (commissioner/draft_*.go): owners pick,    *)
(* the commissioner skips, assigns, adds, changes, runs the clock, restores*)
(* and closes, draft selections are corrected and corrections reversed.    *)
(* Nothing but entries is stored; a reading replays the ones in force up   *)
(* to the instant it is made.  Entry 0 is the recorded draft start.        *)
(***************************************************************************)
EXTENDS DraftEngine

CONSTANTS
  Orders,      \* first-round orders the commissioner may record; the first is recorded at the start
  FirstOrder,
  Durations,   \* times a commissioner may set the clock to
  MaxTime,     \* bound: the clock stops here
  MaxEntries,  \* bound: entries recorded after the start
  MaxPicks     \* bound: scheduled and extra picks together

ASSUME DraftAssumption ==
  /\ FirstOrder \in Orders /\ MaxTime \in Nat /\ MaxEntries \in Nat /\ MaxPicks \in Nat
  /\ Orders \subseteq Seq(Franchises)
  /\ \A o \in Orders : Len(o) = Cardinality(Franchises) /\ {o[i] : i \in 1..Len(o)} = Franchises
  /\ Durations \subseteq Nat \ {0}

VARIABLES
  ledger,  \* the draft's entries of the league ledger, in order
  now,     \* the store's clock
  board    \* the draft as everyone reads it now: never stored, replayed at every change
vars == <<ledger, now, board>>

LiveKinds == {"pick", "assign", "skip", "insert", "change", "pause", "resume", "set",
              "restore", "archive"}

Nobody == "nobody"

(* One shape for every entry; what a kind does not use keeps its default.  *)
Blank == [kind |-> "order", at |-> 0, ref |-> <<>>, owner |-> Nobody, player |-> NoPlayer,
          replaces |-> NoPlayer, duration |-> 0, target |-> 0, order |-> FirstOrder]

-----------------------------------------------------------------------------
(* commissioner.Replay: compensations are walked backwards, then a restore *)
(* sets aside the live entries between its checkpoint and itself.          *)
Compensate(es, i, active) ==
  IF ~active[i] \/ es[i].kind \notin {"correct", "revert"} THEN active
  ELSE [j \in 1..Len(es) |->
          IF j # es[i].target THEN active[j] ELSE es[i].kind = "revert" /\ ~active[j]]

Walk(es) ==
  LET walked[i \in 1..(Len(es) + 1)] ==
        IF i > Len(es) THEN [j \in 1..Len(es) |-> TRUE] ELSE Compensate(es, i, walked[i + 1])
  IN  walked

Compensated(es) == Walk(es)[1]

Restores(es, j, active) ==
  IF es[j].kind # "restore" \/ ~active[j] THEN active
  ELSE [i \in 1..Len(es) |->
          active[i] /\ ~(es[j].target < i /\ i < j /\ es[i].kind \in LiveKinds)]

Asides(es, active) ==
  LET aside[j \in 0..Len(es)] == IF j = 0 THEN active ELSE Restores(es, j, aside[j - 1])
  IN  aside

SetAside(es, active) == Asides(es, active)[Len(es)]

Active(es) == SetAside(es, Compensated(es))

(* Those of a sequence's elements at the positions in I, in order.         *)
Kept(s, I) ==
  LET kept[i \in 0..Len(s)] ==
        IF i = 0 THEN <<>> ELSE IF i \in I THEN Append(kept[i - 1], s[i]) ELSE kept[i - 1]
  IN  kept

Through(es, at) == Kept(es, {i \in 1..Len(es) : es[i].at <= at})[Len(es)]

EntryAt(es, i) == IF i = 0 THEN 0 ELSE es[i].at

ActOf(es, e) ==
  [kind |-> e.kind, at |-> e.at, ref |-> e.ref, owner |-> e.owner, player |-> e.player,
   replaces |-> e.replaces, duration |-> e.duration, since |-> EntryAt(es, e.target)]

DraftActs(es) ==
  LET active == Active(es)
      live   == {i \in 1..Len(es) : es[i].kind \in LiveKinds /\ active[i]}
  IN  Kept([i \in 1..Len(es) |-> ActOf(es, es[i])], live)[Len(es)]

OrderOf(es) ==
  LET active == Active(es)
      set    == {i \in 1..Len(es) : es[i].kind = "order" /\ active[i]}
  IN  IF set = {} THEN FirstOrder ELSE es[Max(set)].order

(* readDraft *)
Reading(es, at) ==
  LET known == Through(es, at) IN ReplayActs(OrderOf(known), at, DraftActs(known))

LiveInForce(es) == \E i \in 1..Len(es) : es[i].kind \in LiveKinds /\ Active(es)[i]
Closed(es) == \E i \in 1..Len(es) : es[i].kind = "archive" /\ Active(es)[i]

-----------------------------------------------------------------------------
Init == ledger = <<>> /\ now = 0 /\ board = Reading(<<>>, 0)

Tick ==
  /\ now < MaxTime
  /\ now' = now + 1
  /\ board' = Reading(ledger, now + 1)
  /\ UNCHANGED ledger

Proposed(e) == Append(ledger, [e EXCEPT !.at = now])

Record(e) ==
  /\ Len(ledger) < MaxEntries
  /\ ledger' = Proposed(e)
  /\ board' = Reading(Proposed(e), now)
  /\ UNCHANGED now

(* What the checks at the writer ask: that the draft can be replayed as it *)
(* would stand.                                                            *)
RecordReadable(e) == Record(e) /\ ~board'.bad

(* RecordDraftPick and PlanDraftPick: the owner on the clock, while it     *)
(* runs.  The entry is written without trying it on the draft.             *)
OwnerPick(f, p) ==
  /\ ~board.bad /\ now >= Start /\ ~Closed(ledger)
  /\ OnClock(board) /\ ~board.paused
  /\ board.picks[board.cursor].owner = f
  /\ Undrafted(board, p)
  /\ Record([Blank EXCEPT !.kind = "pick", !.ref = Ref(board.picks[board.cursor]), !.owner = f,
                          !.player = p])

(* checkLiveDraft, shared by every change the commissioner makes to the    *)
(* running draft: it is tried against the draft as it would stand.         *)
LiveChange(e) ==
  /\ ~board.bad /\ now >= Start
  /\ e.kind # "restore" => ~Closed(ledger)
  /\ RecordReadable(e)

SkipPick(ref) == LiveChange([Blank EXCEPT !.kind = "skip", !.ref = ref])

(* prepareRookie, for the three changes that give a pick a rookie: nobody  *)
(* has drafted him.                                                        *)
Assign(ref, p) ==
  /\ Undrafted(board, p)
  /\ LiveChange([Blank EXCEPT !.kind = "assign", !.ref = ref, !.player = p])

InsertAfter(ref, f, p) ==
  /\ Undrafted(board, p) /\ Len(board.picks) < MaxPicks
  /\ LiveChange([Blank EXCEPT !.kind = "insert", !.ref = ref, !.owner = f, !.player = p])

ChangePick(ref, old, new) ==
  /\ Undrafted(board, new) /\ ~Undrafted(board, old)
  /\ LiveChange([Blank EXCEPT !.kind = "change", !.ref = ref, !.replaces = old, !.player = new])

Timer ==
  \/ LiveChange([Blank EXCEPT !.kind = "pause"])
  \/ LiveChange([Blank EXCEPT !.kind = "resume"])
  \/ \E d \in Durations : LiveChange([Blank EXCEPT !.kind = "set", !.duration = d])

(* By the commissioner at any time, or by the draft clock once every pick  *)
(* is used: the same record and the same checks.                           *)
Archive == LiveChange([Blank EXCEPT !.kind = "archive"])

(* checkpointOf, and the refusal of a restore after which the draft would  *)
(* close itself again.                                                     *)
Restore(c) ==
  LET e == [Blank EXCEPT !.kind = "restore", !.target = c]
  IN  /\ c # 0 => ledger[c].kind \in LiveKinds \union {"order"} /\ Active(ledger)[c]
      /\ LiveChange(e)
      /\ OnClock(board') \/ Closed(ledger')

SetOrder(o) ==
  LET e == [Blank EXCEPT !.kind = "order", !.order = o]
  IN  /\ ~Closed(ledger)
      /\ RecordReadable(e)

\* mutant: the correction of a pick is not tried on the draft
CorrectUntried(i) ==
  /\ ledger[i].kind = "pick" /\ Active(ledger)[i]
  /\ Record([Blank EXCEPT !.kind = "correct", !.target = i])

(* CorrectTransaction of a draft pick: checked on the drafts with a live   *)
(* entry in force, and this draft has the pick itself.                     *)
Correct(i) ==
  LET e == [Blank EXCEPT !.kind = "correct", !.target = i]
  IN  /\ ledger[i].kind = "pick" /\ Active(ledger)[i]
      /\ RecordReadable(e)

(* checkDraftReversal: never a live entry; a draft with nothing live in    *)
(* force is looked at only when the entry is a draft command of its own.   *)
Revert(i) ==
  LET e == [Blank EXCEPT !.kind = "revert", !.target = i]
  IN  /\ ledger[i].kind \notin LiveKinds
      /\ Record(e)
      /\ (LiveInForce(ledger) \/ ledger[i].kind = "order") => ~board'.bad

Refs == {Ref(board.picks[i]) : i \in 1..Len(board.picks)}

Next ==
  \/ Tick
  \/ \E f \in Franchises, p \in Players : OwnerPick(f, p)
  \/ \E ref \in Refs : SkipPick(ref)
  \/ \E ref \in Refs, p \in Players : Assign(ref, p)
  \/ \E ref \in Refs, f \in Franchises, p \in Players : InsertAfter(ref, f, p)
  \/ \E ref \in Refs, old, new \in Players : ChangePick(ref, old, new)
  \/ Timer
  \/ Archive
  \/ \E c \in 0..Len(ledger) : Restore(c)
  \/ \E o \in Orders : SetOrder(o)
  \/ \E i \in 1..Len(ledger) : Correct(i)
  \/ \E i \in 1..Len(ledger) : Revert(i)

Spec == Init /\ [][Next]_vars

-----------------------------------------------------------------------------
(* Every entry and every reading has the shape its readers assume, and the *)
(* board is the replay of the entries at the present instant.              *)
TypeOK ==
  /\ now \in 0..MaxTime
  /\ \A i \in 1..Len(ledger) :
       /\ ledger[i].kind \in LiveKinds \union {"order", "correct", "revert"}
       /\ ledger[i].at \in 0..now /\ ledger[i].target \in 0..(i - 1)
       /\ i > 1 => ledger[i - 1].at <= ledger[i].at
  /\ board = Reading(ledger, now)
  /\ board.cursor \in 1..(Len(board.picks) + 1)
  /\ Len(board.picks) \in Len(PreparedPicks(FirstOrder))..MaxPicks
  /\ \A i \in 1..Len(board.picks) :
       board.picks[i].player \in Players \union {NoPlayer} /\ board.picks[i].owner \in Franchises

(* The cursor divides the scheduled picks: the ones before it were used,   *)
(* the one on the clock and the ones after it were not, whatever was       *)
(* inserted, restored or corrected on the way (timeline.open, insert).     *)
CursorDivides ==
  ~board.bad => \A i \in 1..Len(board.picks) :
                  TakesTurn(board.picks[i]) => (Used(board.picks[i]) <=> i < board.cursor)

(* The checks made when an entry is recorded keep the draft readable       *)
(* (draftReadable), except that reversing a correction which had left the  *)
(* draft with no live entry in force is not tried on it.                   *)
ReadableUnlessRevived ==
  board.bad =>
    \E i \in 1..Len(ledger) : ledger[i].kind = "revert" /\ ~LiveInForce(SubSeq(ledger, 1, i - 1))

(* draft_commands.go: "a draft with picks made must keep an order and a    *)
(* clock that still give every one of them its place".                     *)
AlwaysReadable == ~board.bad

(* acts.go: a PickRef "names one pick of a draft".                         *)
PicksNamedOnce ==
  \A i, j \in 1..Len(board.picks) : Ref(board.picks[i]) = Ref(board.picks[j]) => i = j

Recorded(kinds) == Len(ledger') > Len(ledger) /\ Last(ledger').kind \in kinds

(* An extra pick, a changed pick and a rookie given to a skipped pick take *)
(* no turn: who is on the clock, and until when, stays as it was.          *)
TurnUndisturbed ==
  [][\/ Recorded({"insert", "change"})
     \/ Recorded({"assign"}) /\ Last(ledger').ref # Ref(board.picks[board.cursor])
     => /\ OnClock(board) <=> OnClock(board')
        /\ OnClock(board) =>
             /\ Ref(board.picks[board.cursor]) = Ref(board'.picks[board'.cursor])
             /\ board'.deadline = board.deadline /\ board'.paused = board.paused
             /\ board.paused => board'.remaining = board.remaining]_vars

(* A used pick stays used: its rookie leaves it only by a change that      *)
(* named him, and the instant a clock ran out does not move with the       *)
(* instant the draft is read at, unless entries were compensated.          *)
UsedStaysUsed ==
  [][~board.bad /\ ~Recorded({"restore", "correct", "revert", "order"}) =>
     \A i \in 1..Len(board.picks) :
       LET old == board.picks[i]
       IN  Used(old) =>
             \E j \in 1..Len(board'.picks) :
               LET new == board'.picks[j]
               IN  /\ Ref(new) = Ref(old)
                   /\ \/ new = old
                      \/ old.player = NoPlayer /\ Recorded({"assign"})
                      \/ Recorded({"change"}) /\ Last(ledger').replaces = old.player]_vars

Faces(t) == [i \in 1..Len(t.picks) |-> <<Ref(t.picks[i]), t.picks[i].player, t.picks[i].skipped>>]

(* A restore puts the picks back exactly as they stood at its checkpoint,  *)
(* with none of the time since counted, and gives the pick then on the     *)
(* clock a fresh one (acts.go, Restart), when only the live draft moved in *)
(* between.                                                                *)
ReturnsTo(c) ==
  (\A i \in (c + 1)..Len(ledger) : ledger[i].kind \in LiveKinds) =>
    /\ Faces(board') = Faces(Reading(SubSeq(ledger, 1, c), EntryAt(ledger, c)))
    /\ OnClock(board') => ~board'.paused /\ board'.deadline = now + Clock

RestoreReturns ==
  [][\A c \in 0..Len(ledger) :
       /\ Recorded({"restore"}) /\ Last(ledger').target = c
       /\ c # 0 => ledger[c].kind \in LiveKinds
       => ReturnsTo(c)]_vars

(* The label every restore is shown with: "Restored the draft to how it    *)
(* stood after" its checkpoint, whatever the checkpoint is.                *)
RestoreIsAsLabelled ==
  [][\A c \in 0..Len(ledger) :
       Recorded({"restore"}) /\ Last(ledger').target = c => ReturnsTo(c)]_vars

(* Time alone skips picks only as their clocks run out, each at its own    *)
(* deadline and none while the clock is paused, and a pick still on the    *)
(* clock keeps its deadline.                                               *)
TimeOnlyExpires ==
  [][now' # now /\ ~board.bad /\ now >= Start =>
     /\ \A i \in 1..Len(board.picks) :
          board'.picks[i] # board.picks[i] =>
            ~board.paused /\ ~Used(board.picks[i]) /\ board'.picks[i].at = now'
     /\ OnClock(board') /\ ~board'.paused => now' < board'.deadline
     /\ board'.cursor = board.cursor /\ OnClock(board) => board'.deadline = board.deadline]_vars
=============================================================================
