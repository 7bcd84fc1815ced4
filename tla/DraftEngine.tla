------------------------------ MODULE DraftEngine ------------------------------
(***************************************************************************)
(* The draft clock of engine/rookiedraft: a draft is never stored, it is   *)
(* replayed from the acts recorded in the league's ledger every time it is *)
(* read, up to the instant it is read at.  Everything here is a pure       *)
(* operator; RookieDraft records the acts.                                 *)
(*                                                                         *)
(* A pick is named by its round, the franchise it began with and its       *)
(* number among the extra picks inserted after it (0 for a scheduled one). *)
(* Contracts and slots are left out.                                       *)
(***************************************************************************)
EXTENDS Integers, Sequences, FiniteSets, SequencesExt, FiniteSetsExt

CONSTANTS
  Franchises,    \* the league's franchises
  Players,       \* the rookies of the draft's class
  Rounds,        \* rounds of the draft
  Owner,         \* Owner[r][f]: who holds the pick of round r that began with f
  MaximumPicks,  \* a franchise's picks beyond these are forfeited
  Snake,         \* TRUE when even rounds run backwards
  Clock,         \* how long a pick stays on the clock
  Start          \* the instant the first clock starts

NoPlayer == "none"

ASSUME EngineAssumption ==
  /\ Rounds \in Nat \ {0} /\ MaximumPicks \in Nat /\ Clock \in Nat \ {0} /\ Start \in Nat
  /\ Snake \in BOOLEAN /\ IsFiniteSet(Franchises)
  /\ Owner \in [1..Rounds -> [Franchises -> Franchises]]
  /\ NoPlayer \notin Players

(* ReplayActs' prepared picks: every round in the order of its teams, with *)
(* the picks a franchise holds beyond the maximum forfeited.               *)
RoundTeams(first, round) ==
  IF Snake /\ round % 2 = 0 THEN Reverse(first) ELSE first

PreparedPicks(first) ==
  LET n        == Len(first)
      at(i)    == [round |-> ((i - 1) \div n) + 1,
                   team  |-> RoundTeams(first, ((i - 1) \div n) + 1)[((i - 1) % n) + 1]]
      owner(i) == Owner[at(i).round][at(i).team]
      held(i)  == Cardinality({j \in 1..i : owner(j) = owner(i)})
  IN  [i \in 1..(n * Rounds) |->
         [round |-> at(i).round, original |-> at(i).team, extra |-> 0, owner |-> owner(i),
          forfeited |-> held(i) > MaximumPicks,
          player |-> NoPlayer, skipped |-> FALSE, at |-> 0]]

Ref(pick) == <<pick.round, pick.original, pick.extra>>
Used(pick) == pick.player # NoPlayer \/ pick.skipped

-----------------------------------------------------------------------------
(* The timeline.  `bad' stands for the error a replay returns.             *)

OnClock(t) == t.cursor <= Len(t.picks)

TakesTurn(pick) == ~pick.forfeited /\ pick.extra = 0

Settle(t) ==
  LET turns == {i \in t.cursor..Len(t.picks) : TakesTurn(t.picks[i])}
  IN  [t EXCEPT !.cursor = IF turns = {} THEN Len(t.picks) + 1 ELSE Min(turns)]

NewTimeline(picks) ==
  Settle([picks |-> picks, cursor |-> 1, deadline |-> Start + Clock, paused |-> FALSE,
          remaining |-> 0, last |-> Start, bad |-> FALSE])

OpenNext(t, at) ==
  [Settle([t EXCEPT !.cursor = @ + 1]) EXCEPT !.deadline = at + Clock, !.remaining = Clock]

Skipped(pick, at) == [pick EXCEPT !.skipped = TRUE, !.at = at]

SkipTurn(t, at) == OpenNext([t EXCEPT !.picks[t.cursor] = Skipped(@, at)], at)

\* mutant: a clock still runs at its deadline
ExpireAfter(t, until) ==
  IF OnClock(t) /\ ~t.paused /\ until > t.deadline THEN SkipTurn(t, t.deadline) ELSE t

(* A pick whose clock ran out by the instant is skipped at its own         *)
(* deadline, which is when the next pick's clock starts.                   *)
Expire(t, until) ==
  IF OnClock(t) /\ ~t.paused /\ until >= t.deadline THEN SkipTurn(t, t.deadline) ELSE t

(* The timeline as each clock in turn is looked at.                        *)
Expiring(t, until) ==
  LET line[i \in 0..Len(t.picks)] == IF i = 0 THEN Settle(t) ELSE Expire(line[i - 1], until)
  IN  line

Advance(t, until) == Expiring(t, until)[Len(t.picks)]

Find(t, ref) == {i \in 1..Len(t.picks) : Ref(t.picks[i]) = ref}
First(t, ref) == Min(Find(t, ref))
Undrafted(t, player) == \A i \in 1..Len(t.picks) : t.picks[i].player # player
Refused(t) == [t EXCEPT !.bad = TRUE]

Fill(pick, a) == [pick EXCEPT !.player = a.player, !.skipped = FALSE, !.at = a.at]

\* mutant: a pick that is filled is given another rookie
FillableWhenUsed(pick) == Used(pick)

Fillable(pick) == pick.skipped /\ pick.player = NoPlayer

\* mutant: the turn moves on as after any pick
FillSkippedInTurn(t, i, a) == OpenNext([t EXCEPT !.picks[i] = Fill(@, a)], a.at)

(* A skipped pick is given a rookie without a turn.                        *)
FillSkipped(t, i, a) == [t EXCEPT !.picks[i] = Fill(@, a)]

Choose(t, a) ==
  LET i == First(t, a.ref)
  IN  IF ~OnClock(t) \/ Find(t, a.ref) = {} \/ ~Undrafted(t, a.player) THEN Refused(t)
      ELSE IF i = t.cursor
      THEN IF a.kind = "pick" /\ (t.paused \/ t.picks[i].owner # a.owner)
           THEN Refused(t)
           ELSE OpenNext([t EXCEPT !.picks[i] = Fill(@, a)], a.at)
      ELSE IF a.kind = "assign" /\ Fillable(t.picks[i])
           THEN FillSkipped(t, i, a)
           ELSE Refused(t)

Skip(t, a) ==
  IF OnClock(t) /\ t.cursor \in Find(t, a.ref) THEN SkipTurn(t, a.at) ELSE Refused(t)

\* mutant: the pick on the clock is not pushed
PushedNever(cursor, at) == cursor

(* An extra placed at or before the cursor pushes the pick on the clock.   *)
Pushed(cursor, at) == IF at <= cursor THEN cursor + 1 ELSE cursor

(* Right after the pick it follows and the extras already there.           *)
Insert(t, a) ==
  LET after == First(t, a.ref)
      base  == t.picks[after]
      there(j) == /\ t.picks[j].extra > 0
                  /\ t.picks[j].round = base.round /\ t.picks[j].original = base.original
      at    == Min({j \in (after + 1)..(Len(t.picks) + 1) : j > Len(t.picks) \/ ~there(j)})
      added == [Fill(base, a) EXCEPT !.extra = at - after, !.owner = a.owner, !.forfeited = FALSE]
  IN  IF \/ Find(t, a.ref) = {} \/ ~Undrafted(t, a.player)
         \/ \A i \in 1..Len(t.picks) : t.picks[i].owner # a.owner
      THEN Refused(t)
      ELSE [t EXCEPT !.picks = InsertAt(@, at, added),
                     !.cursor = Pushed(@, at)]

Change(t, a) ==
  LET i == First(t, a.ref)
  IN  IF \/ Find(t, a.ref) = {}
         \/ t.picks[i].player = NoPlayer \/ t.picks[i].player # a.replaces
         \/ ~Undrafted(t, a.player)
      THEN Refused(t)
      ELSE [t EXCEPT !.picks[i].player = a.player]

Larger(a, b) == IF a > b THEN a ELSE b

Pause(t, a) ==
  IF OnClock(t) /\ ~t.paused
  THEN [t EXCEPT !.paused = TRUE, !.remaining = Larger(0, t.deadline - a.at)] ELSE Refused(t)

Resume(t, a) ==
  IF OnClock(t) /\ t.paused
  THEN [t EXCEPT !.paused = FALSE, !.deadline = a.at + t.remaining] ELSE Refused(t)

SetClock(t, a) ==
  IF ~OnClock(t) THEN Refused(t)
  ELSE IF t.paused THEN [t EXCEPT !.remaining = a.duration]
  ELSE [t EXCEPT !.deadline = a.at + a.duration]

Seal(t, at) ==
  [t EXCEPT !.cursor = Len(t.picks) + 1,
            !.picks = [i \in 1..Len(t.picks) |->
                         IF i >= t.cursor /\ TakesTurn(t.picks[i])
                         THEN Skipped(t.picks[i], at) ELSE t.picks[i]]]

(* A restore of the draft: the checkpoint's state with a fresh clock.      *)
Restart(t, a) ==
  [Settle(t) EXCEPT !.deadline = a.at + Clock, !.paused = FALSE, !.remaining = Clock]

\* mutant: the clock runs out while nobody knew of the restore
AdvancedToItself(a) == a.at

(* The clock first runs out up to the act's instant, but for a restart     *)
(* only up to its checkpoint.                                              *)
AdvancedTo(a) == IF a.kind = "restore" THEN a.since ELSE a.at

(* timeline.apply                                                          *)
Apply(t, a) ==
  LET s == [Advance(t, AdvancedTo(a)) EXCEPT !.last = a.at]
  IN  IF t.bad \/ a.at < t.last
      THEN Refused(t)
      ELSE CASE a.kind \in {"pick", "assign"} -> Choose(s, a)
             [] a.kind = "skip"               -> Skip(s, a)
             [] a.kind = "insert"             -> Insert(s, a)
             [] a.kind = "change"             -> Change(s, a)
             [] a.kind = "pause"              -> Pause(s, a)
             [] a.kind = "resume"             -> Resume(s, a)
             [] a.kind = "set"                -> SetClock(s, a)
             [] a.kind = "archive"            -> Seal(s, a.at)
             [] a.kind = "restore"            -> Restart(s, a)

(* The timeline after each act.                                            *)
Replayed(fresh, acts) ==
  LET line[i \in 0..Len(acts)] == IF i = 0 THEN fresh ELSE Apply(line[i - 1], acts[i])
  IN  line

(* ReplayActs at an instant.  Before the start there must be no act.       *)
ReplayActs(first, at, acts) ==
  LET fresh  == NewTimeline(PreparedPicks(first))
      folded == Replayed(fresh, acts)[Len(acts)]
  IN  IF at < Start THEN [fresh EXCEPT !.bad = acts # <<>>]
      ELSE IF folded.bad \/ \E i \in 1..Len(acts) : acts[i].at > at THEN Refused(fresh)
      ELSE Advance(folded, at)
=============================================================================
