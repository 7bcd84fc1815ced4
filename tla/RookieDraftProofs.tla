------------------------- MODULE RookieDraftProofs -------------------------
(***************************************************************************)
(* For any franchises, rounds, clock and ledger: what the replay of a      *)
(* draft shows, what a recorded entry may change of it, and what time may. *)
(*                                                                         *)
(* The timeline first (Good, kept by every act and by the clock), then the *)
(* picks a draft is prepared with, the entries in force, what one entry    *)
(* more does to them, and last the theorems.                               *)
(***************************************************************************)
EXTENDS RookieDraft, SequenceTheorems, FiniteSetTheorems, WellFoundedInduction, TLAPS

(* Induction over the naturals, for a set of them.                         *)
LEMMA NatsIn ==
  ASSUME NEW S, 0 \in S, \A n \in Nat : n \in S => n + 1 \in S
  PROVE  \A n \in Nat : n \in S
<1> DEFINE T == Nat \ S
<1> SUFFICES ASSUME T # {} PROVE FALSE
  OBVIOUS
<1>1. PICK x \in T : \A y \in T : <<y, x>> \notin OpToRel(<, Nat)
  BY NatLessThanWellFounded, WFMin
<1>2. x \in Nat /\ x # 0
  OBVIOUS
<1>3. x - 1 \in Nat /\ x - 1 < x /\ x - 1 \notin S
  BY <1>2
<1>4. <<x - 1, x>> \in OpToRel(<, Nat)
  BY <1>2, <1>3 DEF OpToRel
<1> QED BY <1>1, <1>3, <1>4

LEMMA MinIs ==
  ASSUME NEW B, B \subseteq Nat, B # {}
  PROVE  Min(B) \in B /\ \A y \in B : Min(B) <= y
<1>1. PICK x \in B : \A y \in B : <<y, x>> \notin OpToRel(<, Nat)
  BY NatLessThanWellFounded, WFMin
<1>2. \A y \in B : x <= y
  <2> SUFFICES ASSUME NEW y \in B, y < x PROVE FALSE
    OBVIOUS
  <2>1. <<y, x>> \in OpToRel(<, Nat)
    BY DEF OpToRel
  <2> QED BY <1>1, <2>1
<1>3. Min(B) = CHOOSE z \in B : \A y \in B : z <= y
  BY DEF Min
<1> QED BY <1>2, <1>3

-----------------------------------------------------------------------------
(* The shape of a draft.                                                   *)
Pick ==
  [round : Nat, original : Franchises, extra : Nat, owner : Franchises, forfeited : BOOLEAN,
   player : Players \cup {NoPlayer}, skipped : BOOLEAN, at : Nat]

Line ==
  [picks : Seq(Pick), cursor : Nat, deadline : Nat, paused : BOOLEAN, remaining : Nat,
   last : Nat, bad : BOOLEAN]

(* The cursor divides the picks that take a turn, and stands at one.       *)
Turns(p, c) == \A i \in 1..Len(p) : TakesTurn(p[i]) => (Used(p[i]) <=> i < c)
InTurn(p, c) == c \in 1..(Len(p) + 1) /\ (c <= Len(p) => TakesTurn(p[c]))

(* A scheduled pick is named once.                                         *)
Named(p) ==
  \A i, j \in 1..Len(p) :
    p[i].extra = 0 /\ p[j].extra = 0 /\ p[i].round = p[j].round /\ p[i].original = p[j].original => i = j

Good(t) == t \in Line /\ Turns(t.picks, t.cursor) /\ InTurn(t.picks, t.cursor) /\ Named(t.picks)

LEMMA GoodIs ==
  ASSUME NEW t, Good(t)
  PROVE  /\ t \in Line /\ Len(t.picks) \in Nat /\ t.cursor \in Nat /\ t.cursor >= 1 /\ t.deadline \in Nat
         /\ t.paused \in BOOLEAN /\ t.remaining \in Nat /\ t.last \in Nat /\ t.bad \in BOOLEAN
         /\ t.picks \in Seq(Pick)
         /\ \A j \in 1..Len(t.picks) :
              /\ t.picks[j] \in Pick /\ t.picks[j].at \in Nat /\ t.picks[j].owner \in Franchises
              /\ t.picks[j].player \in Players \cup {NoPlayer} /\ t.picks[j].extra \in Nat
              /\ t.picks[j].round \in Nat /\ t.picks[j].original \in Franchises
<1>1. /\ t \in Line /\ Len(t.picks) \in Nat /\ t.cursor \in Nat /\ t.deadline \in Nat
      /\ t.paused \in BOOLEAN /\ t.remaining \in Nat /\ t.last \in Nat /\ t.bad \in BOOLEAN
      /\ t.picks \in Seq(Pick)
  BY DEF Good, Line
<1>2. t.cursor >= 1
  BY <1>1 DEF Good, InTurn
<1>3. ASSUME NEW j \in 1..Len(t.picks) PROVE t.picks[j] \in Pick
  BY <1>1
<1> QED BY <1>1, <1>2, <1>3 DEF Pick

(* Nothing but the cursor differs.                                         *)
Beside(s, t) ==
  /\ s.picks = t.picks /\ s.deadline = t.deadline /\ s.paused = t.paused
  /\ s.remaining = t.remaining /\ s.last = t.last /\ s.bad = t.bad

LEMMA LinesEqual ==
  ASSUME NEW s \in Line, NEW t \in Line, Beside(s, t), s.cursor = t.cursor PROVE s = t
BY DEF Line, Beside

LEMMA CursorMoved ==
  ASSUME NEW t \in Line, NEW c \in Nat, NEW v, v = [t EXCEPT !.cursor = c]
  PROVE  v \in Line /\ Beside(v, t) /\ v.cursor = c
BY DEF Line, Beside

(* Nothing but the i-th pick differs.                                      *)
PickAt(v, t, i, q) ==
  /\ v \in Line /\ Len(v.picks) = Len(t.picks) /\ v.picks[i] = q
  /\ \A j \in 1..Len(t.picks) : j # i => v.picks[j] = t.picks[j]
  /\ v.cursor = t.cursor /\ v.deadline = t.deadline /\ v.paused = t.paused
  /\ v.remaining = t.remaining /\ v.last = t.last /\ v.bad = t.bad

LEMMA PickReplaced ==
  ASSUME NEW t \in Line, NEW i \in 1..Len(t.picks), NEW q \in Pick, NEW v,
         v = [t EXCEPT !.picks[i] = q]
  PROVE  PickAt(v, t, i, q)
<1>1. t.picks \in Seq(Pick)
  BY DEF Line
<1> DEFINE p == [t.picks EXCEPT ![i] = q]
<1>2. p \in Seq(Pick) /\ Len(p) = Len(t.picks) /\ p[i] = q /\ \A j \in 1..Len(t.picks) : j # i => p[j] = t.picks[j]
  BY <1>1
<1>3. v = [t EXCEPT !.picks = p]
  OBVIOUS
<1> HIDE DEF p
<1>4. /\ v \in Line /\ v.picks = p /\ v.cursor = t.cursor /\ v.deadline = t.deadline
      /\ v.paused = t.paused /\ v.remaining = t.remaining /\ v.last = t.last /\ v.bad = t.bad
  BY <1>2, <1>3 DEF Line
<1> QED BY <1>2, <1>4 DEF PickAt

LEMMA SettleIs ==
  ASSUME NEW t \in Line, t.cursor \in 1..(Len(t.picks) + 1), NEW s, s = Settle(t)
  PROVE  /\ s \in Line /\ Beside(s, t)
         /\ s.cursor \in t.cursor..(Len(t.picks) + 1)
         /\ s.cursor <= Len(t.picks) => TakesTurn(t.picks[s.cursor])
         /\ \A i \in t.cursor..(s.cursor - 1) : i \in 1..Len(t.picks) /\ ~TakesTurn(t.picks[i])
<1> DEFINE turns == {i \in t.cursor..Len(t.picks) : TakesTurn(t.picks[i])}
           c == IF turns = {} THEN Len(t.picks) + 1 ELSE Min(turns)
<1>1. s = [t EXCEPT !.cursor = c]
  BY DEF Settle
<1>2. Len(t.picks) \in Nat
  BY DEF Line
<1>3. /\ c \in t.cursor..(Len(t.picks) + 1)
      /\ c <= Len(t.picks) => TakesTurn(t.picks[c])
      /\ \A i \in t.cursor..(c - 1) : i \in 1..Len(t.picks) /\ ~TakesTurn(t.picks[i])
  <2>1. CASE turns = {}
    BY <1>2, <2>1
  <2>2. CASE turns # {}
    <3>1. turns \subseteq Nat
      BY <1>2
    <3>2. c \in turns /\ \A y \in turns : c <= y
      <4> HIDE DEF turns
      <4>1. c = Min(turns)
        BY <2>2
      <4>2. Min(turns) \in turns /\ \A y \in turns : Min(turns) <= y
        BY <2>2, <3>1, MinIs
      <4> HIDE DEF c
      <4> QED BY <4>1, <4>2
    <3>3. c \in t.cursor..Len(t.picks) /\ TakesTurn(t.picks[c])
      <4> HIDE DEF c
      <4> QED BY <3>2
    <3>4. \A i \in t.cursor..Len(t.picks) : TakesTurn(t.picks[i]) => c <= i
      <4> HIDE DEF c
      <4> QED BY <3>2
    <3> HIDE DEF c, turns
    <3> QED BY <1>2, <3>3, <3>4
  <2> QED BY <2>1, <2>2
<1> HIDE DEF c
<1>4. s \in Line /\ Beside(s, t) /\ s.cursor = c
  BY <1>1, <1>2, <1>3, CursorMoved
<1> QED BY <1>3, <1>4 DEF Beside

LEMMA Settled ==
  ASSUME NEW t \in Line, InTurn(t.picks, t.cursor)
  PROVE  Settle(t) = t
<1> DEFINE s == Settle(t)
<1>1. Len(t.picks) \in Nat
  BY DEF Line
<1>2. s \in Line /\ Beside(s, t) /\ s.cursor = t.cursor
  <2>1. /\ s \in Line /\ Beside(s, t)
        /\ s.cursor \in t.cursor..(Len(t.picks) + 1)
        /\ \A i \in t.cursor..(s.cursor - 1) : i \in 1..Len(t.picks) /\ ~TakesTurn(t.picks[i])
    BY SettleIs DEF InTurn
  <2>2. s.cursor = t.cursor
    <3>1. SUFFICES ASSUME s.cursor # t.cursor PROVE FALSE
      OBVIOUS
    <3>2. t.cursor \in t.cursor..(s.cursor - 1)
      BY <1>1, <2>1, <3>1 DEF InTurn
    <3> QED BY <1>1, <2>1, <3>2 DEF InTurn
  <2> QED BY <2>1, <2>2
<1> QED BY <1>2, LinesEqual

(* Where the picks before the cursor that take a turn are used and the     *)
(* others are not, settling makes a good draft of it.                      *)
LEMMA SettledGood ==
  ASSUME NEW t \in Line, t.cursor \in 1..(Len(t.picks) + 1), Turns(t.picks, t.cursor), Named(t.picks),
         NEW s, s = Settle(t)
  PROVE  Good(s)
<1>1. /\ s \in Line /\ Beside(s, t)
      /\ s.cursor \in t.cursor..(Len(t.picks) + 1)
      /\ s.cursor <= Len(t.picks) => TakesTurn(t.picks[s.cursor])
      /\ \A i \in t.cursor..(s.cursor - 1) : i \in 1..Len(t.picks) /\ ~TakesTurn(t.picks[i])
  BY SettleIs
<1>2. s.picks = t.picks /\ Len(t.picks) \in Nat
  BY <1>1 DEF Beside, Line
<1>3. InTurn(s.picks, s.cursor)
  BY <1>1, <1>2 DEF InTurn
<1>4. Turns(s.picks, s.cursor)
  <2> SUFFICES ASSUME NEW i \in 1..Len(t.picks), TakesTurn(t.picks[i])
               PROVE Used(t.picks[i]) <=> i < s.cursor
    BY <1>2 DEF Turns
  <2>1. Used(t.picks[i]) <=> i < t.cursor
    BY DEF Turns
  <2>2. i \notin t.cursor..(s.cursor - 1)
    BY <1>1
  <2> QED BY <1>1, <1>2, <2>1, <2>2
<1> QED BY <1>1, <1>2, <1>3, <1>4 DEF Good

-----------------------------------------------------------------------------
(* A pick that is filled or skipped stays the pick it was.                 *)
Alike(q, p) ==
  /\ q.round = p.round /\ q.original = p.original /\ q.extra = p.extra /\ q.forfeited = p.forfeited

(* Nothing but the picks from the i-th and the clock differs.              *)
Replaced(v, t, i, q) ==
  /\ v \in Line /\ Len(v.picks) = Len(t.picks) /\ v.picks[i] = q
  /\ \A j \in 1..Len(t.picks) : j # i => v.picks[j] = t.picks[j]

LEMMA AlikeIs ==
  ASSUME NEW t \in Line, Named(t.picks), NEW i \in 1..Len(t.picks), NEW q \in Pick,
         Alike(q, t.picks[i]), NEW v, Replaced(v, t, i, q)
  PROVE  /\ Named(v.picks)
         /\ \A j \in 1..Len(t.picks) : TakesTurn(v.picks[j]) <=> TakesTurn(t.picks[j])
         /\ \A j \in 1..Len(t.picks) : Ref(v.picks[j]) = Ref(t.picks[j])
<1>1. \A j \in 1..Len(t.picks) : Alike(v.picks[j], t.picks[j])
  BY DEF Replaced, Alike
<1>2. Named(v.picks)
  BY <1>1 DEF Named, Alike, Replaced
<1> QED BY <1>1, <1>2 DEF Alike, TakesTurn, Ref

LEMMA OpenNextIs ==
  ASSUME NEW t \in Line, t.cursor \in 1..Len(t.picks), Turns(t.picks, t.cursor + 1), Named(t.picks),
         NEW at \in Nat, NEW v, v = OpenNext(t, at)
  PROVE  /\ Good(v) /\ v.picks = t.picks /\ v.paused = t.paused /\ v.last = t.last /\ v.bad = t.bad
         /\ v.deadline = at + Clock /\ v.remaining = Clock
         /\ v.cursor \in (t.cursor + 1)..(Len(t.picks) + 1)
<1> DEFINE u == [t EXCEPT !.cursor = t.cursor + 1]
           s == Settle(u)
<1>0. Len(t.picks) \in Nat /\ t.cursor + 1 \in Nat
  BY DEF Line
<1>1. u \in Line /\ Beside(u, t) /\ u.cursor = t.cursor + 1
  BY <1>0, CursorMoved
<1>2. v = [s EXCEPT !.deadline = at + Clock, !.remaining = Clock]
  BY DEF OpenNext
<1> HIDE DEF u
<1>3. Good(s) /\ s \in Line /\ Beside(s, u) /\ s.cursor \in u.cursor..(Len(u.picks) + 1)
  <2>1. u.picks = t.picks
    BY <1>1 DEF Beside
  <2>2. u.cursor \in 1..(Len(u.picks) + 1) /\ Turns(u.picks, u.cursor) /\ Named(u.picks)
    BY <1>0, <1>1, <2>1
  <2> QED BY <1>1, <2>2, SettleIs, SettledGood
<1> HIDE DEF s
<1>4. PICK clock \in Nat : clock = Clock
  BY EngineAssumption
<1>5. /\ v \in Line /\ v.picks = s.picks /\ v.cursor = s.cursor /\ v.paused = s.paused /\ v.last = s.last
      /\ v.bad = s.bad /\ v.deadline = at + clock /\ v.remaining = clock
  <2>1. PICK d \in Nat : d = at + clock
    OBVIOUS
  <2>2. v = [s EXCEPT !.deadline = d, !.remaining = clock]
    BY <1>2, <1>4, <2>1
  <2> QED BY <1>3, <2>1, <2>2 DEF Line
<1>6. Good(v)
  BY <1>3, <1>5 DEF Good
<1> QED BY <1>1, <1>3, <1>4, <1>5, <1>6 DEF Beside

(* The pick on the clock is used.                                          *)
LEMMA TurnTaken ==
  ASSUME NEW t, Good(t), OnClock(t), NEW q \in Pick, Alike(q, t.picks[t.cursor]), Used(q),
         NEW at \in Nat, NEW u, PickAt(u, t, t.cursor, q), NEW v, v = OpenNext(u, at)
  PROVE  /\ Good(v) /\ t.cursor \in 1..Len(t.picks) /\ Replaced(v, t, t.cursor, q)
         /\ \A j \in 1..Len(t.picks) : Ref(v.picks[j]) = Ref(t.picks[j])
         /\ v.paused = t.paused /\ v.last = t.last /\ v.bad = t.bad
         /\ v.deadline = at + Clock /\ v.remaining = Clock
         /\ v.cursor \in (t.cursor + 1)..(Len(t.picks) + 1)
<1> DEFINE c == t.cursor
<1>1. t \in Line /\ c \in 1..Len(t.picks) /\ Len(t.picks) \in Nat
  BY DEF Good, InTurn, OnClock, Line
<1>2. /\ u \in Line /\ Len(u.picks) = Len(t.picks) /\ u.picks[c] = q
      /\ \A j \in 1..Len(t.picks) : j # c => u.picks[j] = t.picks[j]
      /\ u.cursor = t.cursor /\ u.deadline = t.deadline /\ u.paused = t.paused
      /\ u.remaining = t.remaining /\ u.last = t.last /\ u.bad = t.bad
  BY DEF PickAt
<1>4. Replaced(u, t, c, q)
  BY <1>2 DEF Replaced
<1>5. /\ Named(u.picks)
      /\ \A j \in 1..Len(t.picks) : TakesTurn(u.picks[j]) <=> TakesTurn(t.picks[j])
      /\ \A j \in 1..Len(t.picks) : Ref(u.picks[j]) = Ref(t.picks[j])
  BY <1>1, <1>4, AlikeIs DEF Good
<1>6. Turns(u.picks, u.cursor + 1)
  <2> SUFFICES ASSUME NEW i \in 1..Len(t.picks), TakesTurn(u.picks[i])
               PROVE Used(u.picks[i]) <=> i < c + 1
    BY <1>2 DEF Turns
  <2>1. CASE i = c
    BY <1>1, <1>2, <2>1
  <2>2. CASE i # c
    <3>1. Used(t.picks[i]) <=> i < c
      BY <1>5 DEF Good, Turns
    <3> QED BY <1>1, <1>2, <2>2, <3>1
  <2> QED BY <2>1, <2>2
<1>7. /\ Good(v) /\ v.picks = u.picks /\ v.paused = u.paused /\ v.last = u.last /\ v.bad = u.bad
      /\ v.deadline = at + Clock /\ v.remaining = Clock
      /\ v.cursor \in (u.cursor + 1)..(Len(u.picks) + 1)
  BY <1>1, <1>2, <1>5, <1>6, OpenNextIs
<1>8. Replaced(v, t, c, q)
  BY <1>4, <1>7 DEF Replaced, Good
<1> QED BY <1>1, <1>2, <1>5, <1>7, <1>8

LEMMA SkippedIs ==
  ASSUME NEW p \in Pick, NEW at \in Nat, NEW q, q = Skipped(p, at)
  PROVE  q \in Pick /\ Alike(q, p) /\ Used(q) /\ q.player = p.player /\ q.at = at /\ q.skipped
BY DEF Skipped, Pick, Alike, Used

LEMMA SkipTurnIs ==
  ASSUME NEW t, Good(t), OnClock(t), NEW at \in Nat, NEW v, v = SkipTurn(t, at)
  PROVE  /\ Good(v) /\ t.cursor \in 1..Len(t.picks)
         /\ Replaced(v, t, t.cursor, Skipped(t.picks[t.cursor], at))
         /\ \A j \in 1..Len(t.picks) : Ref(v.picks[j]) = Ref(t.picks[j])
         /\ v.paused = t.paused /\ v.last = t.last /\ v.bad = t.bad
         /\ v.deadline = at + Clock /\ v.remaining = Clock
         /\ v.cursor \in (t.cursor + 1)..(Len(t.picks) + 1)
<1> DEFINE q == Skipped(t.picks[t.cursor], at)
<1>1. t.picks[t.cursor] \in Pick
  BY DEF Good, InTurn, OnClock, Line
<1>2. q \in Pick /\ Alike(q, t.picks[t.cursor]) /\ Used(q)
  BY <1>1, SkippedIs
<1> DEFINE u == [t EXCEPT !.picks[t.cursor] = q]
<1>3. v = OpenNext(u, at)
  BY DEF SkipTurn
<1> HIDE DEF q
<1>5. PickAt(u, t, t.cursor, q)
  <2>1. t \in Line /\ t.cursor \in 1..Len(t.picks)
    BY DEF Good, InTurn, OnClock, Line
  <2> QED BY <1>2, <2>1, PickReplaced
<1> HIDE DEF u
<1>4. /\ Good(v) /\ t.cursor \in 1..Len(t.picks) /\ Replaced(v, t, t.cursor, q)
      /\ \A j \in 1..Len(t.picks) : Ref(v.picks[j]) = Ref(t.picks[j])
      /\ v.paused = t.paused /\ v.last = t.last /\ v.bad = t.bad
      /\ v.deadline = at + Clock /\ v.remaining = Clock
      /\ v.cursor \in (t.cursor + 1)..(Len(t.picks) + 1)
  BY <1>2, <1>3, <1>5, TurnTaken
<1> QED BY <1>4 DEF q

-----------------------------------------------------------------------------
(* Clocks running out.                                                     *)
Overdue(t, until) == OnClock(t) /\ ~t.paused /\ until >= t.deadline

(* How a draft goes on when its clocks alone run.                          *)
Later(v, t, until) ==
  /\ Good(v) /\ Len(v.picks) = Len(t.picks) /\ \A j \in 1..Len(t.picks) : Ref(v.picks[j]) = Ref(t.picks[j])
  /\ v.paused = t.paused /\ v.last = t.last /\ v.bad = t.bad
  /\ v.cursor >= t.cursor /\ v.deadline >= t.deadline
  /\ v.cursor = t.cursor => v = t
  /\ \A j \in 1..Len(t.picks) :
       \/ v.picks[j] = t.picks[j]
       \/ /\ ~t.paused /\ ~Used(t.picks[j]) /\ Used(v.picks[j])
          /\ v.picks[j].at >= t.deadline /\ v.picks[j].at <= until

LEMMA ExpireIs ==
  ASSUME NEW t, Good(t), NEW until \in Nat, NEW v, v = Expire(t, until)
  PROVE  /\ ~Overdue(t, until) => v = t
         /\ Overdue(t, until) => v = SkipTurn(t, t.deadline) /\ v.cursor > t.cursor
         /\ Later(v, t, until)
<1>1. CASE ~Overdue(t, until)
  <2>1. v = t
    BY <1>1 DEF Expire, Overdue
  <2>2. Later(t, t, until)
    BY DEF Later, Good, Line
  <2> QED BY <1>1, <2>1, <2>2
<1>2. CASE Overdue(t, until)
  <2>1. v = SkipTurn(t, t.deadline)
    BY <1>2 DEF Expire, Overdue
  <2>2. OnClock(t) /\ ~t.paused /\ t.deadline \in Nat /\ t.cursor \in Nat /\ Len(t.picks) \in Nat
    BY <1>2 DEF Overdue, Good, Line
  <2> DEFINE q == Skipped(t.picks[t.cursor], t.deadline)
  <2>3. /\ Good(v) /\ t.cursor \in 1..Len(t.picks) /\ Replaced(v, t, t.cursor, q)
        /\ \A j \in 1..Len(t.picks) : Ref(v.picks[j]) = Ref(t.picks[j])
        /\ v.paused = t.paused /\ v.last = t.last /\ v.bad = t.bad
        /\ v.deadline = t.deadline + Clock
        /\ v.cursor \in (t.cursor + 1)..(Len(t.picks) + 1)
    BY <2>1, <2>2, SkipTurnIs
  <2>4. t.picks[t.cursor] \in Pick
    BY <2>3 DEF Good, Line
  <2>5. Used(q) /\ q.at = t.deadline
    BY <2>2, <2>4, SkippedIs
  <2> HIDE DEF q
  <2>6. ~Used(t.picks[t.cursor])
    BY <2>2, <2>3 DEF Good, InTurn, Turns
  <2>7. ASSUME NEW j \in 1..Len(t.picks)
        PROVE  \/ v.picks[j] = t.picks[j]
               \/ /\ ~t.paused /\ ~Used(t.picks[j]) /\ Used(v.picks[j])
                  /\ v.picks[j].at >= t.deadline /\ v.picks[j].at <= until
    <3>1. CASE j = t.cursor
      BY <1>2, <2>2, <2>3, <2>5, <2>6, <3>1 DEF Replaced, Overdue
    <3>2. CASE j # t.cursor
      BY <2>3, <3>2 DEF Replaced
    <3> QED BY <3>1, <3>2
  <2>8. v.cursor > t.cursor /\ v.deadline >= t.deadline
    BY <2>2, <2>3, EngineAssumption
  <2>9. Len(v.picks) = Len(t.picks)
    BY <2>3 DEF Replaced
  <2>10. v.cursor >= t.cursor /\ v.cursor # t.cursor
    BY <2>2, <2>3
  <2>11. Later(v, t, until)
    BY <2>3, <2>7, <2>8, <2>9, <2>10 DEF Later
  <2> QED BY <1>2, <2>1, <2>8, <2>11
<1> QED BY <1>1, <1>2

LEMMA LaterGood ==
  ASSUME NEW t, NEW v, NEW until, Later(v, t, until) PROVE Good(v)
BY DEF Later

LEMMA LaterAdds ==
  ASSUME NEW t, Good(t), NEW until \in Nat, NEW v, Later(v, t, until), NEW w, Later(w, v, until)
  PROVE  Later(w, t, until)
<1>0. Good(v) /\ Good(w)
  BY LaterGood
<1>1. /\ Good(v) /\ Good(w) /\ Len(t.picks) \in Nat /\ t.cursor \in Nat /\ v.cursor \in Nat /\ w.cursor \in Nat
      /\ t.deadline \in Nat /\ v.deadline \in Nat /\ w.deadline \in Nat
      /\ \A j \in 1..Len(w.picks) : w.picks[j].at \in Nat
  BY <1>0, GoodIs
<1>2. w.cursor >= t.cursor /\ w.deadline >= t.deadline
  BY <1>1 DEF Later
<1>3. w.cursor = t.cursor => w = t
  BY <1>1 DEF Later
<1>4. ASSUME NEW j \in 1..Len(t.picks)
      PROVE  \/ w.picks[j] = t.picks[j]
             \/ /\ ~t.paused /\ ~Used(t.picks[j]) /\ Used(w.picks[j])
                /\ w.picks[j].at >= t.deadline /\ w.picks[j].at <= until
  BY <1>1 DEF Later
<1> QED BY <1>1, <1>2, <1>3, <1>4 DEF Later

LEMMA ExpiringIs ==
  ASSUME NEW t, Good(t), NEW until \in Nat
  PROVE  /\ Expiring(t, until)[0] = t
         /\ \A i \in 1..Len(t.picks) : Expiring(t, until)[i] = Expire(Expiring(t, until)[i - 1], until)
         /\ \A i \in 0..Len(t.picks) : Later(Expiring(t, until)[i], t, until) /\ Good(Expiring(t, until)[i])
<1> DEFINE n == Len(t.picks)
           Is(k, w) == w = [i \in 0..k |-> IF i = 0 THEN Settle(t) ELSE Expire(w[i - 1], until)]
           S == {k \in Nat : \E w : Is(k, w)}
<1>1. 0 \in S
  <2> DEFINE w == [i \in 0..0 |-> Settle(t)]
  <2>1. Is(0, w)
    OBVIOUS
  <2> QED BY <2>1
<1>2. ASSUME NEW k \in Nat, k \in S PROVE k + 1 \in S
  <2>1. PICK w : Is(k, w)
    BY <1>2
  <2> DEFINE v == [i \in 0..(k + 1) |-> IF i = k + 1 THEN Expire(w[k], until) ELSE w[i]]
  <2>2. ASSUME NEW i \in 0..(k + 1)
        PROVE v[i] = IF i = 0 THEN Settle(t) ELSE Expire(v[i - 1], until)
    <3>1. CASE i = k + 1
      BY <3>1
    <3>2. CASE i # k + 1 /\ i # 0
      <4>1. i \in 0..k /\ i - 1 \in 0..(k + 1) /\ i - 1 # k + 1
        BY <3>2
      <4>2. v[i] = w[i] /\ v[i - 1] = w[i - 1]
        BY <3>2, <4>1
      <4>3. w[i] = Expire(w[i - 1], until)
        BY <2>1, <3>2, <4>1
      <4> QED BY <3>2, <4>2, <4>3
    <3>3. CASE i = 0
      <4>1. w[0] = Settle(t)
        BY <2>1
      <4> QED BY <3>3, <4>1
    <3> QED BY <3>1, <3>2, <3>3
  <2>3. v = [i \in 0..(k + 1) |-> v[i]]
    OBVIOUS
  <2> HIDE DEF v
  <2>4. Is(k + 1, v)
    BY <2>2, <2>3
  <2> QED BY <2>4
<1>3. n \in Nat
  BY DEF Good, Line
<1>4. \E w : Is(n, w)
  <2>1. n \in S
    <3> HIDE DEF S
    <3> QED BY <1>1, <1>2, <1>3, NatsIn
  <2> QED BY <2>1
<1> DEFINE E == Expiring(t, until)
<1>5. E = CHOOSE w : w = [i \in 0..n |-> IF i = 0 THEN Settle(t) ELSE Expire(w[i - 1], until)]
  BY DEF Expiring
<1>6. E = [i \in 0..n |-> IF i = 0 THEN Settle(t) ELSE Expire(E[i - 1], until)]
  BY <1>4, <1>5
<1> HIDE DEF E
<1>7. E[0] = t
  <2>1. E[0] = Settle(t)
    BY <1>3, <1>6
  <2>2. Settle(t) = t
    BY Settled DEF Good
  <2> QED BY <2>1, <2>2
<1>8. ASSUME NEW i \in 1..n PROVE E[i] = Expire(E[i - 1], until)
  <2>1. i \in 0..n /\ i # 0
    BY <1>3
  <2> QED BY <1>6, <2>1
<1> DEFINE T == {k \in Nat : k <= n => Later(E[k], t, until)}
<1>9. 0 \in T
  <2>1. Later(t, t, until)
    BY DEF Later, Good, Line
  <2> QED BY <1>7, <2>1
<1>10. ASSUME NEW k \in Nat, k \in T PROVE k + 1 \in T
  <2> SUFFICES ASSUME k + 1 <= n PROVE Later(E[k + 1], t, until)
    OBVIOUS
  <2>1. Later(E[k], t, until) /\ Good(E[k])
    BY <1>3, <1>10, LaterGood
  <2>2. E[k + 1] = Expire(E[k], until)
    BY <1>3, <1>8
  <2>3. Later(E[k + 1], E[k], until)
    BY <2>1, <2>2, ExpireIs
  <2> QED BY <2>1, <2>3, LaterAdds
<1>11. \A k \in Nat : k \in T
  <2> HIDE DEF T
  <2> QED BY <1>9, <1>10, NatsIn
<1>12. \A i \in 0..n : Later(E[i], t, until)
  BY <1>3, <1>11
<1>13. \A i \in 0..n : Good(E[i])
  BY <1>12, LaterGood
<1> QED BY <1>7, <1>8, <1>12, <1>13 DEF E

(* Once no clock has run out, none does.                                   *)
LEMMA Stuck ==
  ASSUME NEW t, Good(t), NEW until \in Nat, NEW i \in 0..Len(t.picks),
         ~Overdue(Expiring(t, until)[i], until)
  PROVE  Advance(t, until) = Expiring(t, until)[i]
<1> DEFINE n == Len(t.picks)
           E == Expiring(t, until)
           T == {m \in Nat : i + m <= n => E[i + m] = E[i]}
<1>1. n \in Nat
  BY DEF Good, Line
<1>2. 0 \in T
  OBVIOUS
<1>3. ASSUME NEW m \in Nat, m \in T PROVE m + 1 \in T
  <2> SUFFICES ASSUME i + (m + 1) <= n PROVE E[i + (m + 1)] = E[i]
    OBVIOUS
  <2>1. E[i + m] = E[i]
    BY <1>1, <1>3
  <2>2. i + (m + 1) \in 1..n /\ (i + (m + 1)) - 1 = i + m
    BY <1>1
  <2>3. E[i + (m + 1)] = Expire(E[i + m], until)
    BY <2>2, ExpiringIs
  <2>4. Good(E[i])
    BY ExpiringIs
  <2> QED BY <2>1, <2>3, <2>4, ExpireIs
<1>4. n - i \in Nat /\ i + (n - i) = n
  BY <1>1
<1>5. E[n] = E[i]
  <2>1. n - i \in T
    <3> HIDE DEF T
    <3> QED BY <1>2, <1>3, <1>4, NatsIn
  <2> QED BY <1>4, <2>1
<1> QED BY <1>5 DEF Advance

LEMMA AdvanceIs ==
  ASSUME NEW t, Good(t), NEW until \in Nat, NEW v, v = Advance(t, until)
  PROVE  /\ Later(v, t, until) /\ Good(v) /\ ~Overdue(v, until)
         /\ ~Overdue(t, until) => v = t
<1> DEFINE n == Len(t.picks)
           E == Expiring(t, until)
           T == {k \in Nat : k <= n => ~Overdue(E[k], until) \/ E[k].cursor >= t.cursor + k}
<1>1. n \in Nat /\ t.cursor \in Nat /\ t.cursor >= 1
  BY DEF Good, Line, InTurn
<1>2. 0 \in T
  BY <1>1, ExpiringIs
<1>3. ASSUME NEW k \in Nat, k \in T PROVE k + 1 \in T
  <2> SUFFICES ASSUME k + 1 <= n
               PROVE ~Overdue(E[k + 1], until) \/ E[k + 1].cursor >= t.cursor + (k + 1)
    OBVIOUS
  <2>1. k + 1 \in 1..n /\ (k + 1) - 1 = k /\ k \in 0..n /\ k + 1 \in 0..n
    BY <1>1
  <2>2. E[k + 1] = Expire(E[k], until) /\ Good(E[k]) /\ Good(E[k + 1])
    BY <2>1, ExpiringIs
  <2>3. CASE ~Overdue(E[k], until)
    BY <2>2, <2>3, ExpireIs
  <2>4. CASE Overdue(E[k], until)
    <3>1. E[k].cursor >= t.cursor + k
      BY <1>3, <2>1, <2>4
    <3>2. E[k + 1].cursor > E[k].cursor
      BY <2>2, <2>4, ExpireIs
    <3>3. E[k].cursor \in Nat /\ E[k + 1].cursor \in Nat
      BY <2>2 DEF Good, Line
    <3> QED BY <1>1, <3>1, <3>2, <3>3
  <2> QED BY <2>3, <2>4
<1>4. n \in T
  <2> HIDE DEF T
  <2> QED BY <1>1, <1>2, <1>3, NatsIn
<1>5. v = E[n]
  BY DEF Advance
<1>6. n \in 0..n /\ 0 \in 0..n
  BY <1>1
<1>7. Later(v, t, until) /\ Good(v)
  BY <1>5, <1>6, ExpiringIs
<1>8. ~Overdue(v, until)
  <2>1. ~Overdue(v, until) \/ v.cursor >= t.cursor + n
    BY <1>1, <1>4, <1>5
  <2>2. v.cursor >= t.cursor + n => ~OnClock(v)
    BY <1>1, <1>7 DEF OnClock, Later, Good, Line
  <2> QED BY <2>1, <2>2 DEF Overdue
<1>9. ~Overdue(t, until) => v = t
  BY <1>6, Stuck, ExpiringIs
<1> QED BY <1>7, <1>8, <1>9

(* Looking at a draft in between changes nothing.                          *)
LEMMA AdvanceAdds ==
  ASSUME NEW t, Good(t), NEW u \in Nat, NEW v \in Nat, u <= v
  PROVE  Advance(Advance(t, u), v) = Advance(t, v)
<1> DEFINE n == Len(t.picks)
           U == Expiring(t, u)
           V == Expiring(t, v)
           w == Advance(t, u)
           R == Expiring(w, v)
           T == {i \in Nat : i <= n => V[i] = U[i] \/ \E j \in 0..i : V[i] = R[j]}
<1>1. n \in Nat
  BY DEF Good, Line
<1>2. Good(w) /\ Len(w.picks) = n
  BY AdvanceIs DEF Later
<1>3. R[0] = w /\ U[0] = t /\ V[0] = t
  BY <1>2, ExpiringIs
<1>4. 0 \in T
  BY <1>3
<1>5. ASSUME NEW i \in Nat, i \in T PROVE i + 1 \in T
  <2> SUFFICES ASSUME i + 1 <= n
               PROVE V[i + 1] = U[i + 1] \/ \E j \in 0..(i + 1) : V[i + 1] = R[j]
    OBVIOUS
  <2>1. i + 1 \in 1..n /\ (i + 1) - 1 = i /\ i \in 0..n
    BY <1>1
  <2>2. V[i + 1] = Expire(V[i], v) /\ U[i + 1] = Expire(U[i], u) /\ Good(V[i]) /\ Good(U[i])
    BY <2>1, ExpiringIs
  <2>3. ASSUME NEW j \in 0..i, V[i] = R[j] PROVE V[i + 1] = R[j + 1] /\ j + 1 \in 0..(i + 1)
    <3>1. j + 1 \in 1..n /\ (j + 1) - 1 = j /\ j + 1 \in 0..(i + 1)
      BY <1>1, <2>1
    <3>2. R[j + 1] = Expire(R[j], v)
      BY <1>2, <3>1, ExpiringIs
    <3> QED BY <2>2, <2>3, <3>1, <3>2
  <2>4. CASE \E j \in 0..i : V[i] = R[j]
    BY <2>3, <2>4
  <2>5. CASE V[i] = U[i] /\ ~Overdue(U[i], u)
    <3>1. U[i] = w
      BY <2>1, <2>5, Stuck
    <3>2. V[i] = R[0] /\ 0 \in 0..i
      BY <1>3, <2>5, <3>1
    <3> QED BY <2>3, <3>2
  <2>6. CASE V[i] = U[i] /\ Overdue(U[i], u)
    <3>1. Overdue(V[i], v)
      BY <2>2, <2>6 DEF Overdue, Good, Line
    <3>2. V[i + 1] = SkipTurn(V[i], V[i].deadline) /\ U[i + 1] = SkipTurn(U[i], U[i].deadline)
      BY <2>2, <2>6, <3>1, ExpireIs
    <3> QED BY <2>6, <3>2
  <2>7. V[i] = U[i] \/ \E j \in 0..i : V[i] = R[j]
    BY <1>5, <2>1
  <2> QED BY <2>4, <2>5, <2>6, <2>7
<1>6. n \in T
  <2> HIDE DEF T
  <2> QED BY <1>1, <1>4, <1>5, NatsIn
<1>7. V[n] = Advance(t, v) /\ U[n] = w /\ ~Overdue(V[n], v)
  BY AdvanceIs DEF Advance
<1>8. CASE V[n] = U[n]
  <2>1. ~Overdue(w, v)
    BY <1>7, <1>8
  <2>2. Advance(w, v) = w
    BY <1>2, <2>1, AdvanceIs
  <2> QED BY <1>7, <1>8, <2>2
<1>9. CASE \E j \in 0..n : V[n] = R[j]
  <2>1. PICK j \in 0..n : V[n] = R[j]
    BY <1>9
  <2>2. Advance(w, v) = R[j]
    BY <1>2, <1>7, <2>1, Stuck
  <2> QED BY <1>7, <2>1, <2>2
<1> QED BY <1>1, <1>6, <1>8, <1>9

-----------------------------------------------------------------------------
(* What each act does to a draft.                                          *)
Givers == {"pick", "assign", "insert", "change"}

IsAct(a) ==
  /\ a.kind \in LiveKinds /\ a.at \in Nat /\ a.duration \in Nat /\ a.since \in Nat
  /\ a.kind \in Givers => a.player \in Players

(* A used pick keeps its rookie, unless the act gives it another by name.  *)
KeepsUsed(v, t, a) ==
  \A i \in 1..Len(t.picks) :
    Used(t.picks[i]) =>
      \E j \in 1..Len(v.picks) :
        /\ Ref(v.picks[j]) = Ref(t.picks[i]) /\ Used(v.picks[j])
        /\ \/ v.picks[j] = t.picks[i]
           \/ t.picks[i].player = NoPlayer /\ a.kind = "assign"
           \/ a.kind = "change" /\ a.replaces = t.picks[i].player

SameTurn(v, t) ==
  /\ OnClock(t) <=> OnClock(v)
  /\ OnClock(t) => Ref(t.picks[t.cursor]) = Ref(v.picks[v.cursor])
  /\ v.deadline = t.deadline /\ v.paused = t.paused /\ v.remaining = t.remaining

LEMMA RefusedIs ==
  ASSUME NEW t, Good(t), NEW v, v = Refused(t)
  PROVE  Good(v) /\ v.bad /\ v.last = t.last
BY DEF Refused, Good, Line

(* Picks left as they are keep what was used.                              *)
LEMMA SamePicksKeep ==
  ASSUME NEW t, Good(t), NEW a, NEW v, v.picks = t.picks
  PROVE  KeepsUsed(v, t, a)
BY DEF KeepsUsed

(* One pick that changes alike.                                            *)
LEMMA OnePickKeeps ==
  ASSUME NEW t, Good(t), NEW a, NEW i \in 1..Len(t.picks), NEW q, NEW v, Replaced(v, t, i, q),
         \A j \in 1..Len(t.picks) : Ref(v.picks[j]) = Ref(t.picks[j]), Used(q),
         \/ ~Used(t.picks[i])
         \/ t.picks[i].player = NoPlayer /\ a.kind = "assign"
         \/ a.kind = "change" /\ a.replaces = t.picks[i].player
  PROVE  KeepsUsed(v, t, a)
<1> SUFFICES ASSUME NEW j \in 1..Len(t.picks), Used(t.picks[j])
             PROVE  /\ j \in 1..Len(v.picks) /\ Ref(v.picks[j]) = Ref(t.picks[j]) /\ Used(v.picks[j])
                    /\ \/ v.picks[j] = t.picks[j]
                       \/ t.picks[j].player = NoPlayer /\ a.kind = "assign"
                       \/ a.kind = "change" /\ a.replaces = t.picks[j].player
  BY DEF KeepsUsed
<1> QED BY DEF Replaced

LEMMA FillIs ==
  ASSUME NEW p \in Pick, NEW a, a.at \in Nat, a.player \in Players, NEW q, q = Fill(p, a)
  PROVE  /\ q \in Pick /\ Alike(q, p) /\ Used(q) /\ q.player = a.player /\ q.at = a.at /\ ~q.skipped
         /\ q.owner = p.owner
<1>1. a.player # NoPlayer
  BY EngineAssumption
<1> QED BY <1>1 DEF Fill, Pick, Alike, Used

LEMMA FirstIs ==
  ASSUME NEW t, Good(t), NEW ref, Find(t, ref) # {}
  PROVE  First(t, ref) \in 1..Len(t.picks) /\ Ref(t.picks[First(t, ref)]) = ref
<1>1. Find(t, ref) \subseteq Nat
  BY DEF Find
<1>2. First(t, ref) \in Find(t, ref)
  BY <1>1, MinIs DEF First
<1> QED BY <1>2 DEF Find

(* A pick that replaces one alike off the clock.                           *)
LEMMA AsidePick ==
  ASSUME NEW t, Good(t), NEW i \in 1..Len(t.picks), NEW q \in Pick, Alike(q, t.picks[i]),
         Used(q) <=> Used(t.picks[i]), NEW v, PickAt(v, t, i, q)
  PROVE  /\ Good(v) /\ Replaced(v, t, i, q) /\ SameTurn(v, t) /\ v.bad = t.bad /\ v.last = t.last
         /\ \A j \in 1..Len(t.picks) : Ref(v.picks[j]) = Ref(t.picks[j])
<1>1. t \in Line /\ Len(t.picks) \in Nat
  BY GoodIs
<1>2. /\ v \in Line /\ Len(v.picks) = Len(t.picks) /\ v.picks[i] = q
      /\ \A j \in 1..Len(t.picks) : j # i => v.picks[j] = t.picks[j]
      /\ v.cursor = t.cursor /\ v.deadline = t.deadline /\ v.paused = t.paused
      /\ v.remaining = t.remaining /\ v.last = t.last /\ v.bad = t.bad
  BY DEF PickAt
<1>3. Replaced(v, t, i, q)
  BY <1>2 DEF Replaced
<1>4. /\ Named(v.picks)
      /\ \A j \in 1..Len(t.picks) : TakesTurn(v.picks[j]) <=> TakesTurn(t.picks[j])
      /\ \A j \in 1..Len(t.picks) : Ref(v.picks[j]) = Ref(t.picks[j])
  <2>1. Named(t.picks)
    BY DEF Good
  <2> QED BY <1>1, <1>3, <2>1, AlikeIs
<1>5. Turns(v.picks, v.cursor)
  <2> SUFFICES ASSUME NEW j \in 1..Len(t.picks), TakesTurn(v.picks[j])
               PROVE Used(v.picks[j]) <=> j < t.cursor
    BY <1>2 DEF Turns
  <2>1. Used(t.picks[j]) <=> j < t.cursor
    BY <1>4 DEF Good, Turns
  <2> QED BY <1>2, <2>1
<1>6. InTurn(v.picks, v.cursor)
  <2>1. InTurn(t.picks, t.cursor)
    BY DEF Good
  <2> QED BY <1>1, <1>2, <1>4, <2>1 DEF InTurn
<1>7. Good(v)
  BY <1>2, <1>4, <1>5, <1>6 DEF Good
<1>8. SameTurn(v, t)
  <2>1. OnClock(t) => t.cursor \in 1..Len(t.picks)
    BY <1>1 DEF OnClock, Good, InTurn
  <2> QED BY <1>2, <1>4, <2>1 DEF SameTurn, OnClock
<1> QED BY <1>2, <1>3, <1>4, <1>7, <1>8

LEMMA ChooseIs ==
  ASSUME NEW t, Good(t), NEW a, IsAct(a), a.kind \in {"pick", "assign"}, NEW v, v = Choose(t, a)
  PROVE  /\ Good(v) /\ v.last = t.last
         /\ ~v.bad => /\ KeepsUsed(v, t, a) /\ OnClock(t)
                      /\ a.kind = "assign" /\ a.ref # Ref(t.picks[t.cursor]) => SameTurn(v, t)
<1> DEFINE i == First(t, a.ref)
           p == t.picks[i]
           q == Fill(p, a)
<1>1. CASE ~OnClock(t) \/ Find(t, a.ref) = {} \/ ~Undrafted(t, a.player)
  <2>1. v = Refused(t)
    BY <1>1 DEF Choose
  <2> QED BY <2>1, RefusedIs
<1>2. CASE OnClock(t) /\ Find(t, a.ref) # {} /\ Undrafted(t, a.player)
  <2>1. i \in 1..Len(t.picks) /\ Ref(p) = a.ref
    BY <1>2, FirstIs
  <2>2. p \in Pick
    BY <2>1, GoodIs
  <2>3. q \in Pick /\ Alike(q, p) /\ Used(q)
    BY <2>2, FillIs DEF IsAct, Givers
  <2>4. v = IF i = t.cursor
            THEN IF a.kind = "pick" /\ (t.paused \/ p.owner # a.owner) THEN Refused(t)
                 ELSE OpenNext([t EXCEPT !.picks[i] = q], a.at)
            ELSE IF a.kind = "assign" /\ Fillable(p) THEN [t EXCEPT !.picks[i] = q] ELSE Refused(t)
    BY <1>2 DEF Choose, FillSkipped
  <2>5. CASE v = Refused(t)
    BY <2>5, RefusedIs
  <2>6. CASE i = t.cursor /\ v # Refused(t)
    <3> DEFINE u == [t EXCEPT !.picks[t.cursor] = q]
    <3>1. v = OpenNext(u, a.at)
      BY <2>4, <2>6
    <3>2. Alike(q, t.picks[t.cursor]) /\ a.at \in Nat
      BY <2>3, <2>6 DEF IsAct
    <3>7. a.ref = Ref(t.picks[t.cursor])
      BY <2>1, <2>6
    <3> HIDE DEF q, p, i
    <3>8. PickAt(u, t, t.cursor, q)
      <4>1. t \in Line /\ t.cursor \in 1..Len(t.picks)
        BY <1>2, GoodIs DEF Good, InTurn, OnClock
      <4> QED BY <2>3, <4>1, PickReplaced
    <3> HIDE DEF u
    <3>3. /\ Good(v) /\ t.cursor \in 1..Len(t.picks) /\ Replaced(v, t, t.cursor, q)
          /\ \A j \in 1..Len(t.picks) : Ref(v.picks[j]) = Ref(t.picks[j])
          /\ v.last = t.last /\ v.bad = t.bad
      BY <1>2, <2>3, <3>1, <3>2, <3>8, TurnTaken
    <3>4. ~Used(t.picks[t.cursor])
      BY <1>2, <3>3 DEF Good, InTurn, Turns, OnClock
    <3>5. KeepsUsed(v, t, a)
      BY <2>3, <3>3, <3>4, OnePickKeeps
    <3> QED BY <1>2, <3>3, <3>5, <3>7
  <2>7. CASE i # t.cursor /\ v # Refused(t)
    <3>1. v = [t EXCEPT !.picks[i] = q] /\ a.kind = "assign" /\ Fillable(p)
      BY <2>4, <2>7
    <3>2. Used(p) /\ p.player = NoPlayer
      BY <3>1 DEF Fillable, Used
    <3>3. /\ Good(v) /\ Replaced(v, t, i, q) /\ SameTurn(v, t) /\ v.last = t.last
          /\ \A j \in 1..Len(t.picks) : Ref(v.picks[j]) = Ref(t.picks[j])
      <4>1. Alike(q, t.picks[i]) /\ (Used(q) <=> Used(t.picks[i]))
        BY <2>3, <3>2
      <4> HIDE DEF q, p, i
      <4>2. PickAt(v, t, i, q)
        <5>1. t \in Line
          BY GoodIs
        <5> QED BY <2>1, <2>3, <3>1, <5>1, PickReplaced
      <4> QED BY <2>1, <2>3, <4>1, <4>2, AsidePick
    <3>4. KeepsUsed(v, t, a)
      <4> HIDE DEF q, i
      <4> QED BY <2>1, <2>3, <3>1, <3>2, <3>3, OnePickKeeps
    <3> QED BY <1>2, <3>3, <3>4
  <2> QED BY <2>5, <2>6, <2>7
<1> QED BY <1>1, <1>2

LEMMA SkipIs ==
  ASSUME NEW t, Good(t), NEW a, IsAct(a), NEW v, v = Skip(t, a)
  PROVE  Good(v) /\ v.last = t.last /\ (~v.bad => KeepsUsed(v, t, a))
<1>1. CASE ~(OnClock(t) /\ t.cursor \in Find(t, a.ref))
  <2>1. v = Refused(t)
    BY <1>1 DEF Skip
  <2> QED BY <2>1, RefusedIs
<1>2. CASE OnClock(t) /\ t.cursor \in Find(t, a.ref)
  <2>1. v = SkipTurn(t, a.at) /\ a.at \in Nat
    BY <1>2 DEF Skip, IsAct
  <2> DEFINE q == Skipped(t.picks[t.cursor], a.at)
  <2>2. /\ Good(v) /\ t.cursor \in 1..Len(t.picks) /\ Replaced(v, t, t.cursor, q)
        /\ \A j \in 1..Len(t.picks) : Ref(v.picks[j]) = Ref(t.picks[j])
        /\ v.last = t.last
    BY <1>2, <2>1, SkipTurnIs
  <2>3. t.picks[t.cursor] \in Pick
    BY <2>2, GoodIs
  <2>4. Used(q)
    BY <2>1, <2>3, SkippedIs
  <2> HIDE DEF q
  <2>5. ~Used(t.picks[t.cursor])
    BY <1>2, <2>2 DEF Good, InTurn, Turns, OnClock
  <2> QED BY <2>2, <2>4, <2>5, OnePickKeeps
<1> QED BY <1>1, <1>2

LEMMA InsertedAt ==
  ASSUME NEW X, NEW s \in Seq(X), NEW i \in 1..(Len(s) + 1), NEW e \in X
  PROVE  /\ InsertAt(s, i, e) \in Seq(X) /\ Len(InsertAt(s, i, e)) = Len(s) + 1 /\ InsertAt(s, i, e)[i] = e
         /\ \A j \in 1..(i - 1) : InsertAt(s, i, e)[j] = s[j]
         /\ \A j \in i..Len(s) : InsertAt(s, i, e)[j + 1] = s[j]
<1> DEFINE l == SubSeq(s, 1, i - 1)
           r == SubSeq(s, i, Len(s))
           m == l \o <<e>>
<1>1. Len(s) \in Nat /\ i \in Nat
  OBVIOUS
<1>2. l \in Seq(X) /\ Len(l) = i - 1 /\ \A j \in 1..(i - 1) : l[j] = s[j]
  BY <1>1
<1>3. r \in Seq(X) /\ Len(r) = Len(s) + 1 - i /\ \A j \in 1..(Len(s) + 1 - i) : r[j] = s[i + j - 1]
  BY <1>1
<1>4. InsertAt(s, i, e) = m \o r
  BY DEF InsertAt
<1> HIDE DEF l, r
<1>5. m \in Seq(X) /\ Len(m) = i /\ m[i] = e /\ \A j \in 1..(i - 1) : m[j] = l[j]
  BY <1>1, <1>2
<1> HIDE DEF m
<1> DEFINE v == m \o r
<1>6. /\ v \in Seq(X) /\ Len(v) = Len(s) + 1 /\ \A j \in 1..i : v[j] = m[j]
      /\ \A j \in (i + 1)..(Len(s) + 1) : v[j] = r[j - i]
  <2>1. v \in Seq(X) /\ Len(v) = Len(m) + Len(r)
    BY <1>3, <1>5, ConcatProperties
  <2>2. \A j \in 1..(Len(m) + Len(r)) : v[j] = IF j <= Len(m) THEN m[j] ELSE r[j - Len(m)]
    BY <1>3, <1>5, ConcatProperties
  <2> HIDE DEF v
  <2> QED BY <1>1, <1>3, <1>5, <2>1, <2>2
<1>7. ASSUME NEW j \in i..Len(s) PROVE v[j + 1] = s[j]
  <2>1. j + 1 \in (i + 1)..(Len(s) + 1) /\ (j + 1) - i \in 1..(Len(s) + 1 - i)
        /\ i + ((j + 1) - i) - 1 = j
    BY <1>1
  <2> HIDE DEF v
  <2> QED BY <1>3, <1>6, <2>1
<1>8. v[i] = e /\ \A j \in 1..(i - 1) : v[j] = s[j]
  BY <1>1, <1>2, <1>5, <1>6
<1> QED BY <1>4, <1>6, <1>7, <1>8

LEMMA InsertIs ==
  ASSUME NEW t, Good(t), NEW a, IsAct(a), a.kind = "insert", NEW v, v = Insert(t, a)
  PROVE  /\ Good(v) /\ v.last = t.last
         /\ ~v.bad => KeepsUsed(v, t, a) /\ SameTurn(v, t)
<1> DEFINE after == First(t, a.ref)
           base == t.picks[after]
           there(j) == /\ t.picks[j].extra > 0
                       /\ t.picks[j].round = base.round /\ t.picks[j].original = base.original
           n == Len(t.picks)
           places == {j \in (after + 1)..(n + 1) : j > n \/ ~there(j)}
           at == Min(places)
           added == [Fill(base, a) EXCEPT !.extra = at - after, !.owner = a.owner, !.forfeited = FALSE]
           c == t.cursor
<1>1. CASE \/ Find(t, a.ref) = {} \/ ~Undrafted(t, a.player)
           \/ \A i \in 1..Len(t.picks) : t.picks[i].owner # a.owner
  <2>1. v = Refused(t)
    BY <1>1 DEF Insert
  <2> QED BY <2>1, RefusedIs
<1>2. CASE ~(\/ Find(t, a.ref) = {} \/ ~Undrafted(t, a.player)
             \/ \A i \in 1..Len(t.picks) : t.picks[i].owner # a.owner)
  <2>1. v = [t EXCEPT !.picks = InsertAt(t.picks, at, added), !.cursor = Pushed(c, at)]
    BY <1>2 DEF Insert
  <2>2. after \in 1..n /\ n \in Nat /\ c \in Nat /\ t \in Line /\ t.picks \in Seq(Pick)
    BY <1>2, FirstIs, GoodIs
  <2>3. at \in (after + 1)..(n + 1)
    <3>1. n + 1 \in places /\ places \subseteq Nat
      BY <2>2
    <3>2. at \in places
      <4> HIDE DEF places
      <4> QED BY <3>1, MinIs
    <3> HIDE DEF at
    <3> QED BY <3>2
  <2> HIDE DEF at
  <2>4. added \in Pick /\ Used(added) /\ added.extra > 0
    <3>1. base \in Pick
      BY <2>2, GoodIs
    <3>2. a.owner \in Franchises
      BY <1>2, GoodIs
    <3> DEFINE q == Fill(base, a)
    <3>3. q \in Pick /\ Used(q)
      BY <3>1, FillIs DEF IsAct, Givers
    <3> HIDE DEF q
    <3>4. PICK d \in Nat : d = at - after /\ d > 0
      BY <2>2, <2>3
    <3>5. added = [q EXCEPT !.extra = d, !.owner = a.owner, !.forfeited = FALSE]
      BY <3>4 DEF q
    <3> HIDE DEF added
    <3>6. added \in Pick /\ added.extra = d /\ added.player = q.player /\ added.skipped = q.skipped
      BY <3>2, <3>3, <3>4, <3>5 DEF Pick
    <3> QED BY <3>3, <3>4, <3>6 DEF Used
  <2> HIDE DEF added, base, after
  <2>5. at \in 1..(n + 1)
    BY <2>2, <2>3
  <2> DEFINE p == InsertAt(t.picks, at, added)
             d == Pushed(c, at)
  <2>6. /\ p \in Seq(Pick) /\ Len(p) = n + 1 /\ p[at] = added
        /\ \A j \in 1..(at - 1) : p[j] = t.picks[j]
        /\ \A j \in at..n : p[j + 1] = t.picks[j]
    BY <2>2, <2>4, <2>5, InsertedAt
  <2>7. d = IF at <= c THEN c + 1 ELSE c
    BY DEF Pushed
  <2> HIDE DEF p, d
  <2>8. /\ v \in Line /\ v.picks = p /\ v.cursor = d /\ v.deadline = t.deadline /\ v.paused = t.paused
        /\ v.remaining = t.remaining /\ v.last = t.last /\ v.bad = t.bad
    <3>1. d \in Nat
      BY <2>2, <2>5, <2>7
    <3>2. v = [t EXCEPT !.picks = p, !.cursor = d]
      BY <2>1 DEF p, d
    <3> QED BY <2>2, <2>6, <3>1, <3>2 DEF Line
  <2>9. ~TakesTurn(added)
    BY <2>4 DEF TakesTurn
  <2>10. ASSUME NEW i \in 1..(n + 1), i # at
         PROVE \E j \in 1..n : /\ p[i] = t.picks[j] /\ (i < d <=> j < c) /\ (i = d <=> j = c)
                               /\ i = IF j < at THEN j ELSE j + 1
    <3>1. CASE i < at
      <4>1. i \in 1..n /\ p[i] = t.picks[i]
        BY <2>5, <2>6, <3>1
      <4> QED BY <2>2, <2>5, <2>7, <3>1, <4>1
    <3>2. CASE i > at
      <4>1. i - 1 \in 1..n /\ i - 1 \in at..n /\ (i - 1) + 1 = i
        BY <2>2, <2>5, <3>2
      <4>2. p[i] = t.picks[i - 1]
        BY <2>6, <4>1
      <4>3. (i < d <=> i - 1 < c) /\ (i = d <=> i - 1 = c) /\ ~(i - 1 < at)
        BY <2>2, <2>5, <2>7, <3>2
      <4> QED BY <4>1, <4>2, <4>3
    <3> QED BY <2>2, <2>5, <2>10, <3>1, <3>2
  <2>11. Turns(v.picks, v.cursor)
    <3> SUFFICES ASSUME NEW i \in 1..(n + 1), TakesTurn(p[i]) PROVE Used(p[i]) <=> i < d
      BY <2>6, <2>8 DEF Turns
    <3>1. i # at
      BY <2>6, <2>9
    <3>2. PICK j \in 1..n : p[i] = t.picks[j] /\ (i < d <=> j < c)
      BY <2>10, <3>1
    <3> QED BY <3>2 DEF Good, Turns
  <2>12. c \in 1..(n + 1) /\ (c <= n => TakesTurn(t.picks[c]))
    BY DEF Good, InTurn
  <2>13. d \in 1..(n + 2) /\ d # at /\ (d <= n + 1 <=> c <= n)
    BY <2>2, <2>5, <2>7, <2>12
  <2>14. c <= n => p[d] = t.picks[c]
    <3> SUFFICES ASSUME c <= n PROVE p[d] = t.picks[c]
      OBVIOUS
    <3>1. d \in 1..(n + 1) /\ d # at
      BY <2>2, <2>13
    <3>2. PICK j \in 1..n : p[d] = t.picks[j] /\ (d = d <=> j = c)
      BY <2>10, <3>1
    <3> QED BY <3>2
  <2>15. InTurn(v.picks, v.cursor)
    BY <2>2, <2>6, <2>8, <2>12, <2>13, <2>14 DEF InTurn
  <2>16. Named(v.picks)
    <3> SUFFICES ASSUME NEW i \in 1..(n + 1), NEW j \in 1..(n + 1), p[i].extra = 0, p[j].extra = 0,
                        p[i].round = p[j].round, p[i].original = p[j].original
                 PROVE i = j
      <4>1. SUFFICES Named(p)
        BY <2>8
      <4> QED BY <2>6 DEF Named
    <3>1. i # at /\ j # at
      BY <2>4, <2>6
    <3>2. PICK k \in 1..n : p[i] = t.picks[k] /\ i = IF k < at THEN k ELSE k + 1
      BY <2>10, <3>1
    <3>3. PICK l \in 1..n : p[j] = t.picks[l] /\ j = IF l < at THEN l ELSE l + 1
      BY <2>10, <3>1
    <3>4. k = l
      BY <3>2, <3>3 DEF Good, Named
    <3> QED BY <3>2, <3>3, <3>4
  <2>17. Good(v)
    BY <2>8, <2>11, <2>15, <2>16 DEF Good
  <2>18. KeepsUsed(v, t, a)
    <3> SUFFICES ASSUME NEW j \in 1..n, Used(t.picks[j]) PROVE \E i \in 1..(n + 1) : p[i] = t.picks[j]
      BY <2>6, <2>8 DEF KeepsUsed
    <3>1. CASE j < at
      <4>1. j \in 1..(at - 1) /\ j \in 1..(n + 1)
        BY <2>2, <2>5, <3>1
      <4> QED BY <2>6, <4>1
    <3>2. CASE j >= at
      <4>1. j \in at..n /\ j + 1 \in 1..(n + 1)
        BY <2>2, <2>5, <3>2
      <4> QED BY <2>6, <4>1
    <3> QED BY <2>2, <2>5, <3>1, <3>2
  <2>19. SameTurn(v, t)
    BY <2>6, <2>8, <2>13, <2>14 DEF SameTurn, OnClock
  <2> QED BY <2>8, <2>17, <2>18, <2>19
<1> QED BY <1>1, <1>2

LEMMA ChangeIs ==
  ASSUME NEW t, Good(t), NEW a, IsAct(a), a.kind = "change", NEW v, v = Change(t, a)
  PROVE  /\ Good(v) /\ v.last = t.last
         /\ ~v.bad => KeepsUsed(v, t, a) /\ SameTurn(v, t)
<1> DEFINE i == First(t, a.ref)
           p == t.picks[i]
<1>1. CASE Find(t, a.ref) = {} \/ p.player = NoPlayer \/ p.player # a.replaces \/ ~Undrafted(t, a.player)
  <2>1. v = Refused(t)
    BY <1>1 DEF Change
  <2> QED BY <2>1, RefusedIs
<1>2. CASE ~(Find(t, a.ref) = {} \/ p.player = NoPlayer \/ p.player # a.replaces \/ ~Undrafted(t, a.player))
  <2>1. v = [t EXCEPT !.picks[i].player = a.player]
    BY <1>2 DEF Change
  <2>2. i \in 1..Len(t.picks) /\ t \in Line
    BY <1>2, FirstIs, GoodIs
  <2>3. p \in Pick /\ p.player = a.replaces /\ p.player # NoPlayer
    BY <1>2, <2>2, GoodIs
  <2> DEFINE q == [p EXCEPT !.player = a.player]
  <2>4. a.player \in Players /\ a.player # NoPlayer
    BY EngineAssumption DEF IsAct, Givers
  <2>5. q \in Pick /\ Alike(q, p) /\ Used(q)
    BY <2>3, <2>4 DEF Pick, Alike, Used
  <2>6. v = [t EXCEPT !.picks[i] = q]
    BY <2>1
  <2>7. Alike(q, t.picks[i]) /\ Used(q) /\ Used(t.picks[i]) /\ t.picks[i].player = a.replaces
    BY <2>3, <2>5 DEF Used
  <2> HIDE DEF q, p, i
  <2>8. PickAt(v, t, i, q)
    BY <2>2, <2>5, <2>6, PickReplaced
  <2>9. /\ Good(v) /\ Replaced(v, t, i, q) /\ SameTurn(v, t) /\ v.last = t.last
        /\ \A j \in 1..Len(t.picks) : Ref(v.picks[j]) = Ref(t.picks[j])
    BY <2>2, <2>5, <2>7, <2>8, AsidePick
  <2>10. KeepsUsed(v, t, a)
    BY <2>2, <2>7, <2>9, OnePickKeeps
  <2> QED BY <2>9, <2>10
<1> QED BY <1>1, <1>2

LEMMA SealIs ==
  ASSUME NEW t, Good(t), NEW a, IsAct(a), NEW v, v = Seal(t, a.at)
  PROVE  Good(v) /\ v.last = t.last /\ v.bad = t.bad /\ KeepsUsed(v, t, a)
<1> DEFINE n == Len(t.picks)
           p == [i \in 1..n |-> IF i >= t.cursor /\ TakesTurn(t.picks[i])
                                THEN Skipped(t.picks[i], a.at) ELSE t.picks[i]]
           c == n + 1
<1>1. v = [t EXCEPT !.cursor = c, !.picks = p]
  BY DEF Seal
<1>2. n \in Nat /\ t \in Line /\ t.cursor \in Nat /\ a.at \in Nat
  BY GoodIs DEF IsAct
<1>3. ASSUME NEW i \in 1..n
      PROVE  /\ p[i] \in Pick /\ Alike(p[i], t.picks[i])
             /\ i >= t.cursor /\ TakesTurn(t.picks[i]) => Used(p[i])
             /\ ~(i >= t.cursor /\ TakesTurn(t.picks[i])) => p[i] = t.picks[i]
  <2>1. t.picks[i] \in Pick
    BY GoodIs
  <2>2. CASE i >= t.cursor /\ TakesTurn(t.picks[i])
    <3>1. p[i] = Skipped(t.picks[i], a.at)
      BY <2>2
    <3> HIDE DEF p
    <3> QED BY <1>2, <2>1, <2>2, <3>1, SkippedIs
  <2>3. CASE ~(i >= t.cursor /\ TakesTurn(t.picks[i]))
    <3>1. p[i] = t.picks[i]
      BY <2>3
    <3> HIDE DEF p
    <3> QED BY <2>1, <2>3, <3>1 DEF Alike
  <2> QED BY <2>2, <2>3
<1>4. p \in Seq(Pick) /\ Len(p) = n
  <2>1. p \in [1..n -> Pick]
    BY <1>3
  <2> QED BY <1>2, <2>1
<1> HIDE DEF p
<1>5. /\ v \in Line /\ v.picks = p /\ v.cursor = c /\ v.last = t.last /\ v.bad = t.bad
  <2>1. PICK m \in Nat : m = c
    BY <1>2
  <2>2. v = [t EXCEPT !.cursor = m, !.picks = p]
    BY <1>1, <2>1
  <2> HIDE DEF c
  <2> QED BY <1>2, <1>4, <2>1, <2>2 DEF Line
<1>6. ASSUME NEW i \in 1..n
      PROVE (TakesTurn(p[i]) <=> TakesTurn(t.picks[i])) /\ Ref(p[i]) = Ref(t.picks[i])
  BY <1>3 DEF Alike, TakesTurn, Ref
<1>7. Turns(p, c)
  <2> SUFFICES ASSUME NEW i \in 1..n, TakesTurn(p[i]) PROVE Used(p[i])
    BY <1>2, <1>4 DEF Turns
  <2>1. TakesTurn(t.picks[i])
    BY <1>6
  <2>2. CASE i >= t.cursor
    BY <1>3, <2>1, <2>2
  <2>3. CASE i < t.cursor
    <3>1. Used(t.picks[i])
      BY <2>1, <2>3 DEF Good, Turns
    <3>2. p[i] = t.picks[i]
      BY <1>2, <1>3, <2>3
    <3> QED BY <3>1, <3>2
  <2> QED BY <1>2, <2>2, <2>3
<1>8. InTurn(p, c)
  BY <1>2, <1>4 DEF InTurn
<1>9. Named(p)
  BY <1>3, <1>4 DEF Named, Alike, Good
<1>10. Good(v)
  BY <1>5, <1>7, <1>8, <1>9 DEF Good
<1>11. KeepsUsed(v, t, a)
  <2> SUFFICES ASSUME NEW i \in 1..n, Used(t.picks[i]) PROVE p[i] = t.picks[i]
    BY <1>4, <1>5 DEF KeepsUsed
  <2>1. TakesTurn(t.picks[i]) => i < t.cursor
    BY DEF Good, Turns
  <2> QED BY <1>2, <1>3, <2>1
<1> QED BY <1>5, <1>10, <1>11

(* Acts on the clock alone leave the picks and the cursor.                 *)
LEMMA ClockOnly ==
  ASSUME NEW t, Good(t), NEW v \in Line, v.picks = t.picks, v.cursor = t.cursor
  PROVE  Good(v)
BY DEF Good

LEMMA PauseIs ==
  ASSUME NEW t, Good(t), NEW a, IsAct(a), NEW v, v = Pause(t, a)
  PROVE  Good(v) /\ v.last = t.last /\ (~v.bad => KeepsUsed(v, t, a))
<1>1. t \in Line /\ t.deadline \in Nat /\ a.at \in Nat
  BY GoodIs DEF IsAct
<1>2. CASE OnClock(t) /\ ~t.paused
  <2>1. PICK r \in Nat : r = Larger(0, t.deadline - a.at)
    BY <1>1 DEF Larger
  <2>2. v = [t EXCEPT !.paused = TRUE, !.remaining = r]
    BY <1>2, <2>1 DEF Pause
  <2>3. v \in Line /\ v.picks = t.picks /\ v.cursor = t.cursor /\ v.last = t.last
    BY <1>1, <2>1, <2>2 DEF Line
  <2> QED BY <2>3, ClockOnly, SamePicksKeep
<1>3. CASE ~(OnClock(t) /\ ~t.paused)
  <2>1. v = Refused(t)
    BY <1>3 DEF Pause
  <2> QED BY <2>1, RefusedIs
<1> QED BY <1>2, <1>3

LEMMA ResumeIs ==
  ASSUME NEW t, Good(t), NEW a, IsAct(a), NEW v, v = Resume(t, a)
  PROVE  Good(v) /\ v.last = t.last /\ (~v.bad => KeepsUsed(v, t, a))
<1>1. t \in Line /\ t.remaining \in Nat /\ a.at \in Nat
  BY GoodIs DEF IsAct
<1>2. CASE OnClock(t) /\ t.paused
  <2>1. PICK d \in Nat : d = a.at + t.remaining
    BY <1>1
  <2>2. v = [t EXCEPT !.paused = FALSE, !.deadline = d]
    BY <1>2, <2>1 DEF Resume
  <2>3. v \in Line /\ v.picks = t.picks /\ v.cursor = t.cursor /\ v.last = t.last
    BY <1>1, <2>1, <2>2 DEF Line
  <2> QED BY <2>3, ClockOnly, SamePicksKeep
<1>3. CASE ~(OnClock(t) /\ t.paused)
  <2>1. v = Refused(t)
    BY <1>3 DEF Resume
  <2> QED BY <2>1, RefusedIs
<1> QED BY <1>2, <1>3

LEMMA SetClockIs ==
  ASSUME NEW t, Good(t), NEW a, IsAct(a), NEW v, v = SetClock(t, a)
  PROVE  Good(v) /\ v.last = t.last /\ (~v.bad => KeepsUsed(v, t, a))
<1>1. t \in Line /\ a.at \in Nat /\ a.duration \in Nat
  BY GoodIs DEF IsAct
<1>2. CASE ~OnClock(t)
  <2>1. v = Refused(t)
    BY <1>2 DEF SetClock
  <2> QED BY <2>1, RefusedIs
<1>3. CASE OnClock(t) /\ t.paused
  <2>1. PICK d \in Nat : d = a.duration
    BY <1>1
  <2>2. v = [t EXCEPT !.remaining = d]
    BY <1>3, <2>1 DEF SetClock
  <2>3. v \in Line /\ v.picks = t.picks /\ v.cursor = t.cursor /\ v.last = t.last
    BY <1>1, <2>1, <2>2 DEF Line
  <2> QED BY <2>3, ClockOnly, SamePicksKeep
<1>4. CASE OnClock(t) /\ ~t.paused
  <2>1. PICK d \in Nat : d = a.at + a.duration
    BY <1>1
  <2>2. v = [t EXCEPT !.deadline = d]
    BY <1>4, <2>1 DEF SetClock
  <2>3. v \in Line /\ v.picks = t.picks /\ v.cursor = t.cursor /\ v.last = t.last
    BY <1>1, <2>1, <2>2 DEF Line
  <2> QED BY <2>3, ClockOnly, SamePicksKeep
<1> QED BY <1>2, <1>3, <1>4

LEMMA RestartIs ==
  ASSUME NEW t, Good(t), NEW a, IsAct(a), NEW v, v = Restart(t, a)
  PROVE  /\ Good(v) /\ v.last = t.last /\ v.bad = t.bad /\ KeepsUsed(v, t, a)
         /\ v.picks = t.picks /\ v.cursor = t.cursor /\ ~v.paused /\ v.deadline = a.at + Clock
<1>1. t \in Line /\ a.at \in Nat /\ Settle(t) = t
  BY GoodIs, Settled DEF IsAct, Good
<1>2. PICK clock \in Nat : clock = Clock
  BY EngineAssumption
<1>3. PICK d \in Nat : d = a.at + clock
  BY <1>1
<1>4. v = [t EXCEPT !.deadline = d, !.paused = FALSE, !.remaining = clock]
  BY <1>1, <1>2, <1>3 DEF Restart
<1>5. /\ v \in Line /\ v.picks = t.picks /\ v.cursor = t.cursor /\ v.last = t.last /\ v.bad = t.bad
      /\ ~v.paused /\ v.deadline = d
  BY <1>1, <1>2, <1>3, <1>4 DEF Line
<1> QED BY <1>2, <1>3, <1>5, ClockOnly, SamePicksKeep

(* An act on a draft, once its clocks have run.                            *)
Done(s, a) ==
  CASE a.kind \in {"pick", "assign"} -> Choose(s, a)
    [] a.kind = "skip"               -> Skip(s, a)
    [] a.kind = "insert"             -> Insert(s, a)
    [] a.kind = "change"             -> Change(s, a)
    [] a.kind = "pause"              -> Pause(s, a)
    [] a.kind = "resume"             -> Resume(s, a)
    [] a.kind = "set"                -> SetClock(s, a)
    [] a.kind = "archive"            -> Seal(s, a.at)
    [] a.kind = "restore"            -> Restart(s, a)

Stamped(t, a) == [Advance(t, AdvancedTo(a)) EXCEPT !.last = a.at]

LEMMA DoneIs ==
  ASSUME NEW s, Good(s), NEW a, IsAct(a), NEW v, v = Done(s, a)
  PROVE  Good(v) /\ v.last = s.last /\ (~v.bad => KeepsUsed(v, s, a))
<1>1. CASE a.kind \in {"pick", "assign"}
  BY <1>1, ChooseIs DEF Done
<1>2. CASE a.kind = "skip"
  BY <1>2, SkipIs DEF Done
<1>3. CASE a.kind = "insert"
  BY <1>3, InsertIs DEF Done
<1>4. CASE a.kind = "change"
  BY <1>4, ChangeIs DEF Done
<1>5. CASE a.kind = "pause"
  BY <1>5, PauseIs DEF Done
<1>6. CASE a.kind = "resume"
  BY <1>6, ResumeIs DEF Done
<1>7. CASE a.kind = "set"
  BY <1>7, SetClockIs DEF Done
<1>8. CASE a.kind = "archive"
  BY <1>8, SealIs DEF Done
<1>9. CASE a.kind = "restore"
  BY <1>9, RestartIs DEF Done
<1> QED BY <1>1, <1>2, <1>3, <1>4, <1>5, <1>6, <1>7, <1>8, <1>9 DEF IsAct, LiveKinds

LEMMA StampedIs ==
  ASSUME NEW t, Good(t), NEW a, IsAct(a), NEW A, A = Advance(t, AdvancedTo(a)), NEW s, s = Stamped(t, a)
  PROVE  /\ Good(s) /\ Good(A) /\ s.last = a.at
         /\ s.picks = A.picks /\ s.cursor = A.cursor /\ s.deadline = A.deadline /\ s.paused = A.paused
         /\ s.remaining = A.remaining /\ s.bad = t.bad
<1>1. AdvancedTo(a) \in Nat /\ a.at \in Nat
  BY DEF IsAct, AdvancedTo
<1>2. Good(A) /\ A.bad = t.bad
  BY <1>1, AdvanceIs DEF Later
<1>3. PICK m \in Nat : m = a.at
  BY <1>1
<1>4. s = [A EXCEPT !.last = m]
  BY <1>3 DEF Stamped
<1>5. A \in Line
  BY <1>2, GoodIs
<1>6. /\ s \in Line /\ s.last = m /\ s.picks = A.picks /\ s.cursor = A.cursor /\ s.deadline = A.deadline
      /\ s.paused = A.paused /\ s.remaining = A.remaining /\ s.bad = A.bad
  BY <1>4, <1>5 DEF Line
<1>7. Good(s)
  BY <1>2, <1>6, ClockOnly
<1> QED BY <1>2, <1>3, <1>6, <1>7

LEMMA ApplyIs ==
  ASSUME NEW t, Good(t), NEW a, IsAct(a), NEW v, v = Apply(t, a)
  PROVE  /\ Good(v)
         /\ t.bad \/ a.at < t.last => v.bad /\ v.last = t.last
         /\ ~(t.bad \/ a.at < t.last) => v = Done(Stamped(t, a), a) /\ v.last = a.at
<1> DEFINE s == Stamped(t, a)
<1>1. CASE t.bad \/ a.at < t.last
  <2>1. v = Refused(t)
    BY <1>1 DEF Apply
  <2> QED BY <1>1, <2>1, RefusedIs
<1>2. CASE ~(t.bad \/ a.at < t.last)
  <2>1. v = Done(s, a)
    BY <1>2 DEF Apply, Done, Stamped
  <2>2. Good(s) /\ s.last = a.at
    BY StampedIs
  <2> HIDE DEF s
  <2>3. Good(v) /\ v.last = a.at
    BY <2>1, <2>2, DoneIs
  <2> QED BY <1>2, <2>1, <2>3 DEF s
<1> QED BY <1>1, <1>2

-----------------------------------------------------------------------------
(* A draft begins good.                                                    *)
LEMMA OrderIs ==
  ASSUME NEW first \in Orders
  PROVE  /\ first \in Seq(Franchises) /\ Len(first) \in Nat
         /\ \A i, j \in 1..Len(first) : first[i] = first[j] => i = j
<1> DEFINE n == Len(first)
<1>1. first \in Seq(Franchises) /\ n \in Nat /\ n = Cardinality(Franchises) /\ {first[i] : i \in 1..n} = Franchises
  <2>1. first \in Seq(Franchises) /\ n = Cardinality(Franchises) /\ {first[i] : i \in 1..n} = Franchises
    BY DraftAssumption
  <2> QED BY <2>1
<1>2. first \in Surjection(1..n, Franchises)
  BY <1>1 DEF Surjection
<1>3. IsFiniteSet(1..n) /\ Cardinality(1..n) = n
  <2>1. 1 <= n => Cardinality(1..n) = n - 1 + 1
    BY <1>1, FS_Interval
  <2>2. 1 > n => Cardinality(1..n) = 0
    BY <1>1, FS_Interval
  <2>3. IsFiniteSet(1..n)
    BY <1>1, FS_Interval
  <2> QED BY <1>1, <2>1, <2>2, <2>3
<1>4. first \in Injection(1..n, Franchises)
  BY <1>1, <1>2, <1>3, FS_SurjSameCardinalityImpliesInj
<1> QED BY <1>1, <1>4 DEF Injection, IsInjective

LEMMA RoundTeamsIs ==
  ASSUME NEW first \in Orders, NEW r \in Nat
  PROVE  \A i, j \in 1..Len(first) :
           /\ RoundTeams(first, r)[i] \in Franchises
           /\ RoundTeams(first, r)[i] = RoundTeams(first, r)[j] => i = j
<1> DEFINE n == Len(first)
<1>1. /\ first \in Seq(Franchises) /\ n \in Nat
      /\ \A i, j \in 1..n : first[i] = first[j] => i = j
  BY OrderIs
<1>2. CASE RoundTeams(first, r) = first
  BY <1>1, <1>2
<1>3. CASE RoundTeams(first, r) = Reverse(first)
  <2>1. ASSUME NEW i \in 1..n
        PROVE (n - i) + 1 \in 1..n /\ RoundTeams(first, r)[i] = first[(n - i) + 1]
    BY <1>1, <1>3 DEF Reverse
  <2> QED BY <1>1, <2>1
<1> QED BY <1>2, <1>3 DEF RoundTeams

LEMMA DivIs ==
  ASSUME NEW n \in Nat \ {0}, NEW r \in Nat, NEW i \in 1..(n * r)
  PROVE  /\ ((i - 1) \div n) + 1 \in 1..r /\ ((i - 1) % n) + 1 \in 1..n
         /\ i = n * ((i - 1) \div n) + ((i - 1) % n) + 1
OBVIOUS

LEMMA PreparedIs ==
  ASSUME NEW first \in Orders, NEW p, p = PreparedPicks(first)
  PROVE  /\ p \in Seq(Pick) /\ Named(p)
         /\ \A i \in 1..Len(p) : ~Used(p[i])
<1> DEFINE n == Len(first)
           round(i) == ((i - 1) \div n) + 1
           slot(i) == ((i - 1) % n) + 1
           team(i) == RoundTeams(first, round(i))[slot(i)]
           m == n * Rounds
<1>1. n \in Nat /\ Rounds \in Nat \ {0} /\ m \in Nat /\ NoPlayer \notin Players
  BY OrderIs, EngineAssumption
<1>2. ASSUME NEW i \in 1..m
      PROVE  /\ round(i) \in 1..Rounds /\ slot(i) \in 1..n /\ team(i) \in Franchises
             /\ Owner[round(i)][team(i)] \in Franchises
             /\ i = n * (round(i) - 1) + slot(i)
  <2>1. n \in Nat \ {0}
    BY <1>1
  <2>2. PICK R \in Nat : R = Rounds
    BY <1>1
  <2>3. round(i) \in 1..Rounds /\ slot(i) \in 1..n /\ i = n * ((i - 1) \div n) + ((i - 1) % n) + 1
    BY <2>1, <2>2, DivIs
  <2>4. (i - 1) \div n \in Int /\ (i - 1) % n \in Int
    BY <2>1
  <2>5. i = n * (round(i) - 1) + slot(i)
    BY <2>1, <2>3, <2>4
  <2> HIDE DEF round, slot
  <2>6. team(i) \in Franchises
    BY <2>3, RoundTeamsIs
  <2> HIDE DEF team
  <2> QED BY <2>3, <2>5, <2>6, EngineAssumption
<1>3. ASSUME NEW i \in 1..m, NEW j \in 1..m, round(i) = round(j), team(i) = team(j) PROVE i = j
  <2>1. slot(i) \in 1..n /\ slot(j) \in 1..n /\ round(i) \in Nat
    BY <1>2
  <2> HIDE DEF round, slot
  <2>2. slot(i) = slot(j)
    BY <1>3, <2>1, RoundTeamsIs
  <2> QED BY <1>2, <1>3, <2>2
<1>4. ASSUME NEW i \in 1..m
      PROVE  /\ i \in DOMAIN p /\ p[i] \in Pick /\ p[i].round = round(i) /\ p[i].original = team(i)
             /\ p[i].player = NoPlayer /\ p[i].skipped = FALSE
  <2> DEFINE owner(j) == Owner[round(j)][team(j)]
             held == Cardinality({j \in 1..i : owner(j) = owner(i)})
  <2>1. p[i] = [round |-> round(i), original |-> team(i), extra |-> 0, owner |-> owner(i),
                forfeited |-> held > MaximumPicks, player |-> NoPlayer, skipped |-> FALSE, at |-> 0]
        /\ i \in DOMAIN p
    BY DEF PreparedPicks
  <2>2. round(i) \in Nat /\ team(i) \in Franchises /\ owner(i) \in Franchises
    BY <1>2
  <2>3. (held > MaximumPicks) \in BOOLEAN
    OBVIOUS
  <2>4. NoPlayer \in Players \cup {NoPlayer}
    OBVIOUS
  <2> HIDE DEF round, team, owner, held
  <2> QED BY <2>1, <2>2, <2>3, <2>4 DEF Pick
<1>5. p = [i \in 1..m |-> p[i]]
  BY DEF PreparedPicks
<1> HIDE DEF round, team, m
<1>6. p \in Seq(Pick) /\ Len(p) = m
  <2>1. p \in [1..m -> Pick]
    <3>1. \A i \in 1..m : p[i] \in Pick
      BY <1>4
    <3> QED BY <1>5, <3>1
  <2> QED BY <1>1, <2>1
<1>7. Named(p)
  <2> SUFFICES ASSUME NEW i \in 1..m, NEW j \in 1..m, p[i].round = p[j].round, p[i].original = p[j].original
               PROVE i = j
    BY <1>6 DEF Named
  <2>1. round(i) = round(j) /\ team(i) = team(j)
    BY <1>4
  <2> QED BY <1>3, <2>1
<1>8. \A i \in 1..Len(p) : ~Used(p[i])
  BY <1>4, <1>6 DEF Used
<1> QED BY <1>6, <1>7, <1>8

LEMMA NewTimelineIs ==
  ASSUME NEW first \in Orders, NEW t, t = NewTimeline(PreparedPicks(first))
  PROVE  /\ Good(t) /\ ~t.bad /\ t.last = Start /\ t.deadline = Start + Clock /\ ~t.paused
         /\ t.picks = PreparedPicks(first)
<1> DEFINE p == PreparedPicks(first)
           u == [picks |-> p, cursor |-> 1, deadline |-> Start + Clock, paused |-> FALSE,
                 remaining |-> 0, last |-> Start, bad |-> FALSE]
<1>1. p \in Seq(Pick) /\ Named(p) /\ \A i \in 1..Len(p) : ~Used(p[i])
  BY PreparedIs
<1>2. t = Settle(u)
  BY DEF NewTimeline
<1> HIDE DEF p
<1>3. /\ u \in Line /\ u.picks = p /\ u.cursor = 1 /\ u.deadline = Start + Clock /\ u.paused = FALSE
      /\ u.last = Start /\ u.bad = FALSE
  BY <1>1, EngineAssumption DEF Line
<1> HIDE DEF u
<1>4. Len(p) \in Nat
  BY <1>1
<1>5. u.cursor \in 1..(Len(u.picks) + 1) /\ Turns(u.picks, u.cursor) /\ Named(u.picks)
  BY <1>1, <1>3, <1>4 DEF Turns
<1>6. Good(t) /\ Beside(t, u)
  BY <1>2, <1>3, <1>5, SettledGood, SettleIs
<1> QED BY <1>3, <1>6 DEF Beside, p

IsActs(acts) == Len(acts) \in Nat /\ \A i \in 1..Len(acts) : IsAct(acts[i])

LEMMA ReplayedIs ==
  ASSUME NEW t, Good(t), NEW acts, IsActs(acts)
  PROVE  /\ Replayed(t, acts)[0] = t
         /\ \A i \in 1..Len(acts) : Replayed(t, acts)[i] = Apply(Replayed(t, acts)[i - 1], acts[i])
         /\ \A i \in 0..Len(acts) : Good(Replayed(t, acts)[i])
<1> DEFINE n == Len(acts)
           Is(k, w) == w = [i \in 0..k |-> IF i = 0 THEN t ELSE Apply(w[i - 1], acts[i])]
           S == {k \in Nat : \E w : Is(k, w)}
<1>1. 0 \in S
  <2> DEFINE w == [i \in 0..0 |-> t]
  <2>1. Is(0, w)
    OBVIOUS
  <2> QED BY <2>1
<1>2. ASSUME NEW k \in Nat, k \in S PROVE k + 1 \in S
  <2>1. PICK w : Is(k, w)
    BY <1>2
  <2> DEFINE v == [i \in 0..(k + 1) |-> IF i = k + 1 THEN Apply(w[k], acts[k + 1]) ELSE w[i]]
  <2>2. ASSUME NEW i \in 0..(k + 1)
        PROVE v[i] = IF i = 0 THEN t ELSE Apply(v[i - 1], acts[i])
    <3>1. CASE i = k + 1
      BY <3>1
    <3>2. CASE i # k + 1 /\ i # 0
      <4>1. i \in 0..k /\ i - 1 \in 0..(k + 1) /\ i - 1 # k + 1
        BY <3>2
      <4>2. v[i] = w[i] /\ v[i - 1] = w[i - 1]
        BY <3>2, <4>1
      <4>3. w[i] = Apply(w[i - 1], acts[i])
        BY <2>1, <3>2, <4>1
      <4> QED BY <3>2, <4>2, <4>3
    <3>3. CASE i = 0
      <4>1. w[0] = t
        BY <2>1
      <4> QED BY <3>3, <4>1
    <3> QED BY <3>1, <3>2, <3>3
  <2>3. v = [i \in 0..(k + 1) |-> v[i]]
    OBVIOUS
  <2> HIDE DEF v
  <2>4. Is(k + 1, v)
    BY <2>2, <2>3
  <2> QED BY <2>4
<1>3. n \in Nat
  BY DEF IsActs
<1>4. \E w : Is(n, w)
  <2>1. n \in S
    <3> HIDE DEF S
    <3> QED BY <1>1, <1>2, <1>3, NatsIn
  <2> QED BY <2>1
<1> DEFINE R == Replayed(t, acts)
<1>5. R = CHOOSE w : w = [i \in 0..n |-> IF i = 0 THEN t ELSE Apply(w[i - 1], acts[i])]
  BY DEF Replayed
<1>6. R = [i \in 0..n |-> IF i = 0 THEN t ELSE Apply(R[i - 1], acts[i])]
  BY <1>4, <1>5
<1> HIDE DEF R
<1>7. R[0] = t
  BY <1>3, <1>6
<1>8. ASSUME NEW i \in 1..n PROVE R[i] = Apply(R[i - 1], acts[i])
  <2>1. i \in 0..n /\ i # 0
    BY <1>3
  <2> QED BY <1>6, <2>1
<1> DEFINE T == {k \in Nat : k <= n => Good(R[k])}
<1>9. 0 \in T
  BY <1>7
<1>10. ASSUME NEW k \in Nat, k \in T PROVE k + 1 \in T
  <2> SUFFICES ASSUME k + 1 <= n PROVE Good(R[k + 1])
    OBVIOUS
  <2>1. k + 1 \in 1..n /\ (k + 1) - 1 = k /\ Good(R[k]) /\ IsAct(acts[k + 1])
    BY <1>3, <1>10 DEF IsActs
  <2>2. R[k + 1] = Apply(R[k], acts[k + 1])
    BY <1>8, <2>1
  <2> QED BY <2>1, <2>2, ApplyIs
<1>11. \A k \in Nat : k \in T
  <2> HIDE DEF T
  <2> QED BY <1>9, <1>10, NatsIn
<1>12. \A i \in 0..n : Good(R[i])
  BY <1>3, <1>11
<1> QED BY <1>7, <1>8, <1>12 DEF R

Fresh(first) == NewTimeline(PreparedPicks(first))
Folded(first, acts) == Replayed(Fresh(first), acts)[Len(acts)]

LEMMA ReplayActsIs ==
  ASSUME NEW first \in Orders, NEW at \in Nat, NEW acts, IsActs(acts), NEW v, v = ReplayActs(first, at, acts)
  PROVE  /\ Good(v) /\ Good(Folded(first, acts))
         /\ at < Start => v.picks = Fresh(first).picks /\ (v.bad <=> acts # <<>>)
                          /\ v.cursor = Fresh(first).cursor
         /\ at >= Start =>
              LET bad == Folded(first, acts).bad \/ \E i \in 1..Len(acts) : acts[i].at > at
              IN  (v.bad <=> bad) /\ (~bad => v = Advance(Folded(first, acts), at))
<1> DEFINE f == Fresh(first)
           d == Folded(first, acts)
           bad == d.bad \/ \E i \in 1..Len(acts) : acts[i].at > at
<1>1. Good(f)
  BY NewTimelineIs DEF Fresh
<1>2. Good(d)
  BY <1>1, ReplayedIs DEF Folded, IsActs
<1>3. v = IF at < Start THEN [f EXCEPT !.bad = acts # <<>>] ELSE IF bad THEN Refused(f) ELSE Advance(d, at)
  BY DEF ReplayActs, Fresh, Folded
<1> HIDE DEF f, d
<1>4. CASE at < Start
  <2>1. PICK b \in BOOLEAN : b = (acts # <<>>)
    OBVIOUS
  <2>2. v = [f EXCEPT !.bad = b]
    BY <1>3, <1>4, <2>1
  <2>3. f \in Line
    BY <1>1, GoodIs
  <2>4. v \in Line /\ v.picks = f.picks /\ v.cursor = f.cursor /\ v.bad = b
    BY <2>1, <2>2, <2>3 DEF Line
  <2>5. Good(v)
    BY <1>1, <2>4, ClockOnly
  <2>6. v.bad <=> acts # <<>>
    BY <2>1, <2>4
  <2>7. ~(at >= Start)
    BY <1>4, EngineAssumption
  <2> HIDE DEF bad
  <2> QED BY <1>2, <1>4, <2>4, <2>5, <2>6, <2>7 DEF f, d
<1>5. CASE at >= Start /\ bad
  <2>1. v = Refused(f)
    BY <1>3, <1>5, EngineAssumption
  <2>2. Good(v) /\ v.bad
    BY <1>1, <2>1, RefusedIs
  <2> QED BY <1>2, <1>5, <2>2, EngineAssumption DEF d
<1>6. CASE at >= Start /\ ~bad
  <2>1. v = Advance(d, at)
    BY <1>3, <1>6, EngineAssumption
  <2>2. Good(v) /\ v.bad = d.bad
    BY <1>2, <2>1, AdvanceIs DEF Later
  <2> QED BY <1>2, <1>6, <2>1, <2>2, EngineAssumption DEF d
<1> QED BY <1>4, <1>5, <1>6, EngineAssumption

-----------------------------------------------------------------------------
(* What is in force is worked out entry by entry.                          *)
Marks(es) == [1..Len(es) -> BOOLEAN]

LEMMA CompensateIs ==
  ASSUME NEW es, Len(es) \in Nat, NEW i \in 1..Len(es), NEW active \in Marks(es)
  PROVE  /\ Compensate(es, i, active) \in Marks(es)
         /\ es[i].kind \notin {"revert", "correct"} => Compensate(es, i, active) = active
         /\ \A j \in 1..Len(es) : j # es[i].target => Compensate(es, i, active)[j] = active[j]
         /\ ~active[i] => Compensate(es, i, active) = active
         /\ active[i] /\ es[i].kind \in {"revert", "correct"} =>
              \A j \in 1..Len(es) :
                Compensate(es, i, active)[j] =
                  IF j # es[i].target THEN active[j] ELSE es[i].kind = "revert" /\ ~active[j]
BY DEF Compensate, Marks

LEMMA WalkIs ==
  ASSUME NEW es, Len(es) \in Nat
  PROVE  /\ Walk(es) \in [1..(Len(es) + 1) -> Marks(es)]
         /\ Walk(es)[Len(es) + 1] = [j \in 1..Len(es) |-> TRUE]
         /\ \A i \in 1..Len(es) : Walk(es)[i] = Compensate(es, i, Walk(es)[i + 1])
<1> DEFINE n == Len(es)
           all == [j \in 1..n |-> TRUE]
           Traces(k, w) == /\ w \in [(n + 1 - k)..(n + 1) -> Marks(es)] /\ w[n + 1] = all
                         /\ \A i \in (n + 1 - k)..n : w[i] = Compensate(es, i, w[i + 1])
           S == {k \in Nat : k <= n => \E w : Traces(k, w)}
<1>1. all \in Marks(es)
  BY DEF Marks
<1>2. 0 \in S
  <2> DEFINE w == [i \in (n + 1 - 0)..(n + 1) |-> all]
  <2>1. Traces(0, w)
    BY <1>1
  <2> QED BY <2>1
<1>3. ASSUME NEW k \in Nat, k \in S PROVE k + 1 \in S
  <2> HIDE DEF Traces
  <2> SUFFICES ASSUME k + 1 <= n PROVE \E w : Traces(k + 1, w)
    OBVIOUS
  <2>1. PICK w : Traces(k, w)
    BY <1>3
  <2> USE DEF Traces
  <2> DEFINE m == n - k
             v == [i \in (n + 1 - (k + 1))..(n + 1) |-> IF i = m THEN Compensate(es, m, w[m + 1]) ELSE w[i]]
  <2>2. m \in 1..n /\ m + 1 \in (n + 1 - k)..(n + 1) /\ m = n + 1 - (k + 1) /\ m # n + 1
    OBVIOUS
  <2>3. Compensate(es, m, w[m + 1]) \in Marks(es)
    BY <2>1, <2>2, CompensateIs
  <2>4. v \in [(n + 1 - (k + 1))..(n + 1) -> Marks(es)]
    BY <2>1, <2>2, <2>3
  <2>5. v[n + 1] = all
    BY <2>1, <2>2
  <2>6. ASSUME NEW i \in (n + 1 - (k + 1))..n PROVE v[i] = Compensate(es, i, v[i + 1])
    <3>1. v[i + 1] = w[i + 1]
      BY <2>2
    <3>2. CASE i = m
      BY <3>1, <3>2
    <3>3. CASE i # m
      <4>1. i \in (n + 1 - k)..n
        BY <3>3
      <4> QED BY <2>1, <3>1, <3>3, <4>1
    <3> QED BY <3>2, <3>3
  <2>7. Traces(k + 1, v)
    BY <2>4, <2>5, <2>6
  <2> QED BY <2>7
<1>4. n \in S
  <2> HIDE DEF S
  <2> QED BY <1>2, <1>3, NatsIn
<1>5. PICK w : Traces(n, w)
  <2> HIDE DEF Traces
  <2> QED BY <1>4
<1>6. w = [i \in 1..(n + 1) |-> IF i > n THEN all ELSE Compensate(es, i, w[i + 1])]
  BY <1>5
<1>7. Walk(es) = CHOOSE u : u = [i \in 1..(n + 1) |-> IF i > n THEN all ELSE Compensate(es, i, u[i + 1])]
  BY DEF Walk
<1>8. Walk(es) = [i \in 1..(n + 1) |-> IF i > n THEN all ELSE Compensate(es, i, Walk(es)[i + 1])]
  BY <1>6, <1>7
<1>9. ASSUME NEW i \in 1..n PROVE Walk(es)[i] = Compensate(es, i, Walk(es)[i + 1])
  <2>1. i \in 1..(n + 1) /\ ~(i > n)
    OBVIOUS
  <2> HIDE DEF all
  <2> QED BY <1>8, <2>1
<1>10. Walk(es)[n + 1] = all
  <2>1. n + 1 \in 1..(n + 1) /\ n + 1 > n
    OBVIOUS
  <2> HIDE DEF all
  <2> QED BY <1>8, <2>1
<1> DEFINE T == {k \in Nat : k <= n => Walk(es)[n + 1 - k] \in Marks(es)}
<1>11. 0 \in T
  BY <1>1, <1>10
<1>12. ASSUME NEW k \in Nat, k \in T PROVE k + 1 \in T
  <2> SUFFICES ASSUME k + 1 <= n PROVE Walk(es)[n - k] \in Marks(es)
    OBVIOUS
  <2>1. n - k \in 1..n /\ n + 1 - k = (n - k) + 1
    OBVIOUS
  <2>2. Walk(es)[(n - k) + 1] \in Marks(es)
    BY <1>12, <2>1
  <2> QED BY <1>9, <2>1, <2>2, CompensateIs
<1>13. \A k \in Nat : k \in T
  <2> HIDE DEF T
  <2> QED BY <1>11, <1>12, NatsIn
<1>14. ASSUME NEW i \in 1..(n + 1) PROVE Walk(es)[i] \in Marks(es)
  <2>1. n + 1 - i \in Nat /\ n + 1 - i <= n /\ n + 1 - (n + 1 - i) = i
    OBVIOUS
  <2> QED BY <1>13, <2>1
<1>15. Walk(es) \in [1..(n + 1) -> Marks(es)]
  BY <1>8, <1>14
<1> QED BY <1>9, <1>10, <1>15

LEMMA RestoresIs ==
  ASSUME NEW es, Len(es) \in Nat, NEW j \in 1..Len(es), NEW active \in Marks(es)
  PROVE  /\ Restores(es, j, active) \in Marks(es)
         /\ es[j].kind # "restore" => Restores(es, j, active) = active
         /\ \A i \in 1..Len(es) :
              Restores(es, j, active)[i] =
                (active[i] /\ ~( es[j].kind = "restore" /\ active[j]
                                 /\ es[j].target < i /\ i < j /\ es[i].kind \in LiveKinds))
BY DEF Restores, Marks

LEMMA AsidesIs ==
  ASSUME NEW es, Len(es) \in Nat, NEW active \in Marks(es)
  PROVE  /\ Asides(es, active) \in [0..Len(es) -> Marks(es)]
         /\ Asides(es, active)[0] = active
         /\ \A j \in 1..Len(es) : Asides(es, active)[j] = Restores(es, j, Asides(es, active)[j - 1])
<1> DEFINE n == Len(es)
           Traces(k, w) == /\ w \in [0..k -> Marks(es)] /\ w[0] = active
                         /\ \A j \in 1..k : w[j] = Restores(es, j, w[j - 1])
           S == {k \in Nat : k <= n => \E w : Traces(k, w)}
<1>1. 0 \in S
  <2> DEFINE w == [j \in 0..0 |-> active]
  <2>1. Traces(0, w)
    OBVIOUS
  <2> QED BY <2>1
<1>2. ASSUME NEW k \in Nat, k \in S PROVE k + 1 \in S
  <2> HIDE DEF Traces
  <2> SUFFICES ASSUME k + 1 <= n PROVE \E w : Traces(k + 1, w)
    OBVIOUS
  <2>1. PICK w : Traces(k, w)
    BY <1>2
  <2> USE DEF Traces
  <2> DEFINE v == [j \in 0..(k + 1) |-> IF j = k + 1 THEN Restores(es, k + 1, w[k]) ELSE w[j]]
  <2>2. k + 1 \in 1..n /\ k \in 0..k
    OBVIOUS
  <2>3. Restores(es, k + 1, w[k]) \in Marks(es)
    BY <2>1, <2>2, RestoresIs
  <2>4. v \in [0..(k + 1) -> Marks(es)]
    BY <2>1, <2>2, <2>3
  <2>5. v[0] = active
    BY <2>1, <2>2
  <2>6. ASSUME NEW j \in 1..(k + 1) PROVE v[j] = Restores(es, j, v[j - 1])
    <3>1. v[j - 1] = w[j - 1]
      BY <2>2
    <3>2. CASE j = k + 1
      BY <3>1, <3>2
    <3>3. CASE j # k + 1
      <4>1. j \in 1..k
        BY <3>3
      <4> QED BY <2>1, <3>1, <3>3, <4>1
    <3> QED BY <3>2, <3>3
  <2>7. Traces(k + 1, v)
    BY <2>4, <2>5, <2>6
  <2> QED BY <2>7
<1>3. n \in S
  <2> HIDE DEF S
  <2> QED BY <1>1, <1>2, NatsIn
<1>4. PICK w : Traces(n, w)
  <2> HIDE DEF Traces
  <2> QED BY <1>3
<1>5. w = [j \in 0..n |-> IF j = 0 THEN active ELSE Restores(es, j, w[j - 1])]
  BY <1>4
<1>6. Asides(es, active) =
        CHOOSE u : u = [j \in 0..n |-> IF j = 0 THEN active ELSE Restores(es, j, u[j - 1])]
  BY DEF Asides
<1> DEFINE A == Asides(es, active)
<1>7. A = [j \in 0..n |-> IF j = 0 THEN active ELSE Restores(es, j, A[j - 1])]
  BY <1>5, <1>6
<1> HIDE DEF A
<1>8. A[0] = active
  BY <1>7
<1>9. ASSUME NEW j \in 1..n PROVE A[j] = Restores(es, j, A[j - 1])
  <2>1. j \in 0..n /\ j # 0
    OBVIOUS
  <2> QED BY <1>7, <2>1
<1> DEFINE T == {k \in Nat : k <= n => A[k] \in Marks(es)}
<1>10. 0 \in T
  BY <1>8
<1>11. ASSUME NEW k \in Nat, k \in T PROVE k + 1 \in T
  <2> SUFFICES ASSUME k + 1 <= n PROVE A[k + 1] \in Marks(es)
    OBVIOUS
  <2>1. k + 1 \in 1..n /\ (k + 1) - 1 = k /\ A[k] \in Marks(es)
    BY <1>11
  <2> QED BY <1>9, <2>1, RestoresIs
<1>12. \A k \in Nat : k \in T
  <2> HIDE DEF T
  <2> QED BY <1>10, <1>11, NatsIn
<1>13. A \in [0..n -> Marks(es)]
  <2>1. \A k \in 0..n : A[k] \in Marks(es)
    BY <1>12
  <2> QED BY <1>7, <2>1
<1> QED BY <1>8, <1>9, <1>13 DEF A

LEMMA ActiveIs ==
  ASSUME NEW es, Len(es) \in Nat PROVE Active(es) \in Marks(es)
<1>1. 1 \in 1..(Len(es) + 1) /\ Len(es) \in 0..Len(es)
  OBVIOUS
<1>2. Compensated(es) \in Marks(es)
  BY <1>1, WalkIs DEF Compensated
<1> QED BY <1>1, <1>2, AsidesIs DEF Active, SetAside

LEMMA EmptyIs == ASSUME NEW Y, NEW s, s = <<>> PROVE s \in Seq(Y) /\ Len(s) = 0
OBVIOUS

LEMMA AppendIs ==
  ASSUME NEW Y, NEW s \in Seq(Y), NEW e \in Y, NEW z, z = Append(s, e)
  PROVE  /\ z \in Seq(Y) /\ Len(z) = Len(s) + 1 /\ z[Len(s) + 1] = e /\ Len(s) \in Nat
         /\ \A i \in 1..Len(s) : z[i] = s[i]
OBVIOUS

(* What is kept of a sequence.                                             *)
LEMMA KeptIs ==
  ASSUME NEW X, NEW s \in Seq(X), NEW I
  PROVE  /\ Kept(s, I)[0] = <<>>
         /\ \A i \in 1..Len(s) :
              Kept(s, I)[i] = IF i \in I THEN Append(Kept(s, I)[i - 1], s[i]) ELSE Kept(s, I)[i - 1]
<1> DEFINE n == Len(s)
           step(w, i) == IF i \in I THEN Append(w[i - 1], s[i]) ELSE w[i - 1]
           Is(k, w) == w = [i \in 0..k |-> IF i = 0 THEN <<>> ELSE step(w, i)]
           S == {k \in Nat : \E w : Is(k, w)}
<1>1. 0 \in S
  <2> DEFINE w == [i \in 0..0 |-> <<>>]
  <2>1. Is(0, w)
    OBVIOUS
  <2> QED BY <2>1
<1>2. ASSUME NEW k \in Nat, k \in S PROVE k + 1 \in S
  <2>1. PICK w : Is(k, w)
    BY <1>2
  <2> DEFINE v == [i \in 0..(k + 1) |-> IF i = k + 1 THEN step(w, k + 1) ELSE w[i]]
  <2>2. ASSUME NEW i \in 0..(k + 1) PROVE v[i] = IF i = 0 THEN <<>> ELSE step(v, i)
    <3>1. CASE i = k + 1
      <4>1. v[i - 1] = w[i - 1]
        BY <3>1
      <4> QED BY <3>1, <4>1
    <3>2. CASE i # k + 1 /\ i # 0
      <4>1. i \in 0..k /\ i - 1 \in 0..(k + 1) /\ i - 1 # k + 1
        BY <3>2
      <4>2. v[i] = w[i] /\ v[i - 1] = w[i - 1]
        BY <3>2, <4>1
      <4>3. w[i] = step(w, i)
        BY <2>1, <3>2, <4>1
      <4> QED BY <3>2, <4>2, <4>3
    <3>3. CASE i = 0
      <4>1. w[0] = <<>>
        BY <2>1
      <4> QED BY <3>3, <4>1
    <3> QED BY <3>1, <3>2, <3>3
  <2>3. v = [i \in 0..(k + 1) |-> v[i]]
    OBVIOUS
  <2> HIDE DEF v, step
  <2>4. Is(k + 1, v)
    BY <2>2, <2>3
  <2> QED BY <2>4
<1>3. n \in Nat
  OBVIOUS
<1>4. \E w : Is(n, w)
  <2>1. n \in S
    <3> HIDE DEF S
    <3> QED BY <1>1, <1>2, <1>3, NatsIn
  <2> QED BY <2>1
<1> DEFINE K == Kept(s, I)
<1>5. K = CHOOSE w : w = [i \in 0..n |-> IF i = 0 THEN <<>> ELSE step(w, i)]
  BY DEF Kept
<1>6. K = [i \in 0..n |-> IF i = 0 THEN <<>> ELSE step(K, i)]
  BY <1>4, <1>5
<1> HIDE DEF K, step
<1>7. K[0] = <<>>
  BY <1>3, <1>6
<1>8. ASSUME NEW i \in 1..n PROVE K[i] = step(K, i)
  <2>1. i \in 0..n /\ i # 0
    BY <1>3
  <2> QED BY <1>6, <2>1
<1> QED BY <1>7, <1>8 DEF K, step

LEMMA KeptIn ==
  ASSUME NEW X, NEW s \in Seq(X), NEW I, NEW Y, \A i \in 1..Len(s) : i \in I => s[i] \in Y
  PROVE  \A i \in 0..Len(s) : Kept(s, I)[i] \in Seq(Y)
<1> DEFINE n == Len(s)
           K == Kept(s, I)
           T == {k \in Nat : k <= n => K[k] \in Seq(Y)}
<1>1. /\ K[0] = <<>>
      /\ \A i \in 1..n : K[i] = IF i \in I THEN Append(K[i - 1], s[i]) ELSE K[i - 1]
  BY KeptIs
<1>2. n \in Nat
  OBVIOUS
<1> HIDE DEF K
<1>3. 0 \in T
  BY <1>1, EmptyIs
<1>4. ASSUME NEW k \in Nat, k \in T PROVE k + 1 \in T
  <2> SUFFICES ASSUME k + 1 <= n PROVE K[k + 1] \in Seq(Y)
    OBVIOUS
  <2>1. k + 1 \in 1..n /\ (k + 1) - 1 = k /\ K[k] \in Seq(Y)
    BY <1>2, <1>4
  <2>2. K[k + 1] = IF k + 1 \in I THEN Append(K[k], s[k + 1]) ELSE K[k]
    BY <1>1, <2>1
  <2>3. k + 1 \in I => s[k + 1] \in Y
    BY <2>1
  <2> QED BY <2>1, <2>2, <2>3
<1>5. \A k \in Nat : k \in T
  <2> HIDE DEF T
  <2> QED BY <1>3, <1>4, NatsIn
<1> QED BY <1>2, <1>5 DEF K

(* Two sequences alike up to some place keep the same there.               *)
LEMMA KeptAlike ==
  ASSUME NEW X, NEW s \in Seq(X), NEW Z, NEW z \in Seq(Z), NEW I, NEW J,
         NEW m \in Nat, m <= Len(s), m <= Len(z),
         \A i \in 1..m : (i \in I <=> i \in J) /\ (i \in I => s[i] = z[i])
  PROVE  Kept(s, I)[m] = Kept(z, J)[m]
<1> DEFINE T == {k \in Nat : k <= m => Kept(s, I)[k] = Kept(z, J)[k]}
<1>1. 0 \in T
  BY KeptIs
<1>2. ASSUME NEW k \in Nat, k \in T PROVE k + 1 \in T
  <2> SUFFICES ASSUME k + 1 <= m PROVE Kept(s, I)[k + 1] = Kept(z, J)[k + 1]
    OBVIOUS
  <2>1. k + 1 \in 1..Len(s) /\ k + 1 \in 1..Len(z) /\ k + 1 \in 1..m /\ (k + 1) - 1 = k
    OBVIOUS
  <2>2. Kept(s, I)[k + 1] = IF k + 1 \in I THEN Append(Kept(s, I)[k], s[k + 1]) ELSE Kept(s, I)[k]
    BY <2>1, KeptIs
  <2>3. Kept(z, J)[k + 1] = IF k + 1 \in J THEN Append(Kept(z, J)[k], z[k + 1]) ELSE Kept(z, J)[k]
    BY <2>1, KeptIs
  <2>4. Kept(s, I)[k] = Kept(z, J)[k]
    BY <1>2, <2>1
  <2> QED BY <2>1, <2>2, <2>3, <2>4
<1>3. m \in T
  <2> HIDE DEF T
  <2> QED BY <1>1, <1>2, NatsIn
<1> QED BY <1>3

(* Nothing is kept of what is not in I.                                    *)
LEMMA KeptNone ==
  ASSUME NEW X, NEW s \in Seq(X), NEW I, NEW m \in Nat, NEW h \in Nat, m <= h, h <= Len(s),
         \A i \in (m + 1)..h : i \notin I
  PROVE  Kept(s, I)[h] = Kept(s, I)[m]
<1> DEFINE T == {k \in Nat : m + k <= h => Kept(s, I)[m + k] = Kept(s, I)[m]}
<1>1. 0 \in T
  OBVIOUS
<1>2. ASSUME NEW k \in Nat, k \in T PROVE k + 1 \in T
  <2> SUFFICES ASSUME m + (k + 1) <= h PROVE Kept(s, I)[m + (k + 1)] = Kept(s, I)[m]
    OBVIOUS
  <2>1. /\ m + (k + 1) \in 1..Len(s) /\ (m + (k + 1)) - 1 = m + k /\ m + (k + 1) \notin I
        /\ m + k <= h
    OBVIOUS
  <2>2. Kept(s, I)[m + (k + 1)] = Kept(s, I)[m + k]
    BY <2>1, KeptIs
  <2> QED BY <1>2, <2>1, <2>2
<1>3. h - m \in T
  <2>1. h - m \in Nat
    OBVIOUS
  <2> HIDE DEF T
  <2> QED BY <1>1, <1>2, <2>1, NatsIn
<1>4. h - m \in Nat /\ m + (h - m) = h
  OBVIOUS
<1> QED BY <1>3, <1>4

LEMMA KeptAll ==
  ASSUME NEW X, NEW s \in Seq(X), NEW I, \A i \in 1..Len(s) : i \in I
  PROVE  Kept(s, I)[Len(s)] = s
<1> DEFINE n == Len(s)
           T == {k \in Nat : k <= n => /\ Kept(s, I)[k] \in Seq(X) /\ Len(Kept(s, I)[k]) = k
                                       /\ \A i \in 1..k : Kept(s, I)[k][i] = s[i]}
<1>1. 0 \in T
  <2>1. Kept(s, I)[0] = <<>>
    BY KeptIs
  <2> QED BY <2>1, EmptyIs
<1>2. ASSUME NEW k \in Nat, k \in T PROVE k + 1 \in T
  <2> DEFINE z == Kept(s, I)[k]
  <2> SUFFICES ASSUME k + 1 <= n
               PROVE /\ Kept(s, I)[k + 1] \in Seq(X) /\ Len(Kept(s, I)[k + 1]) = k + 1
                     /\ \A i \in 1..(k + 1) : Kept(s, I)[k + 1][i] = s[i]
    OBVIOUS
  <2>1. k + 1 \in 1..n /\ (k + 1) - 1 = k
    OBVIOUS
  <2>2. Kept(s, I)[k + 1] = Append(z, s[k + 1])
    <3>1. \A i \in 1..n : Kept(s, I)[i] = IF i \in I THEN Append(Kept(s, I)[i - 1], s[i]) ELSE Kept(s, I)[i - 1]
      BY KeptIs
    <3>2. k + 1 \in I
      BY <2>1
    <3> QED BY <2>1, <3>1, <3>2
  <2>3. z \in Seq(X) /\ Len(z) = k /\ \A i \in 1..k : z[i] = s[i]
    BY <1>2, <2>1
  <2> HIDE DEF z
  <2>4. s[k + 1] \in X
    BY <2>1
  <2> QED BY <2>2, <2>3, <2>4, AppendIs
<1>3. n \in T
  <2> HIDE DEF T
  <2> QED BY <1>1, <1>2, NatsIn
<1> QED BY <1>3


-----------------------------------------------------------------------------
(* What the ledger holds.                                                  *)
Kinds == LiveKinds \cup {"order", "correct", "revert"}
AllRefs == (Nat \X Franchises \X Nat) \cup {<<>>}
Entry ==
  [kind : Kinds, at : Nat, ref : AllRefs, owner : Franchises \cup {Nobody}, player : Players \cup {NoPlayer},
   replaces : Players \cup {NoPlayer}, duration : Nat, target : Nat, order : Orders]
Act ==
  [kind : Kinds, at : Nat, ref : AllRefs, owner : Franchises \cup {Nobody}, player : Players \cup {NoPlayer},
   replaces : Players \cup {NoPlayer}, duration : Nat, since : Nat]

(* Entries in the order of their instants, none after the given one, each  *)
(* about an earlier one, each that gives a rookie with the rookie and none *)
(* of the running draft before it started.                                 *)
Log(es, at) ==
  /\ es \in Seq(Entry)
  /\ \A i \in 1..Len(es) :
       /\ es[i].at <= at /\ es[i].target < i
       /\ es[i].kind \in Givers => es[i].player \in Players
       /\ es[i].kind \in LiveKinds => es[i].at >= Start
  /\ \A i, j \in 1..Len(es) : i <= j => es[i].at <= es[j].at

LEMMA EntryIs ==
  ASSUME NEW es \in Seq(Entry), NEW i \in 1..Len(es)
  PROVE  /\ es[i] \in Entry /\ es[i].kind \in Kinds /\ es[i].at \in Nat /\ es[i].ref \in AllRefs
         /\ es[i].owner \in Franchises \cup {Nobody} /\ es[i].player \in Players \cup {NoPlayer}
         /\ es[i].replaces \in Players \cup {NoPlayer} /\ es[i].duration \in Nat /\ es[i].target \in Nat
         /\ es[i].order \in Orders
<1>1. es[i] \in Entry
  OBVIOUS
<1> QED BY <1>1 DEF Entry

LEMMA ActIs ==
  ASSUME NEW k \in Kinds, NEW at \in Nat, NEW ref \in AllRefs, NEW owner \in Franchises \cup {Nobody},
         NEW player \in Players \cup {NoPlayer}, NEW replaces \in Players \cup {NoPlayer},
         NEW d \in Nat, NEW since \in Nat
  PROVE  [kind |-> k, at |-> at, ref |-> ref, owner |-> owner, player |-> player,
          replaces |-> replaces, duration |-> d, since |-> since] \in Act
BY DEF Act

LEMMA ActOfIs ==
  ASSUME NEW es, NEW at, Log(es, at), NEW i \in 1..Len(es), NEW a, a = ActOf(es, es[i])
  PROVE  /\ a \in Act /\ (es[i].kind \in LiveKinds => IsAct(a))
         /\ a.kind = es[i].kind /\ a.at = es[i].at /\ a.ref = es[i].ref /\ a.owner = es[i].owner
         /\ a.player = es[i].player /\ a.replaces = es[i].replaces /\ a.since = EntryAt(es, es[i].target)
<1> DEFINE e == es[i]
<1>1. /\ e.kind \in Kinds /\ e.at \in Nat /\ e.ref \in AllRefs
      /\ e.owner \in Franchises \cup {Nobody} /\ e.player \in Players \cup {NoPlayer}
      /\ e.replaces \in Players \cup {NoPlayer} /\ e.duration \in Nat /\ e.target \in Nat
  BY EntryIs DEF Log
<1>0. e.target < i /\ Len(es) \in Nat /\ e.target \in Nat
  <2>1. e.target < i /\ Len(es) \in Nat
    BY DEF Log
  <2>2. e.target \in Nat
    BY <1>1
  <2> QED BY <2>1, <2>2
<1>2. EntryAt(es, e.target) \in Nat
  <2>1. CASE e.target = 0
    BY <2>1 DEF EntryAt
  <2>2. CASE e.target # 0
    <3>1. e.target \in 1..Len(es)
      <4> HIDE DEF e
      <4> QED BY <1>0, <2>2
    <3> HIDE DEF e
    <3>2. es[e.target].at \in Nat
      BY <3>1, EntryIs DEF Log
    <3> QED BY <2>2, <3>2 DEF EntryAt
  <2> QED BY <2>1, <2>2
<1>3. e.kind \in Givers => e.player \in Players
  BY DEF Log
<1>4. a = ActOf(es, e)
  OBVIOUS
<1>5. /\ a = [kind |-> e.kind, at |-> e.at, ref |-> e.ref, owner |-> e.owner, player |-> e.player,
              replaces |-> e.replaces, duration |-> e.duration, since |-> EntryAt(es, e.target)]
  BY <1>4 DEF ActOf
<1> HIDE DEF e
<1>6. /\ a.kind = e.kind /\ a.at = e.at /\ a.ref = e.ref /\ a.owner = e.owner
      /\ a.player = e.player /\ a.replaces = e.replaces /\ a.since = EntryAt(es, e.target)
      /\ a.duration = e.duration
  BY <1>5
<1>7. a \in Act
  <2> DEFINE since == EntryAt(es, e.target)
  <2>1. since \in Nat
    BY <1>2
  <2> HIDE DEF since
  <2>2. [kind |-> e.kind, at |-> e.at, ref |-> e.ref, owner |-> e.owner, player |-> e.player,
         replaces |-> e.replaces, duration |-> e.duration, since |-> since] \in Act
    BY <1>1, <2>1, ActIs
  <2> QED BY <1>5, <2>2 DEF since
<1>8. e.kind \in LiveKinds => IsAct(a)
  BY <1>1, <1>2, <1>3, <1>6 DEF IsAct
<1> QED BY <1>6, <1>7, <1>8 DEF e

InForce(es) == {i \in 1..Len(es) : es[i].kind \in LiveKinds /\ Active(es)[i]}
ActsOf(es) == [i \in 1..Len(es) |-> ActOf(es, es[i])]

LEMMA DraftActsIs ==
  ASSUME NEW es, NEW at, Log(es, at)
  PROVE  /\ DraftActs(es) = Kept(ActsOf(es), InForce(es))[Len(es)]
         /\ ActsOf(es) \in Seq(Act) /\ Len(ActsOf(es)) = Len(es)
         /\ IsActs(DraftActs(es)) /\ DraftActs(es) \in Seq({a \in Act : IsAct(a) /\ a.at <= at})
         /\ \A i \in 1..Len(DraftActs(es)) : DraftActs(es)[i].at <= at
<1> DEFINE A == ActsOf(es)
           Y == {a \in Act : IsAct(a) /\ a.at <= at}
<1>1. Len(es) \in Nat
  BY DEF Log
<1>2. \A i \in 1..Len(es) : A[i] = ActOf(es, es[i])
  BY DEF ActsOf
<1>3. \A i \in 1..Len(es) : A[i] \in Act
  BY <1>2, ActOfIs
<1>4. A \in Seq(Act) /\ Len(A) = Len(es)
  <2>1. A = [i \in 1..Len(es) |-> A[i]]
    BY DEF ActsOf
  <2> HIDE DEF A
  <2>2. A \in [1..Len(es) -> Act]
    BY <1>3, <2>1
  <2> QED BY <1>1, <2>2
<1>5. DraftActs(es) = Kept(A, InForce(es))[Len(es)]
  BY DEF DraftActs, ActsOf, InForce
<1>6. \A i \in 1..Len(A) : i \in InForce(es) => A[i] \in Y
  <2> SUFFICES ASSUME NEW i \in 1..Len(es), i \in InForce(es) PROVE A[i] \in Y
    BY <1>4
  <2>1. es[i].kind \in LiveKinds /\ es[i].at <= at
    BY DEF InForce, Log
  <2>2. IsAct(A[i]) /\ A[i].at = es[i].at
    BY <1>2, <2>1, ActOfIs
  <2> QED BY <1>3, <2>1, <2>2
<1> HIDE DEF A, Y
<1>7. \A i \in 0..Len(A) : Kept(A, InForce(es))[i] \in Seq(Y)
  BY <1>4, <1>6, KeptIn
<1>8. DraftActs(es) \in Seq(Y)
  BY <1>1, <1>4, <1>5, <1>7
<1>9. /\ Len(DraftActs(es)) \in Nat
      /\ \A i \in 1..Len(DraftActs(es)) : DraftActs(es)[i] \in Y
  BY <1>8
<1>10. IsActs(DraftActs(es)) /\ \A i \in 1..Len(DraftActs(es)) : DraftActs(es)[i].at <= at
  BY <1>9 DEF IsActs, Y
<1> QED BY <1>4, <1>5, <1>8, <1>10 DEF A, Y

LEMMA MaxIs ==
  ASSUME NEW n \in Nat, NEW B, B \subseteq 1..n, B # {}
  PROVE  Max(B) \in B /\ \A y \in B : y <= Max(B)
<1> DEFINE C == {n - x : x \in B}
<1>1. C \subseteq Nat /\ C # {}
  <2>1. \A x \in B : n - x \in Nat
    OBVIOUS
  <2>2. PICK x \in B : TRUE
    OBVIOUS
  <2>3. n - x \in C
    OBVIOUS
  <2> QED BY <2>1, <2>3
<1>2. Min(C) \in C /\ \A y \in C : Min(C) <= y
  <2> HIDE DEF C
  <2> QED BY <1>1, MinIs
<1>3. PICK x \in B : Min(C) = n - x
  BY <1>2
<1>4. \A y \in B : y <= x
  <2> SUFFICES ASSUME NEW y \in B PROVE y <= x
    OBVIOUS
  <2>1. n - x <= n - y
    BY <1>2, <1>3
  <2> QED BY <2>1
<1>5. Max(B) = CHOOSE z \in B : \A y \in B : y <= z
  BY DEF Max
<1> QED BY <1>4, <1>5

Decided(es) == {i \in 1..Len(es) : es[i].kind = "order" /\ Active(es)[i]}

LEMMA OrderOfIs ==
  ASSUME NEW es, NEW at, Log(es, at)
  PROVE  /\ OrderOf(es) \in Orders
         /\ OrderOf(es) = IF Decided(es) = {} THEN FirstOrder ELSE es[Max(Decided(es))].order
<1>1. OrderOf(es) = IF Decided(es) = {} THEN FirstOrder ELSE es[Max(Decided(es))].order
  BY DEF OrderOf, Decided
<1>2. Decided(es) # {} => Max(Decided(es)) \in 1..Len(es)
  <2>1. Decided(es) \subseteq 1..Len(es) /\ Len(es) \in Nat
    BY DEF Decided, Log
  <2> QED BY <2>1, MaxIs
<1>3. Decided(es) # {} => es[Max(Decided(es))].order \in Orders
  BY <1>2, EntryIs DEF Log
<1> QED BY <1>1, <1>3, DraftAssumption

LEMMA ThroughAll ==
  ASSUME NEW es, NEW at, Log(es, at)
  PROVE  Through(es, at) = es
<1>1. es \in Seq(Entry) /\ \A i \in 1..Len(es) : i \in {j \in 1..Len(es) : es[j].at <= at}
  BY DEF Log
<1> DEFINE I == {j \in 1..Len(es) : es[j].at <= at}
<1>2. Through(es, at) = Kept(es, I)[Len(es)]
  BY DEF Through
<1> HIDE DEF I
<1> QED BY <1>1, <1>2, KeptAll DEF I

LEMMA ReadingIs ==
  ASSUME NEW es, NEW at \in Nat, Log(es, at), NEW v, v = Reading(es, at)
  PROVE  /\ v = ReplayActs(OrderOf(es), at, DraftActs(es))
         /\ Good(v) /\ Good(Fresh(OrderOf(es))) /\ Good(Folded(OrderOf(es), DraftActs(es)))
         /\ at < Start => v.picks = Fresh(OrderOf(es)).picks /\ (v.bad <=> DraftActs(es) # <<>>)
                          /\ v.cursor = Fresh(OrderOf(es)).cursor
         /\ at >= Start => /\ v.bad <=> Folded(OrderOf(es), DraftActs(es)).bad
                           /\ ~v.bad => v = Advance(Folded(OrderOf(es), DraftActs(es)), at)
<1>1. v = ReplayActs(OrderOf(es), at, DraftActs(es))
  BY ThroughAll DEF Reading
<1>2. OrderOf(es) \in Orders
  BY OrderOfIs
<1>3. IsActs(DraftActs(es)) /\ \A i \in 1..Len(DraftActs(es)) : DraftActs(es)[i].at <= at
  BY DraftActsIs
<1>4. ~ \E i \in 1..Len(DraftActs(es)) : DraftActs(es)[i].at > at
  <2> SUFFICES ASSUME NEW i \in 1..Len(DraftActs(es)) PROVE ~(DraftActs(es)[i].at > at)
    OBVIOUS
  <2>1. DraftActs(es)[i].at \in Nat /\ DraftActs(es)[i].at <= at
    BY <1>3 DEF IsActs, IsAct
  <2> QED BY <2>1
<1>5. Good(Fresh(OrderOf(es)))
  BY <1>2, NewTimelineIs DEF Fresh
<1>6. /\ Good(v) /\ Good(Folded(OrderOf(es), DraftActs(es)))
      /\ at < Start => v.picks = Fresh(OrderOf(es)).picks /\ (v.bad <=> DraftActs(es) # <<>>)
                       /\ v.cursor = Fresh(OrderOf(es)).cursor
      /\ at >= Start =>
           LET bad == Folded(OrderOf(es), DraftActs(es)).bad
                        \/ \E i \in 1..Len(DraftActs(es)) : DraftActs(es)[i].at > at
           IN  (v.bad <=> bad) /\ (~bad => v = Advance(Folded(OrderOf(es), DraftActs(es)), at))
  BY <1>1, <1>2, <1>3, ReplayActsIs
<1> QED BY <1>1, <1>4, <1>5, <1>6

-----------------------------------------------------------------------------
(* The inductive invariant: the ledger is a log and the board its reading. *)
DraftInv == now \in Nat /\ Log(ledger, now) /\ board = Reading(ledger, now)

(* An entry as it is recorded.                                             *)
Fits(e, n) == e \in Entry /\ e.target \in 0..n /\ (e.kind \in Givers => e.player \in Players)

LEMMA LogGrows ==
  ASSUME NEW es, NEW at \in Nat, Log(es, at), NEW e, Fits(e, Len(es)), e.at = at,
         e.kind \in LiveKinds => at >= Start, NEW v, v = Append(es, e)
  PROVE  Log(v, at)
<1>1. /\ es \in Seq(Entry) /\ Len(es) \in Nat /\ e \in Entry
      /\ \A i \in 1..Len(es) :
           /\ es[i].at <= at /\ es[i].target < i
           /\ es[i].kind \in Givers => es[i].player \in Players
           /\ es[i].kind \in LiveKinds => es[i].at >= Start
      /\ \A i, j \in 1..Len(es) : i <= j => es[i].at <= es[j].at
  BY DEF Log, Fits
<1>2. /\ v \in Seq(Entry) /\ Len(v) = Len(es) + 1 /\ v[Len(es) + 1] = e
      /\ \A i \in 1..Len(es) : v[i] = es[i]
  BY <1>1, AppendIs
<1>3. \A i \in 1..Len(v) : i \in 1..Len(es) \/ i = Len(es) + 1
  BY <1>1, <1>2
<1>4. e.target \in 0..Len(es) /\ (e.kind \in Givers => e.player \in Players)
  BY DEF Fits
<1>5. ASSUME NEW i \in 1..Len(v)
      PROVE  /\ v[i].at <= at /\ v[i].target < i /\ (v[i].kind \in Givers => v[i].player \in Players)
             /\ v[i].kind \in LiveKinds => v[i].at >= Start
  <2>1. CASE i \in 1..Len(es)
    BY <1>1, <1>2, <2>1
  <2>2. CASE i = Len(es) + 1
    BY <1>1, <1>2, <1>4, <2>2
  <2> QED BY <1>3, <2>1, <2>2
<1>6. ASSUME NEW i \in 1..Len(v), NEW j \in 1..Len(v), i <= j PROVE v[i].at <= v[j].at
  <2>1. CASE j \in 1..Len(es)
    <3>1. i \in 1..Len(es)
      BY <1>6, <2>1
    <3> QED BY <1>1, <1>2, <1>6, <2>1, <3>1
  <2>2. CASE j = Len(es) + 1
    BY <1>2, <1>5, <2>2
  <2> QED BY <1>3, <2>1, <2>2
<1> QED BY <1>2, <1>5, <1>6 DEF Log

LEMMA Stampable ==
  ASSUME NEW e \in Entry, NEW at \in Nat, NEW n, Fits(e, n), NEW z, z = [e EXCEPT !.at = at]
  PROVE  Fits(z, n) /\ z.at = at /\ z.kind = e.kind /\ z.target = e.target /\ z.player = e.player
         /\ z.ref = e.ref /\ z.replaces = e.replaces /\ z.owner = e.owner /\ z.order = e.order
BY DEF Entry, Fits

Entered(e) ==
  /\ Fits(e, Len(ledger)) /\ e.at = now /\ now' = now /\ ledger' = Append(ledger, e)
  /\ board' = Reading(ledger', now)

LEMMA RecordIs ==
  ASSUME DraftInv, NEW e, Fits(e, Len(ledger)), Record(e)
  PROVE  \E z : /\ Entered(z) /\ z.kind = e.kind /\ z.target = e.target /\ z.player = e.player
                /\ z.ref = e.ref /\ z.replaces = e.replaces /\ z.owner = e.owner /\ z.order = e.order
<1> DEFINE z == [e EXCEPT !.at = now]
<1>1. e \in Entry
  BY DEF Fits
<1>2. Fits(z, Len(ledger)) /\ z.at = now /\ z.kind = e.kind /\ z.target = e.target /\ z.player = e.player
      /\ z.ref = e.ref /\ z.replaces = e.replaces /\ z.owner = e.owner /\ z.order = e.order
  BY <1>1, Stampable DEF DraftInv
<1>3. ledger' = Append(ledger, z) /\ board' = Reading(ledger', now) /\ now' = now
  BY DEF Record, Proposed
<1> HIDE DEF z
<1> QED BY <1>2, <1>3 DEF Entered

LEMMA BoardIs ==
  ASSUME DraftInv
  PROVE  /\ Good(board)
         /\ \A i \in 1..Len(board.picks) : Ref(board.picks[i]) \in Nat \X Franchises \X Nat
<1>1. Good(board)
  BY ReadingIs DEF DraftInv
<1> QED BY <1>1, GoodIs DEF Ref

(* Which entry each action records.                                        *)
Moves ==
  \/ \E f \in Franchises, p \in Players : OwnerPick(f, p)
  \/ \E ref \in Refs : SkipPick(ref)
  \/ \E ref \in Refs, p \in Players : Assign(ref, p)
  \/ \E ref \in Refs, f \in Franchises, p \in Players : InsertAfter(ref, f, p)
  \/ \E ref \in Refs, old, new \in Players : ChangePick(ref, old, new)
  \/ Timer
  \/ Archive
  \/ \E c \in 0..Len(ledger) : Restore(c)
  \/ \E o \in Orders : SetOrder(o)
  \/ \E i \in 1..Len(ledger) : Correct(i)
  \/ \E i \in 1..Len(ledger) : Revert(i)

(* What the writer asks of the entry it records.                           *)
Asked(e) ==
  /\ e.kind \in LiveKinds => ~board.bad /\ now >= Start
  /\ e.kind \in LiveKinds \ {"pick"} => ~board'.bad
  /\ e.kind = "pick" =>
       /\ ~Closed(ledger) /\ OnClock(board) /\ ~board.paused
       /\ board.picks[board.cursor].owner = e.owner /\ Undrafted(board, e.player)
       /\ e.ref = Ref(board.picks[board.cursor])
  /\ e.kind \in {"order", "correct"} => ~board'.bad
  /\ e.kind = "correct" => e.target # 0 /\ ledger[e.target].kind = "pick" /\ Active(ledger)[e.target]
  /\ e.kind = "revert" =>
       /\ e.target # 0 /\ ledger[e.target].kind \notin LiveKinds
       /\ LiveInForce(ledger) => ~board'.bad
  /\ e.kind = "restore" /\ e.target # 0 => Active(ledger)[e.target]

LEMMA EnteredKeeps ==
  ASSUME DraftInv, NEW e, Entered(e), Asked(e)
  PROVE  DraftInv'
<1>1. now \in Nat /\ Log(ledger, now) /\ Fits(e, Len(ledger)) /\ e.at = now /\ ledger' = Append(ledger, e)
  BY DEF DraftInv, Entered
<1>2. Log(ledger', now)
  BY <1>1, LogGrows DEF Asked
<1> QED BY <1>1, <1>2 DEF Entered, DraftInv

LEMMA BlankIs == Blank \in Entry /\ Blank.target = 0
BY DraftAssumption DEF AllRefs, Blank, Entry, Kinds

LEMMA KindMade ==
  ASSUME NEW n \in Nat, NEW k \in Kinds \ Givers, NEW e, e = [Blank EXCEPT !.kind = k]
  PROVE  Fits(e, n) /\ e.kind = k /\ e.target = 0
<1>1. e \in Entry /\ e.kind = k /\ e.target = 0
  BY BlankIs DEF Entry
<1> QED BY <1>1 DEF Fits

LEMMA SetMade ==
  ASSUME NEW n \in Nat, NEW k \in Kinds \ Givers, NEW d \in Nat,
         NEW e, e = [Blank EXCEPT !.kind = k, !.duration = d]
  PROVE  Fits(e, n) /\ e.kind = k /\ e.target = 0
<1>1. e \in Entry /\ e.kind = k /\ e.target = 0
  BY BlankIs DEF Entry
<1> QED BY <1>1 DEF Fits

LEMMA OrderMade ==
  ASSUME NEW n \in Nat, NEW k \in Kinds \ Givers, NEW o \in Orders,
         NEW e, e = [Blank EXCEPT !.kind = k, !.order = o]
  PROVE  Fits(e, n) /\ e.kind = k /\ e.target = 0
<1>1. e \in Entry /\ e.kind = k /\ e.target = 0
  BY BlankIs DEF Entry
<1> QED BY <1>1 DEF Fits

Targeting(k, c) == [Blank EXCEPT !.kind = k, !.target = c]

LEMMA TargetMade ==
  ASSUME NEW n \in Nat, NEW k \in Kinds \ Givers, NEW c \in 0..n,
         NEW e, e = Targeting(k, c)
  PROVE  Fits(e, n) /\ e.kind = k /\ e.target = c
<1>0. c \in Nat
  OBVIOUS
<1>1. e \in Entry /\ e.kind = k /\ e.target = c
  BY <1>0, BlankIs DEF Entry, Targeting
<1> QED BY <1>1 DEF Fits

LEMMA SkipMade ==
  ASSUME NEW n \in Nat, NEW k \in Kinds \ Givers, NEW r \in AllRefs,
         NEW e, e = [Blank EXCEPT !.kind = k, !.ref = r]
  PROVE  Fits(e, n) /\ e.kind = k /\ e.target = 0
<1>1. e \in Entry /\ e.kind = k /\ e.target = 0
  BY BlankIs DEF Entry
<1> QED BY <1>1 DEF Fits

Giving(k, r, f, p) == [Blank EXCEPT !.kind = k, !.ref = r, !.owner = f, !.player = p]
Assigning(k, r, p) == [Blank EXCEPT !.kind = k, !.ref = r, !.player = p]
Changing(k, r, old, p) == [Blank EXCEPT !.kind = k, !.ref = r, !.replaces = old, !.player = p]

LEMMA PickMade ==
  ASSUME NEW n \in Nat, NEW k \in Kinds, NEW r \in AllRefs, NEW f \in Franchises, NEW p \in Players,
         NEW e, e = Giving(k, r, f, p)
  PROVE  Fits(e, n) /\ e.kind = k /\ e.target = 0 /\ e.ref = r /\ e.owner = f /\ e.player = p
<1>1. e \in Entry /\ e.kind = k /\ e.target = 0 /\ e.ref = r /\ e.owner = f /\ e.player = p
  BY BlankIs DEF Entry, Giving
<1> QED BY <1>1 DEF Fits

LEMMA AssignMade ==
  ASSUME NEW n \in Nat, NEW k \in Kinds, NEW r \in AllRefs, NEW p \in Players,
         NEW e, e = Assigning(k, r, p)
  PROVE  Fits(e, n) /\ e.kind = k /\ e.target = 0
<1>1. e \in Entry /\ e.kind = k /\ e.target = 0 /\ e.player = p
  BY BlankIs DEF Entry, Assigning
<1> QED BY <1>1 DEF Fits

LEMMA ChangeMade ==
  ASSUME NEW n \in Nat, NEW k \in Kinds, NEW r \in AllRefs, NEW old \in Players, NEW p \in Players,
         NEW e, e = Changing(k, r, old, p)
  PROVE  Fits(e, n) /\ e.kind = k /\ e.target = 0
<1>1. e \in Entry /\ e.kind = k /\ e.target = 0 /\ e.player = p
  BY BlankIs DEF Entry, Changing
<1> QED BY <1>1 DEF Fits

LEMMA KindsAre ==
  /\ LiveKinds \subseteq Kinds /\ {"order", "correct", "revert"} \subseteq Kinds \ Givers
  /\ LiveKinds \ Givers = {"skip", "pause", "resume", "set", "restore", "archive"}
  /\ Givers \subseteq LiveKinds /\ {"order", "correct", "revert"} \cap LiveKinds = {}
BY DEF Kinds, LiveKinds, Givers

LEMMA MovesAre ==
  ASSUME DraftInv, Moves
  PROVE  \E e : Entered(e) /\ Asked(e)
<1> DEFINE n == Len(ledger)
<1>0. n \in Nat /\ Refs \subseteq AllRefs
  BY BoardIs DEF DraftInv, Log, Refs, AllRefs
<1>1. ASSUME NEW e, Fits(e, n), Record(e), \A z : z.kind = e.kind /\ z.target = e.target
             /\ z.player = e.player /\ z.ref = e.ref /\ z.replaces = e.replaces /\ z.owner = e.owner
             /\ z.order = e.order => Asked(z)
      PROVE  \E z : Entered(z) /\ Asked(z)
  BY <1>1, RecordIs
<1>2. ASSUME NEW f \in Franchises, NEW p \in Players, OwnerPick(f, p) PROVE \E e : Entered(e) /\ Asked(e)
  <2> DEFINE r == Ref(board.picks[board.cursor])
  <2>0. PICK e : e = Giving("pick", r, f, p)
    OBVIOUS
  <2>1. /\ ~board.bad /\ now >= Start /\ ~Closed(ledger) /\ OnClock(board) /\ ~board.paused
        /\ board.picks[board.cursor].owner = f /\ Undrafted(board, p) /\ Record(e)
    BY <2>0, <1>2 DEF OwnerPick, Giving
  <2>2. r \in AllRefs
    BY <2>1, BoardIs DEF AllRefs, Good, InTurn, OnClock
  <2> HIDE DEF r
  <2>3. "pick" \in Kinds
    BY KindsAre DEF LiveKinds
  <2>4. Fits(e, n) /\ e.kind = "pick" /\ e.ref = r /\ e.owner = f /\ e.player = p
    BY <1>0, <2>0, <2>2, <2>3, PickMade
  <2>5. ASSUME NEW z, z.kind = e.kind, z.player = e.player, z.ref = e.ref, z.owner = e.owner PROVE Asked(z)
    BY <2>1, <2>4, <2>5 DEF Asked, r
  <2> QED BY <1>1, <2>1, <2>4, <2>5
<1>3. ASSUME NEW e, Fits(e, n), e.kind \in LiveKinds \ {"pick"},
             e.kind = "restore" /\ e.target # 0 => Active(ledger)[e.target], LiveChange(e)
      PROVE  \E z : Entered(z) /\ Asked(z)
  <2>1. ~board.bad /\ now >= Start /\ Record(e) /\ ~board'.bad
    BY <1>3 DEF LiveChange, RecordReadable
  <2>2. ASSUME NEW z, z.kind = e.kind, z.target = e.target PROVE Asked(z)
    BY <1>3, <2>1, <2>2 DEF Asked, LiveKinds
  <2> QED BY <1>1, <1>3, <2>1, <2>2
<1>4. ASSUME NEW ref \in Refs, SkipPick(ref) PROVE \E e : Entered(e) /\ Asked(e)
  <2>0. PICK e : e = [Blank EXCEPT !.kind = "skip", !.ref = ref]
    OBVIOUS
  <2>1. LiveChange(e)
    BY <2>0, <1>4 DEF SkipPick
  <2>3. "skip" \in Kinds \ Givers
    BY KindsAre DEF LiveKinds
  <2>4. Fits(e, n) /\ e.kind = "skip"
    BY <1>0, <2>0, <2>3, SkipMade, Zenon
  <2> QED BY <1>3, <2>1, <2>4 DEF LiveKinds
<1>5. ASSUME NEW ref \in Refs, NEW p \in Players, Assign(ref, p) PROVE \E e : Entered(e) /\ Asked(e)
  <2>0. PICK e : e = Assigning("assign", ref, p)
    OBVIOUS
  <2>1. LiveChange(e)
    BY <2>0, <1>5 DEF Assign, Assigning
  <2>3. "assign" \in Kinds
    BY KindsAre DEF LiveKinds
  <2>4. Fits(e, n) /\ e.kind = "assign"
    BY <1>0, <2>0, <2>3, AssignMade
  <2> QED BY <1>3, <2>1, <2>4 DEF LiveKinds
<1>6. ASSUME NEW ref \in Refs, NEW f \in Franchises, NEW p \in Players, InsertAfter(ref, f, p)
      PROVE  \E e : Entered(e) /\ Asked(e)
  <2>0. PICK e : e = Giving("insert", ref, f, p)
    OBVIOUS
  <2>1. LiveChange(e)
    BY <2>0, <1>6 DEF InsertAfter, Giving
  <2>3. "insert" \in Kinds
    BY KindsAre DEF LiveKinds
  <2>4. Fits(e, n) /\ e.kind = "insert"
    BY <1>0, <2>0, <2>3, PickMade
  <2> QED BY <1>3, <2>1, <2>4 DEF LiveKinds
<1>7. ASSUME NEW ref \in Refs, NEW old \in Players, NEW new \in Players, ChangePick(ref, old, new)
      PROVE  \E e : Entered(e) /\ Asked(e)
  <2>0. PICK e : e = Changing("change", ref, old, new)
    OBVIOUS
  <2>1. LiveChange(e)
    BY <2>0, <1>7 DEF ChangePick, Changing
  <2>3. "change" \in Kinds
    BY KindsAre DEF LiveKinds
  <2>4. Fits(e, n) /\ e.kind = "change"
    BY <1>0, <2>0, <2>3, ChangeMade
  <2> QED BY <1>3, <2>1, <2>4 DEF LiveKinds
<1>8. ASSUME NEW k \in {"pause", "resume", "archive"}, LiveChange([Blank EXCEPT !.kind = k])
      PROVE  \E e : Entered(e) /\ Asked(e)
  <2>0. PICK e : e = [Blank EXCEPT !.kind = k]
    OBVIOUS
  <2>1. LiveChange(e)
    BY <2>0, <1>8
  <2>3. k \in Kinds \ Givers
    BY KindsAre DEF LiveKinds
  <2>4. Fits(e, n) /\ e.kind = k
    BY <1>0, <2>0, <2>3, KindMade, Zenon
  <2> QED BY <1>3, <2>1, <2>4 DEF LiveKinds
<1>9. ASSUME NEW d \in Durations, LiveChange([Blank EXCEPT !.kind = "set", !.duration = d])
      PROVE  \E e : Entered(e) /\ Asked(e)
  <2>0. PICK e : e = [Blank EXCEPT !.kind = "set", !.duration = d]
    OBVIOUS
  <2>1. LiveChange(e)
    BY <2>0, <1>9
  <2>2. d \in Nat
    BY DraftAssumption
  <2>3. "set" \in Kinds \ Givers
    BY KindsAre DEF LiveKinds
  <2>4. Fits(e, n) /\ e.kind = "set"
    BY <1>0, <2>0, <2>2, <2>3, SetMade, Zenon
  <2> QED BY <1>3, <2>1, <2>4 DEF LiveKinds
<1>10. ASSUME NEW c \in 0..n, Restore(c) PROVE \E e : Entered(e) /\ Asked(e)
  <2>0. PICK e : e = Targeting("restore", c)
    OBVIOUS
  <2>1. LiveChange(e) /\ (c # 0 => Active(ledger)[c])
    BY <2>0, <1>10 DEF Restore, Targeting
  <2>2. c \in 0..n
    BY <1>0
  <2>3. "restore" \in Kinds \ Givers
    BY KindsAre DEF LiveKinds
  <2>4. Fits(e, n) /\ e.kind = "restore" /\ e.target = c
    BY <1>0, <2>0, <2>2, <2>3, TargetMade
  <2> QED BY <1>3, <2>1, <2>4 DEF LiveKinds
<1>11. ASSUME NEW o \in Orders, SetOrder(o) PROVE \E e : Entered(e) /\ Asked(e)
  <2>0. PICK e : e = [Blank EXCEPT !.kind = "order", !.order = o]
    OBVIOUS
  <2>1. Record(e) /\ ~board'.bad
    BY <2>0, <1>11 DEF SetOrder, RecordReadable
  <2>3. "order" \in Kinds \ Givers
    BY KindsAre DEF LiveKinds
  <2>4. Fits(e, n) /\ e.kind = "order"
    BY <1>0, <2>0, <2>3, OrderMade, Zenon
  <2>5. ASSUME NEW z, z.kind = e.kind PROVE Asked(z)
    BY <2>1, <2>4, <2>5 DEF Asked, LiveKinds
  <2> QED BY <1>1, <2>1, <2>4, <2>5
<1>12. ASSUME NEW i \in 1..n, Correct(i) PROVE \E e : Entered(e) /\ Asked(e)
  <2>0. PICK e : e = Targeting("correct", i)
    OBVIOUS
  <2>1. Record(e) /\ ~board'.bad /\ ledger[i].kind = "pick" /\ Active(ledger)[i]
    BY <2>0, <1>12 DEF Correct, RecordReadable, Targeting
  <2>2. i \in 0..n /\ i # 0
    BY <1>0
  <2>3. "correct" \in Kinds \ Givers
    BY KindsAre DEF LiveKinds
  <2>4. Fits(e, n) /\ e.kind = "correct" /\ e.target = i
    BY <1>0, <2>0, <2>2, <2>3, TargetMade
  <2>5. ASSUME NEW z, z.kind = e.kind, z.target = e.target PROVE Asked(z)
    BY <2>1, <2>2, <2>4, <2>5 DEF Asked, LiveKinds
  <2> QED BY <1>1, <2>1, <2>4, <2>5
<1>13. ASSUME NEW i \in 1..n, Revert(i) PROVE \E e : Entered(e) /\ Asked(e)
  <2>0. PICK e : e = Targeting("revert", i)
    OBVIOUS
  <2>1. Record(e) /\ ledger[i].kind \notin LiveKinds /\ (LiveInForce(ledger) => ~board'.bad)
    BY <2>0, <1>13 DEF Revert, Targeting
  <2>2. i \in 0..n /\ i # 0
    BY <1>0
  <2>3. "revert" \in Kinds \ Givers
    BY KindsAre DEF LiveKinds
  <2>4. Fits(e, n) /\ e.kind = "revert" /\ e.target = i
    BY <1>0, <2>0, <2>2, <2>3, TargetMade
  <2>5. ASSUME NEW z, z.kind = e.kind, z.target = e.target PROVE Asked(z)
    BY <2>1, <2>2, <2>4, <2>5 DEF Asked, LiveKinds
  <2> QED BY <1>1, <2>1, <2>4, <2>5
<1>14. Timer => \E e : Entered(e) /\ Asked(e)
  BY <1>8, <1>9 DEF Timer
<1>15. Archive => \E e : Entered(e) /\ Asked(e)
  BY <1>8 DEF Archive
<1> QED BY <1>2, <1>4, <1>5, <1>6, <1>7, <1>10, <1>11, <1>12, <1>13, <1>14, <1>15 DEF Moves

(* Every step lets time pass or records an entry.                          *)
LEMMA Steps ==
  ASSUME DraftInv, [Next]_vars
  PROVE  \/ UNCHANGED vars
         \/ now' = now + 1 /\ ledger' = ledger /\ board' = Reading(ledger, now + 1)
         \/ \E e : Entered(e) /\ Asked(e)
<1>1. Next => Tick \/ Moves
  BY DEF Next, Moves
<1>2. Tick => now' = now + 1 /\ ledger' = ledger /\ board' = Reading(ledger, now + 1)
  BY DEF Tick
<1> QED BY <1>1, <1>2, MovesAre

LEMMA InvInit == Init => DraftInv
<1> SUFFICES ASSUME Init PROVE DraftInv
  OBVIOUS
<1>1. ledger = <<>> /\ now = 0 /\ board = Reading(ledger, now)
  BY DEF Init
<1>2. Log(ledger, now)
  BY <1>1 DEF Log
<1> QED BY <1>1, <1>2 DEF DraftInv

LEMMA InvNext == DraftInv /\ [Next]_vars => DraftInv'
<1> SUFFICES ASSUME DraftInv, [Next]_vars PROVE DraftInv'
  OBVIOUS
<1>1. CASE UNCHANGED vars
  BY <1>1 DEF DraftInv, vars
<1>2. CASE now' = now + 1 /\ ledger' = ledger /\ board' = Reading(ledger, now + 1)
  <2>1. now' \in Nat
    BY <1>2 DEF DraftInv
  <2>2. Log(ledger, now + 1)
    <3>1. \A i \in 1..Len(ledger) : ledger[i].at \in Nat
      BY EntryIs DEF DraftInv, Log
    <3> QED BY <3>1 DEF DraftInv, Log
  <2> QED BY <1>2, <2>1, <2>2 DEF DraftInv
<1>3. ASSUME NEW e, Entered(e), Asked(e) PROVE DraftInv'
  BY <1>3, EnteredKeeps
<1> QED BY <1>1, <1>2, <1>3, Steps

(* The ledger is the only state: every draft anyone reads is the replay of *)
(* a log, and of the shape its readers assume.                             *)
THEOREM DraftIsReplayed == Spec => []DraftInv
BY InvInit, InvNext, PTL DEF Spec

(* Each of its readings has the type its readers assume, with the cursor   *)
(* on a pick that takes a turn or past the last one, and the scheduled     *)
(* picks named once (timeline.settle, preparedPicks).                      *)
THEOREM BoardIsWhole == Spec => []Good(board)
BY BoardIs, DraftIsReplayed, PTL

(* However the draft got there, the picks before the cursor are used and   *)
(* the others are not: the clock never stands beside a pick somebody is    *)
(* owed (timeline.open, timeline.insert).                                  *)
THEOREM CursorAlwaysDivides == Spec => []CursorDivides
<1>1. DraftInv => CursorDivides
  BY BoardIs DEF CursorDivides, Good, Turns
<1> QED BY <1>1, DraftIsReplayed, PTL

-----------------------------------------------------------------------------
(* What one more entry that compensates nothing leaves in force.           *)
Extends(es, v, n, e) ==
  /\ n \in Nat /\ Len(es) = n /\ Len(v) = n + 1 /\ v[n + 1] = e
  /\ \A i \in 1..n : v[i] = es[i] /\ es[i].target < i /\ es[i].target \in Nat

(* It compensates nothing.                                                *)
Plain(e) == e.kind \notin {"correct", "revert"}

LEMMA Extended ==
  ASSUME NEW es, NEW at, Log(es, at), NEW e, Fits(e, Len(es)), NEW v, v = Append(es, e)
  PROVE  Extends(es, v, Len(es), e)
<1>1. Len(es) \in Nat /\ es \in Seq(Entry) /\ e \in Entry
  BY DEF Log, Fits
<1>2. v \in Seq(Entry) /\ Len(v) = Len(es) + 1 /\ v[Len(es) + 1] = e /\ \A i \in 1..Len(es) : v[i] = es[i]
  BY <1>1, AppendIs
<1>3. \A i \in 1..Len(es) : es[i].target < i /\ es[i].target \in Nat
  BY <1>1, EntryIs DEF Log
<1> QED BY <1>1, <1>2, <1>3 DEF Extends

LEMMA AppendWalk ==
  ASSUME NEW es, NEW n, NEW e, NEW v, Extends(es, v, n, e), Plain(e)
  PROVE  /\ Compensated(v)[n + 1]
         /\ \A j \in 1..n : Compensated(v)[j] = Compensated(es)[j]
<1> DEFINE W == Walk(es)
           V == Walk(v)
           Same(i) == V[i][n + 1] /\ \A j \in 1..n : V[i][j] = W[i][j]
           T == {k \in Nat : k <= n => Same(n + 1 - k)}
<1>1. /\ n \in Nat /\ Len(es) = n /\ Len(v) = n + 1 /\ n + 1 \in Nat /\ v[n + 1] = e
      /\ \A i \in 1..n : v[i] = es[i] /\ es[i].target < i /\ es[i].target \in Nat
  BY DEF Extends
<1>3. /\ W \in [1..(n + 1) -> Marks(es)] /\ W[n + 1] = [j \in 1..n |-> TRUE]
      /\ \A i \in 1..n : W[i] = Compensate(es, i, W[i + 1])
  BY <1>1, WalkIs
<1>4. /\ V \in [1..((n + 1) + 1) -> Marks(v)] /\ V[(n + 1) + 1] = [j \in 1..(n + 1) |-> TRUE]
      /\ \A i \in 1..(n + 1) : V[i] = Compensate(v, i, V[i + 1])
  BY <1>1, WalkIs
<1>5. ASSUME NEW i \in 1..n, NEW m \in Marks(es)
      PROVE  /\ ~m[i] \/ es[i].kind \notin {"revert", "correct"} => Compensate(es, i, m) = m
             /\ m[i] /\ es[i].kind \in {"revert", "correct"} =>
                  \A j \in 1..n :
                    Compensate(es, i, m)[j] =
                      IF j # es[i].target THEN m[j] ELSE es[i].kind = "revert" /\ ~m[j]
  BY <1>1, CompensateIs
<1>6. ASSUME NEW i \in 1..(n + 1), NEW m \in Marks(v)
      PROVE  /\ ~m[i] \/ v[i].kind \notin {"revert", "correct"} => Compensate(v, i, m) = m
             /\ m[i] /\ v[i].kind \in {"revert", "correct"} =>
                  \A j \in 1..(n + 1) :
                    Compensate(v, i, m)[j] =
                      IF j # v[i].target THEN m[j] ELSE v[i].kind = "revert" /\ ~m[j]
  BY <1>1, CompensateIs
<1> HIDE DEF V, W
<1>7. V[n + 1] = V[(n + 1) + 1]
  <2>1. n + 1 \in 1..(n + 1) /\ (n + 1) + 1 \in 1..((n + 1) + 1)
    BY <1>1
  <2>2. V[(n + 1) + 1] \in Marks(v)
    BY <1>4, <2>1
  <2> QED BY <1>1, <1>4, <1>6, <2>1, <2>2 DEF Plain
<1>8. Same(n + 1)
  <2>1. n + 1 \in 1..(n + 1) /\ \A j \in 1..n : j \in 1..(n + 1)
    BY <1>1
  <2>2. V[n + 1][n + 1] /\ \A j \in 1..n : V[n + 1][j] = TRUE
    BY <1>4, <1>7, <2>1
  <2>3. \A j \in 1..n : W[n + 1][j] = TRUE
    BY <1>3
  <2> QED BY <2>2, <2>3
<1>9. ASSUME NEW i \in 1..n, Same(i + 1) PROVE Same(i)
  <2>1. i \in 1..(n + 1) /\ i + 1 \in 1..(n + 1) /\ i + 1 \in 1..((n + 1) + 1) /\ n + 1 \in 1..(n + 1)
        /\ \A j \in 1..n : j \in 1..(n + 1)
    BY <1>1
  <2> DEFINE w == W[i + 1]
             m == V[i + 1]
  <2>3. W[i] = Compensate(es, i, w) /\ V[i] = Compensate(v, i, m) /\ v[i] = es[i]
    BY <1>1, <1>3, <1>4, <2>1
  <2>4. w \in Marks(es) /\ m \in Marks(v)
    BY <1>3, <1>4, <2>1
  <2>5. es[i].target # n + 1
    BY <1>1
  <2>6. m[n + 1] /\ \A j \in 1..n : m[j] = w[j]
    BY <1>9
  <2> HIDE DEF w, m
  <2>7. CASE ~w[i] \/ es[i].kind \notin {"revert", "correct"}
    <3>1. W[i] = w
      BY <1>5, <2>3, <2>4, <2>7
    <3>2. V[i] = m
      BY <1>6, <2>1, <2>3, <2>4, <2>6, <2>7
    <3> QED BY <2>6, <3>1, <3>2
  <2>8. CASE w[i] /\ es[i].kind \in {"revert", "correct"}
    <3>1. ASSUME NEW j \in 1..n
          PROVE  W[i][j] = IF j # es[i].target THEN w[j] ELSE es[i].kind = "revert" /\ ~w[j]
      BY <1>5, <2>3, <2>4, <2>8
    <3>2. ASSUME NEW j \in 1..(n + 1)
          PROVE  V[i][j] = IF j # es[i].target THEN m[j] ELSE es[i].kind = "revert" /\ ~m[j]
      BY <1>6, <2>1, <2>3, <2>4, <2>6, <2>8
    <3>3. V[i][n + 1]
      BY <2>1, <2>5, <2>6, <3>2
    <3>4. ASSUME NEW j \in 1..n PROVE V[i][j] = W[i][j]
      BY <2>1, <2>6, <3>1, <3>2
    <3> QED BY <3>3, <3>4
  <2> QED BY <2>7, <2>8
<1> HIDE DEF Same
<1>10. 0 \in T
  <2>1. n + 1 - 0 = n + 1
    BY <1>1
  <2> QED BY <1>8, <2>1
<1>11. ASSUME NEW k \in Nat, k \in T PROVE k + 1 \in T
  <2> SUFFICES ASSUME k + 1 <= n PROVE Same(n + 1 - (k + 1))
    OBVIOUS
  <2>1. n - k \in 1..n /\ n + 1 - (k + 1) = n - k /\ n + 1 - k = (n - k) + 1 /\ k <= n
    BY <1>1
  <2>2. Same((n - k) + 1)
    BY <1>11, <2>1
  <2> QED BY <1>9, <2>1, <2>2
<1>12. n \in T
  <2> HIDE DEF T
  <2> QED BY <1>1, <1>10, <1>11, NatsIn
<1>13. Same(1)
  <2>1. n + 1 - n = 1
    BY <1>1
  <2> QED BY <1>1, <1>12, <2>1
<1> QED BY <1>13 DEF Same, Compensated, V, W

LEMMA AppendActive ==
  ASSUME NEW es, NEW n, NEW e, NEW v, Extends(es, v, n, e), Plain(e)
  PROVE  /\ Active(v)[n + 1]
         /\ \A i \in 1..n :
              Active(v)[i] = (Active(es)[i] /\ ~( e.kind = "restore" /\ e.target < i
                                                  /\ es[i].kind \in LiveKinds))
<1> DEFINE A == Asides(es, Compensated(es))
           B == Asides(v, Compensated(v))
           Same(k) == B[k][n + 1] /\ \A j \in 1..n : B[k][j] = A[k][j]
           T == {k \in Nat : k <= n => Same(k)}
<1>1. /\ n \in Nat /\ Len(es) = n /\ Len(v) = n + 1 /\ n + 1 \in Nat /\ v[n + 1] = e
      /\ \A i \in 1..n : v[i] = es[i] /\ i \in 1..(n + 1)
      /\ n + 1 \in 1..(n + 1) /\ (n + 1) - 1 = n /\ n \in 0..(n + 1) /\ n + 1 \in 0..(n + 1)
  BY DEF Extends
<1>3. Compensated(es) \in Marks(es) /\ Compensated(v) \in Marks(v)
  <2>1. 1 \in 1..(n + 1) /\ 1 \in 1..((n + 1) + 1)
    BY <1>1
  <2> QED BY <1>1, <2>1, WalkIs DEF Compensated
<1>4. /\ A \in [0..n -> Marks(es)] /\ A[0] = Compensated(es)
      /\ \A j \in 1..n : A[j] = Restores(es, j, A[j - 1])
  BY <1>1, <1>3, AsidesIs
<1>5. /\ B \in [0..(n + 1) -> Marks(v)] /\ B[0] = Compensated(v)
      /\ \A j \in 1..(n + 1) : B[j] = Restores(v, j, B[j - 1])
  <2>1. Len(v) \in Nat
    BY <1>1
  <2>2. /\ B \in [0..Len(v) -> Marks(v)] /\ B[0] = Compensated(v)
        /\ \A j \in 1..Len(v) : B[j] = Restores(v, j, B[j - 1])
    BY <1>3, <2>1, AsidesIs
  <2> HIDE DEF B
  <2> QED BY <1>1, <2>2
<1>6. Active(es) = A[n] /\ Active(v) = B[n + 1]
  BY <1>1 DEF Active, SetAside
<1> HIDE DEF A, B
<1>7. ASSUME NEW j \in 1..n, NEW m \in Marks(es), NEW i \in 1..n
      PROVE  Restores(es, j, m)[i] =
               (m[i] /\ ~(es[j].kind = "restore" /\ m[j] /\ es[j].target < i /\ i < j /\ es[i].kind \in LiveKinds))
  BY <1>1, RestoresIs
<1>8. ASSUME NEW j \in 1..(n + 1), NEW m \in Marks(v), NEW i \in 1..(n + 1)
      PROVE  Restores(v, j, m)[i] =
               (m[i] /\ ~(v[j].kind = "restore" /\ m[j] /\ v[j].target < i /\ i < j /\ v[i].kind \in LiveKinds))
  BY <1>1, RestoresIs
<1>9. 0 \in T
  <2>1. Compensated(v)[n + 1] /\ \A j \in 1..n : Compensated(v)[j] = Compensated(es)[j]
    BY AppendWalk
  <2>2. Same(0)
    BY <1>4, <1>5, <2>1
  <2> QED BY <2>2
<1>10. ASSUME NEW j \in 1..n, Same(j - 1) PROVE Same(j)
  <2>1. j \in 1..(n + 1) /\ j - 1 \in 0..n /\ j - 1 \in 0..(n + 1) /\ ~(n + 1 < j)
    BY <1>1
  <2> DEFINE a == A[j - 1]
             b == B[j - 1]
  <2>2. A[j] = Restores(es, j, a) /\ B[j] = Restores(v, j, b) /\ v[j] = es[j]
    BY <1>1, <1>4, <1>5, <2>1
  <2>3. a \in Marks(es) /\ b \in Marks(v)
    BY <1>4, <1>5, <2>1
  <2>4. b[n + 1] /\ \A i \in 1..n : b[i] = a[i]
    BY <1>10
  <2> HIDE DEF a, b
  <2>5. B[j][n + 1]
    <3>1. B[j][n + 1] = (b[n + 1] /\ ~(v[j].kind = "restore" /\ b[j] /\ v[j].target < n + 1
                                       /\ n + 1 < j /\ v[n + 1].kind \in LiveKinds))
      BY <1>1, <1>8, <2>1, <2>2, <2>3
    <3> QED BY <2>1, <2>4, <3>1
  <2>6. ASSUME NEW i \in 1..n PROVE B[j][i] = A[j][i]
    <3>1. i \in 1..(n + 1) /\ v[i] = es[i] /\ b[i] = a[i] /\ b[j] = a[j]
      BY <1>1, <2>4
    <3> QED BY <1>7, <1>8, <2>1, <2>2, <2>3, <3>1
  <2> QED BY <2>5, <2>6
<1> HIDE DEF Same
<1>11. ASSUME NEW k \in Nat, k \in T PROVE k + 1 \in T
  <2> SUFFICES ASSUME k + 1 <= n PROVE Same(k + 1)
    OBVIOUS
  <2>1. k + 1 \in 1..n /\ (k + 1) - 1 = k /\ k <= n
    BY <1>1
  <2>2. Same(k)
    BY <1>11, <2>1
  <2> QED BY <1>10, <2>1, <2>2
<1>12. n \in T
  <2> HIDE DEF T
  <2> QED BY <1>1, <1>9, <1>11, NatsIn
<1>13. B[n][n + 1] /\ \A j \in 1..n : B[n][j] = A[n][j]
  BY <1>1, <1>12 DEF Same
<1>14. B[n + 1] = Restores(v, n + 1, B[n]) /\ B[n] \in Marks(v)
  BY <1>1, <1>5
<1>15. B[n + 1][n + 1]
  <2>1. ~(n + 1 < n + 1)
    BY <1>1
  <2>2. B[n + 1][n + 1] = (B[n][n + 1] /\ ~(v[n + 1].kind = "restore" /\ B[n][n + 1] /\ v[n + 1].target < n + 1
                                            /\ n + 1 < n + 1 /\ v[n + 1].kind \in LiveKinds))
    BY <1>1, <1>8, <1>14
  <2> QED BY <1>13, <2>1, <2>2
<1>16. ASSUME NEW i \in 1..n
       PROVE  B[n + 1][i] = (A[n][i] /\ ~(e.kind = "restore" /\ e.target < i /\ es[i].kind \in LiveKinds))
  <2>1. i \in 1..(n + 1) /\ i < n + 1 /\ v[i] = es[i] /\ B[n][i] = A[n][i] /\ v[n + 1] = e /\ n + 1 \in 1..(n + 1)
    BY <1>1, <1>13
  <2>2. B[n + 1][i] = (B[n][i] /\ ~(v[n + 1].kind = "restore" /\ B[n][n + 1] /\ v[n + 1].target < i
                                     /\ i < n + 1 /\ v[i].kind \in LiveKinds))
    BY <1>8, <1>14, <2>1
  <2> QED BY <1>13, <2>1, <2>2
<1> QED BY <1>6, <1>15, <1>16

-----------------------------------------------------------------------------
(* The acts and the order of a log that one entry was added to.            *)
LEMMA AppendActs ==
  ASSUME NEW es, NEW v, NEW at, NEW e, Log(es, at), Log(v, at), Extends(es, v, Len(es), e),
         e.kind \in LiveKinds \ {"restore"} \/ e.kind = "order"
  PROVE  /\ e.kind \in LiveKinds => DraftActs(v) = Append(DraftActs(es), ActOf(v, e)) /\ OrderOf(v) = OrderOf(es)
         /\ e.kind = "order" => DraftActs(v) = DraftActs(es)
<1> DEFINE n == Len(es)
           X == ActsOf(es)
           Z == ActsOf(v)
           I == InForce(es)
           J == InForce(v)
<1>1. /\ n \in Nat /\ Len(v) = n + 1 /\ n + 1 \in Nat /\ v[n + 1] = e
      /\ \A i \in 1..n : v[i] = es[i] /\ i \in 1..(n + 1) /\ i # n + 1
      /\ n + 1 \in 1..(n + 1) /\ (n + 1) - 1 = n /\ n <= n + 1 /\ n <= n
  BY DEF Extends
<1>2. Active(v)[n + 1] /\ \A i \in 1..n : Active(v)[i] = Active(es)[i]
  <2>1. Plain(e) /\ e.kind # "restore"
    BY DEF LiveKinds, Plain
  <2>2. /\ Active(v)[n + 1]
        /\ \A i \in 1..n : Active(v)[i] = (Active(es)[i] /\ ~( e.kind = "restore" /\ e.target < i
                                                               /\ es[i].kind \in LiveKinds))
    BY <2>1, AppendActive
  <2>3. \A i \in 1..n : Active(es)[i] \in BOOLEAN /\ Active(v)[i] \in BOOLEAN
    BY <1>1, ActiveIs DEF Marks
  <2> QED BY <2>1, <2>2, <2>3
<1>3. \A i \in 1..n : i \in I <=> i \in J
  BY <1>1, <1>2 DEF InForce
<1>4. n + 1 \in J <=> e.kind \in LiveKinds
  BY <1>1, <1>2 DEF InForce
<1>5. ASSUME NEW i \in 1..n PROVE X[i] = Z[i]
  <2>1. X[i] = ActOf(es, es[i]) /\ Z[i] = ActOf(v, es[i])
    BY <1>1 DEF ActsOf
  <2>2. EntryAt(es, es[i].target) = EntryAt(v, es[i].target)
    <3>1. es[i].target \in 0..n
      BY <1>1 DEF Extends
    <3> QED BY <1>1, <3>1 DEF EntryAt
  <2> QED BY <2>1, <2>2 DEF ActOf
<1>6. Z[n + 1] = ActOf(v, e)
  BY <1>1 DEF ActsOf
<1>7. /\ DraftActs(es) = Kept(X, I)[n] /\ X \in Seq(Act) /\ Len(X) = n
      /\ DraftActs(v) = Kept(Z, J)[n + 1] /\ Z \in Seq(Act) /\ Len(Z) = n + 1
  BY <1>1, DraftActsIs
<1> HIDE DEF X, Z, I, J
<1>8. Kept(X, I)[n] = Kept(Z, J)[n]
  <2>1. \A i \in 1..n : (i \in I <=> i \in J) /\ (i \in I => X[i] = Z[i])
    BY <1>3, <1>5
  <2>2. n <= Len(X) /\ n <= Len(Z)
    BY <1>1, <1>7
  <2> QED BY <1>1, <1>7, <2>1, <2>2, KeptAlike
<1>9. Kept(Z, J)[n + 1] = IF n + 1 \in J THEN Append(Kept(Z, J)[n], Z[n + 1]) ELSE Kept(Z, J)[n]
  <2>1. \A i \in 1..(n + 1) : Kept(Z, J)[i] = IF i \in J THEN Append(Kept(Z, J)[i - 1], Z[i]) ELSE Kept(Z, J)[i - 1]
    BY <1>7, KeptIs
  <2> QED BY <1>1, <2>1
<1>10. e.kind = "order" => e.kind \notin LiveKinds
  BY DEF LiveKinds
<1>11. e.kind \in LiveKinds => OrderOf(v) = OrderOf(es)
  <2> SUFFICES ASSUME e.kind \in LiveKinds PROVE OrderOf(v) = OrderOf(es)
    OBVIOUS
  <2>1. Decided(v) = Decided(es)
    <3>1. ASSUME NEW i \in 1..(n + 1) PROVE i \in Decided(v) <=> i \in Decided(es)
      <4>1. CASE i = n + 1
        BY <1>1, <1>10, <4>1 DEF Decided
      <4>2. CASE i \in 1..n
        BY <1>1, <1>2, <4>2 DEF Decided
      <4> QED BY <1>1, <4>1, <4>2
    <3>2. Decided(v) \subseteq 1..(n + 1) /\ Decided(es) \subseteq 1..(n + 1)
      BY <1>1 DEF Decided
    <3> QED BY <3>1, <3>2
  <2>2. Decided(es) # {} => Max(Decided(es)) \in 1..n
    <3>1. Decided(es) \subseteq 1..n
      BY DEF Decided
    <3> QED BY <1>1, <3>1, MaxIs
  <2> QED BY <1>1, <2>1, <2>2, OrderOfIs
<1> QED BY <1>4, <1>6, <1>7, <1>8, <1>9, <1>10, <1>11

(* One act more.                                                           *)
LEMMA AppendFolded ==
  ASSUME NEW first \in Orders, NEW acts, NEW X, acts \in Seq(X), IsActs(acts), NEW a \in X, IsAct(a)
  PROVE  Folded(first, Append(acts, a)) = Apply(Folded(first, acts), a) /\ IsActs(Append(acts, a))
<1> DEFINE f == Fresh(first)
           n == Len(acts)
           v == Append(acts, a)
           R == Replayed(f, acts)
           S == Replayed(f, v)
           T == {k \in Nat : k <= n => S[k] = R[k]}
<1>1. Good(f)
  BY NewTimelineIs DEF Fresh
<1>2. /\ v \in Seq(X) /\ Len(v) = n + 1 /\ v[n + 1] = a /\ n \in Nat /\ \A i \in 1..n : v[i] = acts[i]
  BY AppendIs
<1>3. IsActs(v)
  <2>1. ASSUME NEW i \in 1..(n + 1) PROVE IsAct(v[i])
    <3>1. CASE i \in 1..n
      BY <1>2, <3>1 DEF IsActs
    <3>2. CASE i = n + 1
      BY <1>2, <3>2
    <3> QED BY <1>2, <3>1, <3>2
  <2> QED BY <1>2, <2>1 DEF IsActs
<1>4. R[0] = f /\ \A i \in 1..n : R[i] = Apply(R[i - 1], acts[i])
  BY <1>1, ReplayedIs
<1> HIDE DEF v
<1>5. S[0] = f /\ \A i \in 1..(n + 1) : S[i] = Apply(S[i - 1], v[i])
  BY <1>1, <1>2, <1>3, ReplayedIs
<1> HIDE DEF R, S, f
<1>6. 0 \in T
  BY <1>4, <1>5
<1>7. ASSUME NEW k \in Nat, k \in T PROVE k + 1 \in T
  <2> SUFFICES ASSUME k + 1 <= n PROVE S[k + 1] = R[k + 1]
    OBVIOUS
  <2>1. k + 1 \in 1..n /\ k + 1 \in 1..(n + 1) /\ (k + 1) - 1 = k /\ k <= n
    BY <1>2
  <2>2. S[k] = R[k] /\ v[k + 1] = acts[k + 1]
    BY <1>2, <1>7, <2>1
  <2>3. R[k + 1] = Apply(R[k], acts[k + 1]) /\ S[k + 1] = Apply(S[k], v[k + 1])
    BY <1>4, <1>5, <2>1
  <2> QED BY <2>2, <2>3
<1>8. n \in T
  <2> HIDE DEF T
  <2> QED BY <1>2, <1>6, <1>7, NatsIn
<1>9. S[n + 1] = Apply(S[n], a) /\ S[n] = R[n]
  <2>1. n + 1 \in 1..(n + 1) /\ (n + 1) - 1 = n
    BY <1>2
  <2> QED BY <1>2, <1>5, <1>8, <2>1
<1>10. Folded(first, v) = S[n + 1] /\ Folded(first, acts) = R[n]
  BY <1>2 DEF Folded, R, S, f
<1> QED BY <1>3, <1>9, <1>10 DEF v

-----------------------------------------------------------------------------
(* The board before and after a step.                                      *)
FoldOf(es) == Folded(OrderOf(es), DraftActs(es))

(* No act is later than the reading.                                       *)
LEMMA FoldedLast ==
  ASSUME NEW es, NEW at \in Nat, Log(es, at), at >= Start
  PROVE  FoldOf(es).last <= at
<1> DEFINE f == Fresh(OrderOf(es))
           acts == DraftActs(es)
           n == Len(acts)
           R == Replayed(f, acts)
           T == {k \in Nat : k <= n => R[k].last <= at}
<1>1. Good(f) /\ f.last = Start
  BY OrderOfIs, NewTimelineIs DEF Fresh
<1>2. IsActs(acts) /\ n \in Nat /\ \A i \in 1..n : acts[i].at <= at
  BY DraftActsIs DEF IsActs
<1>3. /\ R[0] = f /\ \A i \in 1..n : R[i] = Apply(R[i - 1], acts[i])
      /\ \A i \in 0..n : Good(R[i])
  BY <1>1, <1>2, ReplayedIs
<1> HIDE DEF R, f, acts
<1>4. 0 \in T
  BY <1>1, <1>3, EngineAssumption
<1>5. ASSUME NEW k \in Nat, k \in T PROVE k + 1 \in T
  <2> SUFFICES ASSUME k + 1 <= n PROVE R[k + 1].last <= at
    OBVIOUS
  <2>1. k + 1 \in 1..n /\ (k + 1) - 1 = k /\ k \in 0..n /\ k <= n
    BY <1>2
  <2>2. Good(R[k]) /\ IsAct(acts[k + 1]) /\ R[k + 1] = Apply(R[k], acts[k + 1]) /\ R[k].last <= at
    BY <1>2, <1>3, <1>5, <2>1 DEF IsActs
  <2>3. R[k + 1].last = R[k].last \/ R[k + 1].last = acts[k + 1].at
    BY <2>2, ApplyIs
  <2> QED BY <1>2, <2>1, <2>2, <2>3
<1>6. n \in T
  <2> HIDE DEF T
  <2> QED BY <1>2, <1>4, <1>5, NatsIn
<1> QED BY <1>2, <1>6 DEF FoldOf, Folded, R, f, acts

LEMMA ReadingOf ==
  ASSUME NEW es, NEW at \in Nat, Log(es, at), at >= Start, NEW v, v = Reading(es, at)
  PROVE  /\ Good(v) /\ Good(FoldOf(es)) /\ FoldOf(es).last <= at
         /\ v.bad <=> FoldOf(es).bad
         /\ ~v.bad => v = Advance(FoldOf(es), at) /\ ~Overdue(v, at)
<1>1. /\ Good(v) /\ Good(FoldOf(es))
      /\ v.bad <=> FoldOf(es).bad
      /\ ~v.bad => v = Advance(FoldOf(es), at)
  BY ReadingIs DEF FoldOf
<1> QED BY <1>1, FoldedLast, AdvanceIs

LEMMA LaterLog ==
  ASSUME NEW es, NEW at \in Nat, Log(es, at), NEW z \in Nat, at <= z
  PROVE  Log(es, z)
<1>1. \A i \in 1..Len(es) : es[i].at \in Nat
  BY EntryIs DEF Log
<1> QED BY <1>1 DEF Log

(* Time passes: the board goes on by its clocks alone.                     *)
LEMMA TimePasses ==
  ASSUME DraftInv, board' = Reading(ledger, now + 1)
  PROVE  /\ now >= Start /\ ~board.bad =>
              /\ Later(board', board, now + 1) /\ ~Overdue(board, now) /\ ~Overdue(board', now + 1)
              /\ ~Overdue(board, now + 1) => board' = board
         /\ board'.bad => board.bad
<1> DEFINE F == FoldOf(ledger)
<1>1. now \in Nat /\ now + 1 \in Nat /\ Log(ledger, now) /\ Log(ledger, now + 1) /\ Start \in Nat
  BY LaterLog, EngineAssumption DEF DraftInv
<1>2. CASE now >= Start
  <2>1. /\ Good(board) /\ Good(F) /\ (board.bad <=> F.bad)
        /\ ~board.bad => board = Advance(F, now) /\ ~Overdue(board, now)
    BY <1>1, <1>2, ReadingOf DEF DraftInv
  <2>2. /\ board'.bad <=> F.bad
        /\ ~board'.bad => board' = Advance(F, now + 1)
    <3>1. now + 1 >= Start
      BY <1>1, <1>2
    <3> QED BY <1>1, <3>1, ReadingOf
  <2> HIDE DEF F
  <2>3. ASSUME ~board.bad PROVE board' = Advance(board, now + 1)
    <3>1. Advance(Advance(F, now), now + 1) = Advance(F, now + 1)
      BY <1>1, <2>1, AdvanceAdds
    <3> QED BY <2>1, <2>2, <2>3, <3>1
  <2>4. ASSUME ~board.bad
        PROVE  /\ Later(board', board, now + 1) /\ ~Overdue(board', now + 1)
               /\ ~Overdue(board, now + 1) => board' = board
    BY <1>1, <2>1, <2>3, <2>4, AdvanceIs
  <2> QED BY <2>1, <2>2, <2>4
<1>3. CASE now < Start
  <2>1. board.bad <=> DraftActs(ledger) # <<>>
    BY <1>1, <1>3, ReadingIs DEF DraftInv
  <2>2. CASE now + 1 < Start
    <3>1. board'.bad <=> DraftActs(ledger) # <<>>
      BY <1>1, <2>2, ReadingIs
    <3> QED BY <1>1, <1>3, <2>1, <3>1
  <2>3. CASE now + 1 >= Start
    <3>1. board'.bad <=> F.bad
      BY <1>1, <2>3, ReadingOf
    <3>2. ASSUME DraftActs(ledger) = <<>> PROVE ~F.bad
      <4>1. F = Replayed(Fresh(OrderOf(ledger)), <<>>)[0]
        BY <3>2 DEF FoldOf, Folded
      <4>2. Good(Fresh(OrderOf(ledger))) /\ ~Fresh(OrderOf(ledger)).bad
        BY <1>1, OrderOfIs, NewTimelineIs DEF Fresh
      <4>3. IsActs(<<>>)
        BY DEF IsActs
      <4>4. Replayed(Fresh(OrderOf(ledger)), <<>>)[0] = Fresh(OrderOf(ledger))
        BY <4>2, <4>3, ReplayedIs
      <4> QED BY <4>1, <4>2, <4>4
    <3> QED BY <1>1, <1>3, <2>1, <3>1, <3>2
  <2> QED BY <1>1, <2>2, <2>3
<1> QED BY <1>1, <1>2, <1>3

(* An entry of the running draft is recorded.                              *)
Done1(s, t) ==
  /\ s.picks = t.picks /\ s.cursor = t.cursor /\ s.deadline = t.deadline /\ s.paused = t.paused
  /\ s.remaining = t.remaining /\ s.bad = t.bad

LEMMA ActRecorded ==
  ASSUME DraftInv, NEW e, Entered(e), Asked(e), e.kind \in LiveKinds \ {"restore"}
  PROVE  \E s, a :
           /\ Good(s) /\ Done1(s, board) /\ ~s.bad /\ ~Overdue(s, now)
           /\ IsAct(a) /\ a.kind = e.kind /\ a.ref = e.ref /\ a.owner = e.owner
           /\ a.player = e.player /\ a.replaces = e.replaces
           /\ Good(Done(s, a)) /\ (board'.bad <=> Done(s, a).bad)
           /\ ~board'.bad => board' = Advance(Done(s, a), now)
<1> DEFINE F == FoldOf(ledger)
           n == Len(ledger)
           a == ActOf(ledger', e)
           s == Stamped(F, a)
           d == Done(s, a)
<1>1. /\ now \in Nat /\ Log(ledger, now) /\ Fits(e, n) /\ e.at = now /\ ledger' = Append(ledger, e)
      /\ now' = now /\ board' = Reading(ledger', now) /\ board = Reading(ledger, now)
  BY DEF DraftInv, Entered
<1>2. ~board.bad /\ now >= Start
  BY DEF Asked
<1>3. Log(ledger', now) /\ Extends(ledger, ledger', n, e)
  BY <1>1, EnteredKeeps, Extended DEF DraftInv
<1>4. /\ Good(board) /\ Good(F) /\ ~F.bad /\ F.last <= now
      /\ board = Advance(F, now) /\ ~Overdue(board, now)
  BY <1>1, <1>2, ReadingOf
<1>5. DraftActs(ledger') = Append(DraftActs(ledger), a) /\ OrderOf(ledger') = OrderOf(ledger)
  BY <1>1, <1>3, AppendActs
<1>6. /\ IsAct(a) /\ a \in Act /\ a.kind = e.kind /\ a.ref = e.ref /\ a.owner = e.owner /\ a.at = now
      /\ a.player = e.player /\ a.replaces = e.replaces
  <2>1. ledger'[n + 1] = e /\ n + 1 \in 1..Len(ledger')
    BY <1>3 DEF Extends
  <2>2. PICK es : es = ledger'
    OBVIOUS
  <2>3. Log(es, now) /\ n + 1 \in 1..Len(es) /\ es[n + 1] = e /\ a = ActOf(es, es[n + 1])
    BY <1>3, <2>1, <2>2
  <2> HIDE DEF a
  <2>4. /\ a \in Act /\ (es[n + 1].kind \in LiveKinds => IsAct(a))
        /\ a.kind = es[n + 1].kind /\ a.at = es[n + 1].at /\ a.ref = es[n + 1].ref /\ a.owner = es[n + 1].owner
        /\ a.player = es[n + 1].player /\ a.replaces = es[n + 1].replaces
    BY <2>3, ActOfIs
  <2> QED BY <1>1, <2>3, <2>4
<1>7. FoldOf(ledger') = Apply(F, a)
  <2>1. OrderOf(ledger) \in Orders
    BY <1>1, OrderOfIs
  <2>2. IsActs(DraftActs(ledger)) /\ DraftActs(ledger) \in Seq({x \in Act : IsAct(x) /\ x.at <= now})
    BY <1>1, DraftActsIs
  <2>3. a \in {x \in Act : IsAct(x) /\ x.at <= now}
    BY <1>1, <1>6
  <2> HIDE DEF a
  <2>4. Folded(OrderOf(ledger), Append(DraftActs(ledger), a)) = Apply(Folded(OrderOf(ledger), DraftActs(ledger)), a)
    BY <1>6, <2>1, <2>2, <2>3, AppendFolded
  <2> QED BY <1>5, <2>4 DEF FoldOf
<1> HIDE DEF F, a
<1>8. Good(s) /\ Done1(s, board) /\ s.last = a.at
  <2>1. AdvancedTo(a) = now
    BY <1>6 DEF AdvancedTo
  <2>2. /\ Good(s) /\ s.picks = board.picks /\ s.cursor = board.cursor /\ s.deadline = board.deadline
        /\ s.paused = board.paused /\ s.remaining = board.remaining /\ s.bad = F.bad /\ s.last = a.at
    BY <1>4, <1>6, <2>1, StampedIs
  <2> QED BY <1>2, <1>4, <2>2 DEF Done1, Good, Line
<1>9. Apply(F, a) = d /\ Good(d)
  <2>1. ~(F.bad \/ a.at < F.last)
    BY <1>1, <1>4, <1>6, GoodIs
  <2> QED BY <1>4, <1>6, <2>1, ApplyIs
<1>10. (board'.bad <=> d.bad) /\ (~board'.bad => board' = Advance(d, now))
  <2>1. /\ board'.bad <=> FoldOf(ledger').bad
        /\ ~board'.bad => board' = Advance(FoldOf(ledger'), now)
    BY <1>1, <1>2, <1>3, ReadingOf
  <2> QED BY <1>7, <1>9, <2>1
<1>11. ~s.bad /\ ~Overdue(s, now)
  BY <1>2, <1>4, <1>8 DEF Done1, Overdue, OnClock
<1> QED BY <1>6, <1>8, <1>9, <1>10, <1>11

LEMMA RecordedKind ==
  ASSUME DraftInv, NEW e, Entered(e)
  PROVE  /\ Last(ledger') = e /\ Len(ledger') = Len(ledger) + 1 /\ Len(ledger) \in Nat
         /\ \A S : Recorded(S) <=> e.kind \in S
<1>1. Log(ledger, now) /\ Fits(e, Len(ledger)) /\ ledger' = Append(ledger, e)
  BY DEF DraftInv, Entered
<1>2. Extends(ledger, ledger', Len(ledger), e)
  BY <1>1, Extended
<1>3. /\ Len(ledger) \in Nat /\ Len(ledger') = Len(ledger) + 1 /\ ledger'[Len(ledger) + 1] = e
      /\ Len(ledger') > Len(ledger)
  BY <1>2 DEF Extends
<1>4. Last(ledger') = e
  BY <1>3 DEF Last
<1> QED BY <1>3, <1>4 DEF Recorded

(* Nothing is recorded while time passes or nothing happens.               *)
LEMMA NothingRecorded ==
  ASSUME DraftInv, ledger' = ledger PROVE \A S : ~Recorded(S)
<1>1. Len(ledger) \in Nat
  BY DEF DraftInv, Log
<1> QED BY <1>1 DEF Recorded

-----------------------------------------------------------------------------
(* Time alone skips picks only as their clocks run out, each at its own    *)
(* deadline, never while the clock is paused (timeline.advance).           *)
THEOREM TimeOnlyExpiresClocks == Spec => TimeOnlyExpires
<1> DEFINE Only ==
      now' # now /\ ~board.bad /\ now >= Start =>
        /\ \A i \in 1..Len(board.picks) :
             board'.picks[i] # board.picks[i] =>
               ~board.paused /\ ~Used(board.picks[i]) /\ board'.picks[i].at = now'
        /\ OnClock(board') /\ ~board'.paused => now' < board'.deadline
        /\ board'.cursor = board.cursor /\ OnClock(board) => board'.deadline = board.deadline
<1>1. ASSUME DraftInv, [Next]_vars PROVE Only
  <2> SUFFICES ASSUME now' # now, ~board.bad, now >= Start PROVE Only
    OBVIOUS
  <2>1. now' = now + 1 /\ board' = Reading(ledger, now + 1)
    BY <1>1, Steps DEF Entered, vars
  <2>2. /\ Later(board', board, now + 1) /\ ~Overdue(board, now) /\ ~Overdue(board', now + 1)
        /\ ~Overdue(board, now + 1) => board' = board
    BY <1>1, <2>1, TimePasses
  <2>3. Good(board) /\ now \in Nat
    BY <1>1, BoardIs DEF DraftInv
  <2>4. board.deadline \in Nat /\ board'.deadline \in Nat /\ Len(board.picks) \in Nat /\ Good(board')
    BY <2>2, <2>3, GoodIs, LaterGood
  <2>5. ASSUME NEW i \in 1..Len(board.picks), board'.picks[i] # board.picks[i]
        PROVE  ~board.paused /\ ~Used(board.picks[i]) /\ board'.picks[i].at = now'
    <3>1. Overdue(board, now + 1)
      BY <2>2, <2>5
    <3>2. board.deadline = now + 1
      BY <2>2, <2>3, <2>4, <3>1 DEF Overdue
    <3>3. /\ ~board.paused /\ ~Used(board.picks[i])
          /\ board'.picks[i].at >= board.deadline /\ board'.picks[i].at <= now + 1
      BY <2>2, <2>5 DEF Later
    <3>4. board'.picks[i].at \in Nat
      <4>1. i \in 1..Len(board'.picks)
        BY <2>2 DEF Later
      <4> QED BY <2>4, <4>1, GoodIs
    <3> QED BY <2>1, <2>3, <3>2, <3>3, <3>4
  <2>6. OnClock(board') /\ ~board'.paused => now' < board'.deadline
    BY <2>1, <2>2, <2>3, <2>4 DEF Overdue
  <2>7. board'.cursor = board.cursor => board' = board
    BY <2>2 DEF Later
  <2> QED BY <2>5, <2>6, <2>7
<1>2. DraftInv /\ [Next]_vars => [Only]_vars
  BY <1>1
<1>3. TimeOnlyExpires <=> [][Only]_vars
  BY DEF TimeOnlyExpires
<1> QED BY <1>2, <1>3, DraftIsReplayed, PTL DEF Spec

-----------------------------------------------------------------------------
(* The pick the owner on the clock makes is one the draft takes.           *)
LEMMA PickTaken ==
  ASSUME DraftInv, NEW e, Entered(e), Asked(e), e.kind = "pick"
  PROVE  ~board'.bad
<1>0. e.kind \in LiveKinds \ {"restore"}
  BY DEF LiveKinds
<1>1. PICK s, a :
        /\ Good(s) /\ Done1(s, board) /\ ~s.bad /\ ~Overdue(s, now)
        /\ IsAct(a) /\ a.kind = e.kind /\ a.ref = e.ref /\ a.owner = e.owner
        /\ a.player = e.player /\ a.replaces = e.replaces
        /\ Good(Done(s, a)) /\ (board'.bad <=> Done(s, a).bad)
  BY <1>0, ActRecorded
<1> DEFINE c == s.cursor
           i == First(s, a.ref)
           q == Fill(s.picks[c], a)
           u == [s EXCEPT !.picks[c] = q]
<1>2. /\ OnClock(s) /\ ~s.paused /\ s.picks[c].owner = a.owner /\ Undrafted(s, a.player)
      /\ a.ref = Ref(s.picks[c])
  BY <1>1 DEF Asked, Done1, OnClock, Undrafted
<1>3. /\ c \in 1..Len(s.picks) /\ s \in Line /\ s.picks[c] \in Pick /\ s.picks[c].extra = 0
      /\ Named(s.picks) /\ a.at \in Nat
  <2>1. c \in 1..Len(s.picks) /\ TakesTurn(s.picks[c]) /\ Named(s.picks)
    BY <1>1, <1>2, GoodIs DEF Good, InTurn, OnClock
  <2> QED BY <1>1, <2>1, GoodIs DEF TakesTurn, IsAct
<1>4. Find(s, a.ref) # {}
  BY <1>2, <1>3 DEF Find
<1>5. i = c
  <2>1. i \in 1..Len(s.picks) /\ Ref(s.picks[i]) = a.ref
    BY <1>1, <1>4, FirstIs
  <2> HIDE DEF i, c
  <2>2. s.picks[i].extra = 0 /\ s.picks[i].round = s.picks[c].round /\ s.picks[i].original = s.picks[c].original
    BY <1>2, <1>3, <2>1 DEF Ref
  <2> QED BY <1>3, <2>1, <2>2 DEF Named
<1>6. Done(s, a) = OpenNext(u, a.at)
  <2>1. Done(s, a) = Choose(s, a)
    BY <1>1 DEF Done
  <2> QED BY <1>1, <1>2, <1>4, <1>5, <2>1 DEF Choose
<1>7. q \in Pick /\ Alike(q, s.picks[c]) /\ Used(q)
  BY <1>1, <1>3, FillIs DEF IsAct, Givers
<1> HIDE DEF q
<1>8. PickAt(u, s, s.cursor, q)
  BY <1>3, <1>7, PickReplaced
<1> HIDE DEF u
<1>9. Done(s, a).bad = s.bad
  BY <1>1, <1>2, <1>3, <1>6, <1>7, <1>8, TurnTaken
<1> QED BY <1>1, <1>9

(* An entry recorded on the running draft leaves one that can be read.     *)
LEMMA StaysReadable ==
  ASSUME DraftInv, NEW e, Entered(e), Asked(e), ~board.bad,
         ~(e.kind = "revert" /\ ~LiveInForce(ledger))
  PROVE  ~board'.bad
<1>1. e.kind \in Kinds
  BY DEF Entered, Fits, Entry
<1> QED BY <1>1, PickTaken DEF Asked, Kinds

(* What is checked when an entry is recorded keeps the draft readable      *)
(* (draftReadable): it can only be lost by reversing a correction that had *)
(* left the draft with nothing live in force, which is not tried on it.    *)
THEOREM ReadableUntilRevived == Spec => []ReadableUnlessRevived
<1> DEFINE Revived(es) ==
      \E i \in 1..Len(es) : es[i].kind = "revert" /\ ~LiveInForce(SubSeq(es, 1, i - 1))
<1>1. Init => ReadableUnlessRevived
  <2> SUFFICES ASSUME Init PROVE ~board.bad
    BY DEF ReadableUnlessRevived
  <2>1. ledger = <<>> /\ now = 0 /\ board = Reading(<<>>, 0) /\ DraftInv
    BY InvInit DEF Init
  <2>2. Log(<<>>, 0) /\ 0 \in Nat /\ Start \in Nat
    BY <2>1, EngineAssumption DEF DraftInv
  <2>3. DraftActs(<<>>) = <<>>
    <3>1. <<>> \in Seq(Act) /\ Len(<<>>) = 0
      OBVIOUS
    <3>2. DraftActs(<<>>) = Kept(ActsOf(<<>>), InForce(<<>>))[0] /\ ActsOf(<<>>) \in Seq(Act)
      BY <2>2, <3>1, DraftActsIs
    <3> HIDE DEF Revived
    <3> QED BY <3>2, KeptIs
  <2>4. CASE 0 < Start
    BY <2>1, <2>2, <2>3, <2>4, ReadingIs
  <2>5. CASE 0 >= Start
    <3>1. board.bad <=> FoldOf(<<>>).bad
      BY <2>1, <2>2, <2>5, ReadingOf
    <3>2. FoldOf(<<>>) = Replayed(Fresh(OrderOf(<<>>)), <<>>)[0]
      BY <2>3 DEF FoldOf, Folded
    <3>3. Good(Fresh(OrderOf(<<>>))) /\ ~Fresh(OrderOf(<<>>)).bad
      BY <2>2, OrderOfIs, NewTimelineIs DEF Fresh
    <3>4. IsActs(<<>>)
      BY DEF IsActs
    <3>5. Replayed(Fresh(OrderOf(<<>>)), <<>>)[0] = Fresh(OrderOf(<<>>))
      BY <3>3, <3>4, ReplayedIs
    <3> QED BY <3>1, <3>2, <3>3, <3>5
  <2> QED BY <2>2, <2>4, <2>5
<1>2. ASSUME DraftInv, ReadableUnlessRevived, [Next]_vars PROVE ReadableUnlessRevived'
  <2> SUFFICES ASSUME board'.bad PROVE Revived(ledger')
    BY DEF ReadableUnlessRevived
  <2>1. CASE UNCHANGED vars
    BY <1>2, <2>1 DEF vars, ReadableUnlessRevived
  <2>2. CASE ledger' = ledger /\ board' = Reading(ledger, now + 1)
    BY <1>2, <2>2, TimePasses DEF ReadableUnlessRevived
  <2>3. ASSUME NEW e, Entered(e), Asked(e) PROVE Revived(ledger')
    <3> DEFINE n == Len(ledger)
    <3>1. /\ Log(ledger, now) /\ ledger' = Append(ledger, e) /\ ledger \in Seq(Entry) /\ n \in Nat
          /\ Fits(e, n) /\ e \in Entry
      BY <1>2, <2>3 DEF DraftInv, Entered, Log, Fits
    <3>2. /\ ledger' \in Seq(Entry) /\ Len(ledger') = n + 1 /\ ledger'[n + 1] = e
          /\ \A i \in 1..n : ledger'[i] = ledger[i]
      BY <3>1, AppendIs
    <3>3. \A i \in 1..(n + 1) : SubSeq(ledger', 1, i - 1) = SubSeq(ledger, 1, i - 1)
      <4> SUFFICES ASSUME NEW i \in 1..(n + 1) PROVE SubSeq(ledger', 1, i - 1) = SubSeq(ledger, 1, i - 1)
        OBVIOUS
      <4>1. \A j \in 1..(i - 1) : ledger'[j] = ledger[j]
        BY <3>1, <3>2
      <4> QED BY <4>1
    <3>4. SubSeq(ledger, 1, (n + 1) - 1) = ledger
      BY <3>1
    <3>5. CASE board.bad
      <4>1. PICK i \in 1..n : ledger[i].kind = "revert" /\ ~LiveInForce(SubSeq(ledger, 1, i - 1))
        BY <1>2, <3>5 DEF ReadableUnlessRevived
      <4>2. i \in 1..(n + 1) /\ i \in 1..Len(ledger')
        BY <3>1, <3>2
      <4>3. ledger'[i].kind = "revert" /\ ~LiveInForce(SubSeq(ledger', 1, i - 1))
        BY <3>2, <3>3, <4>1, <4>2
      <4> QED BY <4>2, <4>3
    <3>6. CASE ~board.bad
      <4>1. e.kind = "revert" /\ ~LiveInForce(ledger)
        BY <1>2, <2>3, <3>6, StaysReadable
      <4>2. n + 1 \in 1..(n + 1) /\ n + 1 \in 1..Len(ledger')
        BY <3>1, <3>2
      <4>3. ledger'[n + 1].kind = "revert" /\ ~LiveInForce(SubSeq(ledger', 1, (n + 1) - 1))
        BY <3>2, <3>3, <3>4, <4>1, <4>2
      <4> QED BY <4>2, <4>3
    <3> QED BY <3>5, <3>6
  <2> QED BY <1>2, <2>1, <2>2, <2>3, Steps
<1>3. DraftInv /\ ReadableUnlessRevived /\ [Next]_vars => ReadableUnlessRevived'
  BY <1>2
<1> QED BY <1>1, <1>3, DraftIsReplayed, PTL DEF Spec

-----------------------------------------------------------------------------
(* A change of the running draft leaves the board where the change left it *)
(* or, when the pick now on the clock ran out at once, at a later one.     *)
LEMMA ChangeLands ==
  ASSUME DraftInv, NEW e, Entered(e), Asked(e), e.kind \in LiveKinds \ {"restore"}
  PROVE  \E s, a, d :
           /\ Good(s) /\ Done1(s, board) /\ ~s.bad /\ ~Overdue(s, now)
           /\ IsAct(a) /\ a.kind = e.kind /\ a.ref = e.ref /\ a.replaces = e.replaces
           /\ d = Done(s, a) /\ Good(d) /\ ~d.bad /\ KeepsUsed(d, s, a) /\ Later(board', d, now)
           /\ ~Overdue(d, now) => board' = d
<1>1. PICK s, a :
        /\ Good(s) /\ Done1(s, board) /\ ~s.bad /\ ~Overdue(s, now)
        /\ IsAct(a) /\ a.kind = e.kind /\ a.ref = e.ref /\ a.replaces = e.replaces
        /\ Good(Done(s, a)) /\ (board'.bad <=> Done(s, a).bad)
        /\ ~board'.bad => board' = Advance(Done(s, a), now)
  BY ActRecorded
<1>2. PICK d : d = Done(s, a)
  OBVIOUS
<1>3. ~board'.bad
  BY PickTaken DEF Asked
<1>4. Good(d) /\ ~d.bad /\ board' = Advance(d, now)
  BY <1>1, <1>2, <1>3
<1>5. KeepsUsed(d, s, a)
  BY <1>1, <1>2, <1>4, DoneIs
<1>6. now \in Nat
  BY DEF DraftInv
<1>7. Later(board', d, now) /\ (~Overdue(d, now) => board' = d)
  BY <1>4, <1>6, AdvanceIs
<1> QED BY <1>1, <1>2, <1>4, <1>5, <1>7

LEMMA SameTurnDone ==
  ASSUME NEW s, Good(s), NEW a, IsAct(a), ~Done(s, a).bad,
         \/ a.kind \in {"insert", "change"}
         \/ a.kind = "assign" /\ a.ref # Ref(s.picks[s.cursor])
  PROVE  SameTurn(Done(s, a), s)
<1>1. CASE a.kind = "insert"
  <2>1. Done(s, a) = Insert(s, a)
    BY <1>1 DEF Done
  <2> QED BY <1>1, <2>1, InsertIs
<1>2. CASE a.kind = "change"
  <2>1. Done(s, a) = Change(s, a)
    BY <1>2 DEF Done
  <2> QED BY <1>2, <2>1, ChangeIs
<1>3. CASE a.kind = "assign" /\ a.ref # Ref(s.picks[s.cursor])
  <2>1. Done(s, a) = Choose(s, a) /\ a.kind \in {"pick", "assign"}
    BY <1>3 DEF Done
  <2> QED BY <1>3, <2>1, ChooseIs
<1> QED BY <1>1, <1>2, <1>3

(* An extra pick, a changed pick and a rookie given to a skipped pick take *)
(* no turn (timeline.insert, change, fill): the pick on the clock and its  *)
(* deadline stay.                                                          *)
THEOREM TurnIsUndisturbed == Spec => TurnUndisturbed
<1> DEFINE Only ==
      \/ Recorded({"insert", "change"})
      \/ Recorded({"assign"}) /\ Last(ledger').ref # Ref(board.picks[board.cursor])
      => /\ OnClock(board) <=> OnClock(board')
         /\ OnClock(board) =>
              /\ Ref(board.picks[board.cursor]) = Ref(board'.picks[board'.cursor])
              /\ board'.deadline = board.deadline /\ board'.paused = board.paused
              /\ board.paused => board'.remaining = board.remaining
<1>1. ASSUME DraftInv, [Next]_vars PROVE Only
  <2> SUFFICES ASSUME \/ Recorded({"insert", "change"})
                      \/ Recorded({"assign"}) /\ Last(ledger').ref # Ref(board.picks[board.cursor])
               PROVE  /\ OnClock(board) <=> OnClock(board')
                      /\ OnClock(board) =>
                           /\ Ref(board.picks[board.cursor]) = Ref(board'.picks[board'.cursor])
                           /\ board'.deadline = board.deadline /\ board'.paused = board.paused
                           /\ board.paused => board'.remaining = board.remaining
    OBVIOUS
  <2>1. ledger' # ledger
    BY <1>1, NothingRecorded
  <2>2. PICK e : Entered(e) /\ Asked(e)
    BY <1>1, <2>1, Steps DEF vars
  <2>3. Last(ledger') = e /\ \A S : Recorded(S) <=> e.kind \in S
    BY <1>1, <2>2, RecordedKind
  <2>4. \/ e.kind \in {"insert", "change"}
        \/ e.kind = "assign" /\ e.ref # Ref(board.picks[board.cursor])
    BY <2>3
  <2>5. e.kind \in LiveKinds \ {"restore"}
    BY <2>4 DEF LiveKinds
  <2>6. PICK s, a, d :
          /\ Good(s) /\ Done1(s, board) /\ ~s.bad /\ ~Overdue(s, now)
          /\ IsAct(a) /\ a.kind = e.kind /\ a.ref = e.ref
          /\ d = Done(s, a) /\ ~d.bad
          /\ ~Overdue(d, now) => board' = d
    BY <1>1, <2>2, <2>5, ChangeLands
  <2>7. \/ a.kind \in {"insert", "change"}
        \/ a.kind = "assign" /\ a.ref # Ref(s.picks[s.cursor])
    BY <2>4, <2>6 DEF Done1
  <2>8. SameTurn(d, s)
    BY <2>6, <2>7, SameTurnDone
  <2>9. board' = d
    BY <2>6, <2>8 DEF SameTurn, Overdue
  <2>10. OnClock(s) <=> OnClock(board)
    BY <2>6 DEF Done1, OnClock
  <2> QED BY <2>6, <2>8, <2>9, <2>10 DEF SameTurn, Done1
<1>2. DraftInv /\ [Next]_vars => [Only]_vars
  BY <1>1
<1>3. TurnUndisturbed <=> [][Only]_vars
  BY DEF TurnUndisturbed
<1> QED BY <1>2, <1>3, DraftIsReplayed, PTL DEF Spec

-----------------------------------------------------------------------------
(* Before the start no pick is used.                                       *)
LEMMA NothingUsedYet ==
  ASSUME DraftInv, now < Start PROVE \A i \in 1..Len(board.picks) : ~Used(board.picks[i])
<1>1. board.picks = Fresh(OrderOf(ledger)).picks /\ OrderOf(ledger) \in Orders
  BY ReadingIs, OrderOfIs DEF DraftInv
<1>2. board.picks = PreparedPicks(OrderOf(ledger))
  BY <1>1, NewTimelineIs DEF Fresh
<1> QED BY <1>1, <1>2, PreparedIs

(* A used pick stays used (timeline.apply, draft_reading.go): only a       *)
(* change that names its rookie takes him from it, and only an assignment  *)
(* gives one to a skipped pick; time leaves it alone.                      *)
THEOREM UsedPicksStay == Spec => UsedStaysUsed
<1> DEFINE Stays(i) ==
      \E j \in 1..Len(board'.picks) :
        /\ Ref(board'.picks[j]) = Ref(board.picks[i])
        /\ \/ board'.picks[j] = board.picks[i]
           \/ board.picks[i].player = NoPlayer /\ Recorded({"assign"})
           \/ Recorded({"change"}) /\ Last(ledger').replaces = board.picks[i].player
    Only ==
      ~board.bad /\ ~Recorded({"restore", "correct", "revert", "order"}) =>
        \A i \in 1..Len(board.picks) : Used(board.picks[i]) => Stays(i)
<1>1. ASSUME DraftInv, [Next]_vars PROVE Only
  <2> SUFFICES ASSUME ~board.bad, ~Recorded({"restore", "correct", "revert", "order"}),
                      NEW i \in 1..Len(board.picks), Used(board.picks[i])
               PROVE  Stays(i)
    OBVIOUS
  <2>1. CASE UNCHANGED vars
    BY <2>1 DEF vars
  <2>2. CASE now' = now + 1 /\ ledger' = ledger /\ board' = Reading(ledger, now + 1)
    <3>1. now \in Nat /\ Start \in Nat
      BY <1>1, EngineAssumption DEF DraftInv
    <3>2. now >= Start
      BY <1>1, <3>1, NothingUsedYet
    <3>3. Later(board', board, now + 1)
      BY <1>1, <2>2, <3>2, TimePasses
    <3> QED BY <3>3 DEF Later
  <2>3. CASE \E e : Entered(e) /\ Asked(e)
    <3>1. PICK e : Entered(e) /\ Asked(e)
      BY <2>3
    <3>2. Last(ledger') = e /\ \A S : Recorded(S) <=> e.kind \in S
      BY <1>1, <3>1, RecordedKind
    <3>3. e.kind \in Kinds
      BY <3>1 DEF Entered, Fits, Entry
    <3>4. e.kind \in LiveKinds \ {"restore"}
      BY <3>2, <3>3 DEF Kinds
    <3>5. PICK s, a, d :
            /\ Done1(s, board) /\ a.kind = e.kind /\ a.replaces = e.replaces
            /\ KeepsUsed(d, s, a) /\ Later(board', d, now)
      BY <1>1, <3>1, <3>4, ChangeLands
    <3>6. s.picks = board.picks
      BY <3>5 DEF Done1
    <3>7. PICK j \in 1..Len(d.picks) :
            /\ Ref(d.picks[j]) = Ref(board.picks[i]) /\ Used(d.picks[j])
            /\ \/ d.picks[j] = board.picks[i]
               \/ board.picks[i].player = NoPlayer /\ a.kind = "assign"
               \/ a.kind = "change" /\ a.replaces = board.picks[i].player
      BY <3>5, <3>6 DEF KeepsUsed
    <3>8. board'.picks[j] = d.picks[j] /\ j \in 1..Len(board'.picks)
      BY <3>5, <3>7 DEF Later
    <3>9. \/ board'.picks[j] = board.picks[i]
          \/ board.picks[i].player = NoPlayer /\ Recorded({"assign"})
          \/ Recorded({"change"}) /\ Last(ledger').replaces = board.picks[i].player
      BY <3>2, <3>5, <3>7, <3>8
    <3> QED BY <3>7, <3>8, <3>9
  <2> QED BY <1>1, <2>1, <2>2, <2>3, Steps
<1>2. DraftInv /\ [Next]_vars => [Only]_vars
  BY <1>1
<1>3. UsedStaysUsed <=> [][Only]_vars
  BY DEF UsedStaysUsed
<1> QED BY <1>2, <1>3, DraftIsReplayed, PTL DEF Spec

-----------------------------------------------------------------------------
(* The beginnings of a log.                                                *)
LEMMA PrefixIs ==
  ASSUME NEW es, NEW at \in Nat, Log(es, at), NEW k \in 0..Len(es)
  PROVE  /\ Log(SubSeq(es, 1, k), at) /\ Len(SubSeq(es, 1, k)) = k
         /\ \A i \in 1..k : SubSeq(es, 1, k)[i] = es[i] /\ i \in 1..Len(es)
         /\ k = Len(es) => SubSeq(es, 1, k) = es
         /\ k # 0 => Log(SubSeq(es, 1, k), es[k].at)
         /\ k = 0 => Log(SubSeq(es, 1, k), 0)
<1> DEFINE p == SubSeq(es, 1, k)
<1>1. es \in Seq(Entry) /\ Len(es) \in Nat /\ k \in Nat
  BY DEF Log
<1>2. p \in Seq(Entry) /\ Len(p) = k /\ \A i \in 1..k : p[i] = es[i] /\ i \in 1..Len(es)
  BY <1>1
<1>3. k = Len(es) => p = es
  BY <1>1
<1> HIDE DEF p
<1>4. ASSUME NEW z, \A i \in 1..k : es[i].at <= z PROVE Log(p, z)
  BY <1>2, <1>4 DEF Log
<1>5. Log(p, at)
  <2>1. \A i \in 1..k : es[i].at <= at
    BY <1>2 DEF Log
  <2> QED BY <1>4, <2>1
<1>6. k # 0 => Log(p, es[k].at)
  <2> SUFFICES ASSUME k # 0 PROVE Log(p, es[k].at)
    OBVIOUS
  <2>1. k \in 1..Len(es) /\ \A i \in 1..k : i <= k
    BY <1>1
  <2>2. \A i \in 1..k : es[i].at <= es[k].at
    BY <1>2, <2>1 DEF Log
  <2> QED BY <1>4, <2>2
<1>7. k = 0 => Log(p, 0)
  <2>1. k = 0 => \A i \in 1..k : es[i].at <= 0
    OBVIOUS
  <2> QED BY <1>4, <2>1
<1> QED BY <1>2, <1>3, <1>5, <1>6, <1>7 DEF p

LEMMA PrefixExtends ==
  ASSUME NEW es, NEW at \in Nat, Log(es, at), NEW k \in Nat, k + 1 <= Len(es)
  PROVE  Extends(SubSeq(es, 1, k), SubSeq(es, 1, k + 1), k, es[k + 1])
<1>1. Len(es) \in Nat /\ k \in 0..Len(es) /\ k + 1 \in 0..Len(es) /\ k + 1 \in 1..(k + 1)
      /\ \A i \in 1..k : i \in 1..(k + 1)
  BY DEF Log
<1> DEFINE p == SubSeq(es, 1, k)
           q == SubSeq(es, 1, k + 1)
<1>2. Len(p) = k /\ \A i \in 1..k : p[i] = es[i] /\ i \in 1..Len(es)
  BY <1>1, PrefixIs
<1>3. Len(q) = k + 1 /\ \A i \in 1..(k + 1) : q[i] = es[i]
  BY <1>1, PrefixIs
<1> HIDE DEF p, q
<1>4. \A i \in 1..k : es[i].target < i /\ es[i].target \in Nat
  BY <1>2, EntryIs DEF Log
<1>5. Extends(p, q, k, es[k + 1])
  BY <1>1, <1>2, <1>3, <1>4 DEF Extends
<1> QED BY <1>5 DEF p, q

(* A live checkpoint and live entries after it: what was in force up to    *)
(* the checkpoint still is, for a restore to an earlier one would have set *)
(* the checkpoint itself aside.                                            *)
LEMMA CheckpointHolds ==
  ASSUME NEW es, NEW at \in Nat, Log(es, at), NEW c \in 0..Len(es),
         \A i \in (c + 1)..Len(es) : es[i].kind \in LiveKinds,
         c # 0 => es[c].kind \in LiveKinds /\ Active(es)[c]
  PROVE  \A i \in 1..c : Active(es)[i] = Active(SubSeq(es, 1, c))[i]
<1> DEFINE n == Len(es)
           P(k) == SubSeq(es, 1, k)
           T == {m \in Nat : c + m <= n /\ c # 0 => Active(P(n - m))[c]}
           U == {m \in Nat : c + m <= n => \A i \in 1..c : Active(P(c + m))[i] = Active(P(c))[i]}
<1>1. n \in Nat /\ c \in Nat /\ c <= n
  BY DEF Log
<1>2. P(n) = es
  <2>1. n \in 0..n /\ n = Len(es)
    BY <1>1
  <2> QED BY <2>1, PrefixIs
<1>3. ASSUME NEW k \in Nat, c <= k, k + 1 <= n, NEW i \in 1..c
      PROVE  Active(P(k + 1))[i] = (Active(P(k))[i] /\ ~( es[k + 1].kind = "restore" /\ es[k + 1].target < i
                                                          /\ es[i].kind \in LiveKinds))
  <2>1. Extends(P(k), P(k + 1), k, es[k + 1])
    BY <1>3, PrefixExtends
  <2>2. es[k + 1].kind \in LiveKinds
    BY <1>1, <1>3
  <2>3. Plain(es[k + 1])
    BY <2>2 DEF Plain, LiveKinds
  <2>4. i \in 1..k /\ k \in 0..n
    BY <1>1, <1>3
  <2>5. P(k)[i] = es[i]
    BY <2>4, PrefixIs
  <2> HIDE DEF P
  <2>6. \A j \in 1..k : Active(P(k + 1))[j] = (Active(P(k))[j] /\ ~( es[k + 1].kind = "restore"
              /\ es[k + 1].target < j /\ P(k)[j].kind \in LiveKinds))
    BY <2>1, <2>3, AppendActive
  <2> QED BY <2>4, <2>5, <2>6
<1>4. ASSUME NEW k \in 0..n, NEW i \in 1..c, c <= k PROVE Active(P(k))[i] \in BOOLEAN
  <2>1. Len(P(k)) = k /\ k \in Nat /\ i \in 1..k
    BY <1>1, <1>4, PrefixIs
  <2> QED BY <2>1, ActiveIs DEF Marks
<1> HIDE DEF P
<1>5. 0 \in T
  <2>1. n - 0 = n
    BY <1>1
  <2> QED BY <1>2, <2>1
<1>6. ASSUME NEW m \in Nat, m \in T PROVE m + 1 \in T
  <2> SUFFICES ASSUME c + (m + 1) <= n, c # 0 PROVE Active(P(n - (m + 1)))[c]
    OBVIOUS
  <2> DEFINE k == n - (m + 1)
  <2>1. k \in Nat /\ c <= k /\ k + 1 <= n /\ c \in 1..c /\ n - m = k + 1 /\ c + m <= n
    BY <1>1
  <2>2. Active(P(k + 1))[c]
    BY <1>6, <2>1
  <2> HIDE DEF k
  <2> QED BY <1>3, <2>1, <2>2 DEF k
<1>7. \A m \in Nat : m \in T
  <2> HIDE DEF T
  <2> QED BY <1>5, <1>6, NatsIn
<1>8. 0 \in U
  <2>1. c + 0 = c
    BY <1>1
  <2> QED BY <2>1
<1>9. ASSUME NEW m \in Nat, m \in U PROVE m + 1 \in U
  <2> SUFFICES ASSUME c + (m + 1) <= n, NEW i \in 1..c PROVE Active(P(c + (m + 1)))[i] = Active(P(c))[i]
    OBVIOUS
  <2> DEFINE k == c + m
  <2>1. /\ k \in Nat /\ c <= k /\ k + 1 <= n /\ c \in 1..c /\ c # 0 /\ c + (m + 1) = k + 1 /\ c + m <= n
        /\ k + 1 \in 1..n /\ k \in 0..n
    BY <1>1
  <2>2. Active(P(k + 1))[c]
    <3> DEFINE h == n - (k + 1)
    <3>1. h \in Nat /\ n - h = k + 1 /\ c + h <= n
      BY <1>1, <2>1
    <3> HIDE DEF h, k
    <3>2. h \in T
      BY <1>7, <3>1
    <3> QED BY <2>1, <3>1, <3>2
  <2>3. ~(es[k + 1].kind = "restore" /\ es[k + 1].target < c)
    BY <1>3, <2>1, <2>2
  <2>4. es[k + 1].target \in Nat
    BY <2>1, EntryIs DEF Log
  <2>5. Active(P(k))[i] = Active(P(c))[i]
    BY <1>9, <2>1
  <2>6. Active(P(k))[i] \in BOOLEAN
    BY <1>4, <2>1
  <2> HIDE DEF k
  <2>7. ~(es[k + 1].kind = "restore" /\ es[k + 1].target < i)
    BY <1>1, <2>3, <2>4
  <2>8. Active(P(k + 1))[i] = (Active(P(k))[i] /\ ~( es[k + 1].kind = "restore" /\ es[k + 1].target < i
                                                          /\ es[i].kind \in LiveKinds))
    BY <1>3, <2>1
  <2>9. Active(P(k + 1))[i] = Active(P(k))[i]
    BY <2>6, <2>7, <2>8
  <2> QED BY <2>1, <2>5, <2>9
<1>10. n - c \in U /\ n - c \in Nat /\ c + (n - c) = n
  <2>1. n - c \in Nat /\ c + (n - c) = n
    BY <1>1
  <2> HIDE DEF U
  <2> QED BY <1>8, <1>9, <2>1, NatsIn
<1>11. \A i \in 1..c : Active(P(n))[i] = Active(P(c))[i]
  BY <1>1, <1>10
<1> QED BY <1>2, <1>11 DEF P

(* Two sequences of acts alike up to m, and the same places picked there.  *)
Agree(s, I, z, J, m) ==
  /\ s \in Seq(Act) /\ z \in Seq(Act) /\ m \in Nat /\ m <= Len(s) /\ m <= Len(z)
  /\ \A i \in 1..m : (i \in I <=> i \in J) /\ (i \in I => s[i] = z[i])

LEMMA KeptActs ==
  ASSUME NEW s, NEW z, NEW I, NEW J, NEW m, Agree(s, I, z, J, m) PROVE Kept(s, I)[m] = Kept(z, J)[m]
BY KeptAlike DEF Agree

LEMMA CutsTo ==
  ASSUME NEW es, NEW at \in Nat, Log(es, at), NEW c \in 0..Len(es),
         \A i \in (c + 1)..Len(es) : es[i].kind \in LiveKinds,
         c # 0 => es[c].kind \in LiveKinds /\ Active(es)[c],
         NEW e, e.kind = "restore", e.target = c, NEW v, Extends(es, v, Len(es), e), Log(v, at)
  PROVE  /\ DraftActs(v) = Append(DraftActs(SubSeq(es, 1, c)), ActOf(v, e))
         /\ OrderOf(v) = OrderOf(SubSeq(es, 1, c))
<1> DEFINE n == Len(es)
           p == SubSeq(es, 1, c)
           X == ActsOf(p)
           Z == ActsOf(v)
           I == InForce(p)
           J == InForce(v)
<1>1. /\ n \in Nat /\ Len(v) = n + 1 /\ n + 1 \in Nat /\ v[n + 1] = e /\ c \in Nat /\ c <= n
      /\ \A i \in 1..n : v[i] = es[i] /\ i \in 1..(n + 1) /\ es[i].target < i /\ es[i].target \in Nat
      /\ n + 1 \in 1..(n + 1) /\ (n + 1) - 1 = n
  BY DEF Extends
<1>2. Log(p, at) /\ Len(p) = c /\ \A i \in 1..c : p[i] = es[i] /\ i \in 1..n
  BY PrefixIs
<1> HIDE DEF p
<1>3. Active(v)[n + 1] /\ \A i \in 1..n : Active(v)[i] = (Active(es)[i] /\ ~(c < i /\ es[i].kind \in LiveKinds))
  <2>1. Plain(e)
    BY DEF Plain
  <2>2. /\ Active(v)[n + 1]
        /\ \A i \in 1..n : Active(v)[i] = (Active(es)[i] /\ ~( e.kind = "restore" /\ e.target < i
                                                               /\ es[i].kind \in LiveKinds))
    BY <2>1, AppendActive
  <2> QED BY <2>2
<1>4. ASSUME NEW i \in 1..c PROVE Active(v)[i] = Active(p)[i]
  <2>1. i \in 1..n /\ ~(c < i)
    BY <1>1
  <2>2. Active(es)[i] \in BOOLEAN
    BY <1>1, <2>1, ActiveIs DEF Marks
  <2>3. Active(es)[i] = Active(p)[i]
    BY CheckpointHolds DEF p
  <2>4. Active(v)[i] = (Active(es)[i] /\ ~(c < i /\ es[i].kind \in LiveKinds))
    BY <1>3, <2>1
  <2> QED BY <2>1, <2>2, <2>3, <2>4, Zenon
<1>5. ASSUME NEW i \in (c + 1)..n PROVE i \in 1..n /\ es[i].kind \in LiveKinds /\ ~Active(v)[i]
  <2>1. i \in 1..n /\ c < i /\ es[i].kind \in LiveKinds
    BY <1>1
  <2> QED BY <1>3, <2>1
<1>6. ASSUME NEW i \in 1..c PROVE i \in I <=> i \in J
  BY <1>1, <1>2, <1>4 DEF InForce
<1>7. ASSUME NEW i \in (c + 1)..n PROVE i \notin J
  BY <1>5 DEF InForce
<1>8. n + 1 \in J
  <2>1. e.kind \in LiveKinds
    BY DEF LiveKinds
  <2> QED BY <1>1, <1>3, <2>1 DEF InForce
<1>9. ASSUME NEW i \in 1..c PROVE X[i] = Z[i]
  <2>0. p[i] = es[i] /\ v[i] = es[i] /\ i \in 1..(n + 1) /\ es[i].target \in Nat /\ es[i].target < i
    BY <1>1, <1>2
  <2>1. X[i] = ActOf(p, es[i]) /\ Z[i] = ActOf(v, es[i])
    BY <1>1, <1>2, <2>0 DEF ActsOf
  <2>2. EntryAt(p, es[i].target) = EntryAt(v, es[i].target)
    <3>1. es[i].target = 0 \/ es[i].target \in 1..c
      BY <1>1, <2>0
    <3> QED BY <1>1, <1>2, <3>1 DEF EntryAt
  <2> QED BY <2>1, <2>2 DEF ActOf
<1>10. Z[n + 1] = ActOf(v, e)
  BY <1>1 DEF ActsOf
<1>11. /\ DraftActs(p) = Kept(X, I)[c] /\ X \in Seq(Act) /\ Len(X) = c
       /\ DraftActs(v) = Kept(Z, J)[n + 1] /\ Z \in Seq(Act) /\ Len(Z) = n + 1
  BY <1>1, <1>2, DraftActsIs
<1> HIDE DEF X, Z, I, J
<1>12. Kept(X, I)[c] = Kept(Z, J)[c]
  <2>1. \A i \in 1..c : (i \in I <=> i \in J) /\ (i \in I => X[i] = Z[i])
    BY <1>6, <1>9
  <2>2. c <= Len(X) /\ c <= Len(Z)
    BY <1>1, <1>11
  <2>3. c \in Nat /\ X \in Seq(Act) /\ Z \in Seq(Act)
    BY <1>1, <1>11
  <2>4. Agree(X, I, Z, J, c)
    BY <2>1, <2>2, <2>3 DEF Agree
  <2> QED BY <2>4, KeptActs
<1>13. Kept(Z, J)[n] = Kept(Z, J)[c]
  <2>1. n <= Len(Z) /\ \A i \in (c + 1)..n : i \notin J
    BY <1>1, <1>7, <1>11
  <2> QED BY <1>1, <1>11, <2>1, KeptNone
<1>14. Kept(Z, J)[n + 1] = Append(Kept(Z, J)[n], Z[n + 1])
  <2>1. \A i \in 1..(n + 1) : Kept(Z, J)[i] = IF i \in J THEN Append(Kept(Z, J)[i - 1], Z[i]) ELSE Kept(Z, J)[i - 1]
    BY <1>11, KeptIs
  <2> QED BY <1>1, <1>8, <2>1
<1>15. OrderOf(v) = OrderOf(p)
  <2>1. Decided(v) = Decided(p)
    <3>1. ASSUME NEW i \in 1..(n + 1) PROVE i \in Decided(v) <=> i \in Decided(p)
      <4>1. CASE i = n + 1
        BY <1>1, <1>2, <4>1 DEF Decided
      <4>2. CASE i \in 1..c
        BY <1>1, <1>2, <1>4, <4>2 DEF Decided
      <4>3. CASE i \in (c + 1)..n
        BY <1>1, <1>2, <1>5, <4>3 DEF Decided
      <4> QED BY <1>1, <4>1, <4>2, <4>3
    <3>2. Decided(v) \subseteq 1..(n + 1) /\ Decided(p) \subseteq 1..(n + 1)
      BY <1>1, <1>2 DEF Decided
    <3> QED BY <3>1, <3>2
  <2>2. Decided(p) # {} => Max(Decided(p)) \in 1..c
    <3>1. Decided(p) \subseteq 1..c
      BY <1>2 DEF Decided
    <3> QED BY <1>1, <3>1, MaxIs
  <2>3. \A i \in 1..c : v[i] = p[i]
    BY <1>1, <1>2
  <2>4. OrderOf(v) = IF Decided(v) = {} THEN FirstOrder ELSE v[Max(Decided(v))].order
    BY OrderOfIs
  <2>5. OrderOf(p) = IF Decided(p) = {} THEN FirstOrder ELSE p[Max(Decided(p))].order
    BY <1>2, OrderOfIs
  <2> QED BY <2>1, <2>2, <2>3, <2>4, <2>5
<1> QED BY <1>10, <1>11, <1>12, <1>13, <1>14, <1>15 DEF p

(* The draft as it was read at a checkpoint: the replay up to it, with     *)
(* none of the time after it.                                              *)
LEMMA ReadAtCheckpoint ==
  ASSUME NEW es, NEW at \in Nat, Log(es, at), NEW c \in 0..Len(es), c # 0 => es[c].kind \in LiveKinds,
         ~FoldOf(SubSeq(es, 1, c)).bad
  PROVE  /\ EntryAt(es, c) \in Nat /\ Good(FoldOf(SubSeq(es, 1, c)))
         /\ Reading(SubSeq(es, 1, c), EntryAt(es, c)).picks = Advance(FoldOf(SubSeq(es, 1, c)), EntryAt(es, c)).picks
<1>1. PICK p, s : p = SubSeq(es, 1, c) /\ s = EntryAt(es, c)
  OBVIOUS
<1>2. Len(es) \in Nat /\ c \in Nat /\ Start \in Nat
  BY EngineAssumption DEF Log
<1>5. Len(p) = c /\ (c # 0 => Log(p, es[c].at)) /\ (c = 0 => Log(p, 0))
  <2>1. /\ Len(SubSeq(es, 1, c)) = c
        /\ (c # 0 => Log(SubSeq(es, 1, c), es[c].at)) /\ (c = 0 => Log(SubSeq(es, 1, c), 0))
    BY PrefixIs
  <2> QED BY <1>1, <2>1
<1>3. CASE c # 0 \/ Start = 0
  <2>1. Log(p, s) /\ s \in Nat /\ s >= Start
    <3>1. CASE c # 0
      <4>1. c \in 1..Len(es)
        BY <1>2, <3>1
      <4>2. s = es[c].at /\ es[c].at \in Nat /\ es[c].at >= Start
        BY <1>1, <3>1, <4>1, EntryIs DEF EntryAt, Log
      <4> QED BY <1>5, <3>1, <4>2
    <3>2. CASE c = 0 /\ Start = 0
      <4>1. s = 0
        BY <1>1, <3>2 DEF EntryAt
      <4> QED BY <1>5, <3>2, <4>1
    <3> QED BY <1>3, <3>1, <3>2
  <2>2. ~FoldOf(p).bad
    BY <1>1
  <2>3. PICK r : r = Reading(p, s)
    OBVIOUS
  <2>4. Good(FoldOf(p)) /\ r = Advance(FoldOf(p), s)
    BY <2>1, <2>2, <2>3, ReadingOf
  <2> QED BY <1>1, <2>1, <2>3, <2>4
<1>4. CASE c = 0 /\ Start # 0
  <2>1. s = 0 /\ Log(p, 0) /\ Len(p) = 0 /\ 0 \in Nat /\ 0 < Start
    BY <1>1, <1>2, <1>4, <1>5 DEF EntryAt
  <2>2. DraftActs(p) = <<>>
    <3>1. DraftActs(p) = Kept(ActsOf(p), InForce(p))[0] /\ ActsOf(p) \in Seq(Act)
      BY <2>1, DraftActsIs
    <3> QED BY <3>1, KeptIs
  <2>3. PICK f : f = Fresh(OrderOf(p))
    OBVIOUS
  <2>4. OrderOf(p) \in Orders
    BY <2>1, OrderOfIs
  <2>5. Good(f) /\ f.deadline = Start + Clock
    BY <2>3, <2>4, NewTimelineIs DEF Fresh
  <2>6. FoldOf(p) = f
    <3>1. FoldOf(p) = Replayed(f, <<>>)[0]
      BY <2>2, <2>3 DEF FoldOf, Folded
    <3>2. IsActs(<<>>)
      BY DEF IsActs
    <3> QED BY <2>5, <3>1, <3>2, ReplayedIs
  <2>7. Advance(f, 0) = f
    <3>1. ~Overdue(f, 0)
      BY <1>2, <2>5, EngineAssumption DEF Overdue
    <3> QED BY <2>5, <3>1, AdvanceIs
  <2>8. Reading(p, 0).picks = f.picks
    <3>1. PICK r : r = Reading(p, 0)
      OBVIOUS
    <3>2. r.picks = f.picks
      BY <2>1, <2>3, <3>1, ReadingIs
    <3> QED BY <3>1, <3>2
  <2> QED BY <1>1, <2>1, <2>5, <2>6, <2>7, <2>8
<1> QED BY <1>2, <1>3, <1>4

LEMMA RestoreLands ==
  ASSUME DraftInv, NEW e, Entered(e), Asked(e), e.kind = "restore", NEW c \in 0..Len(ledger), e.target = c,
         c # 0 => ledger[c].kind \in LiveKinds, \A i \in (c + 1)..Len(ledger) : ledger[i].kind \in LiveKinds
  PROVE  /\ board'.picks = Reading(SubSeq(ledger, 1, c), EntryAt(ledger, c)).picks
         /\ ~board'.paused /\ board'.deadline = now + Clock
<1> DEFINE n == Len(ledger)
           p == SubSeq(ledger, 1, c)
           F == FoldOf(p)
           a == ActOf(ledger', e)
           s == Stamped(F, a)
           d == Restart(s, a)
<1>1. /\ now \in Nat /\ Log(ledger, now) /\ Fits(e, n) /\ e.at = now /\ ledger' = Append(ledger, e)
      /\ now' = now /\ board' = Reading(ledger', now) /\ n \in Nat
  BY DEF DraftInv, Entered, Log
<1>2. now >= Start /\ ~board'.bad /\ (c # 0 => Active(ledger)[c])
  BY DEF Asked, LiveKinds
<1>3. Log(ledger', now) /\ Extends(ledger, ledger', n, e)
  BY <1>1, EnteredKeeps, Extended DEF DraftInv
<1>4. DraftActs(ledger') = Append(DraftActs(p), a) /\ OrderOf(ledger') = OrderOf(p)
  BY <1>1, <1>2, <1>3, CutsTo
<1>5. IsAct(a) /\ a \in Act /\ a.kind = "restore" /\ a.at = now /\ a.since = EntryAt(ledger, c)
  <2>1. ledger'[n + 1] = e /\ n + 1 \in 1..Len(ledger')
    BY <1>3 DEF Extends
  <2>2. PICK es : es = ledger'
    OBVIOUS
  <2>3. Log(es, now) /\ n + 1 \in 1..Len(es) /\ es[n + 1] = e /\ a = ActOf(es, es[n + 1])
    BY <1>3, <2>1, <2>2
  <2> HIDE DEF a
  <2>4. /\ a \in Act /\ (es[n + 1].kind \in LiveKinds => IsAct(a))
        /\ a.kind = es[n + 1].kind /\ a.at = es[n + 1].at /\ a.since = EntryAt(es, es[n + 1].target)
    BY <2>3, ActOfIs
  <2>5. EntryAt(es, c) = EntryAt(ledger, c)
    <3>1. c = 0 \/ c \in 1..n
      BY <1>1
    <3> QED BY <1>3, <2>2, <3>1 DEF EntryAt, Extends
  <2>6. "restore" \in LiveKinds
    BY DEF LiveKinds
  <2> QED BY <1>1, <2>3, <2>4, <2>5, <2>6
<1>6. Log(p, now)
  BY <1>1, PrefixIs
<1>7. FoldOf(ledger') = Apply(F, a)
  <2>1. OrderOf(p) \in Orders
    BY <1>1, <1>6, OrderOfIs
  <2>2. IsActs(DraftActs(p)) /\ DraftActs(p) \in Seq({x \in Act : IsAct(x) /\ x.at <= now})
    BY <1>1, <1>6, DraftActsIs
  <2>3. a \in {x \in Act : IsAct(x) /\ x.at <= now}
    BY <1>1, <1>5
  <2> HIDE DEF a, p
  <2>4. Folded(OrderOf(p), Append(DraftActs(p), a)) = Apply(Folded(OrderOf(p), DraftActs(p)), a)
    BY <1>5, <2>1, <2>2, <2>3, AppendFolded
  <2> QED BY <1>4, <2>4 DEF FoldOf
<1>8. Good(F)
  <2> HIDE DEF p
  <2> QED BY <1>1, <1>2, <1>6, ReadingOf
<1>9. ~FoldOf(ledger').bad /\ board' = Advance(FoldOf(ledger'), now)
  BY <1>1, <1>2, <1>3, ReadingOf
<1> HIDE DEF a
<1>10. ~F.bad /\ FoldOf(ledger') = Done(s, a)
  <2> HIDE DEF F, s, d
  <2>1. /\ F.bad \/ a.at < F.last => Apply(F, a).bad
        /\ ~(F.bad \/ a.at < F.last) => Apply(F, a) = Done(Stamped(F, a), a)
    BY <1>5, <1>8, ApplyIs
  <2> QED BY <1>7, <1>9, <2>1 DEF s
<1>11. Done(s, a) = d
  <2> HIDE DEF s
  <2> QED BY <1>5 DEF Done
<1>12. /\ EntryAt(ledger, c) \in Nat
       /\ Reading(p, EntryAt(ledger, c)).picks = Advance(F, EntryAt(ledger, c)).picks
  BY <1>1, <1>10, ReadAtCheckpoint
<1> HIDE DEF F, p
<1>13. Good(s) /\ s.picks = Reading(p, EntryAt(ledger, c)).picks
  <2>1. AdvancedTo(a) = EntryAt(ledger, c)
    BY <1>5 DEF AdvancedTo
  <2>2. Good(s) /\ s.picks = Advance(F, AdvancedTo(a)).picks
    BY <1>5, <1>8, StampedIs
  <2> QED BY <1>12, <2>1, <2>2
<1> HIDE DEF s
<1>14. Good(d) /\ d.picks = s.picks /\ ~d.paused /\ d.deadline = now + Clock
  BY <1>5, <1>13, RestartIs
<1> HIDE DEF d
<1>15. board' = d
  <2>1. ~Overdue(d, now)
    BY <1>1, <1>14, EngineAssumption DEF Overdue
  <2>2. Advance(d, now) = d
    BY <1>1, <1>14, <2>1, AdvanceIs
  <2> QED BY <1>9, <1>10, <1>11, <2>2
<1> QED BY <1>13, <1>14, <1>15 DEF p

(* A restore puts the draft back as it stood at its checkpoint             *)
(* (setAsideByRestore, acts.go Restart): nothing that happened since is    *)
(* counted, not even the clocks that ran out, and the pick then on the     *)
(* clock has a fresh one.                                                  *)
THEOREM RestoreBringsBack == Spec => RestoreReturns
<1> DEFINE Only ==
      \A c \in 0..Len(ledger) :
        /\ Recorded({"restore"}) /\ Last(ledger').target = c
        /\ c # 0 => ledger[c].kind \in LiveKinds
        => ReturnsTo(c)
<1>1. ASSUME DraftInv, [Next]_vars PROVE Only
  <2> SUFFICES ASSUME NEW c \in 0..Len(ledger), Recorded({"restore"}), Last(ledger').target = c,
                      c # 0 => ledger[c].kind \in LiveKinds,
                      \A i \in (c + 1)..Len(ledger) : ledger[i].kind \in LiveKinds
               PROVE  /\ Faces(board') = Faces(Reading(SubSeq(ledger, 1, c), EntryAt(ledger, c)))
                      /\ OnClock(board') => ~board'.paused /\ board'.deadline = now + Clock
    BY DEF ReturnsTo
  <2>1. ledger' # ledger
    BY <1>1, NothingRecorded
  <2>2. PICK e : Entered(e) /\ Asked(e)
    BY <1>1, <2>1, Steps DEF vars
  <2>3. Last(ledger') = e /\ e.kind = "restore"
    BY <1>1, <2>2, RecordedKind
  <2>4. /\ board'.picks = Reading(SubSeq(ledger, 1, c), EntryAt(ledger, c)).picks
        /\ ~board'.paused /\ board'.deadline = now + Clock
    BY <1>1, <2>2, <2>3, RestoreLands
  <2>5. Faces(board') = Faces(Reading(SubSeq(ledger, 1, c), EntryAt(ledger, c)))
    BY <2>4 DEF Faces
  <2> QED BY <2>4, <2>5
<1>2. DraftInv /\ [Next]_vars => [Only]_vars
  BY <1>1
<1>3. RestoreReturns <=> [][Only]_vars
  BY DEF RestoreReturns
<1> QED BY <1>2, <1>3, DraftIsReplayed, PTL DEF Spec
=============================================================================
