------------------------- MODULE CommissionerLedgerProofs -------------------------
(***************************************************************************)
(* For any stores, changes, submissions and bound: a store's cache is a    *)
(* beginning of the ledger and what it comes to, so readers are served     *)
(* what was recorded; the closed books say what the whole ledger says; a   *)
(* receipt is true of what it answers; the ledger grows as one list; a     *)
(* season keeps what it captured; and a reversal reversed leaves no trace. *)
(*                                                                         *)
(* The replay is a fold in both directions, so most of the lemmas compare  *)
(* two replays entry by entry: that of a ledger with those of its books    *)
(* and the rest, of one entry more, or of one entry less.                  *)
(***************************************************************************)
EXTENDS CommissionerLedger, SequenceTheorems, FiniteSetTheorems, WellFoundedInduction, TLAPS

(* Induction over the naturals, for a set of them.                         *)
LEMMA NatsIn ==
  ASSUME NEW S, 0 \in S, \A n \in Nat : n \in S => n + 1 \in S
  PROVE  \A n \in Nat : n \in S
<1> DEFINE T == Nat \ S
<1> SUFFICES ASSUME T # {} PROVE FALSE
  OBVIOUS
<1>1. PICK x \in T : \A y \in T : <<y, x>> \notin OpToRel(<, Nat)
  BY NatLessThanWellFounded, WFMin
<1>2. x \in Nat /\ x # 0
  OBVIOUS
<1>3. x - 1 \in Nat /\ x - 1 < x /\ x - 1 \notin S
  BY <1>2
<1>4. <<x - 1, x>> \in OpToRel(<, Nat)
  BY <1>2, <1>3 DEF OpToRel
<1> QED BY <1>1, <1>3, <1>4

-----------------------------------------------------------------------------
(* What is in force is worked out entry by entry.                          *)
Acts(es) == [1..Len(es) -> BOOLEAN]

LEMMA CompensateIs ==
  ASSUME NEW es, Len(es) \in Nat, NEW i \in 1..Len(es), NEW active \in Acts(es)
  PROVE  /\ Compensate(es, i, active) \in Acts(es)
         /\ ~active[i] \/ es[i].command.kind \notin {"revert", "correct"} =>
              Compensate(es, i, active) = active
         /\ active[i] /\ es[i].command.kind \in {"revert", "correct"} =>
              \A j \in 1..Len(es) :
                Compensate(es, i, active)[j] =
                  IF j \notin Positions(es, es[i].command.target) THEN active[j]
                  ELSE es[i].command.kind = "revert" /\ ~active[j]
BY DEF Compensate, Acts

LEMMA WalkIs ==
  ASSUME NEW es, Len(es) \in Nat
  PROVE  /\ Walk(es) \in [1..(Len(es) + 1) -> Acts(es)]
         /\ Walk(es)[Len(es) + 1] = [j \in 1..Len(es) |-> TRUE]
         /\ \A i \in 1..Len(es) : Walk(es)[i] = Compensate(es, i, Walk(es)[i + 1])
<1> DEFINE n == Len(es)
           all == [j \in 1..n |-> TRUE]
           Good(k, w) == /\ w \in [(n + 1 - k)..(n + 1) -> Acts(es)] /\ w[n + 1] = all
                         /\ \A i \in (n + 1 - k)..n : w[i] = Compensate(es, i, w[i + 1])
           S == {k \in Nat : k <= n => \E w : Good(k, w)}
<1>1. all \in Acts(es)
  BY DEF Acts
<1>2. 0 \in S
  <2> DEFINE w == [i \in (n + 1 - 0)..(n + 1) |-> all]
  <2>1. Good(0, w)
    BY <1>1
  <2> QED BY <2>1
<1>3. ASSUME NEW k \in Nat, k \in S PROVE k + 1 \in S
  <2> HIDE DEF Good
  <2> SUFFICES ASSUME k + 1 <= n PROVE \E w : Good(k + 1, w)
    OBVIOUS
  <2>1. PICK w : Good(k, w)
    BY <1>3
  <2> USE DEF Good
  <2> DEFINE m == n - k
             v == [i \in (n + 1 - (k + 1))..(n + 1) |-> IF i = m THEN Compensate(es, m, w[m + 1]) ELSE w[i]]
  <2>2. m \in 1..n /\ m + 1 \in (n + 1 - k)..(n + 1) /\ m = n + 1 - (k + 1) /\ m # n + 1
    OBVIOUS
  <2>3. Compensate(es, m, w[m + 1]) \in Acts(es)
    BY <2>1, <2>2, CompensateIs
  <2>4. v \in [(n + 1 - (k + 1))..(n + 1) -> Acts(es)]
    BY <2>1, <2>2, <2>3
  <2>5. v[n + 1] = all
    BY <2>1, <2>2
  <2>6. ASSUME NEW i \in (n + 1 - (k + 1))..n PROVE v[i] = Compensate(es, i, v[i + 1])
    <3>1. v[i + 1] = w[i + 1]
      BY <2>2
    <3>2. CASE i = m
      BY <3>1, <3>2
    <3>3. CASE i # m
      <4>1. i \in (n + 1 - k)..n
        BY <3>3
      <4> QED BY <2>1, <3>1, <3>3, <4>1
    <3> QED BY <3>2, <3>3
  <2>7. Good(k + 1, v)
    BY <2>4, <2>5, <2>6
  <2> QED BY <2>7
<1>4. n \in S
  <2> HIDE DEF S
  <2> QED BY <1>2, <1>3, NatsIn
<1>5. PICK w : Good(n, w)
  <2> HIDE DEF Good
  <2> QED BY <1>4
<1>6. w = [i \in 1..(n + 1) |-> IF i > n THEN all ELSE Compensate(es, i, w[i + 1])]
  BY <1>5
<1>7. Walk(es) = CHOOSE u : u = [i \in 1..(n + 1) |-> IF i > n THEN all ELSE Compensate(es, i, u[i + 1])]
  BY DEF Walk
<1>8. Walk(es) = [i \in 1..(n + 1) |-> IF i > n THEN all ELSE Compensate(es, i, Walk(es)[i + 1])]
  BY <1>6, <1>7
<1>9. ASSUME NEW i \in 1..n PROVE Walk(es)[i] = Compensate(es, i, Walk(es)[i + 1])
  <2>1. i \in 1..(n + 1) /\ ~(i > n)
    OBVIOUS
  <2> HIDE DEF all
  <2> QED BY <1>8, <2>1
<1>10. Walk(es)[n + 1] = all
  <2>1. n + 1 \in 1..(n + 1) /\ n + 1 > n
    OBVIOUS
  <2> HIDE DEF all
  <2> QED BY <1>8, <2>1
<1> DEFINE T == {k \in Nat : k <= n => Walk(es)[n + 1 - k] \in Acts(es)}
<1>11. 0 \in T
  BY <1>1, <1>10
<1>12. ASSUME NEW k \in Nat, k \in T PROVE k + 1 \in T
  <2> SUFFICES ASSUME k + 1 <= n PROVE Walk(es)[n - k] \in Acts(es)
    OBVIOUS
  <2>1. n - k \in 1..n /\ n + 1 - k = (n - k) + 1
    OBVIOUS
  <2>2. Walk(es)[(n - k) + 1] \in Acts(es)
    BY <1>12, <2>1
  <2> QED BY <1>9, <2>1, <2>2, CompensateIs
<1>13. \A k \in Nat : k \in T
  <2> HIDE DEF T
  <2> QED BY <1>11, <1>12, NatsIn
<1>14. ASSUME NEW i \in 1..(n + 1) PROVE Walk(es)[i] \in Acts(es)
  <2>1. n + 1 - i \in Nat /\ n + 1 - i <= n /\ n + 1 - (n + 1 - i) = i
    OBVIOUS
  <2> QED BY <1>13, <2>1
<1>15. Walk(es) \in [1..(n + 1) -> Acts(es)]
  BY <1>8, <1>14
<1> QED BY <1>9, <1>10, <1>15

LEMMA RestoresIs ==
  ASSUME NEW es, Len(es) \in Nat, NEW j \in 1..Len(es), NEW active \in Acts(es)
  PROVE  /\ Restores(es, j, active) \in Acts(es)
         /\ es[j].command.kind # "restore" => Restores(es, j, active) = active
         /\ \A i \in 1..Len(es) :
              Restores(es, j, active)[i] =
                (active[i] /\ ~( es[j].command.kind = "restore" /\ active[j]
                                 /\ es[i].command.kind \in Live /\ i < j
                                 /\ \E c \in Positions(es, es[j].command.target) : c < i))
BY DEF Restores, Acts

LEMMA AsidesIs ==
  ASSUME NEW es, Len(es) \in Nat, NEW active \in Acts(es)
  PROVE  /\ Asides(es, active) \in [0..Len(es) -> Acts(es)]
         /\ Asides(es, active)[0] = active
         /\ \A j \in 1..Len(es) : Asides(es, active)[j] = Restores(es, j, Asides(es, active)[j - 1])
<1> DEFINE n == Len(es)
           Good(k, w) == /\ w \in [0..k -> Acts(es)] /\ w[0] = active
                         /\ \A j \in 1..k : w[j] = Restores(es, j, w[j - 1])
           S == {k \in Nat : k <= n => \E w : Good(k, w)}
<1>1. 0 \in S
  <2> DEFINE w == [j \in 0..0 |-> active]
  <2>1. Good(0, w)
    OBVIOUS
  <2> QED BY <2>1
<1>2. ASSUME NEW k \in Nat, k \in S PROVE k + 1 \in S
  <2> HIDE DEF Good
  <2> SUFFICES ASSUME k + 1 <= n PROVE \E w : Good(k + 1, w)
    OBVIOUS
  <2>1. PICK w : Good(k, w)
    BY <1>2
  <2> USE DEF Good
  <2> DEFINE v == [j \in 0..(k + 1) |-> IF j = k + 1 THEN Restores(es, k + 1, w[k]) ELSE w[j]]
  <2>2. k + 1 \in 1..n /\ k \in 0..k
    OBVIOUS
  <2>3. Restores(es, k + 1, w[k]) \in Acts(es)
    BY <2>1, <2>2, RestoresIs
  <2>4. v \in [0..(k + 1) -> Acts(es)]
    BY <2>1, <2>2, <2>3
  <2>5. v[0] = active
    BY <2>1, <2>2
  <2>6. ASSUME NEW j \in 1..(k + 1) PROVE v[j] = Restores(es, j, v[j - 1])
    <3>1. v[j - 1] = w[j - 1]
      BY <2>2
    <3>2. CASE j = k + 1
      BY <3>1, <3>2
    <3>3. CASE j # k + 1
      <4>1. j \in 1..k
        BY <3>3
      <4> QED BY <2>1, <3>1, <3>3, <4>1
    <3> QED BY <3>2, <3>3
  <2>7. Good(k + 1, v)
    BY <2>4, <2>5, <2>6
  <2> QED BY <2>7
<1>3. n \in S
  <2> HIDE DEF S
  <2> QED BY <1>1, <1>2, NatsIn
<1>4. PICK w : Good(n, w)
  <2> HIDE DEF Good
  <2> QED BY <1>3
<1>5. w = [j \in 0..n |-> IF j = 0 THEN active ELSE Restores(es, j, w[j - 1])]
  BY <1>4
<1>6. Asides(es, active) =
        CHOOSE u : u = [j \in 0..n |-> IF j = 0 THEN active ELSE Restores(es, j, u[j - 1])]
  BY DEF Asides
<1> DEFINE A == Asides(es, active)
<1>7. A = [j \in 0..n |-> IF j = 0 THEN active ELSE Restores(es, j, A[j - 1])]
  BY <1>5, <1>6
<1> HIDE DEF A
<1>8. A[0] = active
  BY <1>7
<1>9. ASSUME NEW j \in 1..n PROVE A[j] = Restores(es, j, A[j - 1])
  <2>1. j \in 0..n /\ j # 0
    OBVIOUS
  <2> QED BY <1>7, <2>1
<1> DEFINE T == {k \in Nat : k <= n => A[k] \in Acts(es)}
<1>10. 0 \in T
  BY <1>8
<1>11. ASSUME NEW k \in Nat, k \in T PROVE k + 1 \in T
  <2> SUFFICES ASSUME k + 1 <= n PROVE A[k + 1] \in Acts(es)
    OBVIOUS
  <2>1. k + 1 \in 1..n /\ (k + 1) - 1 = k /\ A[k] \in Acts(es)
    BY <1>11
  <2> QED BY <1>9, <2>1, RestoresIs
<1>12. \A k \in Nat : k \in T
  <2> HIDE DEF T
  <2> QED BY <1>10, <1>11, NatsIn
<1>13. A \in [0..n -> Acts(es)]
  <2>1. \A k \in 0..n : A[k] \in Acts(es)
    BY <1>12
  <2> QED BY <1>7, <2>1
<1> QED BY <1>8, <1>9, <1>13 DEF A

LEMMA MaxIs ==
  ASSUME NEW n \in Nat, NEW B, B \subseteq 1..n, B # {}
  PROVE  Max(B) \in B /\ \A y \in B : y <= Max(B)
<1> DEFINE T == {k \in Nat : \A C \in SUBSET (1..k) : C # {} => \E x \in C : \A y \in C : x >= y}
<1>1. 0 \in T
  <2>1. 1..0 = {}
    OBVIOUS
  <2> QED BY <2>1
<1>2. ASSUME NEW k \in Nat, k \in T PROVE k + 1 \in T
  <2> SUFFICES ASSUME NEW C \in SUBSET (1..(k + 1)), C # {}
               PROVE  \E x \in C : \A y \in C : x >= y
    OBVIOUS
  <2>1. CASE k + 1 \in C
    BY <2>1
  <2>2. CASE k + 1 \notin C
    <3>1. C \in SUBSET (1..k)
      BY <2>2
    <3> QED BY <1>2, <3>1
  <2> QED BY <2>1, <2>2
<1>3. n \in T
  <2> HIDE DEF T
  <2> QED BY <1>1, <1>2, NatsIn
<1>4. \E x \in B : \A y \in B : x >= y
  BY <1>3
<1>5. Max(B) \in B /\ \A y \in B : Max(B) >= y
  BY <1>4 DEF Max
<1> QED BY <1>5

(* The first of a chain of reversals.                                      *)
Back(es, j) == {k \in Positions(es, es[j].command.target) : k < j}
RootStep(es, r, j) ==
  IF es[j].command.kind = "revert" /\ Back(es, j) # {} THEN r[Max(Back(es, j))] ELSE j

LEMMA BackIs ==
  ASSUME NEW es, Len(es) \in Nat, NEW j \in 1..Len(es), Back(es, j) # {}
  PROVE  Max(Back(es, j)) \in Back(es, j) /\ Max(Back(es, j)) \in 1..(j - 1)
<1>1. Back(es, j) \subseteq 1..(j - 1) /\ j - 1 \in Nat
  BY DEF Back, Positions
<1> QED BY <1>1, MaxIs

LEMMA RootsIs ==
  ASSUME NEW es, Len(es) \in Nat
  PROVE  /\ \A j \in 1..Len(es) : Roots(es)[j] = RootStep(es, Roots(es), j)
         /\ \A j \in 1..Len(es) : Roots(es)[j] \in 1..j
<1> DEFINE n == Len(es)
           Good(k, w) == w = [j \in 1..k |-> RootStep(es, w, j)]
           S == {k \in Nat : k <= n => \E w : Good(k, w)}
<1>1. 0 \in S
  <2> DEFINE w == [j \in 1..0 |-> 0]
  <2>1. Good(0, w)
    OBVIOUS
  <2> QED BY <2>1
<1>2. ASSUME NEW k \in Nat, k \in S PROVE k + 1 \in S
  <2> HIDE DEF Good
  <2> SUFFICES ASSUME k + 1 <= n PROVE \E w : Good(k + 1, w)
    OBVIOUS
  <2>1. PICK w : Good(k, w)
    BY <1>2
  <2> USE DEF Good
  <2> DEFINE v == [j \in 1..(k + 1) |-> IF j = k + 1 THEN RootStep(es, w, k + 1) ELSE w[j]]
  <2>2. ASSUME NEW j \in 1..(k + 1) PROVE RootStep(es, v, j) = RootStep(es, w, j)
    <3>1. j \in 1..n
      OBVIOUS
    <3>2. CASE es[j].command.kind = "revert" /\ Back(es, j) # {}
      <4>1. Max(Back(es, j)) \in 1..k
        BY <3>1, <3>2, BackIs
      <4>2. v[Max(Back(es, j))] = w[Max(Back(es, j))]
        BY <4>1
      <4> QED BY <3>2, <4>2 DEF RootStep
    <3> QED BY <3>2 DEF RootStep
  <2>3. ASSUME NEW j \in 1..(k + 1)
        PROVE (IF j = k + 1 THEN RootStep(es, w, k + 1) ELSE w[j]) = RootStep(es, v, j)
    <3>1. CASE j = k + 1
      BY <2>2, <3>1
    <3>2. CASE j # k + 1
      <4>1. j \in 1..k
        BY <3>2
      <4>2. w[j] = RootStep(es, w, j)
        BY <2>1, <4>1
      <4> QED BY <2>2, <3>2, <4>2
    <3> QED BY <3>1, <3>2
  <2>4. Good(k + 1, v)
    BY <2>3
  <2> QED BY <2>4
<1>3. n \in S
  <2> HIDE DEF S
  <2> QED BY <1>1, <1>2, NatsIn
<1>4. PICK w : Good(n, w)
  <2> HIDE DEF Good
  <2> QED BY <1>3
<1>5. w = [j \in 1..n |-> RootStep(es, w, j)]
  <2> HIDE DEF S
  <2> QED BY <1>4
<1>6. Roots(es) = CHOOSE u : u = [j \in 1..n |-> RootStep(es, u, j)]
  BY DEF Roots, RootStep, Back
<1>7. Roots(es) = [j \in 1..n |-> RootStep(es, Roots(es), j)]
  BY <1>5, <1>6
<1>8. ASSUME NEW j \in 1..n PROVE Roots(es)[j] = RootStep(es, Roots(es), j)
  BY <1>7
<1> DEFINE T == {k \in Nat : k <= n => \A j \in 1..k : Roots(es)[j] \in 1..j}
<1>9. 0 \in T
  OBVIOUS
<1>10. ASSUME NEW k \in Nat, k \in T PROVE k + 1 \in T
  <2> SUFFICES ASSUME k + 1 <= n, NEW j \in 1..(k + 1) PROVE Roots(es)[j] \in 1..j
    OBVIOUS
  <2>1. CASE es[j].command.kind = "revert" /\ Back(es, j) # {}
    <3>1. j \in 1..n /\ Max(Back(es, j)) \in 1..(j - 1)
      BY <2>1, BackIs
    <3>2. Roots(es)[Max(Back(es, j))] \in 1..Max(Back(es, j))
      BY <1>10, <3>1
    <3>3. Roots(es)[j] = Roots(es)[Max(Back(es, j))]
      BY <1>8, <2>1, <3>1 DEF RootStep
    <3> QED BY <3>1, <3>2, <3>3
  <2>2. CASE ~(es[j].command.kind = "revert" /\ Back(es, j) # {})
    <3>1. Roots(es)[j] = j
      BY <1>8, <2>2 DEF RootStep
    <3> QED BY <3>1
  <2> QED BY <2>1, <2>2
<1>11. n \in T
  <2> HIDE DEF T
  <2> QED BY <1>9, <1>10, NatsIn
<1> QED BY <1>8, <1>11

-----------------------------------------------------------------------------
(* Where nothing after the first b entries compensates into them, the two  *)
(* parts of a ledger are replayed apart.                                   *)
Backwards(es) ==
  \A i \in 1..Len(es) : es[i].command.kind \in {"revert", "correct", "restore"} =>
    \A p \in Positions(es, es[i].command.target) : p < i

Before(es, b) == SubSeq(es, 1, b)
After(es, b) == SubSeq(es, b + 1, Len(es))

LEMMA CutIs ==
  ASSUME NEW X, NEW es \in Seq(X), NEW b \in 0..Len(es)
  PROVE  /\ Before(es, b) \in Seq(X) /\ Len(Before(es, b)) = b
         /\ \A i \in 1..b : Before(es, b)[i] = es[i]
         /\ \A t : Positions(Before(es, b), t) = {i \in Positions(es, t) : i <= b}
         /\ After(es, b) \in Seq(X) /\ Len(After(es, b)) = Len(es) - b
         /\ \A i \in 1..(Len(es) - b) : After(es, b)[i] = es[b + i]
         /\ \A t, i : i \in 1..(Len(es) - b) => (i \in Positions(After(es, b), t) <=> b + i \in Positions(es, t))
<1>1. /\ Before(es, b) \in Seq(X) /\ Len(Before(es, b)) = b
      /\ \A i \in 1..b : Before(es, b)[i] = es[i]
  BY DEF Before
<1>2. /\ After(es, b) \in Seq(X) /\ Len(After(es, b)) = Len(es) - b
      /\ \A i \in 1..(Len(es) - b) : After(es, b)[i] = es[b + i]
  BY DEF After
<1>3. ASSUME NEW t PROVE Positions(Before(es, b), t) = {i \in Positions(es, t) : i <= b}
  BY <1>1 DEF Positions
<1>4. ASSUME NEW t, NEW i \in 1..(Len(es) - b)
      PROVE i \in Positions(After(es, b), t) <=> b + i \in Positions(es, t)
  <2>1. b + i \in 1..Len(es)
    OBVIOUS
  <2> QED BY <1>2, <2>1 DEF Positions
<1> QED BY <1>1, <1>2, <1>3, <1>4

(* A takes all of the first b entries as in force, and of the others what  *)
(* C does.                                                                 *)
Untouched(es, b, A, C) ==
  /\ A \in Acts(es) /\ C \in Acts(After(es, b))
  /\ \A j \in 1..b : A[j] = TRUE
  /\ \A j \in 1..(Len(es) - b) : A[b + j] = C[j]

LEMMA StepAfter ==
  ASSUME NEW X, NEW es \in Seq(X), NEW b \in 0..Len(es), LeavesBooks(es, b),
         NEW i \in 1..(Len(es) - b), NEW A, NEW C, Untouched(es, b, A, C)
  PROVE  Untouched(es, b, Compensate(es, b + i, A), Compensate(After(es, b), i, C))
<1> DEFINE n == Len(es)
           s == After(es, b)
           t == es[b + i].command.target
           kind == es[b + i].command.kind
           A1 == Compensate(es, b + i, A)
           C1 == Compensate(s, i, C)
<1>1. /\ n \in Nat /\ Len(s) = n - b /\ Len(s) \in Nat /\ b + i \in 1..n /\ i \in 1..Len(s)
      /\ s[i] = es[b + i]
  <2>1. n \in Nat /\ b \in Nat
    OBVIOUS
  <2>2. Len(s) = n - b /\ s[i] = es[b + i]
    BY CutIs
  <2>3. b + i \in 1..n /\ n - b \in Nat /\ i \in 1..(n - b)
    BY <2>1
  <2> HIDE DEF s
  <2> QED BY <2>1, <2>2, <2>3
<1>2. A \in Acts(es) /\ C \in Acts(s) /\ A[b + i] = C[i]
  BY <1>1 DEF Untouched
<1>3. A1 \in Acts(es) /\ C1 \in Acts(s)
  BY <1>1, <1>2, CompensateIs
<1>4. CASE ~A[b + i] \/ kind \notin {"revert", "correct"}
  <2>1. A1 = A /\ C1 = C
    BY <1>1, <1>2, <1>4, CompensateIs
  <2>2. Untouched(es, b, A1, C1)
    BY <2>1
  <2> QED BY <2>2
<1>5. CASE A[b + i] /\ kind \in {"revert", "correct"}
  <2>1. \A j \in 1..n : A1[j] = IF j \notin Positions(es, t) THEN A[j] ELSE kind = "revert" /\ ~A[j]
    <3> DEFINE q == b + i
    <3>1. q \in 1..Len(es) /\ Len(es) \in Nat /\ A[q] /\ es[q].command.kind \in {"revert", "correct"}
      BY <1>1, <1>5
    <3> HIDE DEF q
    <3>2. \A j \in 1..Len(es) :
            Compensate(es, q, A)[j] =
              IF j \notin Positions(es, es[q].command.target) THEN A[j]
              ELSE es[q].command.kind = "revert" /\ ~A[j]
      BY <1>2, <3>1, CompensateIs
    <3> QED BY <3>2 DEF q
  <2>2. \A j \in 1..Len(s) : C1[j] = IF j \notin Positions(s, t) THEN C[j] ELSE kind = "revert" /\ ~C[j]
    <3>1. i \in 1..Len(s) /\ Len(s) \in Nat /\ C[i] /\ C \in Acts(s) /\ s[i].command.kind = kind
          /\ s[i].command.kind \in {"revert", "correct"} /\ s[i].command.target = t
      BY <1>1, <1>2, <1>5
    <3> HIDE DEF s, t, kind
    <3>2. \A j \in 1..Len(s) :
            Compensate(s, i, C)[j] =
              IF j \notin Positions(s, s[i].command.target) THEN C[j]
              ELSE s[i].command.kind = "revert" /\ ~C[j]
      BY <3>1, CompensateIs
    <3> QED BY <3>1, <3>2
  <2>3. \A j \in 1..b : j \notin Positions(es, t)
    <3>1. b + i \in (b + 1)..n /\ b \in Nat
      BY <1>1
    <3>2. \A j \in Positions(es, es[b + i].command.target) : j > b
      BY <1>5, <3>1 DEF LeavesBooks
    <3> QED BY <3>1, <3>2
  <2>4. \A j \in 1..(n - b) : j \in Positions(s, t) <=> b + j \in Positions(es, t)
    BY CutIs
  <2> HIDE DEF A1, C1, s, t, kind
  <2>5. ASSUME NEW j \in 1..b PROVE A1[j] = TRUE
    <3>1. j \in 1..n
      BY <1>1
    <3> QED BY <2>1, <2>3, <3>1 DEF Untouched
  <2>6. ASSUME NEW j \in 1..(n - b) PROVE A1[b + j] = C1[j]
    <3>1. b + j \in 1..n /\ j \in 1..Len(s) /\ A[b + j] = C[j]
      BY <1>1 DEF Untouched
    <3>2. CASE j \in Positions(s, t)
      BY <2>1, <2>2, <2>4, <3>1, <3>2
    <3>3. CASE j \notin Positions(s, t)
      BY <2>1, <2>2, <2>4, <3>1, <3>3
    <3> QED BY <3>2, <3>3
  <2> USE DEF A1, C1, s
  <2> QED BY <1>3, <2>5, <2>6 DEF Untouched
<1> QED BY <1>4, <1>5

LEMMA WalkAfter ==
  ASSUME NEW X, NEW es \in Seq(X), NEW b \in 0..Len(es), LeavesBooks(es, b)
  PROVE  Untouched(es, b, Walk(es)[b + 1], Compensated(After(es, b)))
<1> DEFINE n == Len(es)
           s == After(es, b)
           m == n - b
           T == {k \in Nat : k <= m => Untouched(es, b, Walk(es)[b + (m + 1 - k)], Walk(s)[m + 1 - k])}
<1>1. n \in Nat /\ Len(s) = m /\ m \in Nat /\ b + (m + 1) = n + 1
  BY CutIs
<1>2. 0 \in T
  <2>1. Walk(es)[n + 1] = [j \in 1..n |-> TRUE] /\ Walk(es)[n + 1] \in Acts(es)
    <3>1. n + 1 \in 1..(n + 1) /\ Len(es) \in Nat
      BY <1>1
    <3> QED BY <3>1, WalkIs
  <2>2. Walk(s)[m + 1] = [j \in 1..m |-> TRUE] /\ Walk(s)[m + 1] \in Acts(s)
    <3>1. Len(s) \in Nat /\ Len(s) + 1 \in 1..(Len(s) + 1)
      BY <1>1
    <3>2. Walk(s)[Len(s) + 1] = [j \in 1..Len(s) |-> TRUE] /\ Walk(s)[Len(s) + 1] \in Acts(s)
      BY <3>1, WalkIs
    <3> QED BY <1>1, <3>2
  <2>3. \A j \in 1..m : b + j \in 1..n
    BY <1>1
  <2>4. \A j \in 1..b : j \in 1..n
    BY <1>1
  <2>5. Untouched(es, b, Walk(es)[n + 1], Walk(s)[m + 1])
    BY <2>1, <2>2, <2>3, <2>4 DEF Untouched
  <2>6. m + 1 - 0 = m + 1
    BY <1>1
  <2> QED BY <1>1, <2>5, <2>6
<1>3. ASSUME NEW k \in Nat, k \in T PROVE k + 1 \in T
  <2> SUFFICES ASSUME k + 1 <= m
               PROVE  Untouched(es, b, Walk(es)[b + (m + 1 - (k + 1))], Walk(s)[m + 1 - (k + 1)])
    OBVIOUS
  <2> DEFINE i == m - k
  <2>1. /\ i \in 1..m /\ m + 1 - (k + 1) = i /\ m + 1 - k = i + 1 /\ b + i \in 1..n
        /\ b + (i + 1) = (b + i) + 1
    BY <1>1
  <2>2. Untouched(es, b, Walk(es)[(b + i) + 1], Walk(s)[i + 1])
    BY <1>3, <2>1
  <2>3. Walk(es)[b + i] = Compensate(es, b + i, Walk(es)[(b + i) + 1])
    BY <1>1, <2>1, WalkIs
  <2>4. Walk(s)[i] = Compensate(s, i, Walk(s)[i + 1])
    BY <1>1, <2>1, WalkIs
  <2>5. Untouched(es, b, Walk(es)[b + i], Walk(s)[i])
    BY <2>1, <2>2, <2>3, <2>4, StepAfter
  <2> QED BY <2>1, <2>5
<1>4. m \in T
  <2> HIDE DEF T
  <2> QED BY <1>1, <1>2, <1>3, NatsIn
<1>5. m + 1 - m = 1
  BY <1>1
<1> QED BY <1>1, <1>4, <1>5 DEF Compensated

(* A is what B says of the first b entries and C of the others.            *)
Joined(es, b, A, B, C) ==
  /\ A \in Acts(es) /\ B \in Acts(Before(es, b)) /\ C \in Acts(After(es, b))
  /\ \A j \in 1..b : A[j] = B[j]
  /\ \A j \in 1..(Len(es) - b) : A[b + j] = C[j]

LEMMA StepBefore ==
  ASSUME NEW X, NEW es \in Seq(X), NEW b \in 0..Len(es), Backwards(es),
         NEW i \in 1..b, NEW A, NEW B, NEW C, Joined(es, b, A, B, C)
  PROVE  Joined(es, b, Compensate(es, i, A), Compensate(Before(es, b), i, B), C)
<1> DEFINE n == Len(es)
           s == Before(es, b)
           t == es[i].command.target
           kind == es[i].command.kind
           A1 == Compensate(es, i, A)
           B1 == Compensate(s, i, B)
<1>1. /\ n \in Nat /\ b \in Nat /\ b <= n /\ Len(s) = b /\ i \in 1..n /\ i \in 1..Len(s)
      /\ s[i] = es[i]
  <2>1. n \in Nat /\ b \in Nat /\ b <= n
    OBVIOUS
  <2>2. Len(s) = b /\ s[i] = es[i]
    BY CutIs
  <2> HIDE DEF s
  <2> QED BY <2>1, <2>2
<1>2. A \in Acts(es) /\ B \in Acts(s) /\ A[i] = B[i]
  BY <1>1 DEF Joined
<1>3. A1 \in Acts(es) /\ B1 \in Acts(s)
  BY <1>1, <1>2, CompensateIs
<1>4. CASE ~A[i] \/ kind \notin {"revert", "correct"}
  <2>1. A1 = A /\ B1 = B
    BY <1>1, <1>2, <1>4, CompensateIs
  <2>2. Joined(es, b, A1, B1, C)
    BY <2>1
  <2> QED BY <2>2
<1>5. CASE A[i] /\ kind \in {"revert", "correct"}
  <2>1. \A j \in 1..n : A1[j] = IF j \notin Positions(es, t) THEN A[j] ELSE kind = "revert" /\ ~A[j]
    BY <1>1, <1>2, <1>5, CompensateIs
  <2>2. \A j \in 1..b : B1[j] = IF j \notin Positions(s, t) THEN B[j] ELSE kind = "revert" /\ ~B[j]
    <3>1. i \in 1..Len(s) /\ Len(s) \in Nat /\ B[i] /\ B \in Acts(s) /\ s[i].command.kind = kind
          /\ s[i].command.kind \in {"revert", "correct"} /\ s[i].command.target = t
      BY <1>1, <1>2, <1>5
    <3> HIDE DEF s, t, kind
    <3>2. \A j \in 1..Len(s) :
            Compensate(s, i, B)[j] =
              IF j \notin Positions(s, s[i].command.target) THEN B[j]
              ELSE s[i].command.kind = "revert" /\ ~B[j]
      BY <3>1, CompensateIs
    <3> QED BY <1>1, <3>1, <3>2
  <2>3. \A j \in 1..(n - b) : b + j \notin Positions(es, t)
    <3>1. \A p \in Positions(es, t) : p < i
      BY <1>1, <1>5 DEF Backwards
    <3> QED BY <1>1, <3>1
  <2>4. \A j \in 1..b : j \in Positions(s, t) <=> j \in Positions(es, t)
    <3>1. Positions(s, t) = {j \in Positions(es, t) : j <= b}
      BY CutIs
    <3> QED BY <1>1, <3>1
  <2> HIDE DEF A1, B1, s, t, kind
  <2>5. ASSUME NEW j \in 1..b PROVE A1[j] = B1[j]
    <3>1. j \in 1..n /\ A[j] = B[j]
      BY <1>1 DEF Joined
    <3>2. CASE j \in Positions(s, t)
      BY <2>1, <2>2, <2>4, <3>1, <3>2
    <3>3. CASE j \notin Positions(s, t)
      BY <2>1, <2>2, <2>4, <3>1, <3>3
    <3> QED BY <3>2, <3>3
  <2>6. ASSUME NEW j \in 1..(n - b) PROVE A1[b + j] = C[j]
    <3>1. b + j \in 1..n
      BY <1>1
    <3>2. A1[b + j] = A[b + j]
      BY <2>1, <2>3, <3>1
    <3> QED BY <3>2 DEF Joined
  <2>7. C \in Acts(After(es, b))
    BY DEF Joined
  <2> USE DEF A1, B1, s
  <2> QED BY <1>3, <2>5, <2>6, <2>7 DEF Joined
<1> QED BY <1>4, <1>5

LEMMA WalkApart ==
  ASSUME NEW X, NEW es \in Seq(X), NEW b \in 0..Len(es), LeavesBooks(es, b), Backwards(es)
  PROVE  Joined(es, b, Compensated(es), Compensated(Before(es, b)), Compensated(After(es, b)))
<1> DEFINE n == Len(es)
           s == Before(es, b)
           C == Compensated(After(es, b))
           T == {k \in Nat : k <= b => Joined(es, b, Walk(es)[b + 1 - k], Walk(s)[b + 1 - k], C)}
<1>1. n \in Nat /\ Len(s) = b /\ b \in Nat /\ b <= n
  <2>1. Len(s) = b
    BY CutIs
  <2> QED BY <2>1
<1>2. 0 \in T
  <2>1. Untouched(es, b, Walk(es)[b + 1], C)
    BY WalkAfter
  <2>2. Walk(s)[b + 1] = [j \in 1..b |-> TRUE] /\ Walk(s)[b + 1] \in Acts(s)
    <3>1. Len(s) \in Nat /\ Len(s) + 1 \in 1..(Len(s) + 1)
      BY <1>1
    <3>2. Walk(s)[Len(s) + 1] = [j \in 1..Len(s) |-> TRUE] /\ Walk(s)[Len(s) + 1] \in Acts(s)
      BY <3>1, WalkIs
    <3> QED BY <1>1, <3>2
  <2>3. Joined(es, b, Walk(es)[b + 1], Walk(s)[b + 1], C)
    <3> HIDE DEF C
    <3> QED BY <2>1, <2>2 DEF Untouched, Joined
  <2>4. b + 1 - 0 = b + 1
    BY <1>1
  <2> QED BY <2>3, <2>4
<1>3. ASSUME NEW k \in Nat, k \in T PROVE k + 1 \in T
  <2> SUFFICES ASSUME k + 1 <= b
               PROVE  Joined(es, b, Walk(es)[b + 1 - (k + 1)], Walk(s)[b + 1 - (k + 1)], C)
    OBVIOUS
  <2> DEFINE i == b - k
  <2>1. i \in 1..b /\ b + 1 - (k + 1) = i /\ b + 1 - k = i + 1 /\ i \in 1..n
    BY <1>1
  <2>2. Joined(es, b, Walk(es)[i + 1], Walk(s)[i + 1], C)
    BY <1>3, <2>1
  <2>3. Walk(es)[i] = Compensate(es, i, Walk(es)[i + 1])
    BY <1>1, <2>1, WalkIs
  <2>4. Walk(s)[i] = Compensate(s, i, Walk(s)[i + 1])
    <3>1. i \in 1..Len(s) /\ Len(s) \in Nat
      BY <1>1, <2>1
    <3> HIDE DEF s, i
    <3> QED BY <3>1, WalkIs
  <2>5. Joined(es, b, Compensate(es, i, Walk(es)[i + 1]), Compensate(s, i, Walk(s)[i + 1]), C)
    <3> HIDE DEF C, i
    <3> QED BY <2>1, <2>2, StepBefore
  <2>6. Joined(es, b, Walk(es)[i], Walk(s)[i], C)
    BY <2>3, <2>4, <2>5
  <2> QED BY <2>1, <2>6
<1>4. b \in T
  <2> HIDE DEF T
  <2> QED BY <1>1, <1>2, <1>3, NatsIn
<1>5. b + 1 - b = 1
  BY <1>1
<1> QED BY <1>1, <1>4, <1>5 DEF Compensated

LEMMA RestoreBefore ==
  ASSUME NEW X, NEW es \in Seq(X), NEW b \in 0..Len(es),
         NEW j \in 1..b, NEW A, NEW B, NEW C, Joined(es, b, A, B, C)
  PROVE  Joined(es, b, Restores(es, j, A), Restores(Before(es, b), j, B), C)
<1> DEFINE n == Len(es)
           s == Before(es, b)
           t == es[j].command.target
           A1 == Restores(es, j, A)
           B1 == Restores(s, j, B)
           Between(i) == \E c \in Positions(es, t) : c < i
<1>1. /\ n \in Nat /\ b \in Nat /\ b <= n /\ Len(s) = b /\ j \in 1..n /\ j \in 1..Len(s)
      /\ \A i \in 1..b : s[i] = es[i]
  <2>1. n \in Nat /\ b \in Nat /\ b <= n
    OBVIOUS
  <2>2. Len(s) = b /\ \A i \in 1..b : s[i] = es[i]
    BY CutIs
  <2> HIDE DEF s
  <2> QED BY <2>1, <2>2
<1>2. /\ A \in Acts(es) /\ B \in Acts(s) /\ C \in Acts(After(es, b))
      /\ \A i \in 1..b : A[i] = B[i]
      /\ \A i \in 1..(n - b) : A[b + i] = C[i]
  BY DEF Joined
<1>3. A1 \in Acts(es) /\ B1 \in Acts(s)
  BY <1>1, <1>2, RestoresIs
<1>4. \A i \in 1..n :
        A1[i] = (A[i] /\ ~( es[j].command.kind = "restore" /\ A[j]
                            /\ es[i].command.kind \in Live /\ i < j
                            /\ \E c \in Positions(es, es[j].command.target) : c < i))
  BY <1>1, <1>2, RestoresIs
<1>5. \A i \in 1..Len(s) :
        B1[i] = (B[i] /\ ~( s[j].command.kind = "restore" /\ B[j]
                            /\ s[i].command.kind \in Live /\ i < j
                            /\ \E c \in Positions(s, s[j].command.target) : c < i))
  <2>1. j \in 1..Len(s) /\ Len(s) \in Nat /\ B \in Acts(s)
    BY <1>1, <1>2
  <2> HIDE DEF s, A1, t, n, Between
  <2>2. \A i \in 1..Len(s) :
          Restores(s, j, B)[i] = (B[i] /\ ~( s[j].command.kind = "restore" /\ B[j]
                                            /\ s[i].command.kind \in Live /\ i < j
                                            /\ \E c \in Positions(s, s[j].command.target) : c < i))
    BY <2>1, RestoresIs
  <2> QED BY <2>2
<1>6. Positions(s, t) = {i \in Positions(es, t) : i <= b}
  BY CutIs
<1> HIDE DEF A1, B1, s
<1>7. ASSUME NEW i \in 1..b PROVE A1[i] = B1[i]
  <2>1. i \in 1..n /\ i \in 1..Len(s) /\ s[i] = es[i] /\ s[j] = es[j] /\ A[i] = B[i] /\ A[j] = B[j]
    BY <1>1, <1>2
  <2>2. (\E c \in Positions(es, t) : c < i) <=> \E c \in Positions(s, t) : c < i
    <3>1. \A c \in Positions(es, t) : c \in 1..n
      BY DEF Positions
    <3> HIDE DEF t
    <3>2. \A c \in Positions(es, t) : c < i => c <= b
      BY <1>1, <3>1
    <3> QED BY <1>6, <3>2
  <2> QED BY <1>4, <1>5, <2>1, <2>2
<1>8. ASSUME NEW i \in 1..(n - b) PROVE A1[b + i] = C[i]
  <2>1. b + i \in 1..n /\ ~(b + i < j)
    BY <1>1
  <2>2. A1[b + i] = A[b + i]
    <3>1. A[b + i] \in BOOLEAN
      BY <1>2, <2>1 DEF Acts
    <3> HIDE DEF n
    <3> QED BY <1>4, <2>1, <3>1
  <2> QED BY <1>2, <2>2
<1> USE DEF A1, B1, s
<1> QED BY <1>2, <1>3, <1>7, <1>8 DEF Joined

LEMMA ReplayTyped ==
  ASSUME NEW es, Len(es) \in Nat
  PROVE  /\ Compensated(es) \in Acts(es)
         /\ ReplayFull(es) \in Acts(es)
<1>1. 1 \in 1..(Len(es) + 1) /\ Len(es) \in 0..Len(es)
  OBVIOUS
<1>2. Compensated(es) \in Acts(es)
  BY <1>1, WalkIs DEF Compensated
<1>3. ReplayFull(es) \in Acts(es)
  BY <1>1, <1>2, AsidesIs DEF ReplayFull, SetAside
<1> QED BY <1>2, <1>3

(* Entries that restore nothing leave what is in force as it is.           *)
LEMMA NoRestores ==
  ASSUME NEW es, Len(es) \in Nat, NEW active \in Acts(es), NEW b \in 0..Len(es),
         \A j \in (b + 1)..Len(es) : es[j].command.kind # "restore"
  PROVE  Asides(es, active)[Len(es)] = Asides(es, active)[b]
<1> DEFINE n == Len(es)
           D == Asides(es, active)
           T == {k \in Nat : k <= n - b => D[b + k] = D[b]}
<1>1. n \in Nat /\ b \in Nat /\ b <= n
  OBVIOUS
<1>2. 0 \in T
  BY <1>1
<1>3. ASSUME NEW k \in Nat, k \in T PROVE k + 1 \in T
  <2> SUFFICES ASSUME k + 1 <= n - b PROVE D[b + (k + 1)] = D[b]
    OBVIOUS
  <2> DEFINE j == b + (k + 1)
  <2>1. j \in (b + 1)..n /\ j \in 1..n /\ j - 1 = b + k /\ j - 1 \in 0..n
    BY <1>1
  <2>2. D[b + k] = D[b]
    BY <1>1, <1>3
  <2> HIDE DEF j
  <2>3. D[j] = Restores(es, j, D[j - 1]) /\ D[j - 1] \in Acts(es)
    BY <1>1, <2>1, AsidesIs
  <2>4. Restores(es, j, D[j - 1]) = D[j - 1]
    BY <2>1, <2>3, RestoresIs
  <2>5. D[j] = D[b]
    BY <2>1, <2>2, <2>3, <2>4
  <2> QED BY <2>5 DEF j
<1>4. n - b \in T
  <2>1. n - b \in Nat
    BY <1>1
  <2> HIDE DEF T
  <2> QED BY <1>2, <1>3, <2>1, NatsIn
<1>5. b + (n - b) = n
  BY <1>1
<1> QED BY <1>1, <1>4, <1>5

(* The replay of a ledger is that of its books and that of the rest.       *)
LEMMA ReplayApart ==
  ASSUME NEW X, NEW es \in Seq(X), NEW b \in 0..Len(es), LeavesBooks(es, b), Backwards(es)
  PROVE  Joined(es, b, ReplayFull(es), ReplayFull(Before(es, b)), ReplayFull(After(es, b)))
<1> DEFINE n == Len(es)
           s == Before(es, b)
           u == After(es, b)
           A == Compensated(es)
           B == Compensated(s)
           C == Compensated(u)
           T == {k \in Nat : k <= b => Joined(es, b, Asides(es, A)[k], Asides(s, B)[k], C)}
<1>1. n \in Nat /\ Len(s) = b /\ b \in Nat /\ b <= n /\ Len(u) = n - b /\ Len(u) \in Nat
  <2>1. Len(s) = b /\ Len(u) = n - b
    BY CutIs
  <2>2. n \in Nat /\ b \in Nat /\ b <= n
    OBVIOUS
  <2> HIDE DEF s, u
  <2> QED BY <2>1, <2>2
<1>2. Joined(es, b, A, B, C)
  BY WalkApart
<1>3. A \in Acts(es) /\ B \in Acts(s) /\ C \in Acts(u)
  BY <1>2 DEF Joined
<1>4. Asides(es, A)[0] = A /\ \A j \in 1..n : Asides(es, A)[j] = Restores(es, j, Asides(es, A)[j - 1])
  <2> HIDE DEF A
  <2> QED BY <1>1, <1>3, AsidesIs
<1>5. Asides(s, B)[0] = B /\ \A j \in 1..b : Asides(s, B)[j] = Restores(s, j, Asides(s, B)[j - 1])
  <2>1. Len(s) \in Nat
    BY <1>1
  <2> HIDE DEF B, s
  <2>2. Asides(s, B)[0] = B /\ \A j \in 1..Len(s) : Asides(s, B)[j] = Restores(s, j, Asides(s, B)[j - 1])
    BY <2>1, <1>3, AsidesIs
  <2> QED BY <1>1, <2>2
<1> HIDE DEF A, B, C
<1>6. 0 \in T
  BY <1>2, <1>4, <1>5
<1>7. ASSUME NEW k \in Nat, k \in T PROVE k + 1 \in T
  <2> SUFFICES ASSUME k + 1 <= b PROVE Joined(es, b, Asides(es, A)[k + 1], Asides(s, B)[k + 1], C)
    OBVIOUS
  <2> DEFINE j == k + 1
  <2>1. j \in 1..b /\ j \in 1..n /\ j - 1 = k
    BY <1>1
  <2>2. Joined(es, b, Asides(es, A)[k], Asides(s, B)[k], C)
    BY <1>7, <1>1
  <2> HIDE DEF j
  <2>3. Joined(es, b, Restores(es, j, Asides(es, A)[k]), Restores(s, j, Asides(s, B)[k]), C)
    BY <2>1, <2>2, RestoreBefore
  <2>4. Joined(es, b, Asides(es, A)[j], Asides(s, B)[j], C)
    BY <1>4, <1>5, <2>1, <2>3
  <2> QED BY <2>4 DEF j
<1>8. b \in T
  <2> HIDE DEF T
  <2> QED BY <1>1, <1>6, <1>7, NatsIn
<1>9. Joined(es, b, Asides(es, A)[b], Asides(s, B)[b], C)
  BY <1>1, <1>8
<1>10. Asides(es, A)[n] = Asides(es, A)[b]
  <2>1. \A j \in (b + 1)..n : es[j].command.kind # "restore"
    BY DEF LeavesBooks
  <2> QED BY <1>1, <1>3, <2>1, NoRestores
<1>11. Asides(u, C)[Len(u)] = C
  <2>1. \A j \in (0 + 1)..Len(u) : u[j].command.kind # "restore"
    <3>1. \A j \in 1..(n - b) : u[j] = es[b + j]
      BY CutIs
    <3>2. \A j \in 1..(n - b) : b + j \in (b + 1)..n
      BY <1>1
    <3>3. \A j \in 1..(n - b) : u[j].command.kind # "restore"
      BY <3>1, <3>2 DEF LeavesBooks
    <3> HIDE DEF u
    <3> QED BY <1>1, <3>3
  <2>2. 0 \in 0..Len(u)
    BY <1>1
  <2> HIDE DEF u
  <2>3. Asides(u, C)[Len(u)] = Asides(u, C)[0]
    BY <1>1, <1>3, <2>1, <2>2, NoRestores
  <2>4. Asides(u, C)[0] = C
    BY <1>1, <1>3, AsidesIs
  <2> QED BY <2>3, <2>4
<1>12. /\ ReplayFull(es) = Asides(es, A)[b]
       /\ ReplayFull(s) = Asides(s, B)[b]
       /\ ReplayFull(u) = C
  BY <1>1, <1>10, <1>11 DEF ReplayFull, SetAside, A, B, C
<1> QED BY <1>9, <1>12

LEMMA JoinIs ==
  ASSUME NEW n \in Nat, NEW b \in Nat, b <= n, n - b \in Nat,
         NEW A \in [1..n -> BOOLEAN], NEW B \in [1..b -> BOOLEAN], NEW C \in [1..(n - b) -> BOOLEAN],
         \A j \in 1..b : A[j] = B[j], \A j \in 1..(n - b) : A[b + j] = C[j]
  PROVE  B \o C = A
<1>1. B \in Seq(BOOLEAN) /\ C \in Seq(BOOLEAN) /\ A \in Seq(BOOLEAN)
  BY SeqDef
<1>2. Len(A) = n /\ Len(B) = b /\ Len(C) = n - b
  BY <1>1
<1>3. B \o C \in Seq(BOOLEAN) /\ Len(B \o C) = n
  BY <1>1, <1>2
<1>4. ASSUME NEW i \in 1..n PROVE (B \o C)[i] = A[i]
  <2>1. CASE i <= b
    <3>1. i \in 1..b
      BY <2>1
    <3>2. (B \o C)[i] = B[i]
      BY <1>1, <1>2, <3>1, ConcatProperties
    <3> QED BY <3>1, <3>2
  <2>2. CASE i > b
    <3>1. i - b \in 1..(n - b) /\ b + (i - b) = i /\ i \in 1..(b + (n - b)) /\ i > b
      BY <2>2
    <3>2. (B \o C)[i] = C[i - b]
      BY <1>1, <1>2, <3>1, ConcatProperties
    <3>3. A[b + (i - b)] = C[i - b]
      BY <3>1
    <3> QED BY <3>1, <3>2, <3>3
  <2> QED BY <2>1, <2>2
<1> QED BY <1>1, <1>2, <1>3, <1>4, SeqEqual

LEMMA ReplayByBooks ==
  ASSUME NEW X, NEW es \in Seq(X), Backwards(es), NEW base \in 0..Len(es), NEW closed,
         base # 0 => closed[base] = ReplayFull(Before(es, base))
  PROVE  Replay(es, base, closed) = ReplayFull(es)
<1>1. CASE ~(base > 0 /\ LeavesBooks(es, base))
  BY <1>1 DEF Replay
<1>2. CASE base > 0 /\ LeavesBooks(es, base)
  <2> DEFINE n == Len(es)
             B == ReplayFull(Before(es, base))
             C == ReplayFull(After(es, base))
             A == ReplayFull(es)
  <2>1. n \in Nat /\ base \in Nat /\ base <= n /\ n - base \in Nat
    OBVIOUS
  <2>2. Joined(es, base, A, B, C)
    BY <1>2, ReplayApart
  <2>3. Replay(es, base, closed) = B \o C
    <3>1. Replay(es, base, closed) = closed[base] \o ReplayFull(SubSeq(es, base + 1, Len(es)))
      BY <1>2, Zenon DEF Replay
    <3>2. base # 0
      BY <1>2, <2>1
    <3>3. closed[base] = B
      BY <3>2
    <3> QED BY <3>1, <3>3, Zenon DEF After
  <2>4. Len(Before(es, base)) = base /\ Len(After(es, base)) = n - base
    BY CutIs
  <2>5. A \in [1..n -> BOOLEAN] /\ B \in [1..base -> BOOLEAN] /\ C \in [1..(n - base) -> BOOLEAN]
    BY <2>2, <2>4 DEF Joined, Acts
  <2>6. /\ \A j \in 1..base : A[j] = B[j]
        /\ \A j \in 1..(n - base) : A[base + j] = C[j]
    BY <2>2 DEF Joined
  <2> HIDE DEF A, B, C, n
  <2>7. B \o C = A
    BY <2>1, <2>5, <2>6, JoinIs
  <2> QED BY <2>3, <2>7 DEF A
<1> QED BY <1>1, <1>2

-----------------------------------------------------------------------------
(* The inductive invariant.                                                *)
Entries == [command : Commands \union {Start}, expected : Nat]

(* No two entries share a request, and an entry that compensates another   *)
(* has a target, before it.                                                *)
Unshared(es) ==
  \A i, j \in 1..Len(es) : es[i].command.request = es[j].command.request => i = j

Aimed(es) ==
  \A i \in 1..Len(es) : es[i].command.kind \in {"revert", "correct", "restore"} =>
    Positions(es, es[i].command.target) # {}

Ledger(es) == es \in Seq(Entries) /\ Unshared(es) /\ Backwards(es) /\ Aimed(es)

(* Books are closed at the rollovers, each with the replay up to it.       *)
Books == UNION {[D -> Seq(BOOLEAN)] : D \in SUBSET Nat}

ClosedBooks(es, closed) ==
  /\ closed \in Books
  /\ DOMAIN closed = Rollovers(es)
  /\ \A r \in Rollovers(es) : closed[r] = ReplayFull(Before(es, r))

Bases(es) == {0} \union Rollovers(es)

(* A store remembers a beginning of the ledger and what it comes to.       *)
Hits == [records : Seq(Entries), base : Nat, active : Seq(BOOLEAN)]

Remembers(db, hit) ==
  /\ hit \in Hits
  /\ Len(hit.records) <= Len(db)
  /\ hit.records = Before(db, Len(hit.records))
  /\ hit.base \in Bases(hit.records)
  /\ hit.active = ReplayFull(hit.records)

Transactions ==
  [sent : Submissions, todo : Seq(Commands), expected : Nat, list : Seq(Entries), base : Nat,
   db : Seq(Entries), closed : Books, receipts : Seq(Nat)]

(* What a transaction adds to the ledger: changes of its submission, and   *)
(* the start of a league it created.                                       *)
Adds(rs, t) ==
  /\ Len(t.db) <= Len(rs) + Len(t.receipts) + 1
  /\ \A i \in (Len(rs) + 1)..Len(t.db) :
       \/ \E k \in 1..Len(t.receipts) : t.db[i].command = t.sent[k]
       \/ /\ t.db[i].command = Start
          /\ \E j \in (Len(rs) + 1)..Len(t.db) : t.db[j].command.kind = "create"
  /\ \A i \in (Len(rs) + 1)..Len(t.db) :
       t.db[i].command.kind = "create" =>
         \E j \in (Len(rs) + 1)..Len(t.db) : t.db[j].command.kind = "seed"

(* How far it has come in its submission, and the receipts it holds.       *)
Follows(t) ==
  /\ Len(t.receipts) + Len(t.todo) = Len(t.sent)
  /\ \A k \in 1..Len(t.todo) : t.todo[k] = t.sent[Len(t.receipts) + k]
  /\ \A k \in 1..Len(t.receipts) :
       t.receipts[k] \in 1..Len(t.db) /\ t.db[t.receipts[k]].command = t.sent[k]

Extends(rs, db) == Len(rs) <= Len(db) /\ \A i \in 1..Len(rs) : db[i] = rs[i]

TxOK(rs, t) ==
  /\ t \in Transactions
  /\ t.list = t.db
  /\ t.base \in Bases(t.db)
  /\ Ledger(t.db) /\ ClosedBooks(t.db, t.closed)
  /\ Extends(rs, t.db) /\ Adds(rs, t) /\ Follows(t)

IInv ==
  /\ Ledger(rows) /\ ClosedBooks(rows, books)
  /\ DOMAIN cache = Stores /\ \A s \in Stores : Remembers(rows, cache[s])
  /\ tx # None => TxOK(rows, tx)
  /\ AnswersAreTrue

-----------------------------------------------------------------------------
(* A store is served the ledger as it was.                                 *)
LEMMA BeforeAgain ==
  ASSUME NEW X, NEW es \in Seq(X), NEW b \in 0..Len(es), NEW n \in 0..b
  PROVE  Before(Before(es, b), n) = Before(es, n)
<1>1. b \in Nat /\ n \in Nat /\ Len(es) \in Nat /\ n \in 0..Len(es)
  OBVIOUS
<1>2. Before(es, b) \in Seq(X) /\ Len(Before(es, b)) = b /\ \A i \in 1..b : Before(es, b)[i] = es[i]
  BY CutIs
<1>3. Before(es, n) \in Seq(X) /\ Len(Before(es, n)) = n /\ \A i \in 1..n : Before(es, n)[i] = es[i]
  BY <1>1, CutIs
<1> DEFINE s == Before(es, b)
<1>4. s \in Seq(X) /\ n \in 0..Len(s)
  BY <1>2
<1> HIDE DEF s
<1>5. Before(s, n) \in Seq(X) /\ Len(Before(s, n)) = n /\ \A i \in 1..n : Before(s, n)[i] = s[i]
  BY <1>4, CutIs
<1>6. \A i \in 1..n : s[i] = es[i]
  BY <1>1, <1>2 DEF s
<1>7. Before(s, n) = Before(es, n)
  BY <1>1, <1>3, <1>5, <1>6, SeqEqual
<1> QED BY <1>7 DEF s

LEMMA BeforeAll ==
  ASSUME NEW X, NEW es \in Seq(X)
  PROVE  Before(es, Len(es)) = es
BY SubSeqFull DEF Before

LEMMA RolloversBefore ==
  ASSUME NEW X, NEW es \in Seq(X), NEW b \in 0..Len(es)
  PROVE  /\ Rollovers(Before(es, b)) = {i \in Rollovers(es) : i <= b}
         /\ Rollovers(es) \subseteq 1..Len(es) /\ Len(es) \in Nat
<1>1. Len(Before(es, b)) = b /\ \A i \in 1..b : Before(es, b)[i] = es[i]
  BY CutIs
<1>2. Len(es) \in Nat /\ b \in Nat /\ b <= Len(es)
  OBVIOUS
<1> QED BY <1>1, <1>2 DEF Rollovers

LEMMA LedgerBefore ==
  ASSUME NEW es, Ledger(es), NEW b \in 0..Len(es)
  PROVE  Ledger(Before(es, b))
<1> DEFINE s == Before(es, b)
<1>1. /\ es \in Seq(Entries) /\ Unshared(es) /\ Backwards(es) /\ Aimed(es)
      /\ Len(es) \in Nat /\ b \in Nat /\ b <= Len(es)
  BY DEF Ledger
<1>2. /\ s \in Seq(Entries) /\ Len(s) = b /\ \A i \in 1..b : s[i] = es[i]
      /\ \A t : Positions(s, t) = {i \in Positions(es, t) : i <= b}
  BY <1>1, CutIs
<1> HIDE DEF s
<1>3. Unshared(s)
  BY <1>1, <1>2 DEF Unshared
<1>4. Backwards(s)
  BY <1>1, <1>2 DEF Backwards
<1>5. Aimed(s)
  <2> SUFFICES ASSUME NEW i \in 1..Len(s), s[i].command.kind \in {"revert", "correct", "restore"}
               PROVE  Positions(s, s[i].command.target) # {}
    BY DEF Aimed
  <2>1. i \in 1..Len(es) /\ s[i] = es[i] /\ i <= b
    BY <1>1, <1>2
  <2>2. PICK p \in Positions(es, es[i].command.target) : TRUE
    BY <1>1, <2>1 DEF Aimed
  <2>3. p < i /\ p \in 1..Len(es)
    BY <1>1, <2>1 DEF Backwards, Positions
  <2>4. p <= b
    BY <1>1, <2>1, <2>3
  <2> QED BY <1>2, <2>1, <2>2, <2>4
<1>6. Ledger(s)
  BY <1>2, <1>3, <1>4, <1>5 DEF Ledger
<1> QED BY <1>6 DEF s

(* The books of a ledger serve each of its beginnings.                     *)
LEMMA BooksServe ==
  ASSUME NEW es, NEW closed, Ledger(es), ClosedBooks(es, closed), NEW b \in 0..Len(es),
         NEW base \in Bases(Before(es, b))
  PROVE  Replay(Before(es, b), base, closed) = ReplayFull(Before(es, b))
<1> DEFINE s == Before(es, b)
<1>1. es \in Seq(Entries)
  BY DEF Ledger
<1>2. Ledger(s)
  BY LedgerBefore
<1>3. s \in Seq(Entries) /\ Backwards(s) /\ Len(s) = b /\ b \in Nat
  BY <1>1, <1>2, CutIs DEF Ledger
<1>4. base \in 0..b
  BY <1>1, RolloversBefore DEF Bases
<1>5. ASSUME base # 0 PROVE closed[base] = ReplayFull(Before(s, base))
  <2>1. base \in Rollovers(es)
    BY <1>1, <1>5, RolloversBefore DEF Bases
  <2>2. Before(s, base) = Before(es, base)
    BY <1>1, <1>4, BeforeAgain
  <2> QED BY <2>1, <2>2 DEF ClosedBooks
<1> HIDE DEF s
<1>6. base \in 0..Len(s)
  BY <1>3, <1>4
<1>7. Replay(s, base, closed) = ReplayFull(s)
  BY <1>3, <1>5, <1>6, ReplayByBooks
<1> QED BY <1>7 DEF s

LEMMA ReplaySeq ==
  ASSUME NEW es, Len(es) \in Nat
  PROVE  ReplayFull(es) \in Seq(BOOLEAN) /\ Len(ReplayFull(es)) = Len(es)
<1>1. ReplayFull(es) \in [1..Len(es) -> BOOLEAN]
  BY ReplayTyped DEF Acts
<1>2. ReplayFull(es) \in Seq(BOOLEAN)
  BY <1>1, SeqDef
<1> QED BY <1>1, <1>2

LEMMA EmptyRemembers ==
  ASSUME NEW db \in Seq(Entries)
  PROVE  Remembers(db, Empty)
<1> DEFINE e == <<>>
<1>1. e \in Seq(Entries) /\ Len(e) = 0 /\ e \in Seq(BOOLEAN)
  OBVIOUS
<1>2. ReplayFull(e) \in Seq(BOOLEAN) /\ Len(ReplayFull(e)) = 0
  BY <1>1, ReplaySeq
<1>3. ReplayFull(e) = e
  BY <1>2
<1>4. Before(db, 0) = e
  BY SubSeqEmpty DEF Before
<1>5. Empty.records = e /\ Empty.base = 0 /\ Empty.active = e /\ Empty \in Hits
  BY <1>1 DEF Empty, Hits
<1> HIDE DEF e
<1>6. Empty.base \in Bases(Empty.records)
  BY <1>5 DEF Bases
<1> QED BY <1>1, <1>3, <1>4, <1>5, <1>6 DEF Remembers

LEMMA LoadIs ==
  ASSUME NEW es, Len(es) \in Nat, NEW absent
  PROVE  LoadBooks(es, absent) \in Bases(es)
<1>1. CASE absent \/ Rollovers(es) = {}
  BY <1>1 DEF LoadBooks, Bases
<1>2. CASE ~(absent \/ Rollovers(es) = {})
  <2>1. Rollovers(es) \subseteq 1..Len(es)
    BY DEF Rollovers
  <2>2. Max(Rollovers(es)) \in Rollovers(es)
    BY <1>2, <2>1, MaxIs
  <2> QED BY <1>2, <2>2 DEF LoadBooks, Bases
<1> QED BY <1>1, <1>2

LEMMA ServedIs ==
  ASSUME NEW db, NEW closed, Ledger(db), ClosedBooks(db, closed),
         NEW cached, Remembers(db, cached), NEW n \in 0..Len(db), NEW absent
  PROVE  /\ Remembers(db, Served(cached, db, closed, n, absent))
         /\ Served(cached, db, closed, n, absent).records = Before(db, n)
         /\ Served(cached, db, closed, n, absent).active = ReplayFull(Before(db, n))
<1>1. db \in Seq(Entries) /\ Len(db) \in Nat /\ n \in Nat /\ n <= Len(db)
  BY DEF Ledger
<1>2. PICK hit : hit = StillCurrent(cached, n)
  OBVIOUS
<1>3. Remembers(db, hit) /\ Len(hit.records) <= n
  <2>1. CASE Len(cached.records) > n
    <3>1. hit = Empty /\ Len(Empty.records) = 0
      BY <1>2, <2>1 DEF StillCurrent, Empty
    <3> QED BY <1>1, <3>1, EmptyRemembers
  <2>2. CASE ~(Len(cached.records) > n)
    <3>1. hit = cached
      BY <1>2, <2>2 DEF StillCurrent
    <3>2. Len(cached.records) \in Nat
      BY DEF Remembers, Hits
    <3> QED BY <1>1, <2>2, <3>1, <3>2
  <2> QED BY <2>1, <2>2
<1>4. PICK m : m = Len(hit.records)
  OBVIOUS
<1>5. m \in 0..n /\ m \in 0..Len(db) /\ hit.records = Before(db, m) /\ m \in Nat
  <2>1. m \in Nat /\ hit.records = Before(db, m) /\ m <= n
    BY <1>3, <1>4 DEF Remembers, Hits
  <2> QED BY <1>1, <2>1
<1> DEFINE tail == SubSeq(db, m + 1, n)
           list == hit.records \o tail
           base == IF hit.records = <<>> \/ Rollovers(tail) # {} THEN LoadBooks(list, absent) ELSE hit.base
<1>6. list = Before(db, n)
  <2>1. m \in (1 - 1)..Len(db) /\ n \in m..Len(db) /\ 1 \in 1..(Len(db) + 1)
    BY <1>1, <1>5
  <2>2. SubSeq(db, 1, m) \o SubSeq(db, m + 1, n) = SubSeq(db, 1, n)
    BY <1>1, <2>1, ConcatAdjacentSubSeq
  <2> QED BY <1>5, <2>2 DEF Before
<1>7. Before(db, n) \in Seq(Entries) /\ Len(Before(db, n)) = n
  BY <1>1, CutIs
<1>8. base \in Bases(Before(db, n))
  <2>1. LoadBooks(list, absent) \in Bases(Before(db, n))
    BY <1>6, <1>7, <1>1, LoadIs
  <2>2. hit.base \in Bases(Before(db, n))
    <3>1. hit.base \in Bases(Before(db, m))
      BY <1>3, <1>5 DEF Remembers
    <3>2. /\ Rollovers(Before(db, m)) = {i \in Rollovers(db) : i <= m}
          /\ Rollovers(Before(db, n)) = {i \in Rollovers(db) : i <= n}
          /\ Rollovers(db) \subseteq 1..Len(db)
      BY <1>1, <1>5, RolloversBefore
    <3>3. Rollovers(Before(db, m)) \subseteq Rollovers(Before(db, n))
      BY <1>1, <1>5, <3>2
    <3> QED BY <3>1, <3>3 DEF Bases
  <2> HIDE DEF list, tail
  <2> QED BY <2>1, <2>2
<1>9. Served(cached, db, closed, n, absent) =
        IF m = n THEN hit
        ELSE [records |-> list, base |-> base, active |-> Replay(list, base, closed)]
  BY <1>2, <1>4, Zenon DEF Served
<1> HIDE DEF tail, list, base
<1>10. CASE m = n
  <2>1. Served(cached, db, closed, n, absent) = hit
    BY <1>9, <1>10
  <2> QED BY <1>3, <1>5, <1>10, <2>1 DEF Remembers
<1>11. CASE m # n
  <2>1. PICK s : s = [records |-> list, base |-> base, active |-> Replay(list, base, closed)]
    OBVIOUS
  <2>2. s.records = Before(db, n) /\ s.base = base /\ s.active = Replay(Before(db, n), base, closed)
    BY <1>6, <2>1
  <2>3. s.active = ReplayFull(Before(db, n))
    BY <1>8, <2>2, BooksServe
  <2>4. base \in Nat
    <3>1. Rollovers(Before(db, n)) \subseteq Nat
      BY <1>7 DEF Rollovers
    <3> QED BY <1>8, <3>1 DEF Bases
  <2>5. ReplayFull(Before(db, n)) \in Seq(BOOLEAN)
    BY <1>1, <1>7, ReplaySeq
  <2>6. s \in Hits
    BY <2>1, <2>2, <2>3, <2>4, <2>5, <1>7, <1>6 DEF Hits
  <2>7. Remembers(db, s)
    BY <1>1, <1>7, <1>8, <2>2, <2>3, <2>6 DEF Remembers
  <2>8. Served(cached, db, closed, n, absent) = s
    BY <1>9, <1>11, <2>1
  <2> QED BY <2>2, <2>3, <2>7, <2>8
<1> QED BY <1>10, <1>11

-----------------------------------------------------------------------------
(* A change that is recorded leaves the ledger well formed.                *)
LEMMA AppendIs ==
  ASSUME NEW X, NEW es \in Seq(X), NEW e \in X
  PROVE  /\ Append(es, e) \in Seq(X) /\ Len(es) \in Nat /\ Len(Append(es, e)) = Len(es) + 1
         /\ \A i \in 1..Len(es) : Append(es, e)[i] = es[i]
         /\ Append(es, e)[Len(es) + 1] = e
         /\ es \o <<e>> = Append(es, e)
         /\ \A n \in 0..Len(es) : Before(Append(es, e), n) = Before(es, n)
<1> DEFINE d == Append(es, e)
           n == Len(es)
<1>1. d \in Seq(X) /\ n \in Nat /\ Len(d) = n + 1 /\ (\A i \in 1..n : d[i] = es[i]) /\ d[n + 1] = e
  OBVIOUS
<1>2. es \o <<e>> = d
  OBVIOUS
<1> HIDE DEF d
<1>3. ASSUME NEW k \in 0..n PROVE Before(d, k) = Before(es, k)
  <2>1. k \in 0..Len(d) /\ k \in Nat /\ k <= n
    BY <1>1
  <2>2. Before(d, k) \in Seq(X) /\ Len(Before(d, k)) = k /\ \A i \in 1..k : Before(d, k)[i] = d[i]
    <3>1. d \in Seq(X) /\ k \in 0..Len(d)
      BY <1>1, <2>1
    <3> QED BY <3>1, CutIs
  <2>3. Before(es, k) \in Seq(X) /\ Len(Before(es, k)) = k /\ \A i \in 1..k : Before(es, k)[i] = es[i]
    BY CutIs
  <2>4. \A i \in 1..k : d[i] = es[i]
    BY <1>1, <2>1
  <2> QED BY <2>2, <2>3, <2>4, SeqEqual
<1> QED BY <1>1, <1>2, <1>3 DEF d

Compensations == {"revert", "correct", "restore"}

LEMMA LedgerAppend ==
  ASSUME NEW es, Ledger(es), NEW e \in Entries, Positions(es, e.command.request) = {},
         e.command.kind \in Compensations => Positions(es, e.command.target) # {}
  PROVE  Ledger(Append(es, e))
<1> DEFINE d == Append(es, e)
           n == Len(es)
<1>1. es \in Seq(Entries) /\ Unshared(es) /\ Backwards(es) /\ Aimed(es)
  BY DEF Ledger
<1>2. d \in Seq(Entries) /\ n \in Nat /\ Len(d) = n + 1 /\ (\A i \in 1..n : d[i] = es[i]) /\ d[n + 1] = e
  BY <1>1, AppendIs
<1> HIDE DEF d
<1>3. \A i \in 1..n : es[i].command.request # e.command.request
  BY DEF Positions
<1>4. Unshared(d)
  <2> SUFFICES ASSUME NEW i \in 1..Len(d), NEW j \in 1..Len(d),
                      d[i].command.request = d[j].command.request
               PROVE  i = j
    BY DEF Unshared
  <2>1. (i \in 1..n \/ i = n + 1) /\ (j \in 1..n \/ j = n + 1)
    BY <1>2
  <2>2. CASE i \in 1..n /\ j \in 1..n
    BY <1>1, <1>2, <2>2 DEF Unshared
  <2>3. CASE i \in 1..n /\ j = n + 1
    BY <1>2, <1>3, <2>3
  <2>4. CASE i = n + 1 /\ j \in 1..n
    BY <1>2, <1>3, <2>4
  <2> QED BY <2>1, <2>2, <2>3, <2>4
<1>5. ASSUME NEW i \in 1..Len(d), d[i].command.kind \in Compensations,
             NEW p \in Positions(d, d[i].command.target)
      PROVE  p < i
  <2>1. i \in 1..n \/ i = n + 1
    BY <1>2
  <2>2. p \in 1..Len(d) /\ d[p].command.request = d[i].command.target
    BY DEF Positions
  <2>3. PICK q \in 1..n : es[q].command.request = d[i].command.target
    <3>1. CASE i = n + 1
      BY <1>2, <1>5, <3>1 DEF Positions
    <3>2. CASE i \in 1..n
      <4>1. es[i].command.kind \in Compensations /\ d[i] = es[i]
        BY <1>2, <1>5, <3>2
      <4>2. Positions(es, es[i].command.target) # {}
        BY <1>1, <3>2, <4>1 DEF Aimed, Compensations
      <4> QED BY <4>1, <4>2 DEF Positions
    <3> QED BY <2>1, <3>1, <3>2
  <2>4. p = q
    <3>1. q \in 1..Len(d) /\ d[q].command.request = d[p].command.request
      BY <1>2, <2>2, <2>3
    <3> QED BY <1>4, <2>2, <3>1 DEF Unshared
  <2>5. CASE i = n + 1
    BY <1>2, <2>3, <2>4, <2>5
  <2>6. CASE i \in 1..n
    <3>1. p \in Positions(es, es[i].command.target)
      BY <1>2, <2>3, <2>4, <2>6 DEF Positions
    <3>2. es[i].command.kind \in Compensations
      BY <1>2, <1>5, <2>6
    <3> QED BY <1>1, <2>6, <3>1, <3>2 DEF Backwards, Compensations
  <2> QED BY <2>1, <2>5, <2>6
<1>6. Backwards(d)
  BY <1>5 DEF Backwards, Compensations
<1>7. ASSUME NEW i \in 1..Len(d), d[i].command.kind \in Compensations
      PROVE  Positions(d, d[i].command.target) # {}
  <2>1. i \in 1..n \/ i = n + 1
    BY <1>2
  <2>2. PICK q \in Positions(es, d[i].command.target) : TRUE
    <3>1. CASE i = n + 1
      BY <1>2, <1>7, <3>1
    <3>2. CASE i \in 1..n
      <4>1. es[i].command.kind \in Compensations /\ d[i] = es[i]
        BY <1>2, <1>7, <3>2
      <4> QED BY <1>1, <3>2, <4>1 DEF Aimed, Compensations
    <3> QED BY <2>1, <3>1, <3>2
  <2>3. q \in 1..n /\ q \in 1..Len(d) /\ d[q] = es[q] /\ es[q].command.request = d[i].command.target
    BY <1>2, <2>2 DEF Positions
  <2> QED BY <2>3 DEF Positions
<1>8. Aimed(d)
  BY <1>7 DEF Aimed, Compensations
<1>9. Ledger(d)
  BY <1>2, <1>4, <1>6, <1>8 DEF Ledger
<1> QED BY <1>9 DEF d

(* Books go on as they are, but for those a rollover closes.               *)
LEMMA BooksAppend ==
  ASSUME NEW es \in Seq(Entries), NEW closed, ClosedBooks(es, closed), NEW e \in Entries
  PROVE  /\ e.command.kind # "roll" => ClosedBooks(Append(es, e), closed)
         /\ e.command.kind = "roll" =>
              ClosedBooks(Append(es, e),
                          [r \in DOMAIN closed \union {Len(Append(es, e))} |->
                             IF r = Len(Append(es, e)) THEN ReplayFull(Append(es, e)) ELSE closed[r]])
<1> DEFINE d == Append(es, e)
           n == Len(es)
<1>1. /\ d \in Seq(Entries) /\ n \in Nat /\ Len(d) = n + 1 /\ (\A i \in 1..n : d[i] = es[i]) /\ d[n + 1] = e
      /\ \A k \in 0..n : Before(d, k) = Before(es, k)
  BY AppendIs
<1>2. /\ closed \in Books /\ DOMAIN closed = Rollovers(es)
      /\ \A r \in Rollovers(es) : closed[r] = ReplayFull(Before(es, r))
      /\ Rollovers(es) \subseteq 1..n
  BY DEF ClosedBooks, Rollovers
<1> HIDE DEF d
<1>3. \A r \in Rollovers(es) : closed[r] = ReplayFull(Before(d, r))
  BY <1>1, <1>2
<1>4. ASSUME e.command.kind # "roll" PROVE ClosedBooks(d, closed)
  <2>1. Rollovers(d) = Rollovers(es)
    BY <1>1, <1>4 DEF Rollovers
  <2> QED BY <1>2, <1>3, <2>1 DEF ClosedBooks
<1> DEFINE now == [r \in DOMAIN closed \union {Len(d)} |-> IF r = Len(d) THEN ReplayFull(d) ELSE closed[r]]
<1>5. ASSUME e.command.kind = "roll" PROVE ClosedBooks(d, now)
  <2>1. Rollovers(d) = Rollovers(es) \union {n + 1}
    BY <1>1, <1>5 DEF Rollovers
  <2>2. Before(d, n + 1) = d
    BY <1>1, BeforeAll
  <2>3. DOMAIN now = Rollovers(d)
    BY <1>1, <1>2, <2>1
  <2>4. ASSUME NEW r \in Rollovers(d) PROVE now[r] = ReplayFull(Before(d, r))
    <3>1. CASE r = n + 1
      BY <1>1, <2>1, <2>2, <3>1
    <3>2. CASE r # n + 1
      BY <1>1, <1>2, <1>3, <2>1, <3>2
    <3> QED BY <3>1, <3>2
  <2>5. now \in [Rollovers(d) -> Seq(BOOLEAN)]
    <3>1. \A r \in Rollovers(d) : Before(d, r) \in Seq(Entries)
      BY <1>1, CutIs DEF Rollovers
    <3>2. \A r \in Rollovers(d) : ReplayFull(Before(d, r)) \in Seq(BOOLEAN)
      BY <3>1, ReplaySeq
    <3> HIDE DEF now
    <3>3. now = [r \in Rollovers(d) |-> now[r]]
      BY <2>3 DEF now
    <3> QED BY <2>4, <3>2, <3>3
  <2>6. Rollovers(d) \in SUBSET Nat
    BY <1>1 DEF Rollovers
  <2> HIDE DEF now
  <2>7. now \in Books
    BY <2>5, <2>6 DEF Books
  <2> QED BY <2>3, <2>4, <2>7 DEF ClosedBooks
<1> QED BY <1>4, <1>5 DEF d

-----------------------------------------------------------------------------
(* The handling of one change.                                             *)
LEMMA TxIs ==
  ASSUME NEW t \in Transactions, t.todo # <<>>
  PROVE  /\ t.sent \in Submissions /\ t.todo \in Seq(Commands) /\ t.expected \in Nat
         /\ t.list \in Seq(Entries) /\ t.base \in Nat /\ t.db \in Seq(Entries)
         /\ t.closed \in Books /\ t.receipts \in Seq(Nat)
         /\ Head(t.todo) \in Commands
         /\ Current(t) \in Entries
         /\ Current(t).command = Head(t.todo) /\ Current(t).expected = ExpectedNow(t)
<1>1. /\ t.sent \in Submissions /\ t.todo \in Seq(Commands) /\ t.expected \in Nat
      /\ t.list \in Seq(Entries) /\ t.base \in Nat /\ t.db \in Seq(Entries)
      /\ t.closed \in Books /\ t.receipts \in Seq(Nat)
  BY DEF Transactions
<1>2. Head(t.todo) \in Commands
  BY <1>1
<1>3. ExpectedNow(t) \in Nat
  BY <1>1 DEF ExpectedNow
<1>4. Current(t) = [command |-> Head(t.todo), expected |-> ExpectedNow(t)]
  BY DEF Current
<1>5. Current(t).command = Head(t.todo) /\ Current(t).expected = ExpectedNow(t)
  BY <1>4
<1>6. Current(t) \in Entries
  BY <1>2, <1>3, <1>4 DEF Entries
<1> QED BY <1>1, <1>2, <1>5, <1>6

Started == [command |-> Start, expected |-> 1]

LEMMA StartIs ==
  /\ Started \in Entries /\ Started.command = Start /\ Start.kind = "seed"
  /\ \A c \in Commands : c.kind = "create" => c.request # Start.request
<1>1. Started.command = Start
  BY DEF Started
<1>2. Started \in Entries
  BY DEF Started, Entries
<1> QED BY <1>1, <1>2, LedgerAssumption

(* What the ledger is with the change in it.                               *)
Grown(t) ==
  IF Head(t.todo).kind = "create" THEN Append(Append(t.db, Current(t)), Started)
  ELSE Append(t.db, Current(t))

LEMMA GrownIs ==
  ASSUME NEW t, t \in Transactions, t.todo # <<>>
  PROVE  t.db \o <<Current(t)>>
           \o (IF Head(t.todo).kind = "create" THEN <<[command |-> Start, expected |-> 1]>> ELSE <<>>)
         = Grown(t)
<1> DEFINE e == Current(t)
<1>1. t.db \in Seq(Entries) /\ e \in Entries /\ Started \in Entries
  BY TxIs, StartIs
<1> HIDE DEF e
<1>2. t.db \o <<e>> = Append(t.db, e) /\ Append(t.db, e) \in Seq(Entries)
  BY <1>1, AppendIs
<1>3. Append(t.db, e) \o <<Started>> = Append(Append(t.db, e), Started)
  BY <1>1, <1>2, AppendIs
<1>4. Append(t.db, e) \o <<>> = Append(t.db, e)
  BY <1>2, ConcatEmptySeq
<1> QED BY <1>2, <1>3, <1>4 DEF Grown, Started, e

LEMMA Admitted ==
  ASSUME NEW t, ~Refused(t), ~Retried(t)
  PROVE  /\ Prior(t) = {}
         /\ Head(t.todo).kind \in {"create", "import"} <=> t.list = <<>>
         /\ Head(t.todo).kind \in Compensations => Positions(t.list, Head(t.todo).target) # {}
<1>1. Prior(t) = {} /\ Admissible(t)
  BY DEF Refused
<1>2. Head(t.todo).kind \in {"create", "import"} <=> t.list = <<>>
  BY <1>1, Zenon DEF Admissible
<1>3. ASSUME Head(t.todo).kind = "revert" PROVE Positions(t.list, Head(t.todo).target) # {}
  <2>1. \E i \in Positions(t.list, Head(t.todo).target) :
          t.list[i].command.kind \notin Live \union {"seed"}
    BY <1>1, <1>3, Zenon DEF Admissible
  <2> QED BY <2>1
<1>4. ASSUME Head(t.todo).kind = "correct" PROVE Positions(t.list, Head(t.todo).target) # {}
  <2>1. \E i \in Positions(t.list, Head(t.todo).target) : TRUE
    BY <1>1, <1>4, Zenon DEF Admissible
  <2> QED BY <2>1
<1>5. ASSUME Head(t.todo).kind = "restore" PROVE Positions(t.list, Head(t.todo).target) # {}
  <2>1. \E i \in Positions(t.list, Head(t.todo).target) : TRUE
    BY <1>1, <1>5, Zenon DEF Admissible
  <2> QED BY <2>1
<1> QED BY <1>1, <1>2, <1>3, <1>4, <1>5 DEF Compensations

LEMMA GrowthOK ==
  ASSUME NEW rs, NEW t, TxOK(rs, t), t.todo # <<>>, ~Refused(t), ~Retried(t), NEW db, db = Grown(t)
  PROVE  /\ Ledger(db) /\ ClosedBooks(db, BooksClosed(t, db))
         /\ Extends(t.db, db)
         /\ Len(db) > Len(t.db) /\ db[Len(t.db) + 1].command = Head(t.todo)
         /\ \/ Head(t.todo).kind # "create" /\ Len(db) = Len(t.db) + 1
            \/ Head(t.todo).kind = "create" /\ Len(t.db) = 0 /\ Len(db) = 2 /\ db[2].command = Start
<1> DEFINE e == Current(t)
           c == Head(t.todo)
           es == t.db
           d == Append(es, e)
           n == Len(es)
<1>1. /\ t \in Transactions /\ t.list = es /\ Ledger(es) /\ ClosedBooks(es, t.closed)
  BY DEF TxOK
<1>2. es \in Seq(Entries) /\ e \in Entries /\ e.command = c /\ c \in Commands
  BY <1>1, TxIs
<1>3. /\ Positions(es, c.request) = {}
      /\ c.kind \in {"create", "import"} <=> es = <<>>
      /\ c.kind \in Compensations => Positions(es, c.target) # {}
  BY <1>1, Admitted DEF Prior
<1> HIDE DEF c, e, es
<1>4. Ledger(d)
  BY <1>1, <1>2, <1>3, LedgerAppend
<1>5. /\ d \in Seq(Entries) /\ n \in Nat /\ Len(d) = n + 1 /\ (\A i \in 1..n : d[i] = es[i]) /\ d[n + 1] = e
  BY <1>2, AppendIs
<1>6. CASE c.kind # "create"
  <2>1. db = d
    BY <1>6 DEF Grown, c, e, es
  <2>2. BooksClosed(t, db) =
          IF c.kind # "roll" THEN t.closed
          ELSE [r \in DOMAIN t.closed \union {Len(db)} |-> IF r = Len(db) THEN ReplayFull(db) ELSE t.closed[r]]
    BY Zenon DEF BooksClosed, c
  <2>3. ClosedBooks(db, BooksClosed(t, db))
    <3>1. CASE c.kind # "roll"
      <4>1. BooksClosed(t, db) = t.closed
        BY <2>2, <3>1
      <4>2. e.command.kind # "roll"
        BY <1>2, <3>1
      <4>3. ClosedBooks(Append(es, e), t.closed)
        BY <1>1, <1>2, <4>2, BooksAppend
      <4> QED BY <2>1, <4>1, <4>3
    <3>2. CASE c.kind = "roll"
      <4>1. BooksClosed(t, db) =
              [r \in DOMAIN t.closed \union {Len(d)} |-> IF r = Len(d) THEN ReplayFull(d) ELSE t.closed[r]]
        BY <2>1, <2>2, <3>2, Zenon
      <4>2. e.command.kind = "roll"
        BY <1>2, <3>2
      <4>3. ClosedBooks(d, [r \in DOMAIN t.closed \union {Len(d)} |->
                              IF r = Len(d) THEN ReplayFull(d) ELSE t.closed[r]])
        BY <1>1, <1>2, <4>2, BooksAppend
      <4>4. ClosedBooks(d, BooksClosed(t, db))
        BY <4>1, <4>3, Zenon
      <4> QED BY <2>1, <4>4, Zenon
    <3> QED BY <3>1, <3>2
  <2> HIDE DEF d
  <2>4. Extends(es, db) /\ Len(db) = n + 1 /\ Len(db) > n /\ db[n + 1].command = c
    BY <1>2, <1>5, <2>1 DEF Extends
  <2> QED BY <1>4, <1>6, <2>1, <2>3, <2>4 DEF es, c
<1>7. CASE c.kind = "create"
  <2> DEFINE f == Append(d, Started)
  <2>1. db = f
    BY <1>7 DEF Grown, c, e, es
  <2>2. es = <<>> /\ n = 0
    BY <1>3, <1>7
  <2>3. Started \in Entries /\ Started.command = Start /\ Start.kind = "seed" /\ c.request # Start.request
    BY <1>2, <1>7, StartIs
  <2> HIDE DEF d
  <2>4. Positions(d, Start.request) = {}
    <3>1. Len(d) = 1 /\ d[1].command = c
      BY <1>2, <1>5, <2>2
    <3> QED BY <2>3, <3>1 DEF Positions
  <2>5. Ledger(f)
    BY <1>4, <2>3, <2>4, LedgerAppend DEF Compensations
  <2>6. f \in Seq(Entries) /\ Len(f) = Len(d) + 1 /\ (\A i \in 1..Len(d) : f[i] = d[i]) /\ f[Len(d) + 1] = Started
    BY <1>5, <2>3, AppendIs
  <2>7. ClosedBooks(d, t.closed)
    <3>1. e.command.kind # "roll"
      BY <1>2, <1>7
    <3> QED BY <1>1, <1>2, <3>1, BooksAppend DEF d
  <2>8. ClosedBooks(f, t.closed)
    <3>1. Started.command.kind # "roll"
      BY <2>3
    <3> QED BY <1>5, <2>3, <2>7, <3>1, BooksAppend
  <2>9. BooksClosed(t, db) = t.closed
    <3>1. c.kind # "roll"
      BY <1>7
    <3> QED BY <3>1, Zenon DEF BooksClosed, c
  <2> HIDE DEF f
  <2>10. Extends(es, db) /\ Len(db) = 2 /\ Len(db) > n /\ db[n + 1].command = c /\ db[2].command = Start
    BY <1>2, <1>5, <2>1, <2>2, <2>3, <2>6 DEF Extends
  <2> QED BY <1>7, <2>1, <2>2, <2>5, <2>8, <2>9, <2>10 DEF es, c
<1> QED BY <1>6, <1>7 DEF c

CopyOf(t, todo, db, base, receipts, closed) ==
  [t EXCEPT !.todo = todo, !.db = db, !.list = db, !.base = base,
            !.receipts = receipts, !.closed = closed]
MoveOf(t, todo, list, receipts) ==
  [t EXCEPT !.todo = todo, !.list = list, !.receipts = receipts]

LEMMA Copied ==
  ASSUME NEW t \in Transactions, NEW todo, NEW db, NEW base, NEW receipts, NEW closed, NEW d,
         d = CopyOf(t, todo, db, base, receipts, closed)
  PROVE  /\ d.sent = t.sent /\ d.todo = todo /\ d.expected = t.expected /\ d.list = db /\ d.base = base
         /\ d.db = db /\ d.closed = closed /\ d.receipts = receipts
         /\ todo \in Seq(Commands) /\ db \in Seq(Entries) /\ base \in Nat
            /\ closed \in Books /\ receipts \in Seq(Nat) => d \in Transactions
BY DEF Transactions, CopyOf

LEMMA Moved ==
  ASSUME NEW t \in Transactions, NEW todo, NEW list, NEW receipts, NEW d,
         d = MoveOf(t, todo, list, receipts)
  PROVE  /\ d.sent = t.sent /\ d.todo = todo /\ d.expected = t.expected /\ d.list = list /\ d.base = t.base
         /\ d.db = t.db /\ d.closed = t.closed /\ d.receipts = receipts
         /\ todo \in Seq(Commands) /\ list \in Seq(Entries) /\ receipts \in Seq(Nat) => d \in Transactions
BY DEF Transactions, MoveOf

LEMMA Shifted ==
  ASSUME NEW n \in Nat, NEW m \in Nat, NEW l \in Nat, l = m - 1
  PROVE  (n + 1) + l = n + m /\ \A k \in 1..l : k + 1 \in 1..m /\ n + (k + 1) = (n + 1) + k
OBVIOUS

(* The next change of the submission is taken, and r is its receipt.       *)
LEMMA NextChange ==
  ASSUME NEW t \in Transactions, t.todo # <<>>, Follows(t),
         NEW db \in Seq(Entries), Extends(t.db, db),
         NEW r \in 1..Len(db), db[r].command = Head(t.todo),
         NEW d, d.sent = t.sent, d.todo = Tail(t.todo), d.db = db, d.receipts = Append(t.receipts, r)
  PROVE  /\ d.todo \in Seq(Commands) /\ d.receipts \in Seq(Nat)
         /\ Len(t.receipts) \in Nat /\ Len(d.receipts) = Len(t.receipts) + 1
         /\ Head(t.todo) = t.sent[Len(t.receipts) + 1]
         /\ Follows(d)
<1> DEFINE n == Len(t.receipts)
           rec == Append(t.receipts, r)
           todo == t.todo
           rest == Tail(todo)
<1>1. /\ todo \in Seq(Commands) /\ t.db \in Seq(Entries) /\ t.receipts \in Seq(Nat) /\ r \in Nat
      /\ n \in Nat /\ Len(t.db) \in Nat
  BY TxIs
<1>2. /\ n + Len(todo) = Len(t.sent)
      /\ \A k \in 1..Len(todo) : todo[k] = t.sent[n + k]
      /\ \A k \in 1..n : t.receipts[k] \in 1..Len(t.db) /\ t.db[t.receipts[k]].command = t.sent[k]
  BY DEF Follows
<1>3. rec \in Seq(Nat) /\ Len(rec) = n + 1 /\ (\A k \in 1..n : rec[k] = t.receipts[k]) /\ rec[n + 1] = r
  BY <1>1
<1>4. /\ rest \in Seq(Commands) /\ Len(todo) \in Nat /\ Len(rest) = Len(todo) - 1 /\ Len(todo) >= 1
      /\ \A k \in 1..Len(rest) : rest[k] = todo[k + 1]
      /\ Head(todo) = todo[1]
  BY <1>1, HeadTailProperties
<1> HIDE DEF rec, todo, rest
<1>5. Head(todo) = t.sent[n + 1]
  BY <1>1, <1>2, <1>4
<1>6. ASSUME NEW k \in 1..Len(rest) PROVE rest[k] = t.sent[(n + 1) + k]
  <2>1. k + 1 \in 1..Len(todo) /\ n + (k + 1) = (n + 1) + k
    <3>1. Len(rest) \in Nat /\ n \in Nat /\ n + Len(todo) = Len(t.sent)
      BY <1>1, <1>2, <1>4
    <3> HIDE DEF n
    <3> QED BY <1>4, <3>1, Shifted
  <2> QED BY <1>2, <1>4, <2>1
<1>7. ASSUME NEW k \in 1..(n + 1) PROVE rec[k] \in 1..Len(db) /\ db[rec[k]].command = t.sent[k]
  <2>1. CASE k = n + 1
    BY <1>3, <1>5, <2>1 DEF todo
  <2>2. CASE k # n + 1
    <3>1. k \in 1..n
      BY <1>1, <2>2
    <3>2. rec[k] \in 1..Len(t.db) /\ t.db[rec[k]].command = t.sent[k]
      BY <1>2, <1>3, <3>1
    <3>3. Len(t.db) <= Len(db) /\ Len(db) \in Nat /\ db[rec[k]] = t.db[rec[k]]
      BY <3>2 DEF Extends
    <3> QED BY <1>1, <3>2, <3>3
  <2> QED BY <2>1, <2>2
<1>8. (n + 1) + Len(rest) = Len(t.sent)
  <2>1. Len(rest) \in Nat /\ n \in Nat /\ n + Len(todo) = Len(t.sent)
    BY <1>1, <1>2, <1>4
  <2> HIDE DEF n
  <2>2. (n + 1) + Len(rest) = n + Len(todo)
    BY <1>4, <2>1, Shifted
  <2> QED BY <2>1, <2>2, Zenon
<1>9. d.receipts = rec /\ d.todo = rest
  BY DEF rec, rest, todo
<1>10. Follows(d)
  BY <1>3, <1>6, <1>7, <1>8, <1>9 DEF Follows
<1> QED BY <1>1, <1>3, <1>4, <1>5, <1>9, <1>10 DEF todo

LEMMA RecordedOK ==
  ASSUME NEW rs \in Seq(Entries), NEW t, TxOK(rs, t), t.todo # <<>>, ~Refused(t), ~Retried(t)
  PROVE  TxOK(rs, Recorded(t))
<1> DEFINE c == Head(t.todo)
           n == Len(t.db)
<1>1. PICK db : db = Grown(t)
  OBVIOUS
<1>2. PICK d : d = Recorded(t)
  OBVIOUS
<1>3. PICK zero \in Nat : zero = 0
  OBVIOUS
<1>4. /\ t \in Transactions /\ Ledger(t.db) /\ Extends(rs, t.db) /\ Adds(rs, t) /\ Follows(t)
  BY DEF TxOK
<1>5. /\ Ledger(db) /\ ClosedBooks(db, BooksClosed(t, db)) /\ Extends(t.db, db)
      /\ Len(db) > n /\ db[n + 1].command = c
      /\ \/ c.kind # "create" /\ Len(db) = n + 1
         \/ c.kind = "create" /\ n = 0 /\ Len(db) = 2 /\ db[2].command = Start
  BY <1>1, GrowthOK
<1>6. t.db \in Seq(Entries) /\ t.sent \in Submissions /\ c \in Commands
  BY <1>4, TxIs
<1>7. db \in Seq(Entries) /\ n \in Nat /\ Len(db) \in Nat /\ Len(rs) \in Nat /\ n + 1 \in 1..Len(db)
  <2>1. db \in Seq(Entries) /\ n \in Nat /\ Len(db) \in Nat /\ Len(rs) \in Nat
    BY <1>5, <1>6 DEF Ledger
  <2> HIDE DEF n
  <2> QED BY <1>5, <2>1
<1>8. d = CopyOf(t, Tail(t.todo), db, zero, Append(t.receipts, n + 1), BooksClosed(t, db))
  <2>1. t.db \o <<Current(t)>>
          \o (IF Head(t.todo).kind = "create" THEN <<[command |-> Start, expected |-> 1]>> ELSE <<>>) = db
    BY <1>1, <1>4, GrownIs
  <2> QED BY <1>2, <1>3, <2>1, Zenon DEF Recorded, CopyOf
<1>9. /\ d.sent = t.sent /\ d.todo = Tail(t.todo) /\ d.list = db /\ d.base = zero
      /\ d.db = db /\ d.closed = BooksClosed(t, db) /\ d.receipts = Append(t.receipts, n + 1)
  <2> DEFINE todo == Tail(t.todo)
             rec == Append(t.receipts, n + 1)
             closed == BooksClosed(t, db)
  <2>1. t \in Transactions /\ d = CopyOf(t, todo, db, zero, rec, closed)
    BY <1>4, <1>8
  <2> HIDE DEF todo, rec, closed
  <2>2. /\ d.sent = t.sent /\ d.todo = todo /\ d.list = db /\ d.base = zero
        /\ d.db = db /\ d.closed = closed /\ d.receipts = rec
    BY <2>1, Copied
  <2> QED BY <2>2 DEF todo, rec, closed
<1>10. BooksClosed(t, db) \in Books
  BY <1>5 DEF ClosedBooks
<1>11. /\ d.todo \in Seq(Commands) /\ d.receipts \in Seq(Nat)
       /\ Len(t.receipts) \in Nat /\ Len(d.receipts) = Len(t.receipts) + 1
       /\ c = t.sent[Len(t.receipts) + 1]
       /\ Follows(d)
  BY <1>4, <1>5, <1>7, <1>9, NextChange
<1>12. d \in Transactions
  BY <1>3, <1>4, <1>7, <1>8, <1>9, <1>10, <1>11, Copied
<1>13. Extends(rs, db)
  <2>1. Len(rs) <= n /\ \A i \in 1..Len(rs) : i \in 1..n
    BY <1>4, <1>7 DEF Extends
  <2> QED BY <1>4, <1>5, <1>7, <2>1 DEF Extends
<1>14. d.base \in Bases(d.db)
  BY <1>3, <1>9 DEF Bases
<1> DEFINE l == Len(rs)
           r == Len(t.receipts)
<1>15. /\ n <= l + r + 1 /\ l <= n
       /\ \A i \in (l + 1)..n :
            \/ \E k \in 1..r : t.db[i].command = t.sent[k]
            \/ t.db[i].command = Start /\ \E j \in (l + 1)..n : t.db[j].command.kind = "create"
       /\ \A i \in (l + 1)..n : t.db[i].command.kind = "create" =>
            \E j \in (l + 1)..n : t.db[j].command.kind = "seed"
       /\ \A i \in 1..n : db[i] = t.db[i]
       /\ l \in Nat /\ n \in Nat /\ r \in Nat
  BY <1>4, <1>5, <1>7, <1>11 DEF Adds, Extends
<1>16. /\ Len(db) <= l + (r + 1) + 1
       /\ \A i \in (l + 1)..Len(db) :
            \/ \E k \in 1..(r + 1) : db[i].command = t.sent[k]
            \/ /\ db[i].command = Start
               /\ \E j \in (l + 1)..Len(db) : db[j].command.kind = "create"
       /\ \A i \in (l + 1)..Len(db) :
            db[i].command.kind = "create" => \E j \in (l + 1)..Len(db) : db[j].command.kind = "seed"
  <2> HIDE DEF l, r, n
  <2>1. CASE c.kind # "create" /\ Len(db) = n + 1
    <3>1. Len(db) <= l + (r + 1) + 1
      BY <1>15, <2>1
    <3>2. ASSUME NEW i \in (l + 1)..Len(db), i # n + 1 PROVE i \in (l + 1)..n /\ db[i] = t.db[i]
      BY <1>15, <2>1, <3>2
    <3>3. ASSUME NEW i \in (l + 1)..n PROVE i \in (l + 1)..Len(db) /\ db[i] = t.db[i]
      BY <1>15, <2>1
    <3>4. ASSUME NEW i \in (l + 1)..Len(db)
          PROVE \/ \E k \in 1..(r + 1) : db[i].command = t.sent[k]
                \/ /\ db[i].command = Start
                   /\ \E j \in (l + 1)..Len(db) : db[j].command.kind = "create"
      <4>1. CASE i = n + 1
        <5>1. r + 1 \in 1..(r + 1) /\ db[i].command = t.sent[r + 1]
          BY <1>5, <1>11, <1>15, <4>1 DEF r, n
        <5> QED BY <5>1
      <4>2. CASE i # n + 1
        <5>1. i \in (l + 1)..n /\ db[i] = t.db[i]
          BY <3>2, <4>2
        <5>2. CASE \E k \in 1..r : t.db[i].command = t.sent[k]
          <6>1. \A k \in 1..r : k \in 1..(r + 1)
            BY <1>15
          <6> QED BY <5>1, <5>2, <6>1
        <5>3. CASE t.db[i].command = Start /\ \E j \in (l + 1)..n : t.db[j].command.kind = "create"
          BY <3>3, <5>1, <5>3
        <5> QED BY <1>15, <5>1, <5>2, <5>3
      <4> QED BY <4>1, <4>2
    <3>5. ASSUME NEW i \in (l + 1)..Len(db), db[i].command.kind = "create"
          PROVE \E j \in (l + 1)..Len(db) : db[j].command.kind = "seed"
      <4>1. i # n + 1
        BY <1>5, <2>1, <3>5 DEF n
      <4>2. i \in (l + 1)..n /\ t.db[i].command.kind = "create"
        BY <3>2, <3>5, <4>1
      <4> QED BY <1>15, <3>3, <4>2
    <3> QED BY <3>1, <3>4, <3>5
  <2>2. CASE c.kind = "create" /\ n = 0 /\ Len(db) = 2 /\ db[2].command = Start
    <3>1. l = 0 /\ Len(db) <= l + (r + 1) + 1 /\ 1 \in (l + 1)..Len(db) /\ 2 \in (l + 1)..Len(db)
      BY <1>15, <2>2
    <3>2. db[1].command = c /\ c = t.sent[r + 1] /\ r + 1 \in 1..(r + 1)
      <4>1. n + 1 = 1
        BY <2>2
      <4> QED BY <1>5, <1>11, <1>15, <4>1 DEF r, n
    <3>3. \A i \in (l + 1)..Len(db) : i = 1 \/ i = 2
      BY <2>2, <3>1
    <3>4. Start.kind = "seed"
      BY StartIs
    <3> QED BY <2>2, <3>1, <3>2, <3>3, <3>4
  <2> QED BY <1>5, <2>1, <2>2 DEF n
<1>17. Adds(rs, d)
  BY <1>9, <1>11, <1>16 DEF Adds
<1>18. TxOK(rs, d)
  BY <1>5, <1>9, <1>11, <1>12, <1>13, <1>14, <1>17 DEF TxOK
<1> QED BY <1>2, <1>18

LEMMA MinOf ==
  ASSUME NEW i \in Int
  PROVE  Min({i}) = i
BY DEF Min

LEMMA PriorIs ==
  ASSUME NEW rs, NEW t, TxOK(rs, t), t.todo # <<>>, NEW i \in Prior(t)
  PROVE  Prior(t) = {i} /\ i \in 1..Len(t.db) /\ Min(Prior(t)) = i /\ t.list = t.db
<1>1. t.list = t.db /\ Unshared(t.db) /\ t.db \in Seq(Entries) /\ Len(t.db) \in Nat
  BY DEF TxOK, Ledger
<1>2. i \in 1..Len(t.db) /\ \A j \in Prior(t) : j = i
  BY <1>1 DEF Prior, Positions, Unshared
<1>3. Prior(t) = {i}
  BY <1>2
<1> QED BY <1>1, <1>2, <1>3, MinOf

LEMMA AnsweredOK ==
  ASSUME NEW rs \in Seq(Entries), NEW t, TxOK(rs, t), t.todo # <<>>, Retried(t)
  PROVE  TxOK(rs, Answered(t))
<1>1. PICK i \in Prior(t) : t.list[i] = Current(t)
  BY DEF Retried
<1>2. i \in 1..Len(t.db) /\ Min(Prior(t)) = i /\ t.list = t.db
  BY PriorIs
<1>3. PICK d : d = Answered(t)
  OBVIOUS
<1>4. /\ t \in Transactions /\ Ledger(t.db) /\ ClosedBooks(t.db, t.closed) /\ t.base \in Bases(t.db)
      /\ Extends(rs, t.db) /\ Adds(rs, t) /\ Follows(t)
  BY DEF TxOK
<1>5. t.db \in Seq(Entries) /\ Current(t).command = Head(t.todo)
  BY <1>4, TxIs
<1>6. d = MoveOf(t, Tail(t.todo), t.db, Append(t.receipts, i))
  BY <1>2, <1>3, Zenon DEF Answered, MoveOf
<1>7. /\ d.sent = t.sent /\ d.todo = Tail(t.todo) /\ d.list = t.db /\ d.base = t.base
      /\ d.db = t.db /\ d.closed = t.closed /\ d.receipts = Append(t.receipts, i)
  <2> DEFINE todo == Tail(t.todo)
             rec == Append(t.receipts, i)
  <2>1. t \in Transactions /\ d = MoveOf(t, todo, t.db, rec)
    BY <1>4, <1>6
  <2> HIDE DEF todo, rec
  <2>2. /\ d.sent = t.sent /\ d.todo = todo /\ d.list = t.db /\ d.base = t.base
        /\ d.db = t.db /\ d.closed = t.closed /\ d.receipts = rec
    BY <2>1, Moved
  <2> QED BY <2>2 DEF todo, rec
<1>8. Extends(t.db, t.db)
  BY <1>5 DEF Extends
<1>9. /\ d.todo \in Seq(Commands) /\ d.receipts \in Seq(Nat)
      /\ Len(t.receipts) \in Nat /\ Len(d.receipts) = Len(t.receipts) + 1
      /\ Follows(d)
  BY <1>1, <1>2, <1>4, <1>5, <1>7, <1>8, NextChange
<1>10. d \in Transactions
  BY <1>4, <1>5, <1>6, <1>7, <1>9, Moved
<1>11. Adds(rs, d)
  <2>1. \A k \in 1..Len(t.receipts) : k \in 1..Len(d.receipts)
    BY <1>9
  <2>2. Len(t.db) <= Len(rs) + Len(d.receipts) + 1
    <3>1. Len(t.db) <= Len(rs) + Len(t.receipts) + 1 /\ Len(t.db) \in Nat /\ Len(rs) \in Nat
      BY <1>4, <1>5 DEF Adds
    <3> QED BY <1>9, <3>1
  <2> QED BY <1>4, <1>7, <2>1, <2>2 DEF Adds
<1>12. TxOK(rs, d)
  BY <1>4, <1>7, <1>9, <1>10, <1>11 DEF TxOK
<1> QED BY <1>3, <1>12

-----------------------------------------------------------------------------
(* The answers.                                                            *)
Exact(t) == \A k \in 1..Len(t.receipts) : t.db[t.receipts[k]].command = t.sent[k]

LEMMA TxExact ==
  ASSUME NEW rs, NEW t, TxOK(rs, t)
  PROVE  Exact(t)
BY DEF TxOK, Follows, Exact

LEMMA AnswerIs ==
  ASSUME NEW t, NEW outcome
  PROVE  /\ Answer(t, outcome).outcome = outcome /\ Answer(t, outcome).exact = Exact(t)
         /\ Answer(t, outcome).batch = (Len(t.sent) > 1)
         /\ Answer(t, outcome).recorded = \E n \in 0..Len(rows) : AsSent(t, n)
BY DEF Answer, Exact

(* A change sent alone that was recorded as it is sent is in the ledger    *)
(* the transaction works on.                                               *)
LEMMA RefusedNew ==
  ASSUME NEW t, rows \in Seq(Entries), TxOK(rows, t), t.todo # <<>>, ~Retried(t), ~(Len(t.sent) > 1),
         NEW n \in 0..Len(rows)
  PROVE  ~AsSent(t, n)
<1> SUFFICES ASSUME AsSent(t, n) PROVE FALSE
  OBVIOUS
<1>1. /\ t \in Transactions /\ t.list = t.db /\ Ledger(t.db) /\ Extends(rows, t.db) /\ Follows(t)
  BY DEF TxOK
<1>2. /\ t.sent \in Submissions /\ t.todo \in Seq(Commands) /\ t.expected \in Nat
      /\ t.receipts \in Seq(Nat) /\ t.db \in Seq(Entries)
      /\ Current(t).command = Head(t.todo) /\ Current(t).expected = ExpectedNow(t)
      /\ Current(t) = [command |-> Head(t.todo), expected |-> ExpectedNow(t)]
  BY <1>1, TxIs DEF Current
<1>3. t.sent \in Seq(Commands) /\ Len(t.sent) > 0
  BY <1>2, LedgerAssumption
<1>4. Len(t.sent) = 1 /\ Len(t.receipts) = 0 /\ Len(t.todo) = 1
  <2>1. Len(t.sent) = 1
    <3>1. Len(t.sent) \in Nat
      BY <1>3
    <3>2. PICK z \in Nat : z = Len(t.sent)
      BY <3>1
    <3>3. z > 0 /\ ~(z > 1)
      BY <1>3, <3>2
    <3>4. z = 1
      BY <3>3
    <3> QED BY <3>2, <3>4
  <2>2. Len(t.todo) \in Nat /\ Len(t.todo) # 0 /\ Len(t.receipts) \in Nat
    BY <1>2
  <2>3. Len(t.receipts) + Len(t.todo) = 1
    BY <1>1, <2>1 DEF Follows
  <2> DEFINE x == Len(t.receipts)
             y == Len(t.todo)
  <2>4. x \in Nat /\ y \in Nat /\ y # 0 /\ x + y = 1
    BY <2>2, <2>3
  <2> HIDE DEF x, y
  <2>5. x = 0 /\ y = 1
    BY <2>4
  <2> QED BY <2>1, <2>5 DEF x, y
<1>5. t.receipts = <<>>
  BY <1>2, <1>4
<1>6. Head(t.todo) = t.sent[1]
  <2>1. t.todo[1] = t.sent[0 + 1]
    <3>1. 1 \in 1..Len(t.todo)
      BY <1>4
    <3>2. t.todo[1] = t.sent[Len(t.receipts) + 1]
      BY <1>1, <3>1 DEF Follows
    <3> QED BY <1>4, <3>2
  <2>2. Head(t.todo) = t.todo[1]
    BY <1>2, <1>4
  <2> QED BY <2>1, <2>2
<1>7. ExpectedNow(t) = t.expected
  BY <1>5 DEF ExpectedNow
<1>8. n + 1 <= Len(rows) /\ rows[n + 1] = [command |-> t.sent[1], expected |-> t.expected]
  <2>1. n + Len(t.sent) <= Len(rows) /\ 1 \in 1..Len(t.sent)
    BY <1>4 DEF AsSent
  <2>2. rows[n + 1] = [command |-> t.sent[1], expected |-> t.expected + 1 - 1]
    BY <2>1 DEF AsSent
  <2>3. t.expected + 1 - 1 = t.expected
    BY <1>2
  <2> QED BY <1>4, <2>1, <2>2, <2>3
<1>9. n + 1 \in 1..Len(rows) /\ n + 1 \in 1..Len(t.db) /\ t.db[n + 1] = rows[n + 1]
  <2>1. n + 1 \in 1..Len(rows)
    BY <1>8
  <2>2. Len(rows) <= Len(t.db) /\ Len(t.db) \in Nat /\ Len(rows) \in Nat
    BY <1>1, <1>2 DEF Extends
  <2> QED BY <1>1, <2>1, <2>2 DEF Extends
<1>10. t.db[n + 1] = Current(t)
  BY <1>2, <1>6, <1>7, <1>8, <1>9
<1>11. n + 1 \in Prior(t)
  BY <1>1, <1>2, <1>9, <1>10 DEF Prior, Positions
<1> QED BY <1>1, <1>10, <1>11 DEF Retried

-----------------------------------------------------------------------------
(* The invariant is inductive.                                             *)
LEMMA StepOK ==
  ASSUME NEW t, rows \in Seq(Entries), TxOK(rows, t), t.todo # <<>>, Step(t)
  PROVE  (tx' # None => TxOK(rows, tx')) /\ AnswersAreTrue'
<1>1. CASE Refused(t)
  <2>1. tx' = None /\ reply' = Answer(t, "refused")
    BY <1>1 DEF Step
  <2>2. reply'.exact
    BY <2>1, AnswerIs, TxExact
  <2>3. ASSUME ~reply'.batch PROVE ~reply'.recorded
    <3>1. ~(Len(t.sent) > 1)
      BY <2>1, <2>3, AnswerIs
    <3>2. ~Retried(t)
      BY <1>1 DEF Refused
    <3>3. \A n \in 0..Len(rows) : ~AsSent(t, n)
      BY <3>1, <3>2, RefusedNew
    <3> QED BY <2>1, <3>3, AnswerIs
  <2> QED BY <2>1, <2>2, <2>3 DEF AnswersAreTrue
<1>2. CASE ~Refused(t)
  <2>1. reply' = None /\ tx' = IF Retried(t) THEN Answered(t) ELSE Recorded(t)
    BY <1>2, Zenon DEF Step
  <2>2. CASE Retried(t)
    BY <2>1, <2>2, AnsweredOK DEF AnswersAreTrue
  <2>3. CASE ~Retried(t)
    BY <1>2, <2>1, <2>3, RecordedOK DEF AnswersAreTrue
  <2> QED BY <2>2, <2>3
<1> QED BY <1>1, <1>2

LEMMA InitOK == Init => IInv
<1> SUFFICES ASSUME Init PROVE IInv
  OBVIOUS
<1> USE DEF Init
<1>1. rows \in Seq(Entries) /\ Len(rows) = 0 /\ 1..Len(rows) = {}
  OBVIOUS
<1>2. Ledger(rows)
  BY <1>1 DEF Ledger, Unshared, Backwards, Aimed
<1>3. Rollovers(rows) = {}
  BY <1>1 DEF Rollovers
<1>4. ClosedBooks(rows, books)
  <2>1. DOMAIN books = {} /\ books = [r \in {} |-> <<>>]
    OBVIOUS
  <2>2. books \in [{} -> Seq(BOOLEAN)]
    BY <2>1
  <2>3. {} \in SUBSET Nat
    OBVIOUS
  <2>4. books \in Books
    BY <2>2, <2>3, Zenon DEF Books
  <2> QED BY <1>3, <2>1, <2>4 DEF ClosedBooks
<1>5. DOMAIN cache = Stores /\ \A s \in Stores : Remembers(rows, cache[s])
  BY <1>1, EmptyRemembers
<1>6. tx = None /\ AnswersAreTrue
  BY DEF AnswersAreTrue
<1> QED BY <1>2, <1>4, <1>5, <1>6 DEF IInv

LEMMA SubmittedOK ==
  ASSUME IInv, NEW s \in Stores, NEW cs \in Submissions, NEW e \in Versions(cs), NEW absent,
         NEW read, read = Served(cache[s], rows, books, Len(rows), absent),
         NEW t, t = [sent |-> cs, todo |-> cs, expected |-> e, list |-> read.records,
                     base |-> read.base, db |-> rows, closed |-> books, receipts |-> <<>>]
  PROVE  TxOK(rows, t) /\ t.todo # <<>>
<1>1. Ledger(rows) /\ ClosedBooks(rows, books) /\ Remembers(rows, cache[s]) /\ rows \in Seq(Entries)
  BY DEF IInv, Ledger
<1>2. Len(rows) \in 0..Len(rows) /\ Len(rows) \in Nat /\ Before(rows, Len(rows)) = rows
  BY <1>1, BeforeAll
<1>3. Remembers(rows, read) /\ read.records = rows
  BY <1>1, <1>2, ServedIs
<1>4. read.base \in Bases(rows) /\ read.base \in Nat
  BY <1>3 DEF Remembers, Hits
<1>5. cs \in Seq(Commands) /\ Len(cs) > 0 /\ cs # <<>>
  BY LedgerAssumption
<1>6. e \in Nat
  <2>1. CASE e = Len(rows)
    BY <1>2, <2>1
  <2>2. CASE e # Len(rows)
    <3>1. PICK i \in Positions(rows, Head(cs).request) : e = rows[i].expected
      BY <2>2 DEF Versions
    <3>2. rows[i] \in Entries
      BY <1>1, <3>1 DEF Positions
    <3> QED BY <3>1, <3>2 DEF Entries
  <2> QED BY <2>1, <2>2
<1>7. books \in Books
  BY <1>1 DEF ClosedBooks
<1>8. /\ t.sent = cs /\ t.todo = cs /\ t.expected = e /\ t.list = rows /\ t.base = read.base
      /\ t.db = rows /\ t.closed = books /\ t.receipts = <<>>
  BY <1>3
<1>9. t \in Transactions
  BY <1>1, <1>3, <1>4, <1>5, <1>6, <1>7 DEF Transactions
<1>10. Extends(rows, t.db)
  BY <1>2, <1>8 DEF Extends
<1>11. Len(t.receipts) = 0
  BY <1>8
<1>12. Adds(rows, t)
  BY <1>2, <1>8, <1>11 DEF Adds
<1>13. Follows(t)
  <2>1. Len(cs) \in Nat /\ \A k \in 1..Len(cs) : 0 + k = k
    BY <1>5
  <2> QED BY <1>8, <1>11, <2>1 DEF Follows
<1> QED BY <1>1, <1>4, <1>5, <1>8, <1>9, <1>10, <1>12, <1>13 DEF TxOK

LEMMA CacheOK ==
  ASSUME IInv, NEW s \in Stores, NEW hit, Remembers(rows, hit), cache' = [cache EXCEPT ![s] = hit]
  PROVE  DOMAIN cache' = Stores /\ \A q \in Stores : Remembers(rows, cache'[q])
<1>1. DOMAIN cache = Stores /\ \A q \in Stores : Remembers(rows, cache[q])
  BY DEF IInv
<1>2. DOMAIN cache' = Stores
  BY <1>1
<1>3. ASSUME NEW q \in Stores PROVE Remembers(rows, cache'[q])
  <2>1. CASE q = s
    <3>1. cache'[q] = hit
      BY <1>1, <2>1
    <3> QED BY <3>1
  <2>2. CASE q # s
    <3>1. cache'[q] = cache[q]
      BY <1>1, <2>2
    <3> QED BY <1>1, <3>1
  <2> QED BY <2>1, <2>2
<1> QED BY <1>2, <1>3

LEMMA ServedHere ==
  ASSUME IInv, NEW s \in Stores, NEW n \in 0..Len(rows), NEW absent
  PROVE  /\ Remembers(rows, Served(cache[s], rows, books, n, absent))
         /\ Served(cache[s], rows, books, n, absent).records = Prefix(n)
         /\ Served(cache[s], rows, books, n, absent).active = ReplayFull(Prefix(n))
<1>1. Ledger(rows) /\ ClosedBooks(rows, books) /\ Remembers(rows, cache[s])
  BY DEF IInv
<1>2. Prefix(n) = Before(rows, n)
  BY DEF Prefix, Before
<1> QED BY <1>1, <1>2, ServedIs

LEMMA RemembersMore ==
  ASSUME NEW rs \in Seq(Entries), NEW db \in Seq(Entries), Extends(rs, db), NEW hit, Remembers(rs, hit)
  PROVE  Remembers(db, hit)
<1>1. PICK m : m = Len(hit.records)
  OBVIOUS
<1>2. m \in Nat /\ m <= Len(rs) /\ Len(rs) <= Len(db) /\ Len(rs) \in Nat /\ Len(db) \in Nat
      /\ hit.records = Before(rs, m)
  BY <1>1 DEF Remembers, Hits, Extends
<1>3. m \in 0..Len(rs) /\ m \in 0..Len(db)
  BY <1>2
<1>4. Before(rs, m) \in Seq(Entries) /\ Len(Before(rs, m)) = m /\ \A i \in 1..m : Before(rs, m)[i] = rs[i]
  BY <1>3, CutIs
<1>5. Before(db, m) \in Seq(Entries) /\ Len(Before(db, m)) = m /\ \A i \in 1..m : Before(db, m)[i] = db[i]
  BY <1>3, CutIs
<1>6. \A i \in 1..m : rs[i] = db[i]
  BY <1>2 DEF Extends
<1>7. Before(rs, m) = Before(db, m)
  BY <1>4, <1>5, <1>6, SeqEqual
<1> QED BY <1>1, <1>2, <1>3, <1>7 DEF Remembers

LEMMA NextOK == IInv /\ [Next]_vars => IInv'
<1> SUFFICES ASSUME IInv, [Next]_vars PROVE IInv'
  OBVIOUS
<1>1. /\ Ledger(rows) /\ ClosedBooks(rows, books) /\ rows \in Seq(Entries)
      /\ DOMAIN cache = Stores /\ \A s \in Stores : Remembers(rows, cache[s])
      /\ tx # None => TxOK(rows, tx)
      /\ AnswersAreTrue
  BY DEF IInv, Ledger
<1>2. ASSUME NEW s \in Stores, NEW n \in 0..Len(rows), NEW absent, Read(s, n, absent) PROVE IInv'
  <2>1. /\ cache' = [cache EXCEPT ![s] = Served(cache[s], rows, books, n, absent)]
        /\ reply' = None /\ rows' = rows /\ books' = books /\ tx' = tx
    BY <1>2 DEF Read
  <2>2. DOMAIN cache' = Stores /\ \A q \in Stores : Remembers(rows, cache'[q])
    BY <2>1, ServedHere, CacheOK
  <2> QED BY <1>1, <2>1, <2>2 DEF IInv, AnswersAreTrue
<1>3. ASSUME NEW s \in Stores, Forget(s) PROVE IInv'
  <2>1. /\ cache' = [cache EXCEPT ![s] = Empty]
        /\ reply' = None /\ rows' = rows /\ books' = books /\ tx' = tx
    BY <1>3 DEF Forget
  <2>2. DOMAIN cache' = Stores /\ \A q \in Stores : Remembers(rows, cache'[q])
    BY <1>1, <2>1, EmptyRemembers, CacheOK
  <2> QED BY <1>1, <2>1, <2>2 DEF IInv, AnswersAreTrue
<1>4. ASSUME NEW s \in Stores, NEW cs \in Submissions, NEW e \in Versions(cs), NEW absent,
             Submit(s, cs, e, absent)
      PROVE  IInv'
  <2>1. PICK read : read = Served(cache[s], rows, books, Len(rows), absent)
    OBVIOUS
  <2>2. PICK t : t = [sent |-> cs, todo |-> cs, expected |-> e, list |-> read.records,
                      base |-> read.base, db |-> rows, closed |-> books, receipts |-> <<>>]
    OBVIOUS
  <2>3. Step(t) /\ cache' = [cache EXCEPT ![s] = read] /\ rows' = rows /\ books' = books
    BY <1>4, <2>1, <2>2, Zenon DEF Submit
  <2>4. TxOK(rows, t) /\ t.todo # <<>>
    BY <2>1, <2>2, SubmittedOK
  <2>5. (tx' # None => TxOK(rows, tx')) /\ AnswersAreTrue'
    BY <1>1, <2>3, <2>4, StepOK
  <2>6. Remembers(rows, read)
    <3>1. Len(rows) \in 0..Len(rows)
      BY <1>1
    <3> QED BY <2>1, <3>1, ServedHere
  <2>7. DOMAIN cache' = Stores /\ \A q \in Stores : Remembers(rows, cache'[q])
    BY <2>3, <2>6, CacheOK
  <2> QED BY <1>1, <2>3, <2>5, <2>7 DEF IInv
<1>5. CASE Continue
  <2>1. tx # None /\ tx.todo # <<>> /\ Step(tx) /\ rows' = rows /\ books' = books /\ cache' = cache
    BY <1>5 DEF Continue
  <2>2. PICK t : t = tx
    OBVIOUS
  <2>3. (tx' # None => TxOK(rows, tx')) /\ AnswersAreTrue'
    BY <1>1, <2>1, StepOK
  <2> QED BY <1>1, <2>1, <2>3 DEF IInv
<1>6. CASE Commit
  <2>1. /\ tx # None /\ rows' = tx.db /\ books' = tx.closed
        /\ tx' = None /\ reply' = Answer(tx, "receipts") /\ cache' = cache
    BY <1>6 DEF Commit
  <2>2. PICK t : t = tx
    OBVIOUS
  <2>3. TxOK(rows, t)
    BY <1>1, <2>1, <2>2
  <2>4. Ledger(t.db) /\ ClosedBooks(t.db, t.closed) /\ Extends(rows, t.db) /\ t.db \in Seq(Entries)
    BY <2>3 DEF TxOK, Ledger
  <2>5. AnswersAreTrue'
    <3>1. reply' = Answer(t, "receipts")
      BY <2>1, <2>2
    <3>2. reply'.exact /\ reply'.outcome = "receipts"
      BY <2>3, <3>1, AnswerIs, TxExact
    <3> QED BY <3>2 DEF AnswersAreTrue
  <2>6. \A s \in Stores : Remembers(t.db, cache[s])
    BY <1>1, <2>4, RemembersMore
  <2> QED BY <1>1, <2>1, <2>2, <2>4, <2>5, <2>6 DEF IInv
<1>7. CASE Abort
  <2>1. tx' = None /\ reply' = None /\ rows' = rows /\ books' = books /\ cache' = cache
    BY <1>7 DEF Abort
  <2> QED BY <1>1, <2>1 DEF IInv, AnswersAreTrue
<1>8. CASE UNCHANGED vars
  BY <1>1, <1>8 DEF IInv, AnswersAreTrue, vars
<1> QED BY <1>2, <1>3, <1>4, <1>5, <1>6, <1>7, <1>8 DEF Next

(* The ledger is well formed, its books are those of its rollovers, what a *)
(* store remembers is a beginning of it with its books and its replay, and *)
(* a transaction under way holds the ledger, and what it adds to it is of  *)
(* its submission (commissioner.go, cached_transaction.go).                *)
THEOREM LedgerHolds == Spec => []IInv
BY InitOK, NextOK, PTL DEF Spec

(* Whatever a store remembers, a reader is served the entries its snapshot *)
(* holds and no others (cachedTransactionRecords).                         *)
THEOREM ReadersServed == Spec => []ServedAsRecorded
<1>1. IInv => ServedAsRecorded
  BY ServedHere DEF ServedAsRecorded
<1> QED BY <1>1, LedgerHolds, PTL

(* What counts, worked out from the closed books and the remembered replay,*)
(* is what the whole ledger says (usableClosedBooks).                      *)
THEOREM BooksTrusted == Spec => []BooksAgree
<1>1. IInv => BooksAgree
  BY ServedHere DEF BooksAgree
<1> QED BY <1>1, LedgerHolds, PTL

(* A receipt names the entry its request made, and a change sent alone that*)
(* was recorded is not refused when it is sent again (MatchesRetry).       *)
THEOREM RetriesAnswered == Spec => []AnswersAreTrue
<1>1. IInv => AnswersAreTrue
  BY DEF IInv
<1> QED BY <1>1, LedgerHolds, PTL

-----------------------------------------------------------------------------
(* What a commit adds is what the list of requests promises.               *)
LEMMA SameCount ==
  ASSUME NEW S
  PROVE  Promise!Cardinality(S) = Cardinality(S)
BY DEF Promise!Cardinality, Cardinality, Promise!IsFiniteSet, IsFiniteSet

LEMMA KeysCounted ==
  ASSUME NEW es \in Seq(Entries), Unshared(es)
  PROVE  Promise!Cardinality(Promise!Keys(es)) = Len(es)
<1> DEFINE n == Len(es)
           K == Promise!Keys(es)
           f == [i \in 1..n |-> es[i].command.request]
<1>1. n \in Nat
  OBVIOUS
<1>2. f \in [1..n -> K]
  BY DEF Promise!Keys
<1>3. f \in Bijection(1..n, K)
  <2>1. \A i, j \in 1..n : f[i] = f[j] => i = j
    BY DEF Unshared
  <2>2. \A k \in K : \E i \in 1..n : f[i] = k
    BY DEF Promise!Keys
  <2> HIDE DEF f, K, n
  <2> QED BY <1>2, <2>1, <2>2 DEF Bijection, Injection, Surjection, IsInjective
<1>4. IsFiniteSet(1..n) /\ Cardinality(1..n) = n
  <2>1. n \in Int /\ 1 \in Int
    BY <1>1
  <2> HIDE DEF n
  <2>2. IsFiniteSet(1..n) /\ Cardinality(1..n) = IF 1 > n THEN 0 ELSE n - 1 + 1
    BY <2>1, FS_Interval
  <2> QED BY <1>1, <2>2
<1>5. ExistsBijection(1..n, K)
  BY <1>3 DEF ExistsBijection
<1> HIDE DEF n, K
<1>6. Cardinality(K) = Cardinality(1..n)
  BY <1>4, <1>5, FS_Bijection
<1>7. Cardinality(K) = n
  BY <1>4, <1>6
<1> QED BY <1>7, SameCount DEF n, K

(* The body of the promise's one action.                                   *)
Submitted(rs, db, cs) ==
  \E added \in 1..(Len(cs) + 1) :
    LET total == Len(rs) + added
        new   == {db[i].command : i \in (Len(rs) + 1)..total}
    IN  /\ Len(db) = total /\ SubSeq(db, 1, Len(rs)) = rs
        /\ Promise!Cardinality(Promise!Keys(db)) = total
        /\ \A i \in 1..Len(cs) : cs[i].request \in Promise!Keys(db)
        /\ \A c \in new :
             \/ c \in {cs[i] : i \in 1..Len(cs)}
             \/ c.kind = "seed" /\ \E b \in new : b.kind = "create"
        /\ (\E c \in new : c.kind = "create") => \E c \in new : c.kind = "seed"

LEMMA CommitAdds ==
  ASSUME NEW rs \in Seq(Entries), NEW t, TxOK(rs, t), t.todo = <<>>, Len(t.db) # Len(rs)
  PROVE  t.sent \in Submissions /\ Submitted(rs, t.db, t.sent)
<1> DEFINE db == t.db
           cs == t.sent
           l == Len(rs)
           total == Len(db)
           new == {db[i].command : i \in (l + 1)..total}
<1>1. /\ t \in Transactions /\ Ledger(db) /\ Extends(rs, db) /\ Adds(rs, t) /\ Follows(t)
  BY DEF TxOK
<1>2. cs \in Submissions /\ db \in Seq(Entries) /\ t.receipts \in Seq(Nat) /\ Unshared(db)
  BY <1>1 DEF Transactions, Ledger
<1>3. cs \in Seq(Commands) /\ Len(cs) \in Nat
  BY <1>2, LedgerAssumption
<1>4. Len(t.receipts) = Len(cs)
  <2>1. Len(t.todo) = 0 /\ Len(t.receipts) + Len(t.todo) = Len(cs) /\ Len(t.receipts) \in Nat
    BY <1>1, <1>2 DEF Follows
  <2> QED BY <2>1
<1>5. l \in Nat /\ total \in Nat /\ l < total /\ total <= l + Len(cs) + 1
  <2>1. l \in Nat /\ total \in Nat /\ l <= total /\ total # l
    BY <1>1, <1>2 DEF Extends
  <2>2. total <= l + Len(cs) + 1
    BY <1>1, <1>4 DEF Adds
  <2> HIDE DEF l, total
  <2> QED BY <2>1, <2>2
<1>6. SubSeq(db, 1, l) = rs
  <2>1. l \in 0..Len(db)
    BY <1>5
  <2>2. Before(db, l) \in Seq(Entries) /\ Len(Before(db, l)) = l /\ \A i \in 1..l : Before(db, l)[i] = db[i]
    <3> HIDE DEF db, l
    <3> QED BY <1>2, <2>1, CutIs
  <2>3. \A i \in 1..l : db[i] = rs[i]
    BY <1>1 DEF Extends
  <2>4. Before(db, l) = rs
    BY <2>2, <2>3, SeqEqual
  <2> QED BY <2>4 DEF Before
<1>7. Promise!Cardinality(Promise!Keys(db)) = total
  BY <1>2, KeysCounted
<1>8. \A i \in 1..Len(cs) : cs[i].request \in Promise!Keys(db)
  <2>1. \A k \in 1..Len(cs) : t.receipts[k] \in 1..total /\ db[t.receipts[k]].command = cs[k]
    BY <1>1, <1>4 DEF Follows
  <2> QED BY <2>1 DEF Promise!Keys
<1>9. ASSUME NEW c \in new
      PROVE  \/ c \in {cs[i] : i \in 1..Len(cs)}
             \/ c.kind = "seed" /\ \E b \in new : b.kind = "create"
  <2>1. PICK i \in (l + 1)..total : c = db[i].command
    OBVIOUS
  <2>2. CASE \E k \in 1..Len(cs) : db[i].command = cs[k]
    BY <2>1, <2>2
  <2>3. CASE db[i].command = Start /\ \E j \in (l + 1)..total : db[j].command.kind = "create"
    BY <2>1, <2>3, StartIs
  <2>4. \/ \E k \in 1..Len(cs) : db[i].command = cs[k]
        \/ db[i].command = Start /\ \E j \in (l + 1)..total : db[j].command.kind = "create"
    BY <1>1, <1>4 DEF Adds
  <2> QED BY <2>2, <2>3, <2>4
<1>10. (\E c \in new : c.kind = "create") => \E c \in new : c.kind = "seed"
  BY <1>1 DEF Adds
<1>11. PICK added : added = total - l
  OBVIOUS
<1>12. added \in 1..(Len(cs) + 1) /\ l + added = total
  <2> HIDE DEF l, total
  <2> QED BY <1>3, <1>5, <1>11
<1>13. Submitted(rs, db, cs)
  <2> HIDE DEF db, cs
  <2>1. /\ Len(db) = l + added /\ SubSeq(db, 1, Len(rs)) = rs /\ Promise!Cardinality(Promise!Keys(db)) = l + added
        /\ new = {db[i].command : i \in (Len(rs) + 1)..(l + added)}
    BY <1>6, <1>7, <1>12
  <2> HIDE DEF new
  <2> QED BY <1>8, <1>9, <1>10, <1>12, <2>1, Zenon DEF Submitted, l
<1> QED BY <1>2, <1>13

(* The ledger is one list that grows by whole submissions, each change     *)
(* under a key of its own (appendCommissioner, ExecuteCommissionerBatch).  *)
THEOREM OneList == Spec => ImplementsRequestLog
<1> DEFINE Mapped == [i \in 1..Len(rows) |-> rows[i]]
<1>1. IInv => rows \in Seq(Entries) /\ Mapped = rows
  BY DEF IInv, Ledger
<1>2. Init => Promise!Init
  BY DEF Init, Promise!Init
<1>3. IInv /\ IInv' /\ [Next]_vars => [Promise!Next]_Mapped
  <2> SUFFICES ASSUME IInv, IInv', [Next]_vars, rows' # rows
               PROVE  Promise!Next
    OBVIOUS
  <2>1. Mapped = rows /\ Mapped' = rows' /\ rows \in Seq(Entries) /\ rows' \in Seq(Entries)
    BY <1>1 DEF IInv, Ledger
  <2>2. Commit
    BY DEF Next, vars, Read, Forget, Submit, Continue, Abort
  <2>3. tx # None /\ tx.todo = <<>> /\ rows' = tx.db
    BY <2>2 DEF Commit
  <2>4. PICK t : t = tx
    OBVIOUS
  <2>5. TxOK(rows, t)
    BY <2>3, <2>4 DEF IInv
  <2>6. PICK rs \in Seq(Entries) : rs = rows
    BY <2>1
  <2>7. Len(t.db) # Len(rs)
    <3> SUFFICES ASSUME Len(t.db) = Len(rs) PROVE FALSE
      OBVIOUS
    <3>1. Extends(rs, t.db) /\ t.db \in Seq(Entries)
      BY <2>5, <2>6 DEF TxOK, Ledger
    <3>2. t.db = rs
      BY <3>1, SeqEqual DEF Extends
    <3> QED BY <2>3, <2>4, <2>6, <3>2
  <2>8. t.sent \in Submissions /\ Submitted(rs, t.db, t.sent)
    BY <2>3, <2>4, <2>5, <2>6, <2>7, CommitAdds
  <2>9. Promise!Record(t.sent)
    <3>1. rs = Mapped /\ t.db = Mapped'
      BY <2>1, <2>3, <2>4, <2>6
    <3> HIDE DEF Mapped
    <3>2. Submitted(Mapped, Mapped', t.sent)
      BY <2>8, <3>1
    <3> QED BY <3>2, Zenon DEF Submitted, Promise!Record, Promise!Keys, Mapped
  <2> QED BY <2>8, <2>9 DEF Promise!Next
<1> QED BY <1>2, <1>3, LedgerHolds, PTL DEF Spec, ImplementsRequestLog, Promise!Spec

-----------------------------------------------------------------------------
(* What a change in a ledger brings about in what is in force.             *)
Suited(es) ==
  \A i \in 1..Len(es) : \A p \in Positions(es, es[i].command.target) :
    /\ es[i].command.kind = "correct" => es[p].command.kind \in {"cut", "pick"}
    /\ es[i].command.kind = "restore" => es[p].command.kind \in Live

LEMMA NotLive ==
  ASSUME NEW es, Len(es) \in Nat, NEW x \in 1..Len(es), es[x].command.kind \notin Live
  PROVE  ReplayFull(es)[x] = Compensated(es)[x]
<1> DEFINE n == Len(es)
           C == Compensated(es)
           D == Asides(es, C)
           T == {k \in Nat : k <= n => D[k][x] = C[x]}
<1>1. C \in Acts(es)
  BY ReplayTyped
<1>2. D[0] = C /\ \A j \in 1..n : D[j] = Restores(es, j, D[j - 1]) /\ D[j - 1] \in Acts(es)
  <2>1. \A j \in 1..n : j - 1 \in 0..n
    OBVIOUS
  <2> HIDE DEF C, T
  <2>2. /\ D \in [0..n -> Acts(es)] /\ D[0] = C
        /\ \A j \in 1..n : D[j] = Restores(es, j, D[j - 1])
    BY <1>1, AsidesIs
  <2> QED BY <2>1, <2>2
<1> HIDE DEF C, D
<1>3. 0 \in T
  BY <1>2
<1>4. ASSUME NEW k \in Nat, k \in T PROVE k + 1 \in T
  <2> SUFFICES ASSUME k + 1 <= n PROVE D[k + 1][x] = C[x]
    OBVIOUS
  <2>1. k + 1 \in 1..n /\ (k + 1) - 1 = k /\ D[k][x] = C[x]
    BY <1>4
  <2>2. D[k + 1] = Restores(es, k + 1, D[k]) /\ D[k] \in Acts(es)
    BY <1>2, <2>1
  <2>3. Restores(es, k + 1, D[k])[x] = D[k][x]
    <3>1. D[k][x] \in BOOLEAN
      BY <2>2 DEF Acts
    <3>2. Restores(es, k + 1, D[k])[x] =
            (D[k][x] /\ ~( es[k + 1].command.kind = "restore" /\ D[k][k + 1]
                           /\ es[x].command.kind \in Live /\ x < k + 1
                           /\ \E c \in Positions(es, es[k + 1].command.target) : c < x))
      BY <2>1, <2>2, RestoresIs
    <3> QED BY <3>1, <3>2
  <2> QED BY <2>1, <2>2, <2>3
<1>5. n \in T
  <2> HIDE DEF T
  <2> QED BY <1>3, <1>4, NatsIn
<1> QED BY <1>5 DEF ReplayFull, SetAside, C, D

LEMMA TargetIs ==
  ASSUME NEW es, Ledger(es), NEW i \in 1..Len(es), es[i].command.kind \in Compensations
  PROVE  \E p \in 1..(i - 1) : Positions(es, es[i].command.target) = {p}
<1>1. PICK p \in Positions(es, es[i].command.target) : TRUE
  BY DEF Ledger, Aimed, Compensations
<1>2. p < i /\ p \in 1..Len(es) /\ es[p].command.request = es[i].command.target
  BY DEF Ledger, Backwards, Compensations, Positions
<1>3. \A q \in Positions(es, es[i].command.target) : q = p
  BY <1>2 DEF Ledger, Unshared, Positions
<1>4. Len(es) \in Nat
  BY DEF Ledger
<1>5. p \in 1..(i - 1)
  BY <1>2, <1>4
<1> QED BY <1>1, <1>3, <1>5

LEMMA MaxOf ==
  ASSUME NEW i \in Int
  PROVE  Max({i}) = i
BY DEF Max

(* A reversal comes to what its target comes to.                           *)
LEMMA RootOfTarget ==
  ASSUME NEW es, Ledger(es), NEW i \in 1..Len(es), es[i].command.kind = "revert",
         NEW p, Positions(es, es[i].command.target) = {p}
  PROVE  Root(es, i) = Root(es, p)
<1>1. Len(es) \in Nat
  BY DEF Ledger
<1>2. p \in 1..(i - 1)
  <2>1. es[i].command.kind \in Compensations
    BY DEF Compensations
  <2>2. PICK q \in 1..(i - 1) : Positions(es, es[i].command.target) = {q}
    BY <2>1, TargetIs
  <2> QED BY <2>2
<1>3. Back(es, i) = {p}
  BY <1>1, <1>2 DEF Back
<1>4. Max(Back(es, i)) = p
  BY <1>2, <1>3, MaxOf
<1>5. Roots(es)[i] = RootStep(es, Roots(es), i)
  BY <1>1, RootsIs
<1> QED BY <1>3, <1>4, <1>5 DEF RootStep, Root

LEMMA RootOfOthers ==
  ASSUME NEW es, Len(es) \in Nat, NEW i \in 1..Len(es), es[i].command.kind # "revert"
  PROVE  Root(es, i) = i
BY RootsIs DEF RootStep, Root

(* What two replays of a ledger may differ in: the chains of reversals of  *)
(* one root, and what a correction of it corrects.                         *)
Apart(es, r, A, B) ==
  \A x \in 1..Len(es) :
    A[x] # B[x] => Root(es, x) = r \/ es[x].command.kind \in {"cut", "pick"}

LEMMA StepNear ==
  ASSUME NEW d, NEW es, Ledger(es), Suited(es), Extends(es, d), Len(d) \in Nat, NEW r,
         \A k \in 1..Len(es) : \A x \in 1..Len(es) :
           x \in Positions(d, es[k].command.target) <=> x \in Positions(es, es[k].command.target),
         NEW k \in 1..Len(es), NEW A \in Acts(d), NEW B \in Acts(es), Apart(es, r, A, B)
  PROVE  Apart(es, r, Compensate(d, k, A), Compensate(es, k, B))
<1> DEFINE n == Len(es)
           A1 == Compensate(d, k, A)
           B1 == Compensate(es, k, B)
           t == es[k].command.target
           kind == es[k].command.kind
<1>1. /\ es \in Seq(Entries) /\ n \in Nat /\ n <= Len(d) /\ k \in 1..Len(d) /\ d[k] = es[k]
      /\ \A x \in 1..n : x \in 1..Len(d)
  BY DEF Ledger, Extends
<1>2. ASSUME NEW x \in 1..n
      PROVE  A1[x] = IF A[k] /\ kind \in {"revert", "correct"} /\ x \in Positions(es, t)
                     THEN kind = "revert" /\ ~A[x] ELSE A[x]
  <2>1. x \in Positions(d, t) <=> x \in Positions(es, t)
    OBVIOUS
  <2> HIDE DEF t, kind
  <2>2. d[k].command.target = t /\ d[k].command.kind = kind /\ x \in 1..Len(d)
    BY <1>1 DEF t, kind
  <2>3. CASE ~A[k] \/ kind \notin {"revert", "correct"}
    BY <1>1, <2>2, <2>3, CompensateIs
  <2>4. CASE A[k] /\ kind \in {"revert", "correct"}
    <3>1. A1[x] = IF x \notin Positions(d, t) THEN A[x] ELSE kind = "revert" /\ ~A[x]
      BY <1>1, <2>2, <2>4, CompensateIs
    <3> QED BY <2>1, <2>4, <3>1
  <2> QED BY <2>3, <2>4
<1>3. ASSUME NEW x \in 1..n
      PROVE  B1[x] = IF B[k] /\ kind \in {"revert", "correct"} /\ x \in Positions(es, t)
                     THEN kind = "revert" /\ ~B[x] ELSE B[x]
  <2>3. CASE ~B[k] \/ kind \notin {"revert", "correct"}
    BY <1>1, <2>3, CompensateIs
  <2>4. CASE B[k] /\ kind \in {"revert", "correct"}
    <3>1. B1[x] = IF x \notin Positions(es, t) THEN B[x] ELSE kind = "revert" /\ ~B[x]
      BY <1>1, <2>4, CompensateIs
    <3> QED BY <2>4, <3>1
  <2> QED BY <2>3, <2>4
<1>4. /\ \A x \in 1..n : A[x] \in BOOLEAN /\ B[x] \in BOOLEAN
      /\ \A x \in 1..n : A[x] # B[x] => Root(es, x) = r \/ es[x].command.kind \in {"cut", "pick"}
  BY <1>1 DEF Acts, Apart
<1> SUFFICES ASSUME NEW x \in 1..n, A1[x] # B1[x]
             PROVE  Root(es, x) = r \/ es[x].command.kind \in {"cut", "pick"}
  BY DEF Apart
<1>5. CASE A[x] # B[x]
  BY <1>4, <1>5
<1>6. CASE A[x] = B[x]
  <2>1. A[k] # B[k] /\ kind \in {"revert", "correct"} /\ x \in Positions(es, t)
    <3> HIDE DEF A1, B1, t, kind
    <3> QED BY <1>2, <1>3, <1>4, <1>6
  <2>2. Root(es, k) = r
    BY <1>4, <2>1
  <2>3. CASE kind = "revert"
    <3>1. PICK p : Positions(es, t) = {p}
      BY <2>1, TargetIs DEF Compensations
    <3>2. Root(es, k) = Root(es, p) /\ p = x
      BY <2>1, <2>3, <3>1, RootOfTarget
    <3> QED BY <2>2, <3>2
  <2>4. CASE kind = "correct"
    BY <2>1, <2>4 DEF Suited
  <2> QED BY <2>1, <2>3, <2>4
<1> QED BY <1>5, <1>6

LEMMA PositionsAppend ==
  ASSUME NEW es \in Seq(Entries), NEW e \in Entries, NEW t
  PROVE  \A x \in 1..Len(es) : x \in Positions(Append(es, e), t) <=> x \in Positions(es, t)
<1>1. /\ Len(es) \in Nat /\ Len(Append(es, e)) = Len(es) + 1
      /\ \A i \in 1..Len(es) : Append(es, e)[i] = es[i]
  BY AppendIs
<1> QED BY <1>1 DEF Positions

LEMMA AppendedWalk ==
  ASSUME NEW es, Ledger(es), Suited(es), NEW e \in Entries, NEW r,
         \A p \in Positions(es, e.command.target) :
           /\ e.command.kind = "revert" => Root(es, p) = r
           /\ e.command.kind = "correct" => es[p].command.kind \in {"cut", "pick"}
  PROVE  Apart(es, r, Compensated(Append(es, e)), Compensated(es))
<1> DEFINE d == Append(es, e)
           n == Len(es)
           T == {k \in Nat : k <= n => Apart(es, r, Walk(d)[n + 1 - k], Walk(es)[n + 1 - k])}
<1>1. /\ es \in Seq(Entries) /\ n \in Nat /\ Len(d) = n + 1 /\ Len(d) \in Nat
      /\ d[n + 1] = e /\ Extends(es, d)
  <2>1. es \in Seq(Entries)
    BY DEF Ledger
  <2>2. /\ n \in Nat /\ Len(d) = n + 1 /\ d[n + 1] = e /\ \A i \in 1..n : d[i] = es[i]
    BY <2>1, AppendIs
  <2> HIDE DEF d
  <2> QED BY <2>1, <2>2 DEF Extends
<1>2. \A t : \A x \in 1..n : x \in Positions(d, t) <=> x \in Positions(es, t)
  BY <1>1, PositionsAppend
<1> HIDE DEF d
<1>3. \A k \in 1..(n + 1) : Walk(d)[k] = Compensate(d, k, Walk(d)[k + 1]) /\ Walk(d)[k + 1] \in Acts(d)
  <2>1. \A k \in 1..(n + 1) : k \in 1..Len(d) /\ k + 1 \in 1..(Len(d) + 1)
    BY <1>1
  <2> QED BY <1>1, <2>1, WalkIs
<1>4. \A k \in 1..n : Walk(es)[k] = Compensate(es, k, Walk(es)[k + 1]) /\ Walk(es)[k + 1] \in Acts(es)
  <2>1. \A k \in 1..n : k + 1 \in 1..(n + 1)
    BY <1>1
  <2> QED BY <1>1, <2>1, WalkIs
<1>5. 0 \in T
  <2>1. Walk(es)[n + 1] = [x \in 1..n |-> TRUE]
    BY <1>1, WalkIs
  <2>2. Walk(d)[Len(d) + 1] = [x \in 1..Len(d) |-> TRUE]
    BY <1>1, WalkIs
  <2> DEFINE A == Walk(d)[Len(d) + 1]
  <2>3. n + 1 \in 1..(n + 1) /\ Walk(d)[n + 1] = Compensate(d, n + 1, A) /\ A \in Acts(d)
    BY <1>1, <1>3
  <2>4. \A x \in 1..Len(d) : A[x] = TRUE
    BY <2>2
  <2> HIDE DEF A
  <2>5. ASSUME NEW x \in 1..n, Walk(d)[n + 1][x] # TRUE
        PROVE  Root(es, x) = r \/ es[x].command.kind \in {"cut", "pick"}
    <3>1. x \in 1..Len(d) /\ n + 1 \in 1..Len(d) /\ A[x] = TRUE /\ d[n + 1] = e
      BY <1>1, <2>4
    <3>2. e.command.kind \in {"revert", "correct"}
      <4> SUFFICES ASSUME e.command.kind \notin {"revert", "correct"} PROVE FALSE
        OBVIOUS
      <4>1. Compensate(d, n + 1, A) = A
        BY <1>1, <2>3, <3>1, CompensateIs
      <4> QED BY <2>3, <2>5, <3>1, <4>1
    <3>3. x \in Positions(d, e.command.target)
      <4> SUFFICES ASSUME x \notin Positions(d, e.command.target) PROVE FALSE
        OBVIOUS
      <4>1. A[n + 1] /\ d[n + 1].command.kind \in {"revert", "correct"}
        BY <2>4, <3>1, <3>2
      <4>2. Compensate(d, n + 1, A)[x] =
              IF x \notin Positions(d, d[n + 1].command.target) THEN A[x]
              ELSE d[n + 1].command.kind = "revert" /\ ~A[x]
        <5>1. PICK m : m = n + 1
          OBVIOUS
        <5>2. m \in 1..Len(d) /\ A[m] /\ d[m].command.kind \in {"revert", "correct"}
          BY <3>1, <4>1, <5>1
        <5>3. Compensate(d, m, A)[x] =
                IF x \notin Positions(d, d[m].command.target) THEN A[x]
                ELSE d[m].command.kind = "revert" /\ ~A[x]
          <6>1. Len(d) \in Nat /\ A \in Acts(d) /\ x \in 1..Len(d)
            BY <1>1, <2>3, <3>1
          <6>2. \A j \in 1..Len(d) :
                  Compensate(d, m, A)[j] =
                    IF j \notin Positions(d, d[m].command.target) THEN A[j]
                    ELSE d[m].command.kind = "revert" /\ ~A[j]
            BY <5>2, <6>1, CompensateIs
          <6> QED BY <6>1, <6>2
        <5> QED BY <5>1, <5>3
      <4>3. Compensate(d, n + 1, A)[x] = TRUE
        BY <3>1, <4>2
      <4> QED BY <2>3, <2>5, <4>3
    <3>4. x \in Positions(es, e.command.target)
      BY <1>2, <3>3
    <3> QED BY <3>2, <3>4
  <2>6. Apart(es, r, Walk(d)[n + 1], Walk(es)[n + 1])
    BY <2>1, <2>5 DEF Apart
  <2>7. n + 1 - 0 = n + 1
    BY <1>1
  <2> QED BY <2>6, <2>7
<1>6. ASSUME NEW k \in Nat, k \in T PROVE k + 1 \in T
  <2> SUFFICES ASSUME k + 1 <= n
               PROVE  Apart(es, r, Walk(d)[n + 1 - (k + 1)], Walk(es)[n + 1 - (k + 1)])
    OBVIOUS
  <2> DEFINE i == n - k
  <2>1. i \in 1..n /\ i \in 1..(n + 1) /\ n + 1 - (k + 1) = i /\ n + 1 - k = i + 1
    BY <1>1
  <2>2. Apart(es, r, Walk(d)[i + 1], Walk(es)[i + 1])
    BY <1>6, <2>1
  <2> HIDE DEF i
  <2>3. Apart(es, r, Compensate(d, i, Walk(d)[i + 1]), Compensate(es, i, Walk(es)[i + 1]))
    BY <1>1, <1>2, <1>3, <1>4, <2>1, <2>2, StepNear
  <2>4. Apart(es, r, Walk(d)[i], Walk(es)[i])
    BY <1>3, <1>4, <2>1, <2>3
  <2> QED BY <2>1, <2>4
<1>7. n \in T
  <2> HIDE DEF T
  <2> QED BY <1>1, <1>5, <1>6, NatsIn
<1>8. n + 1 - n = 1
  BY <1>1
<1> QED BY <1>1, <1>7, <1>8 DEF Compensated, d

LEMMA AppendedRoots ==
  ASSUME NEW es \in Seq(Entries), NEW e \in Entries
  PROVE  \A x \in 1..Len(es) : Root(Append(es, e), x) = Root(es, x)
<1> DEFINE d == Append(es, e)
           n == Len(es)
           T == {k \in Nat : \A x \in 1..n : x <= k => Roots(d)[x] = Roots(es)[x]}
<1>1. n \in Nat /\ Len(d) = n + 1 /\ Len(d) \in Nat /\ \A i \in 1..n : d[i] = es[i]
  BY AppendIs
<1>2. \A t : \A x \in 1..n : x \in Positions(d, t) <=> x \in Positions(es, t)
  BY PositionsAppend
<1> HIDE DEF d
<1>3. \A x \in 1..n : x \in 1..Len(d)
  BY <1>1
<1>4. 0 \in T
  OBVIOUS
<1>5. ASSUME NEW k \in Nat, k \in T PROVE k + 1 \in T
  <2> SUFFICES ASSUME NEW x \in 1..n, x <= k + 1 PROVE Roots(d)[x] = Roots(es)[x]
    OBVIOUS
  <2>1. Roots(d)[x] = RootStep(d, Roots(d), x) /\ Roots(es)[x] = RootStep(es, Roots(es), x)
    BY <1>1, <1>3, RootsIs
  <2>2. Back(d, x) = Back(es, x)
    <3>1. d[x] = es[x]
      BY <1>1
    <3>2. \A t, y : y \in Positions(d, t) /\ y < x <=> y \in Positions(es, t) /\ y < x
      <4>1. \A t, y : (y \in Positions(d, t) => y \in 1..Len(d)) /\ (y \in Positions(es, t) => y \in 1..n)
        BY DEF Positions
      <4>2. \A y \in 1..Len(d) : y < x => y \in 1..n
        BY <1>1
      <4> QED BY <1>2, <4>1, <4>2
    <3> QED BY <3>1, <3>2 DEF Back
  <2>3. CASE es[x].command.kind = "revert" /\ Back(es, x) # {}
    <3>1. Max(Back(es, x)) \in 1..(x - 1)
      BY <1>1, <2>3, BackIs
    <3>2. Max(Back(es, x)) \in 1..n /\ Max(Back(es, x)) <= k
      BY <1>1, <3>1
    <3>3. Roots(d)[Max(Back(es, x))] = Roots(es)[Max(Back(es, x))]
      BY <1>5, <3>2
    <3> QED BY <1>1, <2>1, <2>2, <2>3, <3>3 DEF RootStep
  <2>4. CASE ~(es[x].command.kind = "revert" /\ Back(es, x) # {})
    BY <1>1, <2>1, <2>2, <2>4 DEF RootStep
  <2> QED BY <2>3, <2>4
<1>6. n \in T
  <2> HIDE DEF T
  <2> QED BY <1>1, <1>4, <1>5, NatsIn
<1>7. \A x \in 1..n : x <= n
  BY <1>1
<1> QED BY <1>6, <1>7 DEF Root, d

-----------------------------------------------------------------------------
(* A season in force keeps what it captured.                               *)
CapturesIn(es, j) ==
  \A i \in 1..(j - 1) :
    es[i].command.kind \in Seasonal => ReplayFull(es)[i] = ReplayFull(Before(es, j - 1))[i]

ReversedIn(es, j) == \E k \in (j + 1)..Len(es) : es[k].command.kind = "revert" /\ Root(es, k) = j

Captured(es) == \A j \in Rollovers(es) : ReplayFull(es)[j] /\ ~ReversedIn(es, j) => CapturesIn(es, j)

Orderly(es) == Suited(es) /\ Captured(es)

LEMMA SeasonalIs == Seasonal \intersect (Live \union {"cut", "pick", "revert"}) = {} /\ "roll" \in Seasonal
BY DEF Seasonal, Live

(* A change captured before a rollover in force is not flipped.            *)
LEMMA RootNotCaptured ==
  ASSUME NEW es, Ledger(es), NEW p \in 1..Len(es), ~SeasonRefuses(es, ReplayFull(es), p),
         NEW j \in Rollovers(es), ReplayFull(es)[j], Root(es, p) < j
  PROVE  es[Root(es, p)].command.kind \notin Seasonal
<1>1. PICK r : r = Root(es, p)
  OBVIOUS
<1>2. r \in 1..Len(es) /\ Len(es) \in Nat /\ j \in 1..Len(es) /\ es[j].command.kind = "roll"
  <2>1. Len(es) \in Nat
    BY DEF Ledger
  <2>2. r \in 1..p
    BY <1>1, <2>1, RootsIs DEF Root
  <2> QED BY <2>1, <2>2 DEF Rollovers
<1>3. j \in {k \in (r + 1)..Len(es) : ReplayFull(es)[k]}
  BY <1>1, <1>2
<1> DEFINE later == {es[k].command.kind : k \in {k \in (r + 1)..Len(es) : ReplayFull(es)[k]}}
<1>4. "roll" \in later
  BY <1>2, <1>3
<1> HIDE DEF later
<1>5. ~(IF es[r].command.kind = "roll" THEN later \intersect Seasonal # {}
        ELSE es[r].command.kind \in Seasonal /\ "roll" \in later)
  BY <1>1, Zenon DEF SeasonRefuses, later
<1>6. es[r].command.kind # "roll"
  <2>1. "roll" \in later \intersect Seasonal
    BY <1>4, SeasonalIs
  <2> QED BY <1>5, <2>1
<1>7. es[r].command.kind \notin Seasonal
  BY <1>4, <1>5, <1>6
<1> QED BY <1>1, <1>7

LEMMA SeasonGrows ==
  ASSUME NEW es, Ledger(es), Orderly(es), NEW e \in Entries, Ledger(Append(es, e)),
         NEW r,
         \A p \in Positions(es, e.command.target) :
           /\ e.command.kind = "revert" => Root(es, p) = r /\ ~SeasonRefuses(es, ReplayFull(es), p)
           /\ e.command.kind = "correct" => es[p].command.kind \in {"cut", "pick"}
           /\ e.command.kind = "restore" => es[p].command.kind \in Live,
         e.command.kind # "revert" => r = 0
  PROVE  Orderly(Append(es, e))
<1> DEFINE d == Append(es, e)
           n == Len(es)
<1>1. /\ es \in Seq(Entries) /\ Suited(es) /\ Captured(es) /\ d \in Seq(Entries)
      /\ n \in Nat /\ Len(d) = n + 1 /\ Len(d) \in Nat /\ (\A i \in 1..n : d[i] = es[i]) /\ d[n + 1] = e
      /\ \A k \in 0..n : Before(d, k) = Before(es, k)
  <2>1. es \in Seq(Entries) /\ Suited(es) /\ Captured(es)
    BY DEF Ledger, Orderly
  <2> QED BY <2>1, AppendIs
<1>2. \A t : \A x \in 1..n : x \in Positions(d, t) <=> x \in Positions(es, t)
  BY <1>1, PositionsAppend
<1>3. Apart(es, r, Compensated(d), Compensated(es))
  BY <1>1, AppendedWalk
<1>4. \A x \in 1..n : Root(d, x) = Root(es, x)
  BY <1>1, AppendedRoots
<1> HIDE DEF d
<1>5. ASSUME NEW i \in 1..Len(d), NEW p \in Positions(d, d[i].command.target)
      PROVE  /\ d[i].command.kind = "correct" => d[p].command.kind \in {"cut", "pick"}
             /\ d[i].command.kind = "restore" => d[p].command.kind \in Live
  <2> SUFFICES ASSUME d[i].command.kind \in Compensations
               PROVE  /\ d[i].command.kind = "correct" => d[p].command.kind \in {"cut", "pick"}
                      /\ d[i].command.kind = "restore" => d[p].command.kind \in Live
    BY DEF Compensations
  <2>1. p < i /\ p \in 1..Len(d)
    BY DEF Ledger, Backwards, Positions, Compensations, d
  <2>2. p \in 1..n /\ (i \in 1..n \/ i = n + 1) /\ d[p] = es[p]
    BY <1>1, <2>1
  <2>3. p \in Positions(es, d[i].command.target)
    BY <1>2, <2>2
  <2>4. CASE i \in 1..n
    BY <1>1, <2>2, <2>3, <2>4 DEF Suited
  <2>5. CASE i = n + 1
    BY <1>1, <2>2, <2>3, <2>5
  <2> QED BY <2>2, <2>4, <2>5
<1>6. Suited(d)
  BY <1>5 DEF Suited
<1>7. ASSUME NEW x \in 1..n, es[x].command.kind \in Seasonal, x # r PROVE ReplayFull(d)[x] = ReplayFull(es)[x]
  <2>1. es[x].command.kind \notin Live \union {"cut", "pick", "revert"}
    BY <1>7, SeasonalIs
  <2>2. x \in 1..Len(d) /\ d[x] = es[x]
    BY <1>1
  <2>3. ReplayFull(d)[x] = Compensated(d)[x]
    BY <1>1, <2>1, <2>2, NotLive
  <2>4. ReplayFull(es)[x] = Compensated(es)[x]
    BY <1>1, <2>1, NotLive
  <2>5. Root(es, x) = x
    BY <1>1, <2>1, RootOfOthers
  <2>6. Compensated(d)[x] = Compensated(es)[x]
    BY <1>3, <1>7, <2>1, <2>5 DEF Apart
  <2> QED BY <2>3, <2>4, <2>6
<1>8. ASSUME NEW j \in Rollovers(d), ReplayFull(d)[j], ~ReversedIn(d, j), NEW i \in 1..(j - 1),
             d[i].command.kind \in Seasonal
      PROVE  ReplayFull(d)[i] = ReplayFull(Before(d, j - 1))[i]
  <2>1. j \in 1..(n + 1) /\ d[j].command.kind = "roll" /\ i \in 1..n /\ i < j /\ d[i] = es[i]
        /\ j - 1 \in 0..n
    BY <1>1 DEF Rollovers
  <2>2. Before(d, j - 1) = Before(es, j - 1)
    BY <1>1, <2>1
  <2>3. CASE j = n + 1
    <3>1. e.command.kind # "revert" /\ Before(d, j - 1) = es
      BY <1>1, <2>1, <2>2, <2>3, BeforeAll
    <3>2. i # r
      BY <2>1, <3>1
    <3> QED BY <1>7, <1>8, <2>1, <3>1, <3>2
  <2>4. CASE j \in 1..n
    <3>1. j \in Rollovers(es) /\ es[j].command.kind \in Seasonal
      BY <1>1, <2>1, <2>4, SeasonalIs DEF Rollovers
    <3>2. j # r
      <4> SUFFICES ASSUME j = r PROVE FALSE
        OBVIOUS
      <4>1. e.command.kind = "revert"
        BY <2>4
      <4>2. PICK p : p \in 1..n /\ Positions(d, e.command.target) = {p}
        <5>1. n + 1 \in 1..Len(d) /\ (n + 1) - 1 = n /\ d[n + 1].command.kind \in Compensations
          BY <1>1, <4>1 DEF Compensations
        <5>2. \E p \in 1..((n + 1) - 1) : Positions(d, d[n + 1].command.target) = {p}
          BY <5>1, TargetIs DEF d
        <5> QED BY <1>1, <5>1, <5>2
      <4>3. Root(d, n + 1) = Root(d, p)
        <5>1. n + 1 \in 1..Len(d) /\ d[n + 1] = e
          BY <1>1
        <5> QED BY <4>1, <4>2, <5>1, RootOfTarget DEF d
      <4>4. Root(es, p) = r
        BY <1>2, <4>1, <4>2
      <4>5. n + 1 \in (j + 1)..Len(d)
        BY <1>1, <2>4
      <4> QED BY <1>1, <1>4, <1>8, <4>1, <4>2, <4>3, <4>4, <4>5 DEF ReversedIn
    <3>3. ReplayFull(es)[j]
      BY <1>7, <1>8, <2>4, <3>1, <3>2
    <3>4. ~ReversedIn(es, j)
      <4> SUFFICES ASSUME NEW k \in (j + 1)..n, es[k].command.kind = "revert", Root(es, k) = j
                   PROVE  FALSE
        BY DEF ReversedIn
      <4>1. k \in 1..n /\ k \in (j + 1)..Len(d) /\ d[k] = es[k]
        BY <1>1, <2>1
      <4> QED BY <1>4, <1>8, <4>1 DEF ReversedIn
    <3>5. ReplayFull(es)[i] = ReplayFull(Before(es, j - 1))[i]
      BY <1>1, <1>8, <2>1, <3>1, <3>3, <3>4 DEF Captured, CapturesIn
    <3>6. i # r
      <4> SUFFICES ASSUME i = r PROVE FALSE
        OBVIOUS
      <4>1. e.command.kind = "revert"
        BY <2>1
      <4>2. PICK p : p \in 1..n /\ p \in Positions(d, e.command.target)
        <5>1. n + 1 \in 1..Len(d) /\ (n + 1) - 1 = n /\ d[n + 1].command.kind \in Compensations
          BY <1>1, <4>1 DEF Compensations
        <5>2. \E p \in 1..((n + 1) - 1) : Positions(d, d[n + 1].command.target) = {p}
          BY <5>1, TargetIs DEF d
        <5> QED BY <1>1, <5>1, <5>2
      <4>3. Root(es, p) = r /\ ~SeasonRefuses(es, ReplayFull(es), p)
        BY <1>2, <4>1, <4>2
      <4>4. es[Root(es, p)].command.kind \notin Seasonal
        BY <2>1, <3>1, <3>3, <4>2, <4>3, RootNotCaptured
      <4> QED BY <1>8, <2>1, <4>3, <4>4
    <3>7. ReplayFull(d)[i] = ReplayFull(es)[i]
      BY <1>7, <1>8, <2>1, <3>6
    <3> QED BY <2>2, <3>5, <3>7
  <2> QED BY <2>1, <2>3, <2>4
<1>9. Captured(d)
  BY <1>8 DEF Captured, CapturesIn
<1> QED BY <1>6, <1>9 DEF Orderly, d

LEMMA StartOrderly ==
  ASSUME NEW d, Ledger(d), Len(d) = 1, NEW f, f = Append(d, Started), Ledger(f),
         Orderly(d)
  PROVE  Orderly(f)
<1>1. PICK r : r = 0
  OBVIOUS
<1>2. Started \in Entries /\ Started.command.kind = "seed"
  BY StartIs
<1>3. Started.command.kind \notin {"revert", "correct", "restore"}
  BY <1>2
<1> QED BY <1>1, <1>2, <1>3, SeasonGrows

LEMMA EmptyOrderly ==
  ASSUME NEW es, es = <<>>
  PROVE  Orderly(es)
<1>1. Len(es) = 0 /\ 1..Len(es) = {}
  OBVIOUS
<1> QED BY <1>1 DEF Orderly, Suited, Captured, Rollovers

(* What checkAppend asks of a change that compensates another.             *)
LEMMA AdmittedTarget ==
  ASSUME NEW rs, NEW t, TxOK(rs, t), t.todo # <<>>, ~Refused(t), ~Retried(t),
         NEW p \in Positions(t.db, Head(t.todo).target)
  PROVE  /\ Head(t.todo).kind = "revert" => ~SeasonRefuses(t.db, ReplayFull(t.db), p)
         /\ Head(t.todo).kind = "correct" => t.db[p].command.kind \in {"cut", "pick"}
         /\ Head(t.todo).kind = "restore" => t.db[p].command.kind \in Live
<1>1. Admissible(t) /\ t.list = t.db
  BY DEF Refused, TxOK
<1>2. Ledger(t.db) /\ ClosedBooks(t.db, t.closed) /\ t.base \in Bases(t.db) /\ t.db \in Seq(Entries)
  BY DEF TxOK, Ledger
<1>3. \A q \in Positions(t.db, Head(t.todo).target) : q = p
  BY <1>2 DEF Ledger, Unshared, Positions
<1>4. Replay(t.db, t.base, t.closed) = ReplayFull(t.db)
  <2>1. Before(t.db, Len(t.db)) = t.db /\ Len(t.db) \in 0..Len(t.db)
    BY <1>2, BeforeAll
  <2>2. PICK b \in 0..Len(t.db) : b = Len(t.db)
    BY <2>1
  <2>3. t.base \in Bases(Before(t.db, b))
    BY <1>2, <2>1, <2>2
  <2>4. Replay(Before(t.db, b), t.base, t.closed) = ReplayFull(Before(t.db, b))
    BY <1>2, <2>2, <2>3, BooksServe
  <2> QED BY <2>1, <2>2, <2>4
<1>5. ASSUME Head(t.todo).kind = "revert" PROVE ~SeasonRefuses(t.db, ReplayFull(t.db), p)
  <2>1. \A i \in Positions(t.list, Head(t.todo).target) :
          ~SeasonRefuses(t.list, Replay(t.list, t.base, t.closed), i)
    BY <1>1, <1>5, Zenon DEF Admissible
  <2> QED BY <1>1, <1>4, <2>1
<1>6. ASSUME Head(t.todo).kind = "correct" PROVE t.db[p].command.kind \in {"cut", "pick"}
  <2>1. \E i \in Positions(t.list, Head(t.todo).target) : t.list[i].command.kind \in {"cut", "pick"}
    BY <1>1, <1>6, Zenon DEF Admissible
  <2> QED BY <1>1, <1>3, <2>1
<1>7. ASSUME Head(t.todo).kind = "restore" PROVE t.db[p].command.kind \in Live
  <2>1. \E i \in Positions(t.list, Head(t.todo).target) : t.list[i].command.kind \in Live
    BY <1>1, <1>7, Zenon DEF Admissible
  <2> QED BY <1>1, <1>3, <2>1
<1> QED BY <1>5, <1>6, <1>7

LEMMA GrownOrderly ==
  ASSUME NEW rs, NEW t, TxOK(rs, t), t.todo # <<>>, ~Refused(t), ~Retried(t), Orderly(t.db)
  PROVE  Orderly(Grown(t))
<1> DEFINE e == Current(t)
           c == Head(t.todo)
           es == t.db
           d == Append(es, e)
<1>1. t \in Transactions /\ t.list = es /\ Ledger(es)
  BY DEF TxOK
<1>2. es \in Seq(Entries) /\ e \in Entries /\ e.command = c /\ c \in Commands
  BY <1>1, TxIs
<1>3. /\ Positions(es, c.request) = {}
      /\ c.kind \in {"create", "import"} <=> es = <<>>
      /\ c.kind \in Compensations => Positions(es, c.target) # {}
  BY <1>1, Admitted DEF Prior
<1>4. \A p \in Positions(es, c.target) :
        /\ c.kind = "revert" => ~SeasonRefuses(es, ReplayFull(es), p)
        /\ c.kind = "correct" => es[p].command.kind \in {"cut", "pick"}
        /\ c.kind = "restore" => es[p].command.kind \in Live
  BY AdmittedTarget
<1>5. c.kind = "revert" => \E q : Positions(es, c.target) = {q}
  <2> SUFFICES ASSUME c.kind = "revert" PROVE \E q : Positions(es, c.target) = {q}
    OBVIOUS
  <2>1. PICK q \in Positions(es, c.target) : TRUE
    BY <1>3 DEF Compensations
  <2>2. \A p \in Positions(es, c.target) : p = q
    BY <1>1 DEF Ledger, Unshared, Positions
  <2> QED BY <2>1, <2>2
<1> HIDE DEF c, e, es
<1>6. Ledger(d)
  BY <1>1, <1>2, <1>3, LedgerAppend
<1>7. PICK r : /\ c.kind # "revert" => r = 0
               /\ \A p \in Positions(es, c.target) : c.kind = "revert" => Root(es, p) = r
  <2>1. CASE c.kind = "revert"
    <3>1. PICK q : Positions(es, c.target) = {q}
      BY <1>5, <2>1
    <3> QED BY <2>1, <3>1
  <2>2. CASE c.kind # "revert"
    BY <2>2
  <2> QED BY <2>1, <2>2
<1>8. Orderly(d)
  <2>1. Orderly(es)
    BY DEF es
  <2>2. \A p \in Positions(es, e.command.target) :
          /\ e.command.kind = "revert" => Root(es, p) = r /\ ~SeasonRefuses(es, ReplayFull(es), p)
          /\ e.command.kind = "correct" => es[p].command.kind \in {"cut", "pick"}
          /\ e.command.kind = "restore" => es[p].command.kind \in Live
    BY <1>2, <1>4, <1>7
  <2>3. e.command.kind # "revert" => r = 0
    BY <1>2, <1>7
  <2> QED BY <1>1, <1>2, <1>6, <2>1, <2>2, <2>3, SeasonGrows
<1>9. CASE c.kind # "create"
  <2>1. Grown(t) = d
    BY <1>9 DEF Grown, c, e, es
  <2> QED BY <1>8, <2>1
<1>10. CASE c.kind = "create"
  <2>1. Grown(t) = Append(d, Started)
    BY <1>10 DEF Grown, c, e, es
  <2>2. Ledger(Grown(t))
    BY GrowthOK
  <2>3. Len(d) = 1
    <3>1. es = <<>> /\ Len(d) = Len(es) + 1
      BY <1>2, <1>3, <1>10, AppendIs
    <3> QED BY <3>1
  <2> HIDE DEF d
  <2> QED BY <1>6, <1>8, <2>1, <2>2, <2>3, StartOrderly
<1> QED BY <1>9, <1>10

LEMMA StepOrderly ==
  ASSUME NEW t, rows \in Seq(Entries), TxOK(rows, t), t.todo # <<>>, Step(t), Orderly(t.db)
  PROVE  tx' # None => Orderly(tx'.db)
<1>1. t \in Transactions
  BY DEF TxOK
<1>2. CASE Refused(t)
  BY <1>2 DEF Step
<1>3. CASE ~Refused(t)
  <2>1. tx' = IF Retried(t) THEN Answered(t) ELSE Recorded(t)
    BY <1>3, Zenon DEF Step
  <2>2. CASE Retried(t)
    <3>1. Answered(t) = MoveOf(t, Tail(t.todo), t.db, Append(t.receipts, Min(Prior(t))))
      BY Zenon DEF Answered, MoveOf
    <3> DEFINE todo == Tail(t.todo)
               rec == Append(t.receipts, Min(Prior(t)))
    <3>2. Answered(t) = MoveOf(t, todo, t.db, rec)
      BY <3>1
    <3> HIDE DEF todo, rec
    <3>3. Answered(t).db = t.db
      BY <1>1, <3>2, Moved
    <3> QED BY <2>1, <2>2, <3>3
  <2>3. CASE ~Retried(t)
    <3> DEFINE db == Grown(t)
               todo == Tail(t.todo)
               rec == Append(t.receipts, Len(t.db) + 1)
               closed == BooksClosed(t, db)
    <3>1. t.db \o <<Current(t)>>
            \o (IF Head(t.todo).kind = "create" THEN <<[command |-> Start, expected |-> 1]>> ELSE <<>>) = db
      BY <1>1, GrownIs
    <3>2. PICK zero : zero = 0
      OBVIOUS
    <3> HIDE DEF db
    <3>3. Recorded(t) = CopyOf(t, todo, db, zero, rec, closed)
      BY <3>1, <3>2, Zenon DEF Recorded, CopyOf
    <3> HIDE DEF todo, rec, closed
    <3>4. Recorded(t).db = db
      BY <1>1, <3>3, Copied
    <3>5. Orderly(db)
      BY <1>3, <2>3, GrownOrderly DEF db
    <3> QED BY <2>1, <2>3, <3>4, <3>5
  <2> QED BY <2>2, <2>3
<1> QED BY <1>2, <1>3

OrderlyState == Orderly(rows) /\ (tx # None => Orderly(tx.db))

LEMMA OrderlyHolds == Spec => []OrderlyState
<1>1. Init => OrderlyState
  BY EmptyOrderly DEF Init, OrderlyState
<1>2. IInv /\ IInv' /\ OrderlyState /\ [Next]_vars => OrderlyState'
  <2> SUFFICES ASSUME IInv, OrderlyState, [Next]_vars PROVE OrderlyState'
    OBVIOUS
  <2>1. Orderly(rows) /\ (tx # None => Orderly(tx.db)) /\ (tx # None => TxOK(rows, tx)) /\ rows \in Seq(Entries)
    BY DEF OrderlyState, IInv, Ledger
  <2>2. ASSUME NEW s \in Stores, NEW cs \in Submissions, NEW e \in Versions(cs), NEW absent,
               Submit(s, cs, e, absent)
        PROVE  OrderlyState'
    <3>1. PICK read : read = Served(cache[s], rows, books, Len(rows), absent)
      OBVIOUS
    <3>2. PICK t : t = [sent |-> cs, todo |-> cs, expected |-> e, list |-> read.records,
                        base |-> read.base, db |-> rows, closed |-> books, receipts |-> <<>>]
      OBVIOUS
    <3>3. Step(t) /\ rows' = rows
      BY <2>2, <3>1, <3>2, Zenon DEF Submit
    <3>4. TxOK(rows, t) /\ t.todo # <<>>
      BY <3>1, <3>2, SubmittedOK
    <3>5. t.db = rows
      BY <3>2
    <3>6. tx' # None => Orderly(tx'.db)
      BY <2>1, <3>3, <3>4, <3>5, StepOrderly
    <3> QED BY <2>1, <3>3, <3>6 DEF OrderlyState
  <2>3. CASE Continue
    <3>1. tx # None /\ tx.todo # <<>> /\ Step(tx) /\ rows' = rows
      BY <2>3 DEF Continue
    <3>2. PICK t : t = tx
      OBVIOUS
    <3>3. tx' # None => Orderly(tx'.db)
      BY <2>1, <3>1, <3>2, StepOrderly
    <3> QED BY <2>1, <3>1, <3>3 DEF OrderlyState
  <2>4. CASE Commit
    BY <2>1, <2>4 DEF Commit, OrderlyState
  <2>5. CASE UNCHANGED <<rows, tx>>
    BY <2>1, <2>5 DEF OrderlyState
  <2>6. CASE Abort
    BY <2>1, <2>6 DEF Abort, OrderlyState
  <2> QED BY <2>2, <2>3, <2>4, <2>5, <2>6 DEF Next, Read, Forget, vars
<1> QED BY <1>1, <1>2, LedgerHolds, PTL DEF Spec

(* A change a season captured stays in force or not as it was when the     *)
(* season began, for as long as the season is in force and has not been    *)
(* reversed (rolloverReversalRefusal).                                     *)
THEOREM SeasonsKept == Spec => []SeasonKept
<1>1. OrderlyState => SeasonKept
  <2> SUFFICES ASSUME OrderlyState PROVE SeasonKept
    OBVIOUS
  <2>1. Captured(rows)
    BY DEF OrderlyState, Orderly
  <2>2. \A j : ReversedIn(rows, j) <=> Reversed(j)
    BY DEF ReversedIn, Reversed
  <2>3. \A j : CapturesIn(rows, j) <=> Captures(j)
    BY DEF CapturesIn, Captures, Before, Prefix
  <2> QED BY <2>1, <2>2, <2>3 DEF Captured, SeasonKept
<1> QED BY <1>1, OrderlyHolds, PTL

-----------------------------------------------------------------------------
(* A reversal that is reversed leaves no trace.                            *)
Shift(i, x) == IF x < i THEN x ELSE x - 1

LEMMA ShiftIs ==
  ASSUME NEW m \in Nat, NEW i \in 1..m
  PROVE  /\ \A x \in 1..m : x # i => Shift(i, x) \in 1..(m - 1)
         /\ \A x, y \in 1..m : x # i /\ y # i => (x < y <=> Shift(i, x) < Shift(i, y))
         /\ \A x, y \in 1..m : x # i /\ y # i /\ Shift(i, x) = Shift(i, y) => x = y
         /\ \A y \in 1..(m - 1) : \E x \in 1..m : x # i /\ Shift(i, x) = y
<1>1. \A x \in 1..m : x # i => Shift(i, x) \in 1..(m - 1)
  BY DEF Shift
<1>2. \A x, y \in 1..m : x # i /\ y # i => (x < y <=> Shift(i, x) < Shift(i, y))
  BY DEF Shift
<1>3. \A x, y \in 1..m : x # i /\ y # i /\ Shift(i, x) = Shift(i, y) => x = y
  BY DEF Shift
<1>4. ASSUME NEW y \in 1..(m - 1) PROVE \E x \in 1..m : x # i /\ Shift(i, x) = y
  <2>1. CASE y < i
    <3>1. y \in 1..m /\ y # i /\ Shift(i, y) = y
      BY <2>1 DEF Shift
    <3> QED BY <3>1
  <2>2. CASE ~(y < i)
    <3>1. y + 1 \in 1..m /\ y + 1 # i /\ Shift(i, y + 1) = y
      BY <2>2 DEF Shift
    <3> QED BY <3>1
  <2> QED BY <2>1, <2>2
<1> QED BY <1>1, <1>2, <1>3, <1>4

LEMMA RemovedIs ==
  ASSUME NEW X, NEW es \in Seq(X), NEW i \in 1..Len(es), NEW R, R = RemoveAt(es, i)
  PROVE  /\ R \in Seq(X) /\ Len(R) = Len(es) - 1 /\ Len(R) \in Nat
         /\ \A x \in 1..Len(es) : x # i => R[Shift(i, x)] = es[x]
<1> DEFINE a == Before(es, i - 1)
           z == After(es, i)
           m == Len(es)
<1>1. m \in Nat /\ i \in Nat /\ i - 1 \in 0..m /\ i \in 0..m /\ i <= m /\ i >= 1
  OBVIOUS
<1>2. a \in Seq(X) /\ Len(a) = i - 1 /\ \A x \in 1..(i - 1) : a[x] = es[x]
  <2>1. PICK b \in 0..m : b = i - 1
    BY <1>1
  <2>2. Before(es, b) \in Seq(X) /\ Len(Before(es, b)) = b /\ \A x \in 1..b : Before(es, b)[x] = es[x]
    BY CutIs
  <2> QED BY <2>1, <2>2
<1>3. z \in Seq(X) /\ Len(z) = m - i /\ \A x \in 1..(m - i) : z[x] = es[i + x]
  BY <1>1, CutIs
<1>4. R = a \o z
  BY DEF RemoveAt, Before, After
<1> HIDE DEF a, z, m
<1>5. /\ R \in Seq(X) /\ Len(R) = (i - 1) + (m - i)
      /\ \A x \in 1..((i - 1) + (m - i)) : R[x] = IF x <= i - 1 THEN a[x] ELSE z[x - (i - 1)]
  BY <1>2, <1>3, <1>4, ConcatProperties
<1>6. (i - 1) + (m - i) = m - 1 /\ m - 1 \in Nat
  BY <1>1
<1>7. ASSUME NEW x \in 1..m, x # i PROVE R[Shift(i, x)] = es[x]
  <2>1. CASE x < i
    <3>1. Shift(i, x) = x /\ x \in 1..((i - 1) + (m - i)) /\ x <= i - 1 /\ x \in 1..(i - 1)
      BY <1>1, <2>1 DEF Shift
    <3>2. R[x] = a[x]
      BY <1>5, <3>1
    <3> QED BY <1>2, <3>1, <3>2
  <2>2. CASE x > i
    <3>1. /\ Shift(i, x) = x - 1 /\ x - 1 \in 1..((i - 1) + (m - i)) /\ ~(x - 1 <= i - 1)
          /\ (x - 1) - (i - 1) = x - i /\ x - i \in 1..(m - i) /\ i + (x - i) = x
      BY <1>1, <2>2 DEF Shift
    <3>2. R[x - 1] = z[x - i]
      BY <1>5, <3>1
    <3> QED BY <1>3, <3>1, <3>2
  <2> QED BY <1>1, <1>7, <2>1, <2>2
<1> QED BY <1>5, <1>6, <1>7 DEF m

LEMMA EntriesRemoved ==
  ASSUME NEW es \in Seq(Entries), NEW i \in 1..Len(es), NEW R, R = RemoveAt(es, i)
  PROVE  /\ R \in Seq(Entries) /\ Len(R) = Len(es) - 1 /\ Len(R) \in Nat /\ Len(es) \in Nat
         /\ \A x \in 1..Len(es) : x # i => R[Shift(i, x)] = es[x]
BY RemovedIs

(* A says of the entries but the i-th what C does with it taken out.       *)
Alike(es, i, A, C) == \A x \in 1..Len(es) : x # i => A[x] = C[Shift(i, x)]

LEMMA PositionsRemoved ==
  ASSUME NEW es \in Seq(Entries), NEW i \in 1..Len(es), NEW R, R = RemoveAt(es, i), NEW t
  PROVE  \A x \in 1..Len(es) : x # i => (Shift(i, x) \in Positions(R, t) <=> x \in Positions(es, t))
<1>1. /\ R \in Seq(Entries) /\ Len(R) = Len(es) - 1 /\ Len(es) \in Nat
      /\ \A x \in 1..Len(es) : x # i => R[Shift(i, x)] = es[x]
  BY RemovedIs
<1>2. \A x \in 1..Len(es) : x # i => Shift(i, x) \in 1..(Len(es) - 1)
  BY <1>1, ShiftIs
<1> QED BY <1>1, <1>2 DEF Positions

LEMMA CompensateAt ==
  ASSUME NEW es, Len(es) \in Nat, NEW k \in 1..Len(es), NEW A \in Acts(es), NEW x \in 1..Len(es)
  PROVE  Compensate(es, k, A)[x] =
           IF A[k] /\ es[k].command.kind \in {"revert", "correct"} /\ x \in Positions(es, es[k].command.target)
           THEN es[k].command.kind = "revert" /\ ~A[x] ELSE A[x]
<1>1. CASE ~A[k] \/ es[k].command.kind \notin {"revert", "correct"}
  BY <1>1, CompensateIs
<1>2. CASE A[k] /\ es[k].command.kind \in {"revert", "correct"}
  <2>1. \A j \in 1..Len(es) :
          Compensate(es, k, A)[j] =
            IF j \notin Positions(es, es[k].command.target) THEN A[j]
            ELSE es[k].command.kind = "revert" /\ ~A[j]
    BY <1>2, CompensateIs
  <2> QED BY <1>2, <2>1
<1> QED BY <1>1, <1>2

LEMMA StepAlike ==
  ASSUME NEW d, NEW es \in Seq(Entries), Extends(es, d), Len(d) \in Nat,
         \A t : \A x \in 1..Len(es) : x \in Positions(d, t) <=> x \in Positions(es, t),
         NEW i \in 1..Len(es), NEW R, R = RemoveAt(es, i),
         NEW k \in 1..Len(es), k # i,
         NEW A \in Acts(d), NEW C \in Acts(R), Alike(es, i, A, C)
  PROVE  Alike(es, i, Compensate(d, k, A), Compensate(R, Shift(i, k), C))
<1> DEFINE m == Len(es)
<1>1. /\ R \in Seq(Entries) /\ Len(R) = m - 1 /\ Len(R) \in Nat /\ m \in Nat
      /\ \A x \in 1..m : x # i => R[Shift(i, x)] = es[x]
  BY EntriesRemoved
<1>2. \A x \in 1..m : x # i => Shift(i, x) \in 1..Len(R)
  BY <1>1, ShiftIs
<1>3. \A x \in 1..m : x \in 1..Len(d) /\ d[x] = es[x]
  BY <1>1 DEF Extends
<1>4. PICK q : q = Shift(i, k)
  OBVIOUS
<1>5. q \in 1..Len(R) /\ R[q] = es[k] /\ d[k] = es[k] /\ A[k] = C[q] /\ k \in 1..Len(d)
  BY <1>1, <1>2, <1>3, <1>4 DEF Alike
<1>6. PICK t : t = es[k].command.target
  OBVIOUS
<1>7. PICK kind : kind = es[k].command.kind
  OBVIOUS
<1>8. d[k].command.target = t /\ d[k].command.kind = kind /\ R[q].command.target = t /\ R[q].command.kind = kind
  BY <1>5, <1>6, <1>7
<1>9. ASSUME NEW x \in 1..m, x # i PROVE Compensate(d, k, A)[x] = Compensate(R, q, C)[Shift(i, x)]
  <2>1. PICK y : y = Shift(i, x)
    OBVIOUS
  <2>2. y \in 1..Len(R) /\ A[x] = C[y] /\ x \in 1..Len(d)
    BY <1>2, <1>3, <1>9, <2>1 DEF Alike
  <2>3. y \in Positions(R, t) <=> x \in Positions(d, t)
    BY <1>9, <2>1, PositionsRemoved
  <2>4. Compensate(d, k, A)[x] =
          IF A[k] /\ kind \in {"revert", "correct"} /\ x \in Positions(d, t)
          THEN kind = "revert" /\ ~A[x] ELSE A[x]
    BY <1>5, <1>8, <2>2, CompensateAt
  <2>5. Compensate(R, q, C)[y] =
          IF C[q] /\ kind \in {"revert", "correct"} /\ y \in Positions(R, t)
          THEN kind = "revert" /\ ~C[y] ELSE C[y]
    <3>1. Len(R) \in Nat /\ q \in 1..Len(R) /\ C \in Acts(R) /\ y \in 1..Len(R)
      BY <1>1, <1>5, <2>2
    <3> HIDE DEF m
    <3>2. Compensate(R, q, C)[y] =
            IF C[q] /\ R[q].command.kind \in {"revert", "correct"} /\ y \in Positions(R, R[q].command.target)
            THEN R[q].command.kind = "revert" /\ ~C[y] ELSE C[y]
      BY <3>1, CompensateAt
    <3> QED BY <1>8, <3>2
  <2>6. Compensate(d, k, A)[x] = Compensate(R, q, C)[y]
    BY <1>5, <2>2, <2>3, <2>4, <2>5
  <2> QED BY <2>1, <2>6
<1> QED BY <1>4, <1>9 DEF Alike

(* Two replays that differ in the i-th entry alone.                        *)
Opposed(es, i, A, B) ==
  /\ \A x \in 1..Len(es) : x # i => A[x] = B[x]
  /\ A[i] = ~B[i]

LEMMA StepOpposed ==
  ASSUME NEW d, NEW es \in Seq(Entries), Suited(es), Extends(es, d), Len(d) \in Nat,
         \A t : \A x \in 1..Len(es) : x \in Positions(d, t) <=> x \in Positions(es, t),
         NEW i \in 1..Len(es), es[i].command.kind = "revert", NEW k \in 1..Len(es), k # i,
         NEW A \in Acts(d), NEW B \in Acts(es), Opposed(es, i, A, B)
  PROVE  Opposed(es, i, Compensate(d, k, A), Compensate(es, k, B))
<1> DEFINE m == Len(es)
<1>1. m \in Nat /\ \A x \in 1..m : x \in 1..Len(d) /\ d[x] = es[x]
  BY DEF Extends
<1>2. PICK t : t = es[k].command.target
  OBVIOUS
<1>3. PICK kind : kind = es[k].command.kind
  OBVIOUS
<1>4. /\ d[k].command.target = t /\ d[k].command.kind = kind /\ k \in 1..Len(d)
      /\ A[k] = B[k]
  BY <1>1, <1>2, <1>3 DEF Opposed
<1>5. ASSUME NEW x \in 1..m
      PROVE  /\ Compensate(d, k, A)[x] =
                  IF A[k] /\ kind \in {"revert", "correct"} /\ x \in Positions(es, t)
                  THEN kind = "revert" /\ ~A[x] ELSE A[x]
             /\ Compensate(es, k, B)[x] =
                  IF B[k] /\ kind \in {"revert", "correct"} /\ x \in Positions(es, t)
                  THEN kind = "revert" /\ ~B[x] ELSE B[x]
  <2>1. x \in 1..Len(d) /\ (x \in Positions(d, t) <=> x \in Positions(es, t))
    BY <1>1
  <2>2. Compensate(d, k, A)[x] =
          IF A[k] /\ kind \in {"revert", "correct"} /\ x \in Positions(d, t)
          THEN kind = "revert" /\ ~A[x] ELSE A[x]
    BY <1>4, <2>1, CompensateAt
  <2>3. Compensate(es, k, B)[x] =
          IF B[k] /\ kind \in {"revert", "correct"} /\ x \in Positions(es, t)
          THEN kind = "revert" /\ ~B[x] ELSE B[x]
    BY <1>1, <1>2, <1>3, CompensateAt
  <2> QED BY <2>1, <2>2, <2>3
<1>6. ASSUME NEW x \in 1..m, x # i PROVE Compensate(d, k, A)[x] = Compensate(es, k, B)[x]
  <2>1. A[x] = B[x]
    BY <1>6 DEF Opposed
  <2> QED BY <1>4, <1>5, <2>1
<1>7. Compensate(d, k, A)[i] = ~Compensate(es, k, B)[i]
  <2>1. A[i] = ~B[i] /\ A[i] \in BOOLEAN /\ B[i] \in BOOLEAN
    BY <1>1 DEF Opposed, Acts
  <2>2. kind = "correct" => i \notin Positions(es, t)
    BY <1>2, <1>3 DEF Suited
  <2> QED BY <1>4, <1>5, <2>1, <2>2
<1> QED BY <1>6, <1>7 DEF Opposed

(* An entry is flipped by later entries alone.                             *)
LEMMA WalkedPast ==
  ASSUME NEW es, Len(es) \in Nat, Backwards(es), NEW i \in 1..Len(es)
  PROVE  Compensated(es)[i] = Walk(es)[i + 1][i]
<1> DEFINE m == Len(es)
           T == {k \in Nat : k <= i => Walk(es)[i + 1 - k][i] = Walk(es)[i + 1][i]}
<1>1. m \in Nat /\ i \in Nat /\ i <= m /\ i >= 1
  OBVIOUS
<1>2. 0 \in T
  BY <1>1
<1>3. ASSUME NEW k \in Nat, k \in T PROVE k + 1 \in T
  <2> SUFFICES ASSUME k + 1 <= i PROVE Walk(es)[i + 1 - (k + 1)][i] = Walk(es)[i + 1][i]
    OBVIOUS
  <2>1. PICK j : j = i - k
    OBVIOUS
  <2>2. j \in 1..m /\ j <= i /\ i + 1 - (k + 1) = j /\ i + 1 - k = j + 1 /\ j + 1 \in 1..(m + 1)
    BY <1>1, <2>1
  <2>3. Walk(es)[j + 1][i] = Walk(es)[i + 1][i]
    BY <1>3, <2>2
  <2>4. Walk(es)[j] = Compensate(es, j, Walk(es)[j + 1]) /\ Walk(es)[j + 1] \in Acts(es)
    BY <1>1, <2>2, WalkIs
  <2>5. PICK A \in Acts(es) : A = Walk(es)[j + 1]
    BY <2>4
  <2>6. es[j].command.kind \in {"revert", "correct"} => i \notin Positions(es, es[j].command.target)
    <3> SUFFICES ASSUME es[j].command.kind \in {"revert", "correct"}, i \in Positions(es, es[j].command.target)
                 PROVE  FALSE
      OBVIOUS
    <3>1. i < j
      BY <2>2 DEF Backwards
    <3> QED BY <1>1, <2>2, <3>1
  <2>7. Compensate(es, j, A)[i] = A[i]
    <3>1. Compensate(es, j, A)[i] =
            IF A[j] /\ es[j].command.kind \in {"revert", "correct"} /\ i \in Positions(es, es[j].command.target)
            THEN es[j].command.kind = "revert" /\ ~A[i] ELSE A[i]
      BY <1>1, <2>2, CompensateAt
    <3> QED BY <2>6, <3>1
  <2> QED BY <2>2, <2>3, <2>4, <2>5, <2>7
<1>4. i \in T
  <2> HIDE DEF T
  <2> QED BY <1>1, <1>2, <1>3, NatsIn
<1>5. i + 1 - i = 1 /\ i <= i
  BY <1>1
<1> QED BY <1>4, <1>5 DEF Compensated

(* The walk over a ledger that ends with the reversal of a reversal, and   *)
(* the walk over the ledger without that reversal.                         *)
LEMMA UndoneWalk ==
  ASSUME NEW es, Ledger(es), Suited(es), NEW e \in Entries, e.command.kind = "revert",
         NEW i \in Positions(es, e.command.target), es[i].command.kind = "revert", Compensated(es)[i],
         NEW R, R = RemoveAt(es, i)
  PROVE  Alike(es, i, Compensated(Append(es, e)), Compensated(R))
<1> DEFINE m == Len(es)
           d == Append(es, e)
           T == {k \in Nat : k <= m - i =>
                   /\ Opposed(es, i, Walk(d)[m + 1 - k], Walk(es)[m + 1 - k])
                   /\ Alike(es, i, Walk(d)[m + 1 - k], Walk(R)[m - k])}
           U == {k \in Nat : k <= i - 1 => Alike(es, i, Walk(d)[i - k], Walk(R)[i - k])}
<1>1. es \in Seq(Entries) /\ m \in Nat /\ i \in 1..m /\ Backwards(es) /\ Unshared(es)
  BY DEF Ledger, Positions
<1>2. /\ Len(d) = m + 1 /\ Len(d) \in Nat /\ d[m + 1] = e /\ (\A x \in 1..m : d[x] = es[x])
      /\ \A t : \A x \in 1..m : x \in Positions(d, t) <=> x \in Positions(es, t)
  BY <1>1, AppendIs, PositionsAppend
<1> HIDE DEF d
<1>3. Extends(es, d) /\ \A x \in 1..m : x \in 1..Len(d)
  BY <1>1, <1>2 DEF Extends
<1>4. R \in Seq(Entries) /\ Len(R) = m - 1 /\ Len(R) \in Nat /\ m - 1 \in Nat
  BY <1>1, RemovedIs
<1>5. \A k \in 1..(m + 1) : Walk(d)[k] = Compensate(d, k, Walk(d)[k + 1]) /\ Walk(d)[k + 1] \in Acts(d)
  <2>1. \A k \in 1..(m + 1) : k \in 1..Len(d) /\ k + 1 \in 1..(Len(d) + 1)
    BY <1>1, <1>2
  <2> QED BY <1>2, <2>1, WalkIs
<1>6. \A k \in 1..m : Walk(es)[k] = Compensate(es, k, Walk(es)[k + 1]) /\ Walk(es)[k + 1] \in Acts(es)
  <2>1. \A k \in 1..m : k + 1 \in 1..(m + 1)
    BY <1>1
  <2> QED BY <1>1, <2>1, WalkIs
<1>7. \A k \in 1..(m - 1) : Walk(R)[k] = Compensate(R, k, Walk(R)[k + 1]) /\ Walk(R)[k + 1] \in Acts(R)
  <2>1. \A k \in 1..(m - 1) : k \in 1..Len(R) /\ k + 1 \in 1..(Len(R) + 1)
    BY <1>4
  <2> QED BY <1>4, <2>1, WalkIs
<1>8. 0 \in T
  <2>1. PICK k : k = m + 1
    OBVIOUS
  <2>2. k \in 1..Len(d) /\ Len(d) = k /\ d[k] = e /\ k \in 1..(m + 1)
    BY <1>1, <1>2, <2>1
  <2>3. PICK A \in Acts(d) : A = Walk(d)[k + 1]
    BY <1>5, <2>2
  <2>4. \A x \in 1..Len(d) : A[x] = TRUE
    BY <1>2, <2>2, <2>3, WalkIs
  <2>5. Walk(d)[k] = Compensate(d, k, A)
    BY <1>5, <2>2, <2>3
  <2>6. ASSUME NEW x \in 1..m PROVE Walk(d)[k][x] = (x # i)
    <3>1. Compensate(d, k, A)[x] =
            IF A[k] /\ d[k].command.kind \in {"revert", "correct"} /\ x \in Positions(d, d[k].command.target)
            THEN d[k].command.kind = "revert" /\ ~A[x] ELSE A[x]
      <4>1. Len(d) \in Nat /\ x \in 1..Len(d)
        BY <1>2, <1>3
      <4> HIDE DEF m, T, U
      <4> QED BY <2>2, <4>1, CompensateAt
    <3>2. x \in Positions(d, d[k].command.target) <=> x = i
      <4>1. x \in Positions(es, e.command.target) <=> x = i
        BY <1>1 DEF Unshared, Positions
      <4> QED BY <1>2, <2>2, <4>1
    <3> QED BY <1>3, <2>2, <2>4, <2>5, <3>1, <3>2
  <2>7. \A x \in 1..m : Walk(es)[m + 1][x] = TRUE
    BY <1>1, WalkIs
  <2>8. \A x \in 1..m : x # i => Walk(R)[m][Shift(i, x)] = TRUE
    <3>1. Walk(R)[m] = [x \in 1..Len(R) |-> TRUE]
      <4>1. Len(R) + 1 = m
        BY <1>1, <1>4
      <4> QED BY <1>4, <4>1, WalkIs
    <3>2. \A x \in 1..m : x # i => Shift(i, x) \in 1..Len(R)
      BY <1>1, <1>4, ShiftIs
    <3> QED BY <3>1, <3>2
  <2>9. Opposed(es, i, Walk(d)[m + 1], Walk(es)[m + 1]) /\ Alike(es, i, Walk(d)[m + 1], Walk(R)[m])
    BY <1>1, <2>1, <2>6, <2>7, <2>8 DEF Opposed, Alike
  <2>10. m + 1 - 0 = m + 1 /\ m - 0 = m
    BY <1>1
  <2> QED BY <2>9, <2>10
<1>9. ASSUME NEW k \in Nat, k \in T PROVE k + 1 \in T
  <2> SUFFICES ASSUME k + 1 <= m - i
               PROVE  /\ Opposed(es, i, Walk(d)[m + 1 - (k + 1)], Walk(es)[m + 1 - (k + 1)])
                      /\ Alike(es, i, Walk(d)[m + 1 - (k + 1)], Walk(R)[m - (k + 1)])
    OBVIOUS
  <2>1. PICK j : j = m - k
    OBVIOUS
  <2>2. PICK q : q = j - 1
    OBVIOUS
  <2>3. /\ j \in 1..m /\ j \in 1..(m + 1) /\ j > i /\ m + 1 - (k + 1) = j /\ m + 1 - k = j + 1
        /\ m - k = j /\ m - (k + 1) = q /\ q \in 1..(m - 1) /\ q + 1 = j /\ k <= m - i
    BY <1>1, <2>1, <2>2
  <2>4. j # i /\ Shift(i, j) = q
    BY <1>1, <2>2, <2>3 DEF Shift
  <2>5. Opposed(es, i, Walk(d)[j + 1], Walk(es)[j + 1]) /\ Alike(es, i, Walk(d)[j + 1], Walk(R)[j])
    BY <1>9, <2>3
  <2>6. PICK A \in Acts(d) : A = Walk(d)[j + 1] /\ Walk(d)[j] = Compensate(d, j, A)
    BY <1>5, <2>3
  <2>7. PICK B \in Acts(es) : B = Walk(es)[j + 1] /\ Walk(es)[j] = Compensate(es, j, B)
    BY <1>6, <2>3
  <2>8. PICK C \in Acts(R) : C = Walk(R)[j] /\ Walk(R)[q] = Compensate(R, q, C)
    BY <1>7, <2>3
  <2>9. Opposed(es, i, Compensate(d, j, A), Compensate(es, j, B))
    BY <1>1, <1>2, <1>3, <2>3, <2>4, <2>5, <2>6, <2>7, StepOpposed
  <2>10. Alike(es, i, Compensate(d, j, A), Compensate(R, Shift(i, j), C))
    BY <1>1, <1>2, <1>3, <2>3, <2>4, <2>5, <2>6, <2>8, StepAlike
  <2> QED BY <2>3, <2>4, <2>6, <2>7, <2>8, <2>9, <2>10
<1>10. m - i \in T
  <2>1. m - i \in Nat
    BY <1>1
  <2> HIDE DEF T
  <2> QED BY <1>8, <1>9, <2>1, NatsIn
<1>11. Opposed(es, i, Walk(d)[i + 1], Walk(es)[i + 1]) /\ Alike(es, i, Walk(d)[i + 1], Walk(R)[i])
  <2>1. m + 1 - (m - i) = i + 1 /\ m - (m - i) = i /\ m - i <= m - i
    BY <1>1
  <2> QED BY <1>10, <2>1
<1>12. Walk(d)[i] = Walk(d)[i + 1]
  <2>1. i \in 1..(m + 1) /\ i \in 1..Len(d)
    BY <1>1, <1>3
  <2>2. PICK A \in Acts(d) : A = Walk(d)[i + 1] /\ Walk(d)[i] = Compensate(d, i, A)
    BY <1>5, <2>1
  <2>3. Walk(es)[i + 1][i]
    BY <1>1, WalkedPast
  <2>4. ~A[i]
    BY <1>11, <2>2, <2>3 DEF Opposed
  <2> QED BY <1>2, <2>1, <2>2, <2>4, CompensateIs
<1>13. 0 \in U
  <2>1. i - 0 = i
    BY <1>1
  <2> QED BY <1>11, <1>12, <2>1
<1>14. ASSUME NEW k \in Nat, k \in U PROVE k + 1 \in U
  <2> SUFFICES ASSUME k + 1 <= i - 1 PROVE Alike(es, i, Walk(d)[i - (k + 1)], Walk(R)[i - (k + 1)])
    OBVIOUS
  <2>1. PICK j : j = i - (k + 1)
    OBVIOUS
  <2>2. /\ j \in 1..m /\ j \in 1..(m + 1) /\ j \in 1..(m - 1) /\ j < i /\ i - k = j + 1 /\ k <= i - 1
    BY <1>1, <2>1
  <2>3. j # i /\ Shift(i, j) = j
    BY <1>1, <2>2 DEF Shift
  <2>4. Alike(es, i, Walk(d)[j + 1], Walk(R)[j + 1])
    BY <1>14, <2>2
  <2>5. PICK A \in Acts(d) : A = Walk(d)[j + 1] /\ Walk(d)[j] = Compensate(d, j, A)
    BY <1>5, <2>2
  <2>6. PICK C \in Acts(R) : C = Walk(R)[j + 1] /\ Walk(R)[j] = Compensate(R, j, C)
    BY <1>7, <2>2
  <2>7. Alike(es, i, Compensate(d, j, A), Compensate(R, Shift(i, j), C))
    BY <1>1, <1>2, <1>3, <2>2, <2>3, <2>4, <2>5, <2>6, StepAlike
  <2> QED BY <2>1, <2>3, <2>5, <2>6, <2>7
<1>15. i - 1 \in U
  <2>1. i - 1 \in Nat
    BY <1>1
  <2> HIDE DEF U
  <2> QED BY <1>13, <1>14, <2>1, NatsIn
<1>16. i - (i - 1) = 1 /\ i - 1 <= i - 1
  BY <1>1
<1>17. Alike(es, i, Walk(d)[1], Walk(R)[1])
  BY <1>15, <1>16
<1> QED BY <1>17 DEF Compensated, d

LEMMA RestoreAlike ==
  ASSUME NEW d, NEW es \in Seq(Entries), Suited(es), Extends(es, d), Len(d) \in Nat,
         \A t : \A x \in 1..Len(es) : x \in Positions(d, t) <=> x \in Positions(es, t),
         NEW i \in 1..Len(es), es[i].command.kind = "revert", NEW R, R = RemoveAt(es, i),
         NEW k \in 1..Len(es), k # i,
         NEW A \in Acts(d), NEW C \in Acts(R), Alike(es, i, A, C)
  PROVE  Alike(es, i, Restores(d, k, A), Restores(R, Shift(i, k), C))
<1> DEFINE m == Len(es)
<1>1. /\ R \in Seq(Entries) /\ Len(R) = m - 1 /\ Len(R) \in Nat /\ m \in Nat
      /\ \A x \in 1..m : x # i => R[Shift(i, x)] = es[x]
  BY EntriesRemoved
<1>2. \A x \in 1..m : x # i => Shift(i, x) \in 1..Len(R)
  BY <1>1, ShiftIs
<1>3. \A x \in 1..m : x \in 1..Len(d) /\ d[x] = es[x]
  BY <1>1 DEF Extends
<1>4. PICK q : q = Shift(i, k)
  OBVIOUS
<1>5. q \in 1..Len(R) /\ R[q] = es[k] /\ d[k] = es[k] /\ A[k] = C[q] /\ k \in 1..Len(d)
  BY <1>1, <1>2, <1>3, <1>4 DEF Alike
<1>6. PICK t : t = es[k].command.target
  OBVIOUS
<1>7. PICK kind : kind = es[k].command.kind
  OBVIOUS
<1>8. d[k].command.target = t /\ d[k].command.kind = kind /\ R[q].command.target = t /\ R[q].command.kind = kind
  BY <1>5, <1>6, <1>7
<1>9. kind = "restore" => i \notin Positions(es, t)
  BY <1>6, <1>7 DEF Suited, Live
<1>10. ASSUME NEW x \in 1..m, x # i PROVE Restores(d, k, A)[x] = Restores(R, q, C)[Shift(i, x)]
  <2>1. PICK y : y = Shift(i, x)
    OBVIOUS
  <2>2. y \in 1..Len(R) /\ A[x] = C[y] /\ x \in 1..Len(d) /\ R[y] = es[x] /\ d[x] = es[x]
    BY <1>1, <1>2, <1>3, <1>10, <2>1 DEF Alike
  <2>3. x < k <=> y < q
    BY <1>1, <1>4, <1>10, <2>1, ShiftIs
  <2>4. ASSUME kind = "restore"
        PROVE  (\E c \in Positions(d, t) : c < x) <=> (\E c \in Positions(R, t) : c < y)
    <3>1. ASSUME NEW c \in Positions(d, t), c < x PROVE \E b \in Positions(R, t) : b < y
      <4>1. c \in 1..m
        BY <1>1, <3>1 DEF Positions
      <4>2. c \in Positions(es, t) /\ c # i
        BY <1>9, <2>4, <4>1
      <4>3. Shift(i, c) \in Positions(R, t)
        BY <4>1, <4>2, PositionsRemoved
      <4>4. Shift(i, c) < y
        BY <1>1, <1>10, <2>1, <3>1, <4>1, <4>2, ShiftIs
      <4> QED BY <4>3, <4>4
    <3>2. ASSUME NEW c \in Positions(R, t), c < y PROVE \E b \in Positions(d, t) : b < x
      <4>1. c \in 1..(m - 1)
        BY <1>1 DEF Positions
      <4>2. PICK b \in 1..m : b # i /\ Shift(i, b) = c
        <5>1. \A y1 \in 1..(m - 1) : \E x1 \in 1..m : x1 # i /\ Shift(i, x1) = y1
          <6>1. m \in Nat /\ i \in 1..m
            BY <1>1
          <6> HIDE DEF m
          <6> QED BY <6>1, ShiftIs
        <5> QED BY <4>1, <5>1
      <4>3. b \in Positions(es, t)
        BY <3>2, <4>2, PositionsRemoved
      <4>4. b < x
        BY <1>1, <1>10, <2>1, <3>2, <4>2, ShiftIs
      <4> QED BY <4>3, <4>4
    <3> QED BY <3>1, <3>2
  <2>5. Restores(d, k, A)[x] =
          (A[x] /\ ~( kind = "restore" /\ A[k] /\ es[x].command.kind \in Live /\ x < k
                      /\ \E c \in Positions(d, t) : c < x))
    <3>1. Restores(d, k, A)[x] =
            (A[x] /\ ~( d[k].command.kind = "restore" /\ A[k] /\ d[x].command.kind \in Live /\ x < k
                        /\ \E c \in Positions(d, d[k].command.target) : c < x))
      BY <1>5, <2>2, RestoresIs
    <3> QED BY <1>8, <2>2, <3>1
  <2>6. Restores(R, q, C)[y] =
          (C[y] /\ ~( kind = "restore" /\ C[q] /\ es[x].command.kind \in Live /\ y < q
                      /\ \E c \in Positions(R, t) : c < y))
    <3>1. Len(R) \in Nat /\ q \in 1..Len(R) /\ C \in Acts(R) /\ y \in 1..Len(R)
      BY <1>1, <1>5, <2>2
    <3>2. Restores(R, q, C)[y] =
            (C[y] /\ ~( R[q].command.kind = "restore" /\ C[q] /\ R[y].command.kind \in Live /\ y < q
                        /\ \E c \in Positions(R, R[q].command.target) : c < y))
      BY <3>1, RestoresIs
    <3> QED BY <1>8, <2>2, <3>2
  <2>7. Restores(d, k, A)[x] = Restores(R, q, C)[y]
    <3>1. CASE kind = "restore"
      <4> DEFINE P == \E c \in Positions(d, t) : c < x
                 Q == \E c \in Positions(R, t) : c < y
      <4>1. P <=> Q
        BY <2>4, <3>1
      <4>2. Restores(d, k, A)[x] =
              (A[x] /\ ~(kind = "restore" /\ A[k] /\ es[x].command.kind \in Live /\ x < k /\ P))
        BY <2>5
      <4>3. Restores(R, q, C)[y] =
              (C[y] /\ ~(kind = "restore" /\ C[q] /\ es[x].command.kind \in Live /\ y < q /\ Q))
        BY <2>6
      <4> HIDE DEF P, Q
      <4> QED BY <1>5, <2>2, <2>3, <4>1, <4>2, <4>3
    <3>2. CASE kind # "restore"
      <4>1. Restores(d, k, A) = A
        BY <1>5, <1>8, <3>2, RestoresIs
      <4>2. Restores(R, q, C) = C
        <5>1. Len(R) \in Nat /\ q \in 1..Len(R) /\ C \in Acts(R) /\ R[q].command.kind # "restore"
          BY <1>1, <1>5, <1>8, <3>2
        <5> HIDE DEF m
        <5> QED BY <5>1, RestoresIs
      <4> QED BY <2>2, <4>1, <4>2
    <3> QED BY <3>1, <3>2
  <2> QED BY <2>1, <2>7
<1> QED BY <1>4, <1>10 DEF Alike

(* So what is in force is what it is without either.                       *)
LEMMA UndoneIs ==
  ASSUME NEW es, Ledger(es), Suited(es), NEW e \in Entries, e.command.kind = "revert",
         NEW i \in Positions(es, e.command.target), es[i].command.kind = "revert", ReplayFull(es)[i],
         NEW R, R = RemoveAt(es, i)
  PROVE  Alike(es, i, ReplayFull(Append(es, e)), ReplayFull(R))
<1> DEFINE m == Len(es)
           d == Append(es, e)
           A == Compensated(d)
           C == Compensated(R)
           T == {k \in Nat : k <= m => Alike(es, i, Asides(d, A)[k], Asides(R, C)[Shift(i, k)])}
<1>1. es \in Seq(Entries) /\ m \in Nat /\ i \in 1..m /\ i \in Nat
  BY DEF Ledger, Positions
<1>2. Compensated(es)[i]
  BY <1>1, NotLive DEF Live
<1>3. Alike(es, i, A, C)
  BY <1>2, UndoneWalk
<1>4. /\ Len(d) = m + 1 /\ Len(d) \in Nat /\ d[m + 1] = e /\ (\A x \in 1..m : d[x] = es[x])
      /\ \A t : \A x \in 1..m : x \in Positions(d, t) <=> x \in Positions(es, t)
  BY <1>1, AppendIs, PositionsAppend
<1> HIDE DEF d
<1>5. Extends(es, d) /\ \A x \in 1..m : x \in 1..Len(d)
  BY <1>1, <1>4 DEF Extends
<1>6. R \in Seq(Entries) /\ Len(R) = m - 1 /\ Len(R) \in Nat /\ m - 1 \in Nat
  BY <1>1, RemovedIs
<1>7. A \in Acts(d) /\ C \in Acts(R)
  BY <1>4, <1>6, ReplayTyped
<1> HIDE DEF A, C
<1>8. Asides(d, A)[0] = A /\ \A k \in 1..(m + 1) : Asides(d, A)[k] = Restores(d, k, Asides(d, A)[k - 1])
                                                /\ Asides(d, A)[k - 1] \in Acts(d)
  <2>1. \A k \in 1..(m + 1) : k \in 1..Len(d) /\ k - 1 \in 0..Len(d)
    BY <1>1, <1>4
  <2>2. /\ Asides(d, A) \in [0..Len(d) -> Acts(d)] /\ Asides(d, A)[0] = A
        /\ \A k \in 1..Len(d) : Asides(d, A)[k] = Restores(d, k, Asides(d, A)[k - 1])
    BY <1>4, <1>7, AsidesIs
  <2> QED BY <2>1, <2>2
<1>9. Asides(R, C)[0] = C /\ \A k \in 1..(m - 1) : Asides(R, C)[k] = Restores(R, k, Asides(R, C)[k - 1])
                                                /\ Asides(R, C)[k - 1] \in Acts(R)
  <2>1. \A k \in 1..(m - 1) : k \in 1..Len(R) /\ k - 1 \in 0..Len(R)
    BY <1>6
  <2>2. /\ Asides(R, C) \in [0..Len(R) -> Acts(R)] /\ Asides(R, C)[0] = C
        /\ \A k \in 1..Len(R) : Asides(R, C)[k] = Restores(R, k, Asides(R, C)[k - 1])
    <3>1. Len(R) \in Nat /\ C \in Acts(R)
      BY <1>6, <1>7
    <3> HIDE DEF m, T
    <3> QED BY <3>1, AsidesIs
  <2> QED BY <2>1, <2>2
<1>10. 0 \in T
  <2>1. Shift(i, 0) = 0
    BY <1>1 DEF Shift
  <2> QED BY <1>3, <1>8, <1>9, <2>1
<1>11. ASSUME NEW k \in Nat, k \in T PROVE k + 1 \in T
  <2> SUFFICES ASSUME k + 1 <= m PROVE Alike(es, i, Asides(d, A)[k + 1], Asides(R, C)[Shift(i, k + 1)])
    OBVIOUS
  <2>1. PICK j : j = k + 1
    OBVIOUS
  <2>2. j \in 1..m /\ j \in 1..(m + 1) /\ j - 1 = k /\ k <= m
    BY <1>1, <2>1
  <2>3. PICK q : q = Shift(i, j)
    OBVIOUS
  <2>4. PICK D \in Acts(d) : D = Asides(d, A)[k] /\ Asides(d, A)[j] = Restores(d, j, D)
    BY <1>8, <2>2
  <2>5. Alike(es, i, D, Asides(R, C)[Shift(i, k)])
    BY <1>11, <2>2, <2>4
  <2>6. CASE j = i
    <3>1. Shift(i, j) = Shift(i, k)
      BY <1>1, <2>2, <2>6 DEF Shift
    <3>2. d[j].command.kind = "revert" /\ j \in 1..Len(d)
      BY <1>4, <1>5, <2>2, <2>6
    <3>3. Restores(d, j, D) = D
      <4>1. Len(d) \in Nat /\ d[j].command.kind # "restore"
        BY <1>4, <3>2
      <4> HIDE DEF m, T
      <4> QED BY <3>2, <4>1, RestoresIs
    <3> QED BY <2>1, <2>4, <2>5, <3>1, <3>3
  <2>7. CASE j # i
    <3>1. q \in 1..(m - 1)
      BY <1>1, <2>2, <2>3, <2>7, ShiftIs
    <3>2. Shift(i, k) = q - 1
      BY <1>1, <2>2, <2>3, <2>7 DEF Shift
    <3>3. PICK F \in Acts(R) : F = Asides(R, C)[q - 1] /\ Asides(R, C)[q] = Restores(R, q, F)
      BY <1>9, <3>1
    <3>4. Alike(es, i, D, F)
      BY <2>5, <3>2, <3>3
    <3>5. Alike(es, i, Restores(d, j, D), Restores(R, Shift(i, j), F))
      BY <1>1, <1>4, <1>5, <2>2, <2>7, <3>4, RestoreAlike
    <3> QED BY <2>1, <2>3, <2>4, <3>3, <3>5
  <2> QED BY <2>6, <2>7
<1>12. m \in T
  <2> HIDE DEF T
  <2> QED BY <1>1, <1>10, <1>11, NatsIn
<1>13. Alike(es, i, Asides(d, A)[m], Asides(R, C)[m - 1])
  <2>1. Shift(i, m) = m - 1 /\ m <= m
    BY <1>1 DEF Shift
  <2> QED BY <1>12, <2>1
<1>14. Asides(d, A)[Len(d)] = Asides(d, A)[m]
  <2>1. PICK j : j = m + 1
    OBVIOUS
  <2>2. j \in 1..(m + 1) /\ j - 1 = m /\ j \in 1..Len(d) /\ d[j].command.kind = "revert" /\ Len(d) = j
    BY <1>1, <1>4, <2>1
  <2>3. PICK D \in Acts(d) : D = Asides(d, A)[m] /\ Asides(d, A)[j] = Restores(d, j, D)
    BY <1>8, <2>2
  <2>4. Restores(d, j, D) = D
    BY <1>4, <2>2, RestoresIs
  <2> QED BY <2>2, <2>3, <2>4
<1>15. ReplayFull(d) = Asides(d, A)[m] /\ ReplayFull(R) = Asides(R, C)[m - 1]
  BY <1>6, <1>14 DEF ReplayFull, SetAside, A, C
<1> QED BY <1>13, <1>15 DEF d

LEMMA SuitedBefore ==
  ASSUME NEW es \in Seq(Entries), Suited(es), NEW b \in 0..Len(es)
  PROVE  Suited(Before(es, b))
<1>1. /\ Len(Before(es, b)) = b /\ \A i \in 1..b : Before(es, b)[i] = es[i]
      /\ \A t : Positions(Before(es, b), t) = {i \in Positions(es, t) : i <= b}
  BY CutIs
<1>2. \A i \in 1..b : i \in 1..Len(es)
  OBVIOUS
<1>3. \A t : \A p \in Positions(Before(es, b), t) : p \in Positions(es, t) /\ Before(es, b)[p] = es[p]
  BY <1>1 DEF Positions
<1> QED BY <1>1, <1>2, <1>3 DEF Suited

LEMMA BeforeLast ==
  ASSUME NEW X, NEW es \in Seq(X), NEW n \in 1..Len(es)
  PROVE  Before(es, n) = Append(Before(es, n - 1), es[n])
<1>1. n - 1 \in 0..Len(es) /\ n \in 1..n /\ 1 \in 1..Len(es) /\ n \in 1..Len(es)
  OBVIOUS
<1>2. Before(es, n - 1) \in Seq(X) /\ es[n] \in X
  BY <1>1, CutIs
<1>3. Before(es, n) = Before(es, n - 1) \o <<es[n]>>
  BY <1>1, SubSeqRecursiveSecond DEF Before
<1> QED BY <1>2, <1>3, AppendIs

(* Reversing a reversal that is in force leaves every other entry as it    *)
(* would be had neither been recorded (commissioner.Replay walks back from *)
(* the end, and puts restored picks back after it).                        *)
THEOREM ReversalsLeaveNoTrace == Spec => []ReversalsUndone
<1>1. IInv /\ OrderlyState => ReversalsUndone
  <2> SUFFICES ASSUME Ledger(rows), Suited(rows), NEW n \in 1..Len(rows),
                      NEW i \in Positions(Prefix(n - 1), rows[n].command.target),
                      rows[n].command.kind = "revert", rows[i].command.kind = "revert",
                      ReplayFull(Prefix(n - 1))[i],
                      NEW x \in 1..(n - 1) \ {i}
               PROVE  ReplayFull(Prefix(n))[x] =
                        ReplayFull(RemoveAt(Prefix(n - 1), i))[IF x < i THEN x ELSE x - 1]
    BY Zenon DEF IInv, OrderlyState, Orderly, ReversalsUndone
  <2> DEFINE es == Before(rows, n - 1)
             e == rows[n]
             R == RemoveAt(es, i)
  <2>1. rows \in Seq(Entries) /\ n - 1 \in 0..Len(rows) /\ n \in 1..Len(rows) /\ e \in Entries
    BY DEF Ledger
  <2>2. Prefix(n - 1) = es /\ Prefix(n) = Before(rows, n)
    BY DEF Prefix, Before
  <2>3. Before(rows, n) = Append(es, e)
    BY <2>1, BeforeLast
  <2>4. Ledger(es) /\ Suited(es)
    BY <2>1, LedgerBefore, SuitedBefore
  <2>5. Len(es) = n - 1 /\ \A y \in 1..(n - 1) : es[y] = rows[y]
    <3>1. PICK b \in 0..Len(rows) : b = n - 1
      BY <2>1
    <3>2. Len(Before(rows, b)) = b /\ \A y \in 1..b : Before(rows, b)[y] = rows[y]
      BY <2>1, CutIs
    <3> QED BY <3>1, <3>2
  <2>6. i \in Positions(es, e.command.target) /\ ReplayFull(es)[i]
    BY <2>2
  <2>7. e.command.kind = "revert"
    OBVIOUS
  <2> HIDE DEF es, e, R
  <2>8. i \in 1..(n - 1)
    BY <2>5, <2>6 DEF Positions
  <2>9. es[i].command.kind = "revert"
    BY <2>5, <2>8
  <2>10. Alike(es, i, ReplayFull(Append(es, e)), ReplayFull(R))
    BY <2>1, <2>4, <2>6, <2>7, <2>9, UndoneIs DEF R
  <2>11. ReplayFull(Append(es, e))[x] = ReplayFull(R)[Shift(i, x)]
    BY <2>5, <2>10 DEF Alike
  <2> QED BY <2>2, <2>3, <2>11 DEF Shift, R
<1> QED BY <1>1, LedgerHolds, OrderlyHolds, PTL
=============================================================================
