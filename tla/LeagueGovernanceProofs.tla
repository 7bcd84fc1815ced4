----------------------- MODULE LeagueGovernanceProofs -----------------------
(***************************************************************************)
(* Proofs about LeagueGovernance for any people and any bounds: the        *)
(* conjunction of the checked invariants is inductive, and a league that   *)
(* has somebody who leads it, or who may open the election it needs, stays *)
(* so but for the two ways out that StaysGoverned names.                   *)
(***************************************************************************)
EXTENDS LeagueGovernance, FiniteSetTheorems, WellFoundedInduction, TLAPS

Leadership == SuccessionConsistent /\ DeputiesInOrder
Seats == OneSeatEach /\ FranchisesAccounted

FranchisesTyped ==
  /\ teams \in 0..MaxTeams
  /\ seat \in [Franchise -> Principal \cup {None}]
  /\ caretaker \in [Franchise -> Principal \cup {None}]
  /\ invites \in Seq(Invite) /\ Len(invites) <= MaxInvites
  /\ seatings \in 0..MaxSeatings
RolesTyped ==
  /\ roles \in [Principal -> SUBSET Role]
  /\ deputies \in Seq(Principal)
  /\ pending \in Principal \cup {None}
  /\ outgoing \in Principal \cup {None}
  /\ grants \in 0..MaxGrants
VotesTyped ==
  /\ vote \in Vote \cup {None}
  /\ votes \in 0..MaxVotes
  /\ elected \subseteq [vote : 0..MaxVotes, from : Principal, to : Principal]
ActivityTyped == seen \subseteq Watched /\ quiet \subseteq seen

IInv == TypeOK /\ Leadership /\ Seats

(* A set of numbers has a smallest one. *)
LEMMA Smallest ==
  ASSUME NEW S, S \subseteq Nat, S # {}
  PROVE  \E j \in S : \A k \in S : j <= k
<1>1. PICK j \in S : \A k \in S : ~ (<<k, j>> \in OpToRel(<, Nat))
  BY NatLessThanWellFounded, WFMin, Zenon
<1>2. \A k \in S : ~ (k < j)
  BY <1>1 DEF OpToRel
<1> QED
  BY <1>2

(* The deputy found first is listed, is one by the roles, and is not       *)
(* excluded.                                                               *)
LEMMA FirstDeputyIsOne ==
  ASSUME deputies \in Seq(Principal), NEW r, NEW i \in Nat, NEW excluded,
         FirstDeputy(r, i, excluded) # None
  PROVE  /\ FirstDeputy(r, i, excluded) \in Listed
         /\ FirstDeputy(r, i, excluded) \notin excluded
         /\ "CoCommissioner" \in r[FirstDeputy(r, i, excluded)]
<1> DEFINE able == {j \in DOMAIN deputies : /\ j > i
                                            /\ deputies[j] \notin excluded
                                            /\ "CoCommissioner" \in r[deputies[j]]}
           first == CHOOSE j \in able : \A k \in able : j <= k
<1>1. able # {} /\ FirstDeputy(r, i, excluded) = deputies[first]
  BY DEF FirstDeputy
<1>2. able \subseteq Nat
  OBVIOUS
<1>3. \E j \in able : \A k \in able : j <= k
  <2> HIDE DEF able
  <2> QED
    BY <1>1, <1>2, Smallest
<1>4. first \in able
  BY <1>3
<1> QED
  BY <1>1, <1>4 DEF Listed

(* The order of succession is made of people. *)
LEMMA ListedArePeople ==
  ASSUME deputies \in Seq(Principal)
  PROVE  Listed \subseteq Principal
BY DEF Listed

(* A listed person is found at its position, counted from 1. *)
LEMMA PositionIsNatural ==
  ASSUME deputies \in Seq(Principal), NEW p
  PROVE  /\ Position(p) \in Nat
         /\ p \in Listed => Position(p) \in DOMAIN deputies /\ deputies[Position(p)] = p
BY DEF Position, Listed

(* Deleting a person from the order keeps the others, each once. *)
LEMMA WithoutDeletes ==
  ASSUME deputies \in Seq(Principal), NEW q,
         \A i, j \in DOMAIN deputies : deputies[i] = deputies[j] => i = j
  PROVE  /\ Without(q) \in Seq(Principal)
         /\ {Without(q)[i] : i \in DOMAIN Without(q)} = Listed \ {q}
         /\ \A i, j \in DOMAIN Without(q) : Without(q)[i] = Without(q)[j] => i = j
<1> DEFINE at == Position(q)
           n == Len(deputies)
           w == Without(q)
<1>0. n \in Nat /\ DOMAIN deputies = 1..n /\ \A i \in 1..n : deputies[i] \in Principal
  OBVIOUS
<1>1. CASE q \notin Listed
  <2>1. w = [i \in 1..n |-> deputies[i]]
    BY <1>1 DEF Without
  <2>2. w = deputies
    BY <2>1, <1>0
  <2> QED
    BY <2>2, <1>1 DEF Listed
<1>2. CASE q \in Listed
  <2>1. at \in 1..n /\ deputies[at] = q
    BY <1>2, <1>0, PositionIsNatural
  <2>2. w = [i \in 1..(n - 1) |-> IF i >= at THEN deputies[i + 1] ELSE deputies[i]]
    BY <1>2 DEF Without
  <2> HIDE DEF at, w
  <2>3. n - 1 \in Nat /\ DOMAIN w = 1..(n - 1)
    BY <2>1, <2>2, <1>0
  <2>4. \A i \in 1..(n - 1) : w[i] \in Principal
    BY <2>1, <2>2, <1>0
  <2>5. w \in Seq(Principal)
    BY <2>2, <2>3, <2>4
  <2>6. \A i \in 1..(n - 1) : w[i] \in Listed /\ w[i] # q
    BY <2>1, <2>2, <1>0 DEF Listed
  <2>7. ASSUME NEW p \in Listed, p # q PROVE \E i \in 1..(n - 1) : w[i] = p
    <3>1. PICK k \in 1..n : deputies[k] = p
      BY <1>0 DEF Listed
    <3>2. CASE k < at
      <4>1. k \in 1..(n - 1) /\ w[k] = p
        BY <3>1, <3>2, <2>1, <2>2, <1>0
      <4> QED
        BY <4>1
    <3>3. CASE k > at
      <4>1. k - 1 \in 1..(n - 1) /\ w[k - 1] = p
        BY <3>1, <3>3, <2>1, <2>2, <1>0
      <4> QED
        BY <4>1
    <3> QED
      BY <3>1, <3>2, <3>3, <2>1, <2>7
  <2>8. ASSUME NEW i \in 1..(n - 1), NEW j \in 1..(n - 1), w[i] = w[j] PROVE i = j
    <3>1. \A a, b \in 1..n : deputies[a] = deputies[b] => a = b
      BY <1>0
    <3> DEFINE a == IF i >= at THEN i + 1 ELSE i
               b == IF j >= at THEN j + 1 ELSE j
    <3>2. a \in 1..n /\ b \in 1..n /\ w[i] = deputies[a] /\ w[j] = deputies[b]
      BY <2>1, <2>2, <1>0
    <3>3. a = b
      BY <3>1, <3>2, <2>8
    <3> QED
      BY <3>3, <2>1, <1>0
  <2>9. {w[i] : i \in DOMAIN w} = Listed \ {q}
    BY <2>3, <2>6, <2>7
  <2> QED
    BY <2>3, <2>5, <2>8, <2>9 DEF w
<1> QED
  BY <1>1, <1>2

(* Another order without repetitions lists the same people. *)
LEMMA ReorderingKeepsPeople ==
  ASSUME deputies \in Seq(Principal),
         \A i, j \in DOMAIN deputies : deputies[i] = deputies[j] => i = j,
         NEW order \in [DOMAIN deputies -> Listed],
         \A i, j \in DOMAIN deputies : order[i] = order[j] => i = j
  PROVE  /\ order \in Seq(Principal) /\ DOMAIN order = DOMAIN deputies
         /\ {order[i] : i \in DOMAIN order} = Listed
<1> DEFINE D == 1..Len(deputies)
<1>1. DOMAIN deputies = D /\ Len(deputies) \in Nat
  OBVIOUS
<1>2. IsFiniteSet(D)
  BY <1>1, FS_Interval
<1>a. deputies \in [D -> Listed] /\ \A p \in Listed : \E i \in D : deputies[i] = p
  BY <1>1 DEF Listed
<1>b. order \in [D -> Listed] /\ \A i, j \in D : order[i] = order[j] => i = j
  BY <1>1
<1>c. \A i, j \in D : deputies[i] = deputies[j] => i = j
  BY <1>1
<1> HIDE DEF D
<1>3. deputies \in Injection(D, Listed) /\ deputies \in Surjection(D, Listed)
  BY <1>a, <1>c DEF Injection, Surjection, IsInjective
<1>4. order \in Injection(D, Listed)
  BY <1>b DEF Injection, IsInjective
<1>5. IsFiniteSet(Listed) /\ Cardinality(Listed) = Cardinality(D)
  BY <1>2, <1>3, FS_Surjection
<1>6. order \in Surjection(D, Listed)
  BY <1>4, <1>5, FS_Injection
<1>7. \A p \in Listed : \E i \in D : order[i] = p
  BY <1>6 DEF Surjection
<1>8. order \in Seq(Principal)
  BY <1>1, ListedArePeople
<1> QED
  BY <1>1, <1>7, <1>8


-----------------------------------------------------------------------------
(* Succession *)

(* Asking the next deputy: the successor is a listed deputy other than the *)
(* one being replaced, and holds the office; or nobody is left.            *)
LEMMA AdvanceIs ==
  ASSUME deputies \in Seq(Principal),
         NEW r \in [Principal -> SUBSET Role],
         NEW out, NEW after, AdvanceSuccession(r, out, after)
  PROVE  /\ roles' \in [Principal -> SUBSET Role]
         /\ \A p \in Principal, role \in {"CoCommissioner", "DOT"} :
              role \in roles'[p] <=> role \in r[p]
         /\ \/ pending' = None /\ roles' = r
            \/ /\ pending' \in Listed /\ pending' \in Principal /\ pending' # out
               /\ "CoCommissioner" \in r[pending']
               /\ "Commissioner" \in roles'[pending']
               /\ \A p \in Principal : p # pending' => roles'[p] = r[p]
<1> DEFINE next == FirstDeputy(r, Position(after), {out})
<1>1. Position(after) \in Nat
  BY PositionIsNatural
<1>2. pending' = next /\ roles' = IF next = None THEN r ELSE With(r, next, "Commissioner")
  BY DEF AdvanceSuccession
<1>3. CASE next = None
  BY <1>2, <1>3
<1>4. CASE next # None
  <2>1. next \in Listed /\ next # out /\ "CoCommissioner" \in r[next]
    BY <1>1, <1>4, FirstDeputyIsOne
  <2>2. next \in Principal
    BY <2>1, ListedArePeople
  <2> HIDE DEF next
  <2>3. roles' = [r EXCEPT ![next] = @ \cup {"Commissioner"}]
    BY <1>2, <1>4 DEF With
  <2>4. roles' \in [Principal -> SUBSET Role]
    BY <2>2, <2>3 DEF Role
  <2> QED
    BY <1>2, <2>1, <2>2, <2>3, <2>4
<1> QED
  BY <1>3, <1>4

(* Taking a role away changes that person's roles only. *)
LEMMA LessIs ==
  ASSUME NEW r \in [Principal -> SUBSET Role], NEW p \in Principal, NEW role
  PROVE  /\ Less(r, p, role) \in [Principal -> SUBSET Role]
         /\ Less(r, p, role)[p] = r[p] \ {role}
         /\ \A q \in Principal : q # p => Less(r, p, role)[q] = r[q]
BY DEF Less

(* Giving a role changes that person's roles only. *)
LEMMA WithIs ==
  ASSUME NEW r \in [Principal -> SUBSET Role], NEW p \in Principal, NEW role \in Role
  PROVE  /\ With(r, p, role) \in [Principal -> SUBSET Role]
         /\ With(r, p, role)[p] = r[p] \cup {role}
         /\ \A q \in Principal : q # p => With(r, p, role)[q] = r[q]
BY DEF With

(* What a step owes to Leadership when the order of deputies is the same   *)
(* and nobody's deputy role changes: a pending deputy is a listed one      *)
(* other than the outgoing, and somebody leads meanwhile.                  *)
LEMMA LeadershipKept ==
  ASSUME TypeOK, Leadership, Created,
         roles' \in [Principal -> SUBSET Role],
         UNCHANGED deputies,
         \A p \in Principal : "CoCommissioner" \in roles'[p] <=> "CoCommissioner" \in roles[p],
         pending' # None => /\ outgoing' # None /\ outgoing' # pending'
                            /\ pending' \in Listed
                            /\ \E p \in Principal : "Commissioner" \in roles'[p]
  PROVE  Leadership'
<1>1. Members("CoCommissioner")' = Members("CoCommissioner")
  BY DEF Members, HasRole
<1>2. Listed' = Listed
  BY DEF Listed
<1>3. Members("Commissioner")' # {} <=> \E p \in Principal : "Commissioner" \in roles'[p]
  BY DEF Members, HasRole
<1>4. DeputiesInOrder'
  BY <1>1, <1>2 DEF Leadership, DeputiesInOrder
<1>5. SuccessionConsistent'
  BY <1>2, <1>3 DEF SuccessionConsistent
<1> QED
  BY <1>4, <1>5 DEF Leadership

(* A transfer: nobody is pending, and the deputies are as they were. *)
LEMMA TransferKeeps ==
  ASSUME TypeOK, Leadership, Created, UNCHANGED deputies,
         NEW from \in Principal, NEW to \in Principal, Transfer(from, to)
  PROVE  Leadership' /\ roles' \in [Principal -> SUBSET Role]
<1> DEFINE r == With(roles, to, "Commissioner")
<1>1. r \in [Principal -> SUBSET Role] /\ r[to] = roles[to] \cup {"Commissioner"}
      /\ \A q \in Principal : q # to => r[q] = roles[q]
  BY WithIs DEF TypeOK, Role
<1>2. roles' = Less(r, from, "Commissioner") /\ pending' = None /\ outgoing' = None
  BY DEF Transfer
<1> HIDE DEF r
<1>3. /\ roles' \in [Principal -> SUBSET Role]
      /\ roles'[from] = r[from] \ {"Commissioner"}
      /\ \A q \in Principal : q # from => roles'[q] = r[q]
  BY <1>1, <1>2, LessIs
<1>4. \A p \in Principal : "CoCommissioner" \in roles'[p] <=> "CoCommissioner" \in roles[p]
  BY <1>1, <1>3
<1> QED
  BY <1>2, <1>3, <1>4, LeadershipKept

(* The start of a succession *)
LEMMA StartKeeps ==
  ASSUME TypeOK, Leadership, Created, UNCHANGED deputies,
         NEW from \in Principal, StartSuccession(from)
  PROVE  Leadership' /\ roles' \in [Principal -> SUBSET Role]
         /\ pending' \in Principal \cup {None}
<1> DEFINE r == Less(roles, from, "Commissioner")
<1>1. r \in [Principal -> SUBSET Role] /\ r[from] = roles[from] \ {"Commissioner"}
      /\ \A q \in Principal : q # from => r[q] = roles[q]
  BY LessIs DEF TypeOK
<1>2. outgoing' = from /\ AdvanceSuccession(r, from, None)
  BY DEF StartSuccession
<1> HIDE DEF r
<1>3. /\ roles' \in [Principal -> SUBSET Role]
      /\ \A p \in Principal, role \in {"CoCommissioner", "DOT"} :
           role \in roles'[p] <=> role \in r[p]
      /\ \/ pending' = None
         \/ /\ pending' \in Listed /\ pending' \in Principal /\ pending' # from
            /\ "Commissioner" \in roles'[pending']
  BY <1>1, <1>2, AdvanceIs DEF TypeOK
<1>4. \A p \in Principal : "CoCommissioner" \in roles'[p] <=> "CoCommissioner" \in roles[p]
  BY <1>1, <1>3
<1>5. from # None
  BY NoneAssumption
<1> QED
  BY <1>2, <1>3, <1>4, <1>5, LeadershipKept

-----------------------------------------------------------------------------
(* What a step that leaves a part alone owes to it *)

(* The type of the state is the types of its parts. *)
LEMMA TypeParts ==
  /\ TypeOK <=> FranchisesTyped /\ RolesTyped /\ VotesTyped /\ ActivityTyped
  /\ TypeOK' <=> FranchisesTyped' /\ RolesTyped' /\ VotesTyped' /\ ActivityTyped'
BY DEF TypeOK, FranchisesTyped, RolesTyped, VotesTyped, ActivityTyped

(* Seats change only with the franchises' variables. *)
LEMMA SeatsStay ==
  ASSUME TypeOK, Seats, UNCHANGED franchiseVars
  PROVE  Seats' /\ FranchisesTyped'
BY DEF TypeOK, Seats, OneSeatEach, FranchisesAccounted, FranchisesTyped, franchiseVars

(* Votes keep their type when they are left alone. *)
LEMMA VotesStay ==
  ASSUME TypeOK, UNCHANGED voteVars
  PROVE  VotesTyped'
BY DEF TypeOK, VotesTyped, voteVars

(* The leadership stays as it is when neither roles nor succession change, *)
(* whatever becomes of the vote.                                           *)
LEMMA LeadershipStays ==
  ASSUME TypeOK, Leadership, UNCHANGED <<roleVars, succession>>
  PROVE  Leadership' /\ RolesTyped'
BY DEF TypeOK, Leadership, SuccessionConsistent, DeputiesInOrder, Listed, Members, HasRole, RolesTyped, roleVars, succession

(* Activity is recorded of people that matter, and only makes them active. *)
LEMMA RecordingIsTyped ==
  ASSUME TypeOK, NEW p \in Principal, RecordedBy(p)
  PROVE  ActivityTyped'
BY DEF TypeOK, RecordedBy, ActivityTyped

-----------------------------------------------------------------------------
(* The people of a league *)

(* What every lemma about a command establishes. *)
Kept == FranchisesTyped /\ RolesTyped /\ VotesTyped /\ Leadership /\ Seats

(* A league is created with a commissioner. *)
LEMMA CreatedKeeps ==
  ASSUME IInv, NEW p \in Principal, LeagueCreated(p)
  PROVE  Kept'
<1> USE DEF IInv
<1>1. VotesTyped'
  BY VotesStay DEF LeagueCreated
<1>2. FranchisesTyped' /\ Seats'
  <2>1. /\ UNCHANGED <<seat, caretaker, invites, seatings>>
        /\ teams' \in 0..MaxTeams /\ teams = 0 /\ teams' \in Int
    BY BoundsAssumption DEF LeagueCreated, TypeOK, Size, Created
  <2>2. FranchisesTyped'
    BY <2>1 DEF FranchisesTyped, TypeOK
  <2>3. Seats'
    BY <2>1 DEF Seats, OneSeatEach, FranchisesAccounted, Franchise
  <2> QED
    BY <2>2, <2>3
<1>3. /\ roles' \in [Principal -> SUBSET Role]
      /\ roles'[p] = roles[p] \cup {"Commissioner"}
      /\ \A q \in Principal : q # p => roles'[q] = roles[q]
  <2>1. roles \in [Principal -> SUBSET Role] /\ "Commissioner" \in Role
    BY DEF TypeOK, Role
  <2> QED
    BY <2>1, WithIs DEF LeagueCreated
<1>4. RolesTyped'
  BY <1>3 DEF LeagueCreated, succession, RolesTyped, TypeOK
<1>5. Leadership'
  <2>1. Members("CoCommissioner")' = Members("CoCommissioner")
    BY <1>3 DEF Members, HasRole
  <2>2. Members("Commissioner")' # {}
    BY <1>3 DEF Members, HasRole
  <2>3. UNCHANGED <<deputies, pending, outgoing>>
    BY DEF LeagueCreated, succession
  <2> QED
    BY <2>1, <2>2, <2>3
    DEF Leadership, SuccessionConsistent, DeputiesInOrder, Listed
<1> QED
  BY <1>1, <1>2, <1>4, <1>5 DEF Kept

(* A granted role: a new deputy is the last of the order. *)
LEMMA GrantKeeps ==
  ASSUME IInv, Created, NEW p \in Principal, NEW q \in Principal, NEW role \in Role,
         RoleGranted(p, q, role)
  PROVE  Kept'
<1> USE DEF IInv
<1>1. VotesTyped' /\ FranchisesTyped' /\ Seats'
  BY VotesStay, SeatsStay DEF RoleGranted
<1>2. /\ roles' \in [Principal -> SUBSET Role]
      /\ roles'[q] = roles[q] \cup {role}
      /\ \A x \in Principal : x # q => roles'[x] = roles[x]
  BY WithIs DEF RoleGranted, TypeOK
<1>3. RolesTyped'
  BY <1>2, BoundsAssumption DEF RoleGranted, succession, RolesTyped, TypeOK
<1>4. DeputiesInOrder'
  <2>1. CASE role = "CoCommissioner"
    <3>1. q \notin Listed
      BY <2>1 DEF RoleGranted, Leadership, DeputiesInOrder, Members
    <3>2. deputies' = Append(deputies, q) /\ deputies \in Seq(Principal)
      BY <2>1 DEF RoleGranted, TypeOK
    <3>3. Listed' = Listed \cup {q}
      BY <3>2 DEF Listed
    <3>4. Members("CoCommissioner")' = Members("CoCommissioner") \cup {q}
      BY <1>2, <2>1 DEF Members, HasRole
    <3>5. \A i, j \in DOMAIN deputies' : deputies'[i] = deputies'[j] => i = j
      BY <3>1, <3>2 DEF Leadership, DeputiesInOrder, Listed
    <3> QED
      BY <3>3, <3>4, <3>5 DEF Leadership, DeputiesInOrder
  <2>2. CASE role # "CoCommissioner"
    <3>1. deputies' = deputies
      BY <2>2 DEF RoleGranted
    <3>2. Members("CoCommissioner")' = Members("CoCommissioner")
      BY <1>2, <2>2 DEF Members, HasRole
    <3> QED
      BY <3>1, <3>2 DEF Leadership, DeputiesInOrder, Listed
  <2> QED
    BY <2>1, <2>2
<1>5. Members("Commissioner") # {} => Members("Commissioner")' # {}
  BY <1>2 DEF Members, HasRole
<1>6. UNCHANGED <<pending, outgoing>>
  BY DEF RoleGranted, succession
<1>7. Listed \subseteq Listed'
  <2>1. deputies \in Seq(Principal)
        /\ (deputies' = Append(deputies, q) \/ deputies' = deputies)
    BY DEF RoleGranted, TypeOK
  <2> QED
    BY <2>1 DEF Listed
<1>8. SuccessionConsistent'
  BY <1>5, <1>6, <1>7 DEF Leadership, SuccessionConsistent
<1> QED
  BY <1>1, <1>3, <1>4, <1>8 DEF Kept, Leadership

(* A revoked role: the last commissioner keeps theirs, and revoking the    *)
(* deputy who is asked passes the turn on.                                 *)
LEMMA RevokeKeeps ==
  ASSUME IInv, Created, NEW p \in Principal, NEW q \in Principal, NEW role \in Role,
         RoleRevoked(p, q, role)
  PROVE  Kept'
<1> USE DEF IInv
<1> DEFINE r == Less(roles, q, role)
           s == Less(r, q, "Commissioner")
<1>1. VotesTyped' /\ FranchisesTyped' /\ Seats'
  BY VotesStay, SeatsStay DEF RoleRevoked
<1>2. /\ r \in [Principal -> SUBSET Role] /\ r[q] = roles[q] \ {role}
      /\ \A x \in Principal : x # q => r[x] = roles[x]
  BY LessIs DEF TypeOK
<1>3. /\ s \in [Principal -> SUBSET Role] /\ s[q] = r[q] \ {"Commissioner"}
      /\ \A x \in Principal : x # q => s[x] = r[x]
  <2> HIDE DEF r
  <2> QED
    BY <1>2, LessIs
<1>4. deputies \in Seq(Principal) /\ grants' \in 0..MaxGrants /\ outgoing' = outgoing
      /\ outgoing \in Principal \cup {None} /\ pending \in Principal \cup {None}
  BY BoundsAssumption DEF RoleRevoked, TypeOK
<1>5. CASE role = "CoCommissioner"
  <2>1. deputies' = Without(q)
    BY <1>5 DEF RoleRevoked
  <2>2. /\ deputies' \in Seq(Principal) /\ Listed' = Listed \ {q}
        /\ \A i, j \in DOMAIN deputies' : deputies'[i] = deputies'[j] => i = j
    <3>1. \A i, j \in DOMAIN deputies : deputies[i] = deputies[j] => i = j
      BY DEF Leadership, DeputiesInOrder
    <3>2. /\ Without(q) \in Seq(Principal)
          /\ {Without(q)[i] : i \in DOMAIN Without(q)} = Listed \ {q}
          /\ \A i, j \in DOMAIN Without(q) : Without(q)[i] = Without(q)[j] => i = j
      BY <3>1, <1>4, WithoutDeletes
    <3>3. Listed' = {deputies'[i] : i \in DOMAIN deputies'}
      BY DEF Listed
    <3> QED
      BY <2>1, <3>2, <3>3
  <2>3. CASE pending = q
    <3>1. AdvanceSuccession(s, outgoing, q)
      BY <1>5, <2>3 DEF RoleRevoked
    <3> HIDE DEF r, s
    <3>2. /\ roles' \in [Principal -> SUBSET Role]
          /\ \A x \in Principal, d \in {"CoCommissioner", "DOT"} : d \in roles'[x] <=> d \in s[x]
          /\ \/ pending' = None
             \/ /\ pending' \in Listed /\ pending' \in Principal /\ pending' # outgoing
                /\ "CoCommissioner" \in s[pending'] /\ "Commissioner" \in roles'[pending']
      BY <3>1, <1>3, <1>4, AdvanceIs
    <3>3. pending' # None => pending' # q
      BY <3>2, <1>2, <1>3, <1>5
    <3>4. \A x \in Principal : "CoCommissioner" \in roles'[x]
                               <=> x # q /\ "CoCommissioner" \in roles[x]
      BY <3>2, <1>2, <1>3, <1>5
    <3>5. DeputiesInOrder'
      BY <2>2, <3>4 DEF Leadership, DeputiesInOrder, Members, HasRole
    <3>6. outgoing # None
      BY <2>3, NoneAssumption DEF Leadership, SuccessionConsistent
    <3>7. SuccessionConsistent'
      BY <1>4, <2>2, <3>2, <3>3, <3>6 DEF SuccessionConsistent, Members, HasRole
    <3>8. RolesTyped'
      BY <1>4, <2>2, <3>2 DEF RolesTyped
    <3> QED
      BY <1>1, <3>5, <3>7, <3>8 DEF Kept, Leadership
  <2>4. CASE pending # q
    <3>1. roles' = r /\ pending' = pending
      BY <1>5, <2>4 DEF RoleRevoked
    <3> HIDE DEF r, s
    <3>2. DeputiesInOrder'
      BY <1>2, <1>5, <2>2, <3>1 DEF Leadership, DeputiesInOrder, Members, HasRole
    <3>3. Members("Commissioner")' = Members("Commissioner")
      BY <1>2, <1>5, <3>1 DEF Members, HasRole
    <3>4. SuccessionConsistent'
      BY <1>4, <2>2, <2>4, <3>1, <3>3 DEF Leadership, SuccessionConsistent
    <3>5. RolesTyped'
      BY <1>2, <1>4, <2>2, <3>1 DEF RolesTyped
    <3> QED
      BY <1>1, <3>2, <3>4, <3>5 DEF Kept, Leadership
  <2> QED
    BY <2>3, <2>4
<1>6. CASE role # "CoCommissioner"
  <2>1. roles' = r /\ pending' = pending /\ deputies' = deputies
    BY <1>6 DEF RoleRevoked
  <2> HIDE DEF r, s
  <2>2. Members("CoCommissioner")' = Members("CoCommissioner")
    BY <1>2, <1>6, <2>1 DEF Members, HasRole
  <2>3. Members("Commissioner") # {} => Members("Commissioner")' # {}
    <3>1. CASE role = "Commissioner"
      <4>1. q \in Members("Commissioner") /\ Members("Commissioner") # {q}
        BY <3>1 DEF RoleRevoked, OnlyCommissioner, Members
      <4>2. PICK x \in Members("Commissioner") : x # q
        BY <4>1
      <4> QED
        BY <4>2, <1>2, <2>1 DEF Members, HasRole
    <3>2. CASE role # "Commissioner"
      BY <3>2, <1>2, <2>1 DEF Members, HasRole
    <3> QED
      BY <3>1, <3>2
  <2>4. Leadership'
    BY <1>4, <2>1, <2>2, <2>3
    DEF Leadership, SuccessionConsistent, DeputiesInOrder, Listed
  <2>5. RolesTyped'
    BY <1>2, <1>4, <2>1 DEF RolesTyped
  <2> QED
    BY <1>1, <2>4, <2>5 DEF Kept
<1> QED
  BY <1>5, <1>6

(* Another order of the same deputies. *)
LEMMA OrderKeeps ==
  ASSUME IInv, Created, NEW p \in Principal, DeputyOrderSet(p)
  PROVE  Kept'
<1> USE DEF IInv
<1>1. VotesTyped' /\ FranchisesTyped' /\ Seats'
  BY VotesStay, SeatsStay DEF DeputyOrderSet
<1>2. deputies \in Seq(Principal) /\ grants' \in 0..MaxGrants
      /\ \A i, j \in DOMAIN deputies : deputies[i] = deputies[j] => i = j
  BY BoundsAssumption DEF DeputyOrderSet, TypeOK, Leadership, DeputiesInOrder
<1>3. /\ deputies' \in [DOMAIN deputies -> Listed]
      /\ \A i, j \in DOMAIN deputies : deputies'[i] = deputies'[j] => i = j
  BY DEF DeputyOrderSet, Leadership, DeputiesInOrder
<1>4. deputies' \in Seq(Principal) /\ DOMAIN deputies' = DOMAIN deputies /\ Listed' = Listed
  BY <1>2, <1>3, ReorderingKeepsPeople DEF Listed
<1>5. UNCHANGED <<roles, pending, outgoing>>
  BY DEF DeputyOrderSet, succession
<1>6. Leadership'
  BY <1>3, <1>4, <1>5
  DEF Leadership, SuccessionConsistent, DeputiesInOrder, Members, HasRole
<1>7. RolesTyped'
  BY <1>2, <1>4, <1>5 DEF RolesTyped, TypeOK
<1> QED
  BY <1>1, <1>6, <1>7 DEF Kept

(* Invitations, seats, caretakers and the number of franchises leave the   *)
(* leadership alone.                                                       *)
LEMMA FranchiseStep ==
  ASSUME IInv, Created, UNCHANGED <<roleVars, succession, voteVars>>
  PROVE  Leadership' /\ RolesTyped' /\ VotesTyped'
BY LeadershipStays, VotesStay DEF IInv

(* An invitation is issued for a franchise the league has. *)
LEMMA InviteKeeps ==
  ASSUME IInv, Created, NEW p \in Principal, NEW f \in Franchise, NEW q \in Principal,
         InviteIssued(p, f, q)
  PROVE  Kept'
<1> USE DEF IInv
<1> DEFINE new == [franchise |-> f, redeemer |-> q, status |-> "open"]
<1>1. Leadership' /\ RolesTyped' /\ VotesTyped'
  BY FranchiseStep DEF InviteIssued
<1>2. new \in Invite /\ new.status = "open" /\ new.franchise = f
  BY DEF Invite
<1>3. invites \in Seq(Invite) /\ invites' = Append(invites, new) /\ f <= teams
      /\ Len(invites) < MaxInvites /\ UNCHANGED <<teams, seat, caretaker, seatings>>
  BY DEF InviteIssued, TypeOK
<1> HIDE DEF new
<1>4. /\ invites' \in Seq(Invite) /\ Len(invites') = Len(invites) + 1
      /\ \A i \in DOMAIN invites' : \/ i \in DOMAIN invites /\ invites'[i] = invites[i]
                                    \/ invites'[i] = new
  BY <1>2, <1>3
<1>5. FranchisesTyped'
  BY <1>3, <1>4, BoundsAssumption DEF FranchisesTyped, TypeOK
<1>6. FranchisesAccounted'
  <2>1. teams \in Int /\ f \in Int
    BY BoundsAssumption DEF TypeOK, Franchise
  <2>2. \A g \in Franchise : g > teams => g # f
    BY <1>3, <2>1 DEF Franchise
  <2>3. \A i \in DOMAIN invites', g \in Franchise :
          g > teams /\ invites'[i].status = "open" => invites'[i].franchise # g
    BY <1>2, <1>4, <2>2 DEF FranchisesAccounted, Seats
  <2> QED
    BY <1>3, <2>3 DEF FranchisesAccounted, Seats
<1>7. OneSeatEach'
  BY <1>3 DEF OneSeatEach, Seats
<1> QED
  BY <1>1, <1>5, <1>6, <1>7 DEF Kept, Seats

(* An invitation that changes its status is open no longer. *)
LEMMA InviteEnds ==
  ASSUME IInv, NEW i \in DOMAIN invites, NEW status \in {"revoked", "redeemed"},
         invites' = [invites EXCEPT ![i].status = status]
  PROVE  /\ invites' \in Seq(Invite) /\ Len(invites') <= MaxInvites
         /\ DOMAIN invites' = DOMAIN invites
         /\ \A j \in DOMAIN invites :
              invites'[j].status = "open" => invites'[j] = invites[j]
<1>1. invites \in Seq(Invite) /\ Len(invites) <= MaxInvites
  BY DEF IInv, TypeOK
<1>2. invites[i] \in Invite
  BY <1>1
<1> DEFINE ended == [invites[i] EXCEPT !.status = status]
<1>3. ended \in Invite /\ ended.status = status
  BY <1>2 DEF Invite
<1>4. invites' = [invites EXCEPT ![i] = ended]
  OBVIOUS
<1> HIDE DEF ended
<1>5. /\ invites' \in Seq(Invite) /\ Len(invites') = Len(invites)
      /\ DOMAIN invites' = DOMAIN invites
      /\ \A j \in DOMAIN invites : j # i => invites'[j] = invites[j]
      /\ invites'[i] = ended
  BY <1>1, <1>3, <1>4
<1> QED
  BY <1>1, <1>3, <1>5

(* A revoked invitation can no longer be redeemed. *)
LEMMA UninviteKeeps ==
  ASSUME IInv, Created, NEW p \in Principal, NEW i \in DOMAIN invites, InviteRevoked(p, i)
  PROVE  Kept'
<1> USE DEF IInv
<1>1. Leadership' /\ RolesTyped' /\ VotesTyped'
  BY FranchiseStep DEF InviteRevoked
<1>2. /\ invites' \in Seq(Invite) /\ Len(invites') <= MaxInvites
      /\ DOMAIN invites' = DOMAIN invites
      /\ \A j \in DOMAIN invites : invites'[j].status = "open" => invites'[j] = invites[j]
  BY InviteEnds DEF InviteRevoked
<1>3. UNCHANGED <<teams, seat, caretaker, seatings>>
  BY DEF InviteRevoked
<1>4. FranchisesTyped'
  BY <1>2, <1>3 DEF FranchisesTyped, TypeOK
<1>5. FranchisesAccounted' /\ OneSeatEach'
  BY <1>2, <1>3 DEF FranchisesAccounted, OneSeatEach, Seats
<1> QED
  BY <1>1, <1>4, <1>5 DEF Kept, Seats

(* A person who is given a franchise has that one only. *)
LEMMA AssignKeeps ==
  ASSUME IInv, NEW f \in Franchise, NEW q \in Principal, Assign(f, q), UNCHANGED teams,
         DOMAIN invites' = DOMAIN invites,
         \A j \in DOMAIN invites : invites'[j].status = "open" => invites'[j] = invites[j]
  PROVE  /\ seat' \in [Franchise -> Principal \cup {None}]
         /\ caretaker' \in [Franchise -> Principal \cup {None}]
         /\ Seats'
<1> USE DEF IInv
<1>1. /\ seat \in [Franchise -> Principal \cup {None}]
      /\ caretaker \in [Franchise -> Principal \cup {None}]
      /\ teams \in 0..MaxTeams /\ f <= teams
  BY DEF TypeOK, Assign
<1>2. seat' = [seat EXCEPT ![f] = q] /\ caretaker' = [caretaker EXCEPT ![f] = None]
  BY DEF Assign
<1>3. /\ seat' \in [Franchise -> Principal \cup {None}] /\ seat'[f] = q
      /\ caretaker' \in [Franchise -> Principal \cup {None}] /\ caretaker'[f] = None
      /\ \A g \in Franchise : g # f => seat'[g] = seat[g] /\ caretaker'[g] = caretaker[g]
  BY <1>1, <1>2
<1>4. \A g \in Franchise : seat[g] = q => g = f
  <2> SUFFICES ASSUME NEW g \in Franchise, seat[g] = q PROVE g = f
    OBVIOUS
  <2>1. seat[g] # None
    BY NoneAssumption
  <2>2. g <= teams
    BY <2>1, <1>1, BoundsAssumption DEF Seats, FranchisesAccounted, Franchise
  <2> QED
    BY <2>2, <1>1 DEF Assign, Franchise
<1>5. OneSeatEach'
  BY <1>3, <1>4 DEF OneSeatEach, Seats
<1>6. FranchisesAccounted'
  <2>1. \A g \in Franchise : g > teams' =>
            /\ seat'[g] = None /\ caretaker'[g] = None
            /\ \A i \in DOMAIN invites' : invites'[i].status = "open" => invites'[i].franchise # g
    BY <1>1, <1>3 DEF FranchisesAccounted, Seats, Franchise
  <2>2. \A g \in Franchise : caretaker'[g] # None => seat'[g] = None
    BY <1>3 DEF FranchisesAccounted, Seats
  <2> QED
    BY <2>1, <2>2 DEF FranchisesAccounted
<1> QED
  BY <1>3, <1>5, <1>6 DEF Seats

(* An invitation redeemed. *)
LEMMA RedeemKeeps ==
  ASSUME IInv, Created, NEW p \in Principal, NEW i \in DOMAIN invites, InviteRedeemed(p, i)
  PROVE  Kept'
<1> USE DEF IInv
<1>1. Leadership' /\ RolesTyped' /\ VotesTyped'
  BY FranchiseStep DEF InviteRedeemed
<1>2. /\ invites' \in Seq(Invite) /\ Len(invites') <= MaxInvites
      /\ DOMAIN invites' = DOMAIN invites
      /\ \A j \in DOMAIN invites : invites'[j].status = "open" => invites'[j] = invites[j]
  BY InviteEnds DEF InviteRedeemed
<1>3. invites[i].franchise \in Franchise
  <2>1. invites \in Seq(Invite)
    BY DEF TypeOK
  <2>2. invites[i] \in Invite
    BY <2>1
  <2> QED
    BY <2>2 DEF Invite
<1>4. Assign(invites[i].franchise, p) /\ UNCHANGED <<teams, seatings>>
  BY DEF InviteRedeemed
<1>5. /\ seat' \in [Franchise -> Principal \cup {None}]
      /\ caretaker' \in [Franchise -> Principal \cup {None}]
      /\ Seats'
  BY <1>2, <1>3, <1>4, AssignKeeps
<1>6. FranchisesTyped'
  BY <1>2, <1>4, <1>5 DEF FranchisesTyped, TypeOK
<1> QED
  BY <1>1, <1>5, <1>6 DEF Kept

(* A seat replaced. *)
LEMMA ReplaceKeeps ==
  ASSUME IInv, Created, NEW p \in Principal, NEW f \in Franchise, NEW q \in Principal,
         SeatReplaced(p, f, q)
  PROVE  Kept'
<1> USE DEF IInv
<1>1. Leadership' /\ RolesTyped' /\ VotesTyped'
  BY FranchiseStep DEF SeatReplaced
<1>2. Assign(f, q) /\ UNCHANGED <<teams, invites>> /\ seatings' \in 0..MaxSeatings
  BY BoundsAssumption DEF SeatReplaced, TypeOK
<1>3. /\ seat' \in [Franchise -> Principal \cup {None}]
      /\ caretaker' \in [Franchise -> Principal \cup {None}]
      /\ Seats'
  BY <1>2, AssignKeeps
<1>4. FranchisesTyped'
  BY <1>2, <1>3 DEF FranchisesTyped, TypeOK
<1> QED
  BY <1>1, <1>3, <1>4 DEF Kept

(* A seat removed: the franchise is vacant, and has no caretaker yet. *)
LEMMA RemoveKeeps ==
  ASSUME IInv, Created, NEW p \in Principal, NEW f \in Franchise, SeatRemoved(p, f)
  PROVE  Kept'
<1> USE DEF IInv
<1>1. Leadership' /\ RolesTyped' /\ VotesTyped'
  BY FranchiseStep DEF SeatRemoved
<1>2. /\ seat' \in [Franchise -> Principal \cup {None}] /\ seat'[f] = None
      /\ \A g \in Franchise : g # f => seat'[g] = seat[g]
      /\ seatings' \in 0..MaxSeatings
      /\ UNCHANGED <<teams, caretaker, invites>>
  BY BoundsAssumption DEF SeatRemoved, TypeOK
<1>3. FranchisesTyped'
  BY <1>2 DEF FranchisesTyped, TypeOK
<1>4. OneSeatEach' /\ FranchisesAccounted'
  BY <1>2 DEF OneSeatEach, FranchisesAccounted, Seats
<1> QED
  BY <1>1, <1>3, <1>4 DEF Kept, Seats

(* A caretaker minds a vacant franchise that the league has. *)
LEMMA CaretakerKeeps ==
  ASSUME IInv, Created, NEW p \in Principal, NEW f \in Franchise, CaretakerSeated(p, f)
  PROVE  Kept'
<1> USE DEF IInv
<1>1. Leadership' /\ RolesTyped' /\ VotesTyped'
  BY FranchiseStep DEF CaretakerSeated
<1>2. /\ caretaker' \in [Franchise -> Principal \cup {None}]
      /\ \A g \in Franchise : g # f => caretaker'[g] = caretaker[g]
      /\ f <= teams /\ teams \in Int /\ seat[f] = None
      /\ seatings' \in 0..MaxSeatings
      /\ UNCHANGED <<teams, seat, invites>>
  BY BoundsAssumption DEF CaretakerSeated, TypeOK
<1>3. FranchisesTyped'
  BY <1>2 DEF FranchisesTyped, TypeOK
<1>4. OneSeatEach' /\ FranchisesAccounted'
  BY <1>2 DEF OneSeatEach, FranchisesAccounted, Seats, Franchise
<1> QED
  BY <1>1, <1>3, <1>4 DEF Kept, Seats

(* A league shrinks only by franchises that nothing refers to. *)
LEMMA ResizeKeeps ==
  ASSUME IInv, Created, NEW p \in Principal, NEW n \in Size, FranchisesResized(p, n)
  PROVE  Kept'
<1> USE DEF IInv
<1>1. UNCHANGED <<roleVars, succession, voteVars, seat, caretaker, invites>> /\ teams' = n
  BY DEF FranchisesResized
<1>2. Leadership' /\ RolesTyped' /\ VotesTyped'
  BY <1>1, FranchiseStep
<1>3. n \in 0..MaxTeams /\ seatings' \in 0..MaxSeatings /\ teams \in 0..MaxTeams /\ n \in Int
  BY BoundsAssumption DEF FranchisesResized, TypeOK, Size
<1>4. FranchisesTyped'
  BY <1>1, <1>3 DEF FranchisesTyped, TypeOK
<1>5. OneSeatEach'
  BY <1>1 DEF OneSeatEach, Seats
<1>6. \A f \in Franchise : f > n => Removable(f)
  <2> SUFFICES ASSUME NEW f \in Franchise, f > n PROVE Removable(f)
    OBVIOUS
  <2>1. CASE f <= teams
    BY <2>1, <1>3 DEF FranchisesResized, Franchise
  <2>2. CASE f > teams
    BY <2>2 DEF Removable, FranchisesAccounted, Seats
  <2> QED
    BY <2>1, <2>2, <1>3 DEF Franchise
<1>7. FranchisesAccounted'
  BY <1>1, <1>6 DEF FranchisesAccounted, Removable, Seats
<1> QED
  BY <1>2, <1>4, <1>5, <1>7 DEF Kept, Seats

-----------------------------------------------------------------------------
(* Succession and votes *)

(* The office goes to a named successor, or to the deputies in order. *)
LEMMA StepDownKeeps ==
  ASSUME IInv, Created, NEW p \in Principal, NEW q \in Principal \cup {None}, StepDown(p, q)
  PROVE  Kept'
<1> USE DEF IInv
<1>1. Seats' /\ FranchisesTyped' /\ VotesTyped'
  BY SeatsStay, VotesStay DEF StepDown
<1>2. UNCHANGED <<deputies, grants>> /\ q # p
  BY DEF StepDown
<1>3. CASE q = None
  <2>1. StartSuccession(p)
    BY <1>3 DEF StepDown
  <2>2. Leadership' /\ roles' \in [Principal -> SUBSET Role] /\ pending' \in Principal \cup {None}
    BY <2>1, <1>2, StartKeeps
  <2>3. RolesTyped'
    BY <2>1, <2>2, <1>2 DEF StartSuccession, RolesTyped, TypeOK
  <2> QED
    BY <1>1, <2>2, <2>3 DEF Kept
<1>4. CASE q # None
  <2>1. Transfer(p, q) /\ q \in Principal
    BY <1>4 DEF StepDown
  <2>2. Leadership' /\ roles' \in [Principal -> SUBSET Role]
    BY <2>1, <1>2, TransferKeeps
  <2>3. RolesTyped'
    BY <2>1, <2>2, <1>2 DEF Transfer, RolesTyped, TypeOK
  <2> QED
    BY <1>1, <2>2, <2>3 DEF Kept
<1> QED
  BY <1>3, <1>4

(* The deputy who accepts keeps the office it holds. *)
LEMMA AcceptKeeps ==
  ASSUME IInv, Created, NEW p \in Principal, SuccessorAccepted(p)
  PROVE  Kept'
<1> USE DEF IInv
<1>1. Seats' /\ FranchisesTyped' /\ VotesTyped'
  BY SeatsStay, VotesStay DEF SuccessorAccepted
<1>2. UNCHANGED <<roles, deputies, grants>> /\ pending' = None /\ outgoing' = None
      /\ pending = p
  BY DEF SuccessorAccepted, roleVars
<1>3. \E x \in Principal : "Commissioner" \in roles[x]
  BY <1>2, NoneAssumption DEF Leadership, SuccessionConsistent, Members, HasRole
<1>4. Leadership'
  BY <1>2, <1>3, LeadershipKept DEF TypeOK
<1>5. RolesTyped'
  BY <1>2 DEF RolesTyped, TypeOK
<1> QED
  BY <1>1, <1>4, <1>5 DEF Kept

(* The deputy who declines gives the office up to the next. *)
LEMMA DeclineKeeps ==
  ASSUME IInv, Created, NEW p \in Principal, SuccessorDeclined(p)
  PROVE  Kept'
<1> USE DEF IInv
<1> DEFINE r == Less(roles, p, "Commissioner")
<1>1. Seats' /\ FranchisesTyped' /\ VotesTyped'
  BY SeatsStay, VotesStay DEF SuccessorDeclined
<1>2. UNCHANGED <<deputies, grants, outgoing>> /\ AdvanceSuccession(r, outgoing, p)
  BY DEF SuccessorDeclined
<1>3. r \in [Principal -> SUBSET Role] /\ r[p] = roles[p] \ {"Commissioner"}
      /\ \A q \in Principal : q # p => r[q] = roles[q]
  BY LessIs DEF TypeOK
<1> HIDE DEF r
<1>4. /\ roles' \in [Principal -> SUBSET Role]
      /\ \A x \in Principal, role \in {"CoCommissioner", "DOT"} :
           role \in roles'[x] <=> role \in r[x]
      /\ \/ pending' = None
         \/ /\ pending' \in Listed /\ pending' \in Principal /\ pending' # outgoing
            /\ "Commissioner" \in roles'[pending']
  BY <1>2, <1>3, AdvanceIs DEF TypeOK
<1>5. \A x \in Principal : "CoCommissioner" \in roles'[x] <=> "CoCommissioner" \in roles[x]
  BY <1>3, <1>4
<1>6. outgoing # None
  BY NoneAssumption DEF SuccessorDeclined, Leadership, SuccessionConsistent
<1>7. Leadership'
  BY <1>2, <1>4, <1>5, <1>6, LeadershipKept
<1>8. RolesTyped'
  BY <1>2, <1>4 DEF RolesTyped, TypeOK
<1> QED
  BY <1>1, <1>7, <1>8 DEF Kept

(* The deputy who takes over is another person than the commissioner. *)
LEMMA TakeoverKeeps ==
  ASSUME IInv, Created, NEW p \in Principal, NEW c \in Principal, InactivityTakeover(p, c)
  PROVE  Kept'
<1> USE DEF IInv
<1>1. Seats' /\ FranchisesTyped' /\ VotesTyped'
  BY SeatsStay, VotesStay DEF InactivityTakeover
<1>2. UNCHANGED <<deputies, grants>> /\ Transfer(c, p) /\ p = FirstDeputy(roles, 0, {c})
  BY DEF InactivityTakeover
<1>3. p \notin {c}
  <2>1. deputies \in Seq(Principal) /\ 0 \in Nat /\ FirstDeputy(roles, 0, {c}) # None
    BY <1>2, NoneAssumption DEF TypeOK
  <2> QED
    BY <2>1, <1>2, FirstDeputyIsOne
<1>4. Leadership' /\ roles' \in [Principal -> SUBSET Role]
  BY <1>2, <1>3, TransferKeeps
<1>5. RolesTyped'
  BY <1>2, <1>4 DEF Transfer, RolesTyped, TypeOK
<1> QED
  BY <1>1, <1>4, <1>5 DEF Kept

(* A step of a vote alone: what is left to show is that the vote is one. *)
LEMMA VoteStep ==
  ASSUME IInv, UNCHANGED <<franchiseVars, roleVars, succession, elected>>,
         vote' \in Vote \cup {None}, votes' \in 0..MaxVotes
  PROVE  Kept'
<1> USE DEF IInv
<1>1. Seats' /\ FranchisesTyped'
  BY SeatsStay
<1>2. Leadership' /\ RolesTyped'
  BY LeadershipStays
<1>3. VotesTyped'
  BY DEF VotesTyped, TypeOK
<1> QED
  BY <1>1, <1>2, <1>3 DEF Kept

(* A vote opens without ballots, about a person. *)
LEMMA OpenedIsTyped ==
  ASSUME TypeOK, NEW target \in Principal, NEW election \in BOOLEAN,
         OpenVote(target, election)
  PROVE  vote' \in Vote \cup {None} /\ votes' \in 0..MaxVotes /\ elected' = elected
<1>1. NoBallots \in [Franchise -> Choice] /\ NoRulings \in [Principal -> Principal \cup {None}]
  BY DEF NoBallots, NoRulings, Choice
<1> QED
  BY <1>1, BoundsAssumption DEF OpenVote, Vote, TypeOK

(* The first round of a vote-out, and of an election, opens. *)
LEMMA OpenKeeps ==
  ASSUME IInv, Created, NEW p \in Principal,
         \/ \E c \in Principal : VoteOutOpened(p, c)
         \/ ElectionOpened(p)
  PROVE  Kept'
<1>1. CASE \E c \in Principal : VoteOutOpened(p, c)
  BY <1>1, OpenedIsTyped, VoteStep DEF VoteOutOpened, IInv
<1>2. CASE ElectionOpened(p)
  <2>1. outgoing \in Principal
    BY <1>2 DEF ElectionOpened, ElectionNeeded, IInv, TypeOK
  <2> QED
    BY <1>2, <2>1, OpenedIsTyped, VoteStep DEF ElectionOpened, IInv
<1> QED
  BY <1>1, <1>2

(* Those at the top have ballots or are candidates, so they are people. *)
LEMMA TopArePeople ==
  ASSUME NEW v \in Vote, NEW k
  PROVE  Top(v, k) \subseteq Principal
BY DEF Top, Ranked, Vote

(* Only a person can be elected. *)
LEMMA ElectedArePeople ==
  ASSUME NEW v \in Vote
  PROVE  Elected(v) \subseteq Principal
<1>1. Ranked(v) \subseteq Principal /\ Top(v, 1) \subseteq Principal
  BY TopArePeople DEF Ranked, Vote
<1>2. TieWon(v) \subseteq Top(v, 1)
  BY DEF TieWon
<1> QED
  BY <1>1, <1>2 DEF Elected

(* A ballot, a ruling, a runoff and the end of a period change the vote only. *)
LEMMA BallotKeeps ==
  ASSUME IInv, NEW p \in Principal, NEW f \in Franchise, NEW choice \in Choice,
         BallotCast(p, f, choice)
  PROVE  Kept'
<1>1. vote \in Vote /\ votes \in 0..MaxVotes
  BY DEF IInv, TypeOK, BallotCast
<1>2. vote' = [vote EXCEPT !.ballots[f] = choice] /\ votes' = votes
  BY DEF BallotCast
<1>3. vote' \in Vote
  BY <1>1, <1>2 DEF Vote
<1> QED
  BY <1>1, <1>2, <1>3, VoteStep DEF BallotCast

(* A judge's ruling is recorded as that judge's. *)
LEMMA RulingKeeps ==
  ASSUME IInv, NEW p \in Principal, NEW choice \in Principal,
         ElectionTieBreakCast(p, choice)
  PROVE  Kept'
<1>1. vote \in Vote /\ votes \in 0..MaxVotes
  BY DEF IInv, TypeOK, ElectionTieBreakCast
<1>2. vote' = [vote EXCEPT !.rulings[p] = choice] /\ votes' = votes
  BY DEF ElectionTieBreakCast
<1>3. vote' \in Vote
  BY <1>1, <1>2 DEF Vote
<1> QED
  BY <1>1, <1>2, <1>3, VoteStep DEF ElectionTieBreakCast

(* A runoff is the same vote between fewer candidates. *)
LEMMA RunoffKeeps ==
  ASSUME IInv, NEW p \in Principal, RunoffOpened(p)
  PROVE  Kept'
<1>1. vote \in Vote /\ votes \in 0..MaxVotes
  BY DEF IInv, TypeOK, RunoffOpened
<1>2. NoBallots \in [Franchise -> Choice] /\ NoRulings \in [Principal -> Principal \cup {None}]
  BY DEF NoBallots, NoRulings, Choice
<1>3. Top(vote, 2) \subseteq Principal
  BY <1>1, TopArePeople
<1>4. vote' = [vote EXCEPT !.candidates = Top(vote, 2), !.ballots = NoBallots,
                           !.runoff = TRUE, !.ended = FALSE, !.rulings = NoRulings]
      /\ votes' = votes
  BY DEF RunoffOpened
<1>5. vote' \in Vote
  BY <1>1, <1>2, <1>3, <1>4 DEF Vote
<1> QED
  BY <1>1, <1>4, <1>5, VoteStep DEF RunoffOpened

(* The end of a voting period *)
LEMMA PeriodKeeps ==
  ASSUME IInv, PeriodEnds
  PROVE  Kept'
<1>1. vote \in Vote /\ votes \in 0..MaxVotes
  BY DEF IInv, TypeOK, PeriodEnds
<1>2. vote' = [vote EXCEPT !.ended = TRUE] /\ votes' = votes
  BY DEF PeriodEnds
<1>3. vote' \in Vote
  BY <1>1, <1>2 DEF Vote
<1> QED
  BY <1>1, <1>2, <1>3, VoteStep DEF PeriodEnds

(* A vote-out that carries starts a succession; one that fails changes     *)
(* nothing.                                                                *)
LEMMA VoteOutKeeps ==
  ASSUME IInv, Created, NEW p \in Principal, VoteOutClosed(p)
  PROVE  Kept'
<1> USE DEF IInv
<1>1. Seats' /\ FranchisesTyped'
  BY SeatsStay DEF VoteOutClosed
<1>2. UNCHANGED <<deputies, grants, votes, elected>> /\ vote' = None
  BY DEF VoteOutClosed
<1>3. VotesTyped'
  BY <1>2 DEF VotesTyped, TypeOK
<1>4. CASE For(vote, "yes") >= Threshold
  <2>1. StartSuccession(vote.target)
    BY <1>4 DEF VoteOutClosed
  <2>2. vote.target \in Principal
    BY DEF VoteOutClosed, TypeOK, Vote
  <2>3. Leadership' /\ roles' \in [Principal -> SUBSET Role] /\ pending' \in Principal \cup {None}
    BY <2>1, <2>2, <1>2, StartKeeps
  <2>4. RolesTyped'
    BY <2>1, <2>2, <2>3, <1>2 DEF StartSuccession, RolesTyped, TypeOK
  <2> QED
    BY <1>1, <1>3, <2>3, <2>4 DEF Kept
<1>5. CASE ~(For(vote, "yes") >= Threshold)
  <2>1. UNCHANGED <<roleVars, succession>>
    BY <1>5, <1>2 DEF VoteOutClosed, roleVars
  <2>2. Leadership' /\ RolesTyped'
    BY <2>1, LeadershipStays
  <2> QED
    BY <1>1, <1>3, <2>2 DEF Kept
<1> QED
  BY <1>4, <1>5

(* The office goes to the winner of an election, who is a person. *)
LEMMA ElectionKeeps ==
  ASSUME IInv, Created, NEW p \in Principal, ElectionConcluded(p)
  PROVE  Kept'
<1> USE DEF IInv
<1>1. Seats' /\ FranchisesTyped'
  BY SeatsStay DEF ElectionConcluded
<1>2. UNCHANGED <<deputies, grants, votes>> /\ vote' = None
  BY DEF ElectionConcluded
<1>3. vote \in Vote
  BY DEF ElectionConcluded, TypeOK
<1>4. PICK winner \in Elected(vote) :
        /\ Transfer(vote.target, winner)
        /\ elected' = elected \cup {[vote |-> votes, from |-> vote.target, to |-> winner]}
  BY DEF ElectionConcluded
<1>5. winner \in Principal /\ vote.target \in Principal
  BY <1>3, <1>4, ElectedArePeople DEF Vote
<1>6. Leadership' /\ roles' \in [Principal -> SUBSET Role]
  BY <1>2, <1>4, <1>5, TransferKeeps
<1>7. RolesTyped'
  BY <1>2, <1>4, <1>6 DEF Transfer, RolesTyped, TypeOK
<1>8. VotesTyped'
  BY <1>2, <1>4, <1>5 DEF VotesTyped, TypeOK
<1> QED
  BY <1>1, <1>6, <1>7, <1>8 DEF Kept

-----------------------------------------------------------------------------
(* The theorems *)

(* Nothing is the case of a league that does not exist yet. *)
LEMMA InitHolds == Init => IInv
<1> SUFFICES ASSUME Init PROVE IInv
  OBVIOUS
<1>1. TypeOK
  BY BoundsAssumption DEF Init, TypeOK, Franchise
<1>2. Leadership
  BY DEF Init, Leadership, SuccessionConsistent, DeputiesInOrder, Listed, Members, HasRole
<1>3. Seats
  BY DEF Init, Seats, OneSeatEach, FranchisesAccounted
<1> QED
  BY <1>1, <1>2, <1>3 DEF IInv

(* Every command keeps the invariant. *)
LEMMA CommandKeeps ==
  ASSUME IInv, Created, NEW p \in Principal, Command(p)
  PROVE  Kept'
<1>1. ASSUME NEW q \in Principal, NEW role \in Role,
             RoleGranted(p, q, role) \/ RoleRevoked(p, q, role)
      PROVE  Kept'
  BY <1>1, GrantKeeps, RevokeKeeps
<1>2. CASE DeputyOrderSet(p)
  BY <1>2, OrderKeeps
<1>3. ASSUME NEW f \in Franchise, NEW q \in Principal,
             InviteIssued(p, f, q) \/ SeatReplaced(p, f, q)
      PROVE  Kept'
  BY <1>3, InviteKeeps, ReplaceKeeps
<1>4. ASSUME NEW i \in DOMAIN invites, InviteRevoked(p, i) \/ InviteRedeemed(p, i)
      PROVE  Kept'
  BY <1>4, UninviteKeeps, RedeemKeeps
<1>5. ASSUME NEW f \in Franchise, SeatRemoved(p, f) \/ CaretakerSeated(p, f)
      PROVE  Kept'
  BY <1>5, RemoveKeeps, CaretakerKeeps
<1>6. ASSUME NEW n \in Size, FranchisesResized(p, n)
      PROVE  Kept'
  BY <1>6, ResizeKeeps
<1>7. ASSUME NEW q \in Principal \cup {None}, StepDown(p, q)
      PROVE  Kept'
  BY <1>7, StepDownKeeps
<1>8. CASE SuccessorAccepted(p) \/ SuccessorDeclined(p)
  BY <1>8, AcceptKeeps, DeclineKeeps
<1>9. ASSUME NEW c \in Principal, InactivityTakeover(p, c) \/ VoteOutOpened(p, c)
      PROVE  Kept'
  BY <1>9, TakeoverKeeps, OpenKeeps
<1>10. CASE ElectionOpened(p)
  BY <1>10, OpenKeeps
<1>11. ASSUME NEW f \in Franchise, NEW choice \in Choice, BallotCast(p, f, choice)
       PROVE  Kept'
  BY <1>11, BallotKeeps
<1>12. CASE VoteOutClosed(p) \/ ElectionConcluded(p) \/ RunoffOpened(p)
  BY <1>12, VoteOutKeeps, ElectionKeeps, RunoffKeeps
<1>13. ASSUME NEW choice \in Principal, ElectionTieBreakCast(p, choice)
       PROVE  Kept'
  BY <1>13, RulingKeeps
<1> QED
  BY <1>1, <1>2, <1>3, <1>4, <1>5, <1>6, <1>7, <1>8, <1>9, <1>10, <1>11, <1>12, <1>13 DEF Command

(* Every step keeps the invariant. *)
LEMMA StepHolds == IInv /\ [Next]_vars => IInv'
<1> SUFFICES ASSUME IInv, [Next]_vars PROVE Kept' /\ ActivityTyped'
  BY TypeParts DEF IInv, Kept
<1> USE DEF IInv
<1>1. ASSUME NEW p \in Principal, LeagueCreated(p) \/ (Created /\ Command(p)), RecordedBy(p)
      PROVE  Kept' /\ ActivityTyped'
  BY <1>1, CreatedKeeps, CommandKeeps, RecordingIsTyped
<1>2. ASSUME UNCHANGED <<franchiseVars, roleVars, succession, voteVars>>
      PROVE  Kept'
  BY <1>2, VoteStep DEF TypeOK, voteVars
<1>3. ASSUME NEW p \in Principal, OtherCommand(p)
      PROVE  Kept' /\ ActivityTyped'
  BY <1>2, <1>3, RecordingIsTyped DEF OtherCommand
<1>4. ASSUME NEW p \in Principal, InactivitySet(p)
      PROVE  Kept' /\ ActivityTyped'
  BY <1>2, <1>4 DEF InactivitySet, ActivityTyped, TypeOK
<1>5. ASSUME NEW p \in Principal, GoesQuiet(p)
      PROVE  Kept' /\ ActivityTyped'
  BY <1>2, <1>5 DEF GoesQuiet, ActivityTyped, TypeOK
<1>6. CASE PeriodEnds
  BY <1>6, PeriodKeeps DEF PeriodEnds, activity, ActivityTyped, TypeOK
<1>7. CASE UNCHANGED vars
  BY <1>2, <1>7 DEF vars, activity, ActivityTyped, TypeOK
<1> QED
  BY <1>1, <1>3, <1>4, <1>5, <1>6, <1>7 DEF Next

(* The invariant of every run of a league. *)
THEOREM GovernanceHolds == Spec => []IInv
BY InitHolds, StepHolds, PTL DEF Spec

(* The state of a league has its type. *)
THEOREM StateIsTyped == Spec => []TypeOK
BY GovernanceHolds, PTL DEF IInv

(* A deputy is asked only as a deputy, in somebody else's succession, and  *)
(* the league is led meanwhile.                                            *)
THEOREM SuccessionIsConsistent == Spec => []SuccessionConsistent
<1>1. IInv => SuccessionConsistent
  BY DEF IInv, Leadership
<1> QED
  BY <1>1, GovernanceHolds, PTL

(* The order of succession is that of the co-commissioners, each once. *)
THEOREM DeputiesAreInOrder == Spec => []DeputiesInOrder
<1>1. IInv => DeputiesInOrder
  BY DEF IInv, Leadership
<1> QED
  BY <1>1, GovernanceHolds, PTL

(* No person owns two franchises. *)
THEOREM OneSeatPerPerson == Spec => []OneSeatEach
<1>1. IInv => OneSeatEach
  BY DEF IInv, Seats
<1> QED
  BY <1>1, GovernanceHolds, PTL

(* Nothing refers to a franchise the league has given up. *)
THEOREM FranchisesAreAccounted == Spec => []FranchisesAccounted
<1>1. IInv => FranchisesAccounted
  BY DEF IInv, Seats
<1> QED
  BY <1>1, GovernanceHolds, PTL

-----------------------------------------------------------------------------
(* Who governs *)

(* The two ways in which a league ceases to be governed *)
Alone == \E p \in Principal : \A q \in Principal \ {p} : roles[q] = {}
SelfElected == vote # None /\ vote.election /\ vote.target \in Elected(vote) /\ vote' = None

(* A league with a commissioner is governed. *)
LEMMA LedIsGoverned ==
  ASSUME NEW x \in Principal, "Commissioner" \in roles'[x]
  PROVE  Governed'
BY DEF Governed, Members, HasRole

(* Governance rests on roles and succession only. *)
LEMMA GovernedStays ==
  ASSUME Governed, UNCHANGED <<roles, pending, outgoing>>
  PROVE  Governed'
BY DEF Governed, Members, HasRole, ElectionNeeded, MayOpen

(* Whoever has a role left when a succession goes on leads the league, or  *)
(* may open the election when nobody is asked.                             *)
LEMMA SuccessionGoverns ==
  ASSUME deputies \in Seq(Principal), NEW r \in [Principal -> SUBSET Role],
         NEW out, NEW after, AdvanceSuccession(r, out, after), outgoing' # None,
         NEW x \in Principal, r[x] # {}
  PROVE  Governed'
<1>1. CASE pending' = None /\ roles' = r
  <2>1. PICK role \in Role : role \in roles'[x]
    BY <1>1
  <2>2. CASE role = "Commissioner"
    BY <2>1, <2>2, LedIsGoverned
  <2>3. CASE role \in {"CoCommissioner", "DOT"}
    BY <1>1, <2>1, <2>3 DEF Governed, ElectionNeeded, MayOpen, HasRole
  <2> QED
    BY <2>2, <2>3 DEF Role
<1>2. CASE pending' \in Principal /\ "Commissioner" \in roles'[pending']
  BY <1>2, LedIsGoverned
<1> QED
  BY <1>1, <1>2, AdvanceIs

(* A succession from somebody is governed by whoever else has a role. *)
LEMMA StartGoverns ==
  ASSUME TypeOK, NEW from \in Principal, StartSuccession(from),
         NEW x \in Principal \ {from}, roles[x] # {}
  PROVE  Governed'
<1> DEFINE r == Less(roles, from, "Commissioner")
<1>1. r \in [Principal -> SUBSET Role] /\ r[x] = roles[x]
  BY LessIs DEF TypeOK
<1>2. outgoing' # None /\ AdvanceSuccession(r, from, None)
  BY NoneAssumption DEF StartSuccession
<1> HIDE DEF r
<1> QED
  BY <1>1, <1>2, SuccessionGoverns DEF TypeOK

(* Whoever receives the office from another person leads. *)
LEMMA TransferGoverns ==
  ASSUME TypeOK, NEW from \in Principal, NEW to \in Principal \ {from}, Transfer(from, to)
  PROVE  Governed'
<1> DEFINE r == With(roles, to, "Commissioner")
<1>1. r \in [Principal -> SUBSET Role] /\ "Commissioner" \in r[to]
  BY WithIs DEF TypeOK, Role
<1>2. roles' = Less(r, from, "Commissioner")
  BY DEF Transfer
<1> HIDE DEF r
<1>3. roles'[to] = r[to]
  BY <1>1, <1>2, LessIs
<1> QED
  BY <1>1, <1>3, LedIsGoverned

(* A grant takes nothing from anybody. *)
LEMMA GrantGoverns ==
  ASSUME IInv, Governed, NEW p \in Principal, NEW q \in Principal, NEW role \in Role,
         RoleGranted(p, q, role)
  PROVE  Governed'
<1>1. \A x \in Principal : roles[x] \subseteq roles'[x]
  <2>1. roles \in [Principal -> SUBSET Role] /\ roles' = With(roles, q, role)
    BY DEF RoleGranted, IInv, TypeOK
  <2>2. /\ roles'[q] = roles[q] \cup {role}
        /\ \A x \in Principal : x # q => roles'[x] = roles[x]
    BY <2>1, WithIs
  <2> QED
    BY <2>2
<1>2. UNCHANGED <<pending, outgoing>>
  BY DEF RoleGranted, succession
<1> QED
  BY <1>1, <1>2 DEF Governed, Members, HasRole, ElectionNeeded, MayOpen

(* Revoking leaves another commissioner, or the one who revokes; only the  *)
(* deputy who is asked, with nobody else beside, can leave nobody.         *)
LEMMA RevokeGoverns ==
  ASSUME IInv, NEW p \in Principal, NEW q \in Principal, NEW role \in Role,
         RoleRevoked(p, q, role)
  PROVE  Governed' \/ Alone
<1> DEFINE r == Less(roles, q, role)
           s == Less(r, q, "Commissioner")
<1>1. /\ r \in [Principal -> SUBSET Role] /\ r[q] = roles[q] \ {role}
      /\ \A x \in Principal : x # q => r[x] = roles[x]
  BY LessIs DEF IInv, TypeOK
<1>2. CASE role = "CoCommissioner" /\ pending = q
  <2>1. AdvanceSuccession(s, outgoing, q) /\ outgoing' = outgoing
    BY <1>2 DEF RoleRevoked
  <2> HIDE DEF r
  <2>2. s \in [Principal -> SUBSET Role] /\ \A x \in Principal : x # q => s[x] = roles[x]
    BY <1>1, LessIs
  <2> HIDE DEF s
  <2>3. outgoing # None /\ deputies \in Seq(Principal)
    BY <1>2, NoneAssumption DEF IInv, Leadership, SuccessionConsistent, TypeOK
  <2>4. CASE \E x \in Principal \ {q} : roles[x] # {}
    BY <2>1, <2>2, <2>3, <2>4, SuccessionGoverns
  <2> QED
    BY <2>4 DEF Alone
<1>3. CASE ~(role = "CoCommissioner" /\ pending = q)
  <2>1. roles' = r
    BY <1>3 DEF RoleRevoked
  <2> HIDE DEF r, s
  <2>2. CASE role = "Commissioner"
    <3>1. q \in Members("Commissioner") /\ Members("Commissioner") # {q}
      BY <2>2 DEF RoleRevoked, OnlyCommissioner, Members
    <3>2. PICK x \in Members("Commissioner") : x # q
      BY <3>1
    <3>3. x \in Principal /\ "Commissioner" \in roles'[x]
      BY <3>2, <1>1, <2>1 DEF Members, HasRole
    <3> QED
      BY <3>3, LedIsGoverned
  <2>3. CASE role # "Commissioner"
    <3>1. "Commissioner" \in roles'[p]
      BY <1>1, <2>1, <2>3 DEF RoleRevoked, MayAdminister, HasRole
    <3> QED
      BY <3>1, LedIsGoverned
  <2> QED
    BY <2>2, <2>3
<1> QED
  BY <1>2, <1>3

(* The named successor leads, and so does the first deputy; without one,   *)
(* somebody else with a role may open the election.                        *)
LEMMA StepDownGoverns ==
  ASSUME IInv, NEW p \in Principal, NEW q \in Principal \cup {None}, StepDown(p, q)
  PROVE  Governed' \/ Alone
<1>1. CASE q = None
  <2>1. StartSuccession(p)
    BY <1>1 DEF StepDown
  <2>2. CASE \E x \in Principal \ {p} : roles[x] # {}
    BY <2>1, <2>2, StartGoverns DEF IInv
  <2> QED
    BY <2>2 DEF Alone
<1>2. CASE q # None
  BY <1>2, TransferGoverns DEF StepDown, IInv
<1> QED
  BY <1>1, <1>2

(* The deputy who accepts leads already. *)
LEMMA AcceptGoverns ==
  ASSUME IInv, NEW p \in Principal, SuccessorAccepted(p)
  PROVE  Governed'
<1>1. PICK x \in Principal : "Commissioner" \in roles[x]
  BY NoneAssumption DEF SuccessorAccepted, IInv, Leadership, SuccessionConsistent,
     Members, HasRole
<1>2. roles' = roles
  BY DEF SuccessorAccepted, roleVars
<1> QED
  BY <1>1, <1>2, LedIsGoverned

(* The deputy who declines is a deputy still. *)
LEMMA DeclineGoverns ==
  ASSUME IInv, NEW p \in Principal, SuccessorDeclined(p)
  PROVE  Governed'
<1> DEFINE r == Less(roles, p, "Commissioner")
<1>1. /\ outgoing # None /\ outgoing' = outgoing /\ deputies \in Seq(Principal)
      /\ p \in Members("CoCommissioner")
  BY NoneAssumption
  DEF SuccessorDeclined, IInv, TypeOK, Leadership, SuccessionConsistent, DeputiesInOrder
<1>2. r \in [Principal -> SUBSET Role] /\ r[p] = roles[p] \ {"Commissioner"}
  BY LessIs DEF IInv, TypeOK
<1>3. AdvanceSuccession(r, outgoing, p)
  BY DEF SuccessorDeclined
<1> HIDE DEF r
<1>4. "CoCommissioner" \in r[p]
  BY <1>1, <1>2 DEF Members, HasRole
<1> QED
  BY <1>1, <1>2, <1>3, <1>4, SuccessionGoverns

(* The deputy who takes over leads. *)
LEMMA TakeoverGoverns ==
  ASSUME IInv, NEW p \in Principal, NEW c \in Principal, InactivityTakeover(p, c)
  PROVE  Governed'
<1>1. Transfer(c, p) /\ p = FirstDeputy(roles, 0, {c})
  BY DEF InactivityTakeover
<1>2. p \notin {c}
  <2>1. deputies \in Seq(Principal) /\ 0 \in Nat /\ FirstDeputy(roles, 0, {c}) # None
    BY <1>1, NoneAssumption DEF IInv, TypeOK
  <2> QED
    BY <2>1, <1>1, FirstDeputyIsOne
<1> QED
  BY <1>1, <1>2, TransferGoverns DEF IInv

(* Whoever closes a vote-out may open the election that it leads to. *)
LEMMA VoteOutGoverns ==
  ASSUME IInv, Governed, NEW p \in Principal, VoteOutClosed(p)
  PROVE  Governed'
<1>1. CASE For(vote, "yes") >= Threshold
  <2>1. vote.target \in Principal
    BY DEF VoteOutClosed, IInv, TypeOK, Vote
  <2>2. p \in Principal \ {vote.target} /\ roles[p] # {}
    BY DEF VoteOutClosed, MayClose, MayOpen, HasRole
  <2>3. StartSuccession(vote.target)
    BY <1>1 DEF VoteOutClosed
  <2> QED
    BY <2>1, <2>2, <2>3, StartGoverns DEF IInv
<1>2. CASE ~(For(vote, "yes") >= Threshold)
  BY <1>2, GovernedStays DEF VoteOutClosed, succession
<1> QED
  BY <1>1, <1>2

(* The winner of an election leads, unless it is the one replaced. *)
LEMMA ElectionGoverns ==
  ASSUME IInv, NEW p \in Principal, ElectionConcluded(p)
  PROVE  Governed' \/ SelfElected
<1>1. vote \in Vote /\ vote # None /\ vote.election /\ vote' = None
  BY DEF ElectionConcluded, IInv, TypeOK
<1>2. PICK winner \in Elected(vote) : Transfer(vote.target, winner)
  BY DEF ElectionConcluded
<1>3. winner \in Principal /\ vote.target \in Principal
  BY <1>1, <1>2, ElectedArePeople DEF Vote
<1>4. CASE winner # vote.target
  BY <1>2, <1>3, <1>4, TransferGoverns DEF IInv
<1>5. CASE winner = vote.target
  BY <1>1, <1>2, <1>5 DEF SelfElected
<1> QED
  BY <1>4, <1>5

(* No command but these two leaves a league without government. *)
LEMMA CommandGoverns ==
  ASSUME IInv, Governed, NEW p \in Principal, Command(p)
  PROVE  Governed' \/ Alone \/ SelfElected
<1>1. ASSUME NEW q \in Principal, NEW role \in Role,
             RoleGranted(p, q, role) \/ RoleRevoked(p, q, role)
      PROVE  Governed' \/ Alone
  BY <1>1, GrantGoverns, RevokeGoverns
<1>2. ASSUME \/ DeputyOrderSet(p)
             \/ \E f \in Franchise, q \in Principal : InviteIssued(p, f, q) \/ SeatReplaced(p, f, q)
             \/ \E i \in DOMAIN invites : InviteRevoked(p, i) \/ InviteRedeemed(p, i)
             \/ \E f \in Franchise : SeatRemoved(p, f) \/ CaretakerSeated(p, f)
             \/ \E n \in Size : FranchisesResized(p, n)
      PROVE  Governed'
  BY <1>2, GovernedStays
  DEF DeputyOrderSet, InviteIssued, SeatReplaced, InviteRevoked, InviteRedeemed,
      SeatRemoved, CaretakerSeated, FranchisesResized, roleVars, succession
<1>3. ASSUME NEW q \in Principal \cup {None}, StepDown(p, q)
      PROVE  Governed' \/ Alone
  BY <1>3, StepDownGoverns
<1>4. ASSUME SuccessorAccepted(p) \/ SuccessorDeclined(p)
      PROVE  Governed'
  BY <1>4, AcceptGoverns, DeclineGoverns
<1>5. ASSUME NEW c \in Principal, InactivityTakeover(p, c)
      PROVE  Governed'
  BY <1>5, TakeoverGoverns
<1>6. ASSUME \/ \E c \in Principal : VoteOutOpened(p, c)
             \/ ElectionOpened(p)
             \/ \E f \in Franchise, choice \in Choice : BallotCast(p, f, choice)
             \/ RunoffOpened(p)
             \/ \E choice \in Principal : ElectionTieBreakCast(p, choice)
      PROVE  Governed'
  BY <1>6, GovernedStays
  DEF VoteOutOpened, ElectionOpened, BallotCast, RunoffOpened, ElectionTieBreakCast,
      roleVars, succession
<1>7. ASSUME VoteOutClosed(p) \/ ElectionConcluded(p)
      PROVE  Governed' \/ SelfElected
  BY <1>7, VoteOutGoverns, ElectionGoverns
<1> QED
  BY <1>1, <1>2, <1>3, <1>4, <1>5, <1>6, <1>7 DEF Command

(* A league that has a commissioner, or somebody who may open the election *)
(* it needs, stays so, whatever people do and in whatever order, unless    *)
(* one person has all its roles or the outgoing commissioner is elected.   *)
THEOREM LeagueStaysGoverned == Spec => StaysGoverned
<1>1. ASSUME IInv, Governed, Next PROVE Governed' \/ Alone \/ SelfElected
  <2> USE <1>1
  <2>1. ASSUME NEW p \in Principal, LeagueCreated(p) PROVE Governed'
    <3>1. "Commissioner" \in roles'[p]
      BY <2>1, WithIs DEF LeagueCreated, IInv, TypeOK, Role
    <3> QED
      BY <3>1, LedIsGoverned
  <2>2. ASSUME NEW p \in Principal, Command(p) PROVE Governed' \/ Alone \/ SelfElected
    BY <2>2, CommandGoverns
  <2>3. ASSUME UNCHANGED <<roleVars, succession>> PROVE Governed'
    BY <2>3, GovernedStays DEF roleVars, succession
  <2>4. ASSUME \/ \E p \in Principal : OtherCommand(p) \/ InactivitySet(p) \/ GoesQuiet(p)
               \/ PeriodEnds
        PROVE  Governed'
    BY <2>3, <2>4 DEF OtherCommand, InactivitySet, GoesQuiet, PeriodEnds
  <2> QED
    BY <2>1, <2>2, <2>4 DEF Next
<1>2. IInv /\ [Next]_vars =>
        [Governed /\ ~Governed' =>
           \/ \E p \in Principal : \A q \in Principal \ {p} : roles[q] = {}
           \/ vote # None /\ vote.election /\ vote.target \in Elected(vote) /\ vote' = None]_vars
  BY <1>1 DEF Alone, SelfElected
<1> QED
  BY <1>2, GovernanceHolds, PTL DEF Spec, StaysGoverned

-----------------------------------------------------------------------------
(* The turns of the deputies *)

(* The deputy found after position i stands after it. *)
LEMMA FirstDeputyIsLater ==
  ASSUME deputies \in Seq(Principal), NEW r, NEW i \in Nat, NEW excluded,
         FirstDeputy(r, i, excluded) # None,
         \A j, k \in DOMAIN deputies : deputies[j] = deputies[k] => j = k
  PROVE  Position(FirstDeputy(r, i, excluded)) > i
<1> DEFINE able == {j \in DOMAIN deputies : /\ j > i
                                            /\ deputies[j] \notin excluded
                                            /\ "CoCommissioner" \in r[deputies[j]]}
           first == CHOOSE j \in able : \A k \in able : j <= k
           d == FirstDeputy(r, i, excluded)
<1>1. able # {} /\ d = deputies[first]
  BY DEF FirstDeputy
<1>2. able \subseteq Nat
  OBVIOUS
<1>3. \E j \in able : \A k \in able : j <= k
  <2> HIDE DEF able
  <2> QED
    BY <1>1, <1>2, Smallest
<1>4. first \in able
  BY <1>3
<1>5. first \in DOMAIN deputies /\ first > i
  BY <1>4
<1>6. d \in Listed
  BY <1>1, <1>5 DEF Listed
<1> HIDE DEF first, able, d
<1>7. Position(d) \in DOMAIN deputies /\ deputies[Position(d)] = d
  BY <1>6, PositionIsNatural
<1>8. Position(d) = first
  BY <1>1, <1>5, <1>7
<1> QED
  BY <1>5, <1>8 DEF d

(* In a succession the list of deputies is gone down, never up: one who    *)
(* declined is not asked again while neither the roles nor the order       *)
(* change and no vote is closed.                                           *)
THEOREM TurnsOnlyMoveOn == Spec => TurnsMoveOn
<1>1. ASSUME IInv, [Next]_vars, pending # None, pending' \notin {None, pending},
             grants' = grants, vote' = vote
      PROVE  Position(pending') > Position(pending)
  <2> USE <1>1 DEF IInv
  <2>1. outgoing # None
    BY DEF Leadership, SuccessionConsistent
  <2>2. grants \in Int /\ deputies \in Seq(Principal)
    BY DEF TypeOK
  <2>3. PICK p \in Principal : Created /\ Command(p)
    BY DEF Next, LeagueCreated, OtherCommand, InactivitySet, GoesQuiet, PeriodEnds, vars,
           succession
  <2>4. SuccessorDeclined(p)
    <3>1. \A q \in Principal, role \in Role : ~RoleGranted(p, q, role) /\ ~RoleRevoked(p, q, role)
      BY <2>2 DEF RoleGranted, RoleRevoked
    <3>2. ~DeputyOrderSet(p)
      BY <2>2 DEF DeputyOrderSet
    <3>3. /\ \A f \in Franchise, q \in Principal : ~InviteIssued(p, f, q) /\ ~SeatReplaced(p, f, q)
          /\ \A i \in DOMAIN invites : ~InviteRevoked(p, i) /\ ~InviteRedeemed(p, i)
          /\ \A f \in Franchise : ~SeatRemoved(p, f) /\ ~CaretakerSeated(p, f)
          /\ \A n \in Size : ~FranchisesResized(p, n)
      BY DEF InviteIssued, SeatReplaced, InviteRevoked, InviteRedeemed, SeatRemoved,
             CaretakerSeated, FranchisesResized, succession
    <3>4. /\ \A q \in Principal \cup {None} : ~StepDown(p, q)
          /\ ~SuccessorAccepted(p)
          /\ \A c \in Principal : ~InactivityTakeover(p, c)
      BY <2>1 DEF StepDown, SuccessorAccepted, InactivityTakeover, Transfer
    <3>5. /\ \A c \in Principal : ~VoteOutOpened(p, c)
          /\ ~ElectionOpened(p)
          /\ \A f \in Franchise, choice \in Choice : ~BallotCast(p, f, choice)
          /\ \A choice \in Principal : ~ElectionTieBreakCast(p, choice)
          /\ ~RunoffOpened(p)
      BY DEF VoteOutOpened, ElectionOpened, BallotCast, ElectionTieBreakCast, RunoffOpened,
             succession
    <3>6. ~VoteOutClosed(p) /\ ~ElectionConcluded(p)
      BY DEF VoteOutClosed, ElectionConcluded
    <3> QED
      BY <2>3, <3>1, <3>2, <3>3, <3>4, <3>5, <3>6 DEF Command
  <2> DEFINE r == Less(roles, p, "Commissioner")
  <2>5. pending' = FirstDeputy(r, Position(pending), {outgoing})
    BY <2>4 DEF SuccessorDeclined, AdvanceSuccession
  <2>7. Position(pending) \in Nat
    BY <2>2, PositionIsNatural
  <2> HIDE DEF r
  <2>8. Position(pending') > Position(pending)
    BY <2>2, <2>5, <2>7, FirstDeputyIsLater DEF Leadership, DeputiesInOrder
  <2> QED
    BY <2>8
<1>2. IInv /\ [Next]_vars =>
        [pending # None /\ pending' \notin {None, pending} /\ grants' = grants /\ vote' = vote
           => Position(pending') > Position(pending)]_vars
  BY <1>1
<1> QED
  BY <1>2, GovernanceHolds, PTL DEF Spec, TurnsMoveOn

-----------------------------------------------------------------------------
(* What an election decides *)

(* The ballots of a runoff are for its candidates, and only elections have *)
(* runoffs.                                                                *)
RunoffBallots ==
  vote # None /\ vote.runoff =>
    /\ vote.election
    /\ \A f \in Franchise : vote.ballots[f] \in vote.candidates \cup {None}

(* The ballots of a runoff start empty, and are cast for candidates. *)
LEMMA RunoffBallotsHold ==
  /\ Init => RunoffBallots
  /\ TypeOK /\ RunoffBallots /\ [Next]_vars => RunoffBallots'
<1>1. Init => RunoffBallots
  BY DEF Init, RunoffBallots
<1>2. ASSUME TypeOK, RunoffBallots, [Next]_vars PROVE RunoffBallots'
  <2> USE <1>2
  <2>1. ASSUME UNCHANGED vote PROVE RunoffBallots'
    BY <2>1 DEF RunoffBallots
  <2>2. ASSUME vote' = None PROVE RunoffBallots'
    BY <2>2 DEF RunoffBallots
  <2>3. ASSUME NEW target, NEW election, OpenVote(target, election) PROVE RunoffBallots'
    BY <2>3 DEF OpenVote, RunoffBallots
  <2>4. ASSUME NEW p \in Principal, NEW f \in Franchise, NEW choice \in Choice,
               BallotCast(p, f, choice)
        PROVE  RunoffBallots'
    <3>1. vote \in Vote /\ vote # None /\ vote' = [vote EXCEPT !.ballots[f] = choice]
      BY <2>4 DEF BallotCast, TypeOK
    <3>2. /\ vote'.runoff = vote.runoff /\ vote'.election = vote.election
          /\ vote'.candidates = vote.candidates
          /\ \A g \in Franchise : vote'.ballots[g] = IF g = f THEN choice ELSE vote.ballots[g]
      BY <3>1 DEF Vote
    <3>3. vote.runoff => choice \in vote.candidates
      BY <2>4, <3>1 DEF BallotCast, ChoiceAllowed, RunoffBallots
    <3> QED
      BY <3>1, <3>2, <3>3 DEF RunoffBallots
  <2>5. ASSUME NEW p \in Principal, NEW choice \in Principal, ElectionTieBreakCast(p, choice)
        PROVE  RunoffBallots'
    <3>1. vote \in Vote /\ vote # None /\ vote' = [vote EXCEPT !.rulings[p] = choice]
      BY <2>5 DEF ElectionTieBreakCast, TypeOK
    <3> QED
      BY <3>1 DEF RunoffBallots, Vote
  <2>6. ASSUME NEW p \in Principal, RunoffOpened(p) PROVE RunoffBallots'
    <3>1. vote \in Vote /\ vote.election
          /\ vote' = [vote EXCEPT !.candidates = Top(vote, 2), !.ballots = NoBallots,
                                  !.runoff = TRUE, !.ended = FALSE, !.rulings = NoRulings]
      BY <2>6 DEF RunoffOpened, TypeOK
    <3>2. vote'.election = vote.election /\ vote'.ballots = NoBallots
      BY <3>1 DEF Vote
    <3> QED
      BY <3>1, <3>2 DEF RunoffBallots, NoBallots
  <2>7. ASSUME PeriodEnds PROVE RunoffBallots'
    <3>1. vote \in Vote /\ vote # None /\ vote' = [vote EXCEPT !.ended = TRUE]
      BY <2>7 DEF PeriodEnds, TypeOK
    <3> QED
      BY <3>1 DEF RunoffBallots, Vote
  <2>8. ASSUME NEW p \in Principal, Command(p) PROVE RunoffBallots'
    <3>1. ASSUME \/ \E c \in Principal : VoteOutOpened(p, c)
                 \/ ElectionOpened(p)
          PROVE  RunoffBallots'
      BY <2>3, <3>1 DEF VoteOutOpened, ElectionOpened
    <3>2. ASSUME VoteOutClosed(p) \/ ElectionConcluded(p) PROVE RunoffBallots'
      BY <2>2, <3>2 DEF VoteOutClosed, ElectionConcluded
    <3>3. ASSUME \E q \in Principal, role \in Role : RoleGranted(p, q, role) \/ RoleRevoked(p, q, role)
          PROVE  UNCHANGED vote
      BY <3>3 DEF RoleGranted, RoleRevoked, voteVars
    <3>4. ASSUME \/ DeputyOrderSet(p)
                 \/ \E f \in Franchise, q \in Principal : InviteIssued(p, f, q) \/ SeatReplaced(p, f, q)
                 \/ \E i \in DOMAIN invites : InviteRevoked(p, i) \/ InviteRedeemed(p, i)
                 \/ \E f \in Franchise : SeatRemoved(p, f) \/ CaretakerSeated(p, f)
                 \/ \E n \in Size : FranchisesResized(p, n)
          PROVE  UNCHANGED vote
      BY <3>4 DEF DeputyOrderSet, InviteIssued, SeatReplaced, InviteRevoked, InviteRedeemed,
                  SeatRemoved, CaretakerSeated, FranchisesResized, voteVars
    <3>5. ASSUME \/ \E q \in Principal \cup {None} : StepDown(p, q)
                 \/ SuccessorAccepted(p)
                 \/ SuccessorDeclined(p)
                 \/ \E c \in Principal : InactivityTakeover(p, c)
          PROVE  UNCHANGED vote
      BY <3>5 DEF StepDown, SuccessorAccepted, SuccessorDeclined, InactivityTakeover, voteVars
    <3> QED
      BY <2>8, <2>1, <2>4, <2>5, <2>6, <3>1, <3>2, <3>3, <3>4, <3>5 DEF Command
  <2> QED
    BY <2>1, <2>7, <2>8
    DEF Next, LeagueCreated, OtherCommand, InactivitySet, GoesQuiet, vars, voteVars
<1> QED
  BY <1>1, <1>2

(* The ballots for somebody are counted in numbers. *)
LEMMA CountIsNatural ==
  ASSUME NEW v, NEW x
  PROVE  For(v, x) \in Nat
<1>1. IsFiniteSet(Franchise) /\ Given(v, x) \subseteq Franchise
  BY FS_Interval, BoundsAssumption DEF Franchise, Given
<1>2. IsFiniteSet(Given(v, x))
  BY <1>1, FS_Subset
<1> QED
  BY <1>2, FS_CardinalityType DEF For

(* Those at the very top are those whom nobody has more ballots than. *)
LEMMA TopIsFirst ==
  ASSUME NEW v \in Vote
  PROVE  Top(v, 1) = {x \in Ranked(v) : \A y \in Ranked(v) : For(v, y) <= For(v, x)}
<1>1. ASSUME NEW x \in Ranked(v)
      PROVE  Cardinality({y \in Ranked(v) : For(v, y) > For(v, x)}) < 1
               <=> \A y \in Ranked(v) : For(v, y) <= For(v, x)
  <2> DEFINE above == {y \in Ranked(v) : For(v, y) > For(v, x)}
  <2>1. above \subseteq Principal
    BY DEF Ranked, Vote
  <2>2. IsFiniteSet(above)
    BY <2>1, PrincipalAssumption, FS_Subset
  <2>3. above = {} <=> \A y \in Ranked(v) : For(v, y) <= For(v, x)
    BY CountIsNatural
  <2> HIDE DEF above
  <2>4. Cardinality(above) \in Nat /\ (Cardinality(above) = 0 <=> above = {})
    BY <2>2, FS_CardinalityType, FS_EmptySet
  <2>5. Cardinality(above) < 1 <=> above = {}
    BY <2>4
  <2> QED
    BY <2>3, <2>5 DEF above
<1> QED
  BY <1>1 DEF Top

(* A tie is won by the ruling of somebody who is a judge: a deputy or a    *)
(* DOT member, and no candidate.                                           *)
LEMMA TieIsJudged ==
  ASSUME TypeOK, NEW v \in Vote, NEW winner \in TieWon(v)
  PROVE  \E judge \in Principal \ v.candidates : MayOpen(judge) /\ v.rulings[judge] = winner
<1>1. CASE JudgeDeputy(v) # None
  <2> DEFINE judge == JudgeDeputy(v)
  <2>1. v.rulings[judge] = winner
    BY <1>1 DEF TieWon
  <2>2. judge \in Listed /\ judge \notin v.candidates /\ "CoCommissioner" \in roles[judge]
    BY <1>1, FirstDeputyIsOne DEF JudgeDeputy, TypeOK
  <2>3. judge \in Principal
    BY <2>2, ListedArePeople DEF TypeOK
  <2> QED
    BY <2>1, <2>2, <2>3 DEF MayOpen, HasRole
<1>2. CASE JudgeDeputy(v) = None
  <2> DEFINE J == JudgesDOT(v)
             ruled == {p \in J : v.rulings[p] = winner}
  <2>1. Cardinality(ruled) >= Cardinality(J) \div 2 + 1
    BY <1>2 DEF TieWon
  <2>2. J \subseteq Principal \ v.candidates /\ \A p \in J : HasRole(p, "DOT")
    BY DEF JudgesDOT, Members
  <2>3. IsFiniteSet(J) /\ IsFiniteSet(ruled)
    BY <2>2, PrincipalAssumption, FS_Subset
  <2> HIDE DEF J
  <2>4. ruled # {}
    <3>1. Cardinality(J) \in Nat
      BY <2>3, FS_CardinalityType
    <3>2. Cardinality(ruled) # 0
      BY <2>1, <3>1
    <3> QED
      BY <3>2, <2>3, FS_EmptySet
  <2>5. PICK p \in ruled : TRUE
    BY <2>4
  <2> QED
    BY <2>2, <2>5 DEF MayOpen
<1> QED
  BY <1>1, <1>2

(* Whoever is elected has the ballots, or the ruling of a judge. *)
LEMMA ElectedHasBallots ==
  ASSUME TypeOK, RunoffBallots, vote # None, NEW winner \in Elected(vote)
  PROVE  /\ \A x \in Principal : For(vote, x) <= For(vote, winner)
         /\ ~vote.runoff => 2 * For(vote, winner) > teams
         /\ vote.runoff =>
              /\ winner \in vote.candidates
              /\ (\E x \in vote.candidates \ {winner} : For(vote, x) = For(vote, winner)) =>
                   \E judge \in Principal \ vote.candidates :
                     MayOpen(judge) /\ vote.rulings[judge] = winner
<1>1. vote \in Vote
  BY DEF TypeOK
<1>4. winner \in Top(vote, 1)
  BY DEF Elected, TieWon
<1>5. \A x \in Principal : For(vote, x) <= For(vote, winner)
  <2>1. \A x \in Ranked(vote) : For(vote, x) <= For(vote, winner)
    BY <1>1, <1>4, TopIsFirst
  <2>2. \A x \in Principal \ Ranked(vote) : For(vote, x) = 0
    BY FS_EmptySet DEF Ranked, For
  <2> QED
    BY <2>1, <2>2, CountIsNatural
<1>2. ASSUME ~vote.runoff PROVE 2 * For(vote, winner) > teams
  <2>1. For(vote, winner) >= teams \div 2 + 1
    BY <1>2 DEF Elected, Majority
  <2>2. For(vote, winner) \in Nat /\ teams \in Nat
    BY CountIsNatural, BoundsAssumption DEF TypeOK
  <2> HIDE DEF For
  <2> QED
    BY <2>1, <2>2
<1>3. ASSUME vote.runoff
      PROVE  /\ winner \in vote.candidates
             /\ (\E x \in vote.candidates \ {winner} : For(vote, x) = For(vote, winner)) =>
                  \E judge \in Principal \ vote.candidates :
                    MayOpen(judge) /\ vote.rulings[judge] = winner
  <2>2. Ranked(vote) = vote.candidates
    <3>1. \A x \in Principal : Given(vote, x) # {} => x \in vote.candidates
      BY <1>3, NoneAssumption DEF Given, RunoffBallots
    <3> QED
      BY <3>1 DEF Ranked
  <2>3. winner \in vote.candidates /\ \A x \in vote.candidates : For(vote, x) <= For(vote, winner)
    BY <1>1, <1>4, <2>2, TopIsFirst
  <2>4. ASSUME NEW x \in vote.candidates, x # winner, For(vote, x) = For(vote, winner)
        PROVE  winner \in TieWon(vote)
    <3>1. x \in Top(vote, 1)
      BY <1>1, <2>2, <2>3, <2>4, TopIsFirst
    <3>2. Cardinality(Top(vote, 1)) # 1
      <4>1. IsFiniteSet(Top(vote, 1))
        BY <1>1, TopArePeople, PrincipalAssumption, FS_Subset
      <4> QED
        BY <1>4, <2>4, <3>1, <4>1, FS_Singleton
    <3> QED
      BY <1>3, <3>2 DEF Elected
  <2> QED
    BY <1>1, <2>3, <2>4, TieIsJudged
<1> QED
  BY <1>5, <1>2, <1>3

(* Nobody is elected without the ballots for it, or, of equals in a        *)
(* runoff, without the ruling of somebody entitled to judge.               *)
THEOREM ElectionsDecide == Spec => ElectionDecides
<1> DEFINE Decided(e) ==
      /\ \A x \in Principal : For(vote, x) <= For(vote, e.to)
      /\ ~vote.runoff => 2 * For(vote, e.to) > teams
      /\ vote.runoff =>
           /\ e.to \in vote.candidates
           /\ (\E x \in vote.candidates \ {e.to} : For(vote, x) = For(vote, e.to)) =>
                \E judge \in Principal \ vote.candidates :
                  MayOpen(judge) /\ vote.rulings[judge] = e.to
<1>1. ASSUME TypeOK, RunoffBallots, Next, NEW e \in elected' \ elected PROVE Decided(e)
  <2>1. PICK p \in Principal : ElectionConcluded(p)
    BY <1>1
    DEF Next, Command, LeagueCreated, OtherCommand, InactivitySet, GoesQuiet, PeriodEnds,
        RoleGranted, RoleRevoked, DeputyOrderSet, InviteIssued, SeatReplaced, InviteRevoked,
        InviteRedeemed, SeatRemoved, CaretakerSeated, FranchisesResized, StepDown,
        SuccessorAccepted, SuccessorDeclined, InactivityTakeover, VoteOutOpened,
        ElectionOpened, OpenVote, BallotCast, VoteOutClosed, RunoffOpened,
        ElectionTieBreakCast, voteVars
  <2>2. PICK winner \in Elected(vote) :
          elected' = elected \cup {[vote |-> votes, from |-> vote.target, to |-> winner]}
    BY <2>1 DEF ElectionConcluded
  <2>3. e.to = winner
    BY <1>1, <2>2
  <2>4. vote # None
    BY <2>1 DEF ElectionConcluded
  <2> HIDE DEF Decided
  <2>5. Decided([vote |-> votes, from |-> vote.target, to |-> winner])
    BY <1>1, <2>4, ElectedHasBallots DEF Decided
  <2> QED
    BY <2>3, <2>5 DEF Decided
<1>2. TypeOK /\ RunoffBallots /\ [Next]_vars => [\A e \in elected' \ elected : Decided(e)]_vars
  BY <1>1
<1>3. Spec => []RunoffBallots
  BY RunoffBallotsHold, StateIsTyped, PTL DEF Spec
<1> QED
  BY <1>2, <1>3, StateIsTyped, PTL DEF Spec, ElectionDecides

=============================================================================
