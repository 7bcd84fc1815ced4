--------------------------- MODULE LeagueGovernance ---------------------------
(***************************************************************************)
(* Who leads a league: seats, roles, deputies, succession and votes.       *)
(*                                                                         *)
(* The ledger's commands are folded in order, so a step is one recorded    *)
(* command: its permission, the checks of its event, and the state that    *)
(* follows.  Two more steps belong to the clock: a voting period ends, and *)
(* a person has not acted for the longer inactivity period.                *)
(***************************************************************************)
EXTENDS Integers, Sequences, FiniteSets

CONSTANTS
  Principal,    \* the people
  None,         \* nobody, and "no vote is open"
  MinTeams,     \* the fewest franchises a league may have
  MaxTeams,     \* bound: franchises of the league
  MaxGrants,    \* bound: changes of roles and of the deputies' order
  MaxSeatings,  \* bound: changes of seats and caretakers, but by invitation
  MaxInvites,   \* bound: invitations issued
  MaxVotes,     \* bound: votes opened
  Minded,       \* bound: the franchises a caretaker is named for in this instance
  Watched       \* bound: the people whose activity matters in this instance

ASSUME PrincipalAssumption == IsFiniteSet(Principal)
ASSUME NoneAssumption      == None \notin Principal /\ None \notin {"yes", "no"}
ASSUME BoundsAssumption    ==
  /\ MinTeams \in Nat \ {0} /\ MaxTeams \in Nat /\ MaxGrants \in Nat /\ MaxSeatings \in Nat
  /\ MaxInvites \in Nat /\ MaxVotes \in Nat /\ Watched \subseteq Principal

VARIABLES
  teams,      \* the league's franchises are 1..teams; 0 before it is created
  seat,       \* the owner of a franchise
  caretaker,  \* the commissioner who minds a vacant one
  invites,    \* the invitations, in the order they were issued
  roles,      \* the roles of each person
  deputies,   \* the co-commissioners in order of succession
  pending,    \* the deputy asked to succeed
  outgoing,   \* the commissioner being succeeded
  vote,       \* the open vote
  votes,      \* votes opened so far: their identities
  elected,    \* the elections decided: which vote, whom it replaced, by whom
  seen,       \* the people with recorded activity
  quiet,      \* those among them inactive for the longer period
  grants,     \* role changes so far
  seatings    \* seat changes so far

franchiseVars == <<teams, seat, caretaker, invites, seatings>>
roleVars      == <<roles, deputies, grants>>
succession    == <<pending, outgoing>>
voteVars      == <<vote, votes, elected>>
activity      == <<seen, quiet>>
vars == <<franchiseVars, roleVars, succession, voteVars, activity>>

Role == {"Commissioner", "CoCommissioner", "DOT"}
Franchise == 1..MaxTeams
Size == MinTeams..MaxTeams
Choice == Principal \cup {"yes", "no", None}
Invite == [franchise : Franchise, redeemer : Principal,
           status : {"open", "revoked", "redeemed"}]
Vote == [target : Principal, election : BOOLEAN, ballots : [Franchise -> Choice],
         ended : BOOLEAN, runoff : BOOLEAN, candidates : SUBSET Principal,
         rulings : [Principal -> Principal \cup {None}]]
NoBallots == [f \in Franchise |-> None]
NoRulings == [p \in Principal |-> None]

TypeOK ==
  /\ teams \in 0..MaxTeams
  /\ seat \in [Franchise -> Principal \cup {None}]
  /\ caretaker \in [Franchise -> Principal \cup {None}]
  /\ invites \in Seq(Invite) /\ Len(invites) <= MaxInvites
  /\ roles \in [Principal -> SUBSET Role]
  /\ deputies \in Seq(Principal)
  /\ pending \in Principal \cup {None}
  /\ outgoing \in Principal \cup {None}
  /\ vote \in Vote \cup {None}
  /\ votes \in 0..MaxVotes
  /\ elected \subseteq [vote : 0..MaxVotes, from : Principal, to : Principal]
  /\ seen \subseteq Watched /\ quiet \subseteq seen
  /\ grants \in 0..MaxGrants /\ seatings \in 0..MaxSeatings

-----------------------------------------------------------------------------
Created == teams > 0
HasRole(p, r) == r \in roles[p]
Members(r) == {p \in Principal : HasRole(p, r)}
OnlyCommissioner(p) == Members("Commissioner") = {p}
Listed == {deputies[i] : i \in DOMAIN deputies}
ElectionNeeded == outgoing # None /\ pending = None

(* Allow: what the census lets commissioners, and their deputies, do. *)
MayAdminister(p) == HasRole(p, "Commissioner")
MayDeputise(p) == HasRole(p, "Commissioner") \/ HasRole(p, "CoCommissioner")

(* successionPermission, gateOpener *)
MayOpen(p) == HasRole(p, "CoCommissioner") \/ HasRole(p, "DOT")

(* authorizeSuccession, gateCloser: not the person the vote is about. *)
MayClose(p) == MayOpen(p) /\ p # vote.target

(* grant and delete, on the roles r *)
With(r, p, role) == [r EXCEPT ![p] = @ \cup {role}]
Less(r, p, role) == [r EXCEPT ![p] = @ \ {role}]

(* The position of p in the deputies' order; 0 when it is not there. *)
Position(p) ==
  IF p \in Listed THEN CHOOSE i \in DOMAIN deputies : deputies[i] = p ELSE 0

(* slices.DeleteFunc *)
Without(p) ==
  [i \in 1..(IF p \in Listed THEN Len(deputies) - 1 ELSE Len(deputies)) |->
     IF p \in Listed /\ i >= Position(p) THEN deputies[i + 1] ELSE deputies[i]]

(* The first deputy after position i who is one by the roles r and is not  *)
(* excluded: the loop of advanceSuccession, and firstDeputy.               *)
FirstDeputy(r, i, excluded) ==
  LET able == {j \in DOMAIN deputies : /\ j > i
                                       /\ deputies[j] \notin excluded
                                       /\ "CoCommissioner" \in r[deputies[j]]}
  IN  IF able = {} THEN None
      ELSE deputies[CHOOSE j \in able : \A k \in able : j <= k]

(* advanceSuccession: the next deputy is asked and holds the office        *)
(* meanwhile; when the list is exhausted nobody is pending.                *)
AdvanceSuccession(r, out, after) ==
  LET next == FirstDeputy(r, Position(after), {out})
  IN  /\ pending' = next
      /\ roles' = IF next = None THEN r ELSE With(r, next, "Commissioner")

(* startSuccession *)
StartSuccession(from) ==
  /\ outgoing' = from
  /\ AdvanceSuccession(Less(roles, from, "Commissioner"), from, None)

(* transfer: grants, then deletes *)
Transfer(from, to) ==
  /\ roles' = Less(With(roles, to, "Commissioner"), from, "Commissioner")
  /\ pending' = None
  /\ outgoing' = None

-----------------------------------------------------------------------------
(* The people of a league *)

Init ==
  /\ teams = 0
  /\ seat = [f \in Franchise |-> None]
  /\ caretaker = [f \in Franchise |-> None]
  /\ invites = <<>>
  /\ roles = [p \in Principal |-> {}]
  /\ deputies = <<>>
  /\ pending = None /\ outgoing = None
  /\ vote = None /\ votes = 0 /\ elected = {}
  /\ seen = {} /\ quiet = {}
  /\ grants = 0 /\ seatings = 0

LeagueCreated(p) ==
  /\ ~Created
  /\ teams' \in Size
  /\ roles' = With(roles, p, "Commissioner")
  /\ UNCHANGED <<seat, caretaker, invites, seatings, deputies, grants, succession, voteVars>>

(* Fault: a role held already is granted again. *)
RoleGrantedAgain(p, q, role) ==
  /\ MayAdminister(p)
  /\ grants < MaxGrants
  /\ roles' = With(roles, q, role)
  /\ deputies' = IF role = "CoCommissioner" THEN Append(deputies, q) ELSE deputies
  /\ grants' = grants + 1
  /\ UNCHANGED <<franchiseVars, succession, voteVars>>
RoleGranted(p, q, role) ==
  /\ MayAdminister(p)
  /\ ~HasRole(q, role)
  /\ grants < MaxGrants
  /\ roles' = With(roles, q, role)
  /\ deputies' = IF role = "CoCommissioner" THEN Append(deputies, q) ELSE deputies
  /\ grants' = grants + 1
  /\ UNCHANGED <<franchiseVars, succession, voteVars>>

(* Revoking the deputy who is asked to succeed ends its turn. *)
(* Fault: the turn goes on. *)
RoleRevokedOnly(p, q, role) ==
  /\ MayAdminister(p)
  /\ HasRole(q, role)
  /\ role = "Commissioner" => ~OnlyCommissioner(q)
  /\ grants < MaxGrants
  /\ roles' = Less(roles, q, role)
  /\ deputies' = IF role = "CoCommissioner" THEN Without(q) ELSE deputies
  /\ grants' = grants + 1
  /\ UNCHANGED <<franchiseVars, succession, voteVars>>
RoleRevoked(p, q, role) ==
  /\ MayAdminister(p)
  /\ HasRole(q, role)
  /\ role = "Commissioner" => ~OnlyCommissioner(q)
  /\ grants < MaxGrants
  /\ IF role = "CoCommissioner" /\ pending = q
     THEN AdvanceSuccession(Less(Less(roles, q, role), q, "Commissioner"), outgoing, q)
     ELSE roles' = Less(roles, q, role) /\ UNCHANGED pending
  /\ deputies' = IF role = "CoCommissioner" THEN Without(q) ELSE deputies
  /\ grants' = grants + 1
  /\ UNCHANGED <<franchiseVars, outgoing, voteVars>>

DeputyOrderSet(p) ==
  /\ MayAdminister(p)
  /\ grants < MaxGrants
  /\ deputies' \in {order \in [DOMAIN deputies -> Members("CoCommissioner")] :
                      \A i, j \in DOMAIN deputies : order[i] = order[j] => i = j}
  /\ grants' = grants + 1
  /\ UNCHANGED <<franchiseVars, roles, succession, voteVars>>

InviteIssued(p, f, q) ==
  /\ MayDeputise(p)
  /\ f <= teams /\ seat[f] = None
  /\ Len(invites) < MaxInvites
  /\ invites' = Append(invites, [franchise |-> f, redeemer |-> q, status |-> "open"])
  /\ UNCHANGED <<teams, seat, caretaker, seatings, roleVars, succession, voteVars>>

InviteRevoked(p, i) ==
  /\ MayDeputise(p)
  /\ invites[i].status = "open"
  /\ invites' = [invites EXCEPT ![i].status = "revoked"]
  /\ UNCHANGED <<teams, seat, caretaker, seatings, roleVars, succession, voteVars>>

(* assign: the person holds no other seat, and the last commissioner is    *)
(* not put out of a seat.  Fault: the person's other seat is overlooked. *)
AssignAnyone(f, q) ==
  /\ f <= teams
  /\ seat[f] # q => ~(seat[f] # None /\ OnlyCommissioner(seat[f]))
  /\ seat' = [seat EXCEPT ![f] = q]
  /\ caretaker' = [caretaker EXCEPT ![f] = None]
Assign(f, q) ==
  /\ f <= teams
  /\ \A g \in 1..teams : seat[g] = q => g = f
  /\ seat[f] # q => ~(seat[f] # None /\ OnlyCommissioner(seat[f]))
  /\ seat' = [seat EXCEPT ![f] = q]
  /\ caretaker' = [caretaker EXCEPT ![f] = None]

InviteRedeemed(p, i) ==
  /\ invites[i].status = "open" /\ invites[i].redeemer = p
  /\ seat[invites[i].franchise] = None
  /\ Assign(invites[i].franchise, p)
  /\ invites' = [invites EXCEPT ![i].status = "redeemed"]
  /\ UNCHANGED <<teams, seatings, roleVars, succession, voteVars>>

SeatReplaced(p, f, q) ==
  /\ MayDeputise(p)
  /\ seatings < MaxSeatings
  /\ Assign(f, q)
  /\ seatings' = seatings + 1
  /\ UNCHANGED <<teams, invites, roleVars, succession, voteVars>>

SeatRemoved(p, f) ==
  /\ MayDeputise(p)
  /\ f <= teams /\ seat[f] # None
  /\ ~OnlyCommissioner(seat[f])
  /\ seatings < MaxSeatings
  /\ seat' = [seat EXCEPT ![f] = None]
  /\ seatings' = seatings + 1
  /\ UNCHANGED <<teams, caretaker, invites, roleVars, succession, voteVars>>

CaretakerSeated(p, f) ==
  /\ MayAdminister(p)
  /\ f <= teams /\ f \in Minded /\ seat[f] = None /\ caretaker[f] # p
  /\ seatings < MaxSeatings
  /\ caretaker' = [caretaker EXCEPT ![f] = p]
  /\ seatings' = seatings + 1
  /\ UNCHANGED <<teams, seat, invites, roleVars, succession, voteVars>>

(* removable.  Fault: open invitations are overlooked. *)
RemovableIfVacant(f) == seat[f] = None /\ caretaker[f] = None
Removable(f) ==
  /\ seat[f] = None /\ caretaker[f] = None
  /\ \A i \in DOMAIN invites : ~(invites[i].franchise = f /\ invites[i].status = "open")

FranchisesResized(p, n) ==
  /\ MayAdminister(p)
  /\ n # teams
  /\ \A f \in (n + 1)..teams : Removable(f)
  /\ teams' = n
  /\ UNCHANGED <<seat, caretaker, invites, seatings, roleVars, succession, voteVars>>

-----------------------------------------------------------------------------
(* Succession *)

StepDown(p, successor) ==
  /\ HasRole(p, "Commissioner")
  /\ outgoing = None
  /\ successor # p
  /\ IF successor = None THEN StartSuccession(p) ELSE Transfer(p, successor)
  /\ UNCHANGED <<franchiseVars, deputies, grants, voteVars>>

SuccessorAccepted(p) ==
  /\ pending = p
  /\ pending' = None /\ outgoing' = None
  /\ UNCHANGED <<franchiseVars, roleVars, voteVars>>

(* Fault: the search starts again at the first deputy. *)
SuccessorDeclinedFromTop(p) ==
  /\ pending = p
  /\ AdvanceSuccession(Less(roles, p, "Commissioner"), outgoing, None)
  /\ UNCHANGED <<franchiseVars, deputies, grants, outgoing, voteVars>>
SuccessorDeclined(p) ==
  /\ pending = p
  /\ AdvanceSuccession(Less(roles, p, "Commissioner"), outgoing, p)
  /\ UNCHANGED <<franchiseVars, deputies, grants, outgoing, voteVars>>

(* The first deputy takes over from a commissioner who has been inactive.  *)
InactivityTakeover(p, c) ==
  /\ p = FirstDeputy(roles, 0, {c})
  /\ HasRole(c, "Commissioner") /\ c \in quiet
  /\ Transfer(c, p)
  /\ UNCHANGED <<franchiseVars, deputies, grants, voteVars>>

-----------------------------------------------------------------------------
(* Votes *)

Threshold == teams - teams \div 3
\* Fault: half of the franchises is enough.
MajorityHalf == (teams + 1) \div 2
Majority == teams \div 2 + 1

Given(v, x) == {f \in Franchise : v.ballots[f] = x}
For(v, x) == Cardinality(Given(v, x))

(* rankedCandidates: the runoff's candidates and whoever has a ballot; and *)
(* topCandidates: the first k of them with everyone tied to the last.      *)
Ranked(v) == v.candidates \cup {x \in Principal : Given(v, x) # {}}
Top(v, k) ==
  {x \in Ranked(v) : Cardinality({y \in Ranked(v) : For(v, y) > For(v, x)}) < k}

(* tieJudges: the first deputy who is no candidate, or else the DOT        *)
(* members who are none.                                                   *)
JudgeDeputy(v) == FirstDeputy(roles, 0, v.candidates)
JudgesDOT(v) == Members("DOT") \ v.candidates
MayRule(v, p) ==
  IF JudgeDeputy(v) # None THEN p = JudgeDeputy(v) ELSE p \in JudgesDOT(v)

(* tieWinner *)
TieWon(v) ==
  IF JudgeDeputy(v) # None
  THEN {v.rulings[JudgeDeputy(v)]} \cap Top(v, 1)
  ELSE {x \in Top(v, 1) : Cardinality({p \in JudgesDOT(v) : v.rulings[p] = x})
                            >= Cardinality(JudgesDOT(v)) \div 2 + 1}

(* electionResult: the winner, if there is one; any of several equals (the *)
(* first name), when ballots of franchises since given up make them many.  *)
Elected(v) ==
  IF ~v.runoff
  THEN {x \in Top(v, 1) : For(v, x) >= Majority}
  ELSE IF Cardinality(Top(v, 1)) = 1 THEN Top(v, 1) ELSE TieWon(v)

OpenVote(target, election) ==
  /\ vote = None
  /\ votes < MaxVotes
  /\ votes' = votes + 1
  /\ vote' = [target |-> target, election |-> election, ballots |-> NoBallots,
              ended |-> FALSE, runoff |-> FALSE, candidates |-> {}, rulings |-> NoRulings]
  /\ UNCHANGED elected

VoteOutOpened(p, c) ==
  /\ MayOpen(p)
  /\ HasRole(c, "Commissioner")
  /\ OpenVote(c, FALSE)
  /\ UNCHANGED <<franchiseVars, roleVars, succession>>

ElectionOpened(p) ==
  /\ MayOpen(p)
  /\ ElectionNeeded
  /\ OpenVote(outgoing, TRUE)
  /\ UNCHANGED <<franchiseVars, roleVars, succession>>

(* One ballot per franchise, cast by its owner; a second replaces it. *)
ChoiceAllowed(choice) ==
  IF vote.election
  THEN /\ choice \in Principal
       /\ ~vote.ended
       /\ vote.rulings = NoRulings
       /\ vote.runoff => choice \in vote.candidates
  ELSE choice \in {"yes", "no"}

BallotCast(p, f, choice) ==
  /\ vote # None
  /\ f <= teams /\ seat[f] = p
  /\ ChoiceAllowed(choice)
  /\ vote' = [vote EXCEPT !.ballots[f] = choice]
  /\ UNCHANGED <<franchiseVars, roleVars, succession, votes, elected>>

(* VoteClosed of a vote-out.  Fault: the office is only taken away. *)
VoteOutClosedOnly(p) ==
  /\ vote # None /\ ~vote.election
  /\ MayClose(p)
  /\ roles' = IF For(vote, "yes") >= Threshold
              THEN Less(roles, vote.target, "Commissioner") ELSE roles
  /\ vote' = None
  /\ UNCHANGED <<franchiseVars, deputies, grants, succession, votes, elected>>
VoteOutClosed(p) ==
  /\ vote # None /\ ~vote.election
  /\ MayClose(p)
  /\ IF For(vote, "yes") >= Threshold
     THEN StartSuccession(vote.target)
     ELSE UNCHANGED <<roles, succession>>
  /\ vote' = None
  /\ UNCHANGED <<franchiseVars, deputies, grants, votes, elected>>

(* VoteClosed, closeElection: somebody is elected, or a runoff opens *)
ElectionConcluded(p) ==
  /\ vote # None /\ vote.election /\ vote.ended
  /\ MayClose(p)
  /\ \E winner \in Elected(vote) :
       /\ Transfer(vote.target, winner)
       /\ elected' = elected \cup {[vote |-> votes, from |-> vote.target, to |-> winner]}
  /\ vote' = None
  /\ UNCHANGED <<franchiseVars, deputies, grants, votes>>

RunoffOpened(p) ==
  /\ vote # None /\ vote.election /\ vote.ended
  /\ MayClose(p)
  /\ ~vote.runoff /\ Elected(vote) = {} /\ Top(vote, 2) # {}
  /\ vote' = [vote EXCEPT !.candidates = Top(vote, 2), !.ballots = NoBallots,
                          !.runoff = TRUE, !.ended = FALSE, !.rulings = NoRulings]
  /\ UNCHANGED <<franchiseVars, roleVars, succession, votes, elected>>

ElectionTieBreakCast(p, choice) ==
  /\ vote # None /\ vote.election /\ vote.runoff /\ vote.ended
  /\ Cardinality(Top(vote, 1)) >= 2 /\ choice \in Top(vote, 1)
  /\ MayRule(vote, p)
  /\ vote' = [vote EXCEPT !.rulings[p] = choice]
  /\ UNCHANGED <<franchiseVars, roleVars, succession, votes, elected>>

-----------------------------------------------------------------------------
(* What p may do to the people of a league that exists *)
Command(p) ==
  \/ \E q \in Principal, role \in Role : RoleGranted(p, q, role) \/ RoleRevoked(p, q, role)
  \/ DeputyOrderSet(p)
  \/ \E f \in Franchise, q \in Principal : InviteIssued(p, f, q) \/ SeatReplaced(p, f, q)
  \/ \E i \in DOMAIN invites : InviteRevoked(p, i) \/ InviteRedeemed(p, i)
  \/ \E f \in Franchise : SeatRemoved(p, f) \/ CaretakerSeated(p, f)
  \/ \E n \in Size : FranchisesResized(p, n)
  \/ \E q \in Principal \cup {None} : StepDown(p, q)
  \/ SuccessorAccepted(p)
  \/ SuccessorDeclined(p)
  \/ \E c \in Principal : InactivityTakeover(p, c) \/ VoteOutOpened(p, c)
  \/ ElectionOpened(p)
  \/ \E f \in Franchise, choice \in Choice : BallotCast(p, f, choice)
  \/ VoteOutClosed(p)
  \/ ElectionConcluded(p)
  \/ RunoffOpened(p)
  \/ \E choice \in Principal : ElectionTieBreakCast(p, choice)

(* withActivity: a recorded command of p is activity of p. *)
RecordedBy(p) == seen' = seen \cup ({p} \cap Watched) /\ quiet' = quiet \ {p}

(* Any other command of p, and ActivityObserved *)
OtherCommand(p) ==
  /\ Created
  /\ RecordedBy(p)
  /\ UNCHANGED <<franchiseVars, roleVars, succession, voteVars>>

(* InactivitySet: other periods make other people count as inactive. *)
InactivitySet(p) ==
  /\ MayAdminister(p)
  /\ seen' = seen \cup ({p} \cap Watched)
  /\ quiet' \in SUBSET (seen \ {p})
  /\ UNCHANGED <<franchiseVars, roleVars, succession, voteVars>>

(* The clock: a person reaches the longer period without acting. *)
GoesQuiet(p) ==
  /\ p \in seen \ quiet
  /\ quiet' = quiet \cup {p}
  /\ UNCHANGED <<franchiseVars, roleVars, succession, voteVars, seen>>

(* The clock: the voting period of an election, or of its runoff, ends. *)
PeriodEnds ==
  /\ vote # None /\ vote.election /\ ~vote.ended
  /\ vote' = [vote EXCEPT !.ended = TRUE]
  /\ UNCHANGED <<franchiseVars, roleVars, succession, votes, elected, activity>>

Next ==
  \/ \E p \in Principal : (LeagueCreated(p) \/ (Created /\ Command(p))) /\ RecordedBy(p)
  \/ \E p \in Principal : OtherCommand(p) \/ InactivitySet(p) \/ GoesQuiet(p)
  \/ PeriodEnds

Spec == Init /\ [][Next]_vars

-----------------------------------------------------------------------------
(* Properties *)

(* A league with a commissioner, or with somebody who may open the         *)
(* election it needs, stays so, whatever revocations, declines, takeovers, *)
(* step-downs and votes of several people do to it.  It ends in two ways   *)
(* only: the one person who has any role leaves it or lays down the role   *)
(* of deputy, or the commissioner to be replaced wins the election.        *)
Governed ==
  \/ Members("Commissioner") # {}
  \/ ElectionNeeded /\ \E p \in Principal : MayOpen(p)
StaysGoverned ==
  [][Governed /\ ~Governed' =>
       \/ \E p \in Principal : \A q \in Principal \ {p} : roles[q] = {}
       \/ vote # None /\ vote.election /\ vote.target \in Elected(vote) /\ vote' = None]_vars

(* A deputy is asked only in somebody's succession, is a deputy still, is  *)
(* not the one being replaced, and the league is led while it considers.   *)
SuccessionConsistent ==
  pending # None => /\ outgoing # None /\ outgoing # pending
                    /\ pending \in Listed
                    /\ Members("Commissioner") # {}

(* The order of succession lists every co-commissioner once and nobody     *)
(* else, whatever is granted, revoked and reordered (validateDeputies).    *)
DeputiesInOrder ==
  /\ Listed = Members("CoCommissioner")
  /\ \A i, j \in DOMAIN deputies : deputies[i] = deputies[j] => i = j

(* A person owns at most one franchise, by invitation or by replacement.   *)
OneSeatEach ==
  \A f, g \in Franchise : seat[f] # None /\ seat[f] = seat[g] => f = g

(* Nothing refers to a franchise the league no longer has: no owner, no    *)
(* caretaker and no invitation that could still be redeemed; and a         *)
(* caretaker minds only a franchise without an owner.                      *)
FranchisesAccounted ==
  /\ \A f \in Franchise :
       f > teams => /\ seat[f] = None /\ caretaker[f] = None
                    /\ \A i \in DOMAIN invites :
                         invites[i].status = "open" => invites[i].franchise # f
  /\ \A f \in Franchise : caretaker[f] # None => seat[f] = None

(* Whoever is elected has the ballots for it: no fewer than any rival, in  *)
(* a first round more than half as many as there are franchises, and in a  *)
(* runoff a tie was broken by somebody who holds a judging role now and is *)
(* no candidate, however roles and franchises changed during the vote.     *)
ElectionDecides ==
  [][\A e \in elected' \ elected :
       /\ \A x \in Principal : For(vote, x) <= For(vote, e.to)
       /\ ~vote.runoff => 2 * For(vote, e.to) > teams
       /\ vote.runoff =>
            /\ e.to \in vote.candidates
            /\ (\E x \in vote.candidates \ {e.to} : For(vote, x) = For(vote, e.to)) =>
                 \E judge \in Principal \ vote.candidates :
                   MayOpen(judge) /\ vote.rulings[judge] = e.to]_vars

(* While nothing changes the order and no vote is closed, a succession     *)
(* goes down the list: a deputy who declined is not asked again.  A vote-  *)
(* out closed late, after its target stepped down, does ask again.         *)
TurnsMoveOn ==
  [][pending # None /\ pending' \notin {None, pending} /\ grants' = grants /\ vote' = vote
       => Position(pending') > Position(pending)]_vars

(* The four that follow are said of the program by its documents and       *)
(* messages, and are not so.                                               *)

(* "The co-commissioner at once; if none, or they decline, the owners      *)
(* elect one": a league without a commissioner has somebody to open the    *)
(* election.  A creator who steps down alone leaves nobody who may.        *)
SomebodyCanElect == Created => Governed

(* "Exhausting the list opens the existing election path": a league        *)
(* without a commissioner needs an election.  Not when the outgoing one    *)
(* has won it.                                                             *)
LeagueCanBeLed == Created => Members("Commissioner") # {} \/ ElectionNeeded

(* ElectionStatus says "Ready to close" of an election whose period has    *)
(* ended: closing it is then possible, to a winner or to a runoff.         *)
ReadyMeansClosable ==
  vote # None /\ vote.election /\ vote.ended /\ (~vote.runoff \/ Elected(vote) # {})
    => Elected(vote) # {} \/ Top(vote, 2) # {}

(* A vote-out that two thirds of the franchises support can be closed by   *)
(* somebody: it is locked "so no commissioner can entrench".               *)
NobodyEntrenches ==
  vote # None /\ ~vote.election /\ For(vote, "yes") >= Threshold
    => \E p \in Principal : MayClose(p)

=============================================================================
