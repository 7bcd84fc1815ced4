------------------------ MODULE LeagueTransferProofs ------------------------
(***************************************************************************)
(* Proofs about LeagueTransfer for any set of databases, changes, files    *)
(* and generations and any bounds: IInv is inductive, and the safety       *)
(* properties and the refinement of LeagueAuthority follow from it.        *)
(***************************************************************************)
EXTENDS LeagueTransferInduction, TLAPS

LEMMA GenerationsAreIntegers == Generation \subseteq Int
BY SeedAssumption DEF Generation

(* The initial state satisfies the inductive invariant. *)
LEMMA InitInvariant == Init => IInv
<1> SUFFICES ASSUME Init PROVE IInv
  OBVIOUS
<1> USE DatabaseAssumption, EventAssumption, ContentAssumption, SeedAssumption
<1>a. NoFence.epoch \in Seed
  BY DEF NoFence
<1>0. NoFence.epoch \in Seed /\ NoFence.epoch <= 0 /\ NoFence.move = 0 /\ NoFence \in Fence
  BY <1>a DEF NoFence, Fence, Generation, State
<1>1. TypeOK
  BY <1>0 DEF Init, TypeOK, Export, Generation, Progress
<1>2. MovesIssued
  BY <1>0 DEF Init, MovesIssued
<1>3. FencesWellFormed
  BY DEF Init, FencesWellFormed, NoFence
<1>4. SealsWellFormed
  BY DEF Init, SealsWellFormed, NoFence
<1>5. LatestMoveIsNewest /\ SealedMoves /\ DecisionsHeld /\ OneOutcome
  BY DEF Init, LatestMoveIsNewest, SealedMoves, DecisionsHeld, OneOutcome, NoFence
<1>6. \A d \in Database : Token(d) => d = Origin
  BY DEF Init, Token, Writable, Pending, NoFence
<1>7. OneAuthority
  BY <1>6 DEF OneAuthority
<1>8. Ledger = {Founding}
  BY DEF Init, Ledger
<1>9. AuthorityHoldsLedger
  BY <1>6, <1>8 DEF Init, AuthorityHoldsLedger
<1> QED
  BY <1>1, <1>2, <1>3, <1>4, <1>5, <1>7, <1>9 DEF IInv

(* A copy whose trigger lets an append through is the writable one. *)
LEMMA GuardedCopyIsWritable ==
  ASSUME IInv, NEW d \in Database, EventGuard(d), events[d] # {}
  PROVE  Writable(d)
BY DEF IInv, FencesWellFormed, EventGuard, Writable, TypeOK, Fence, State

LEMMA AppendStep ==
  ASSUME IInv, NEW d \in Database, NEW e \in Event, Append(d, e)
  PROVE  IInv'
<1> USE DEF Append
<1>0. TypeOK
  BY DEF IInv
<1>1. TypeOK'
  BY <1>0 DEF TypeOK
<1>2. MovesIssued'
  BY DEF IInv, MovesIssued
<1>3. FencesWellFormed'
  BY <1>0 DEF IInv, FencesWellFormed, TypeOK
<1>4. Writable(d)
  BY GuardedCopyIsWritable
<1>5. SealsWellFormed'
  BY <1>0, <1>4 DEF IInv, SealsWellFormed, Written, TypeOK, Writable
<1>6. LatestMoveIsNewest' /\ SealedMoves' /\ DecisionsHeld' /\ OneOutcome'
  BY DEF IInv, LatestMoveIsNewest, SealedMoves, DecisionsHeld, OneOutcome
<1>7. \A x \in Database : Token(x)' => x = d
  BY <1>0, <1>4 DEF IInv, OneAuthority, Token, Writable, Pending, TypeOK
<1>8. OneAuthority'
  BY <1>7 DEF OneAuthority
<1>9. events[d] = Ledger
  BY <1>4 DEF IInv, AuthorityHoldsLedger, Token
<1>10. Ledger' = Ledger \cup {e} /\ events'[d] = Ledger \cup {e}
  BY <1>0, <1>9 DEF Ledger, TypeOK
<1>11. AuthorityHoldsLedger'
  BY <1>7, <1>10 DEF IInv, AuthorityHoldsLedger
<1> QED
  BY <1>1, <1>2, <1>3, <1>5, <1>6, <1>8, <1>11 DEF IInv

LEMMA CaptureStep ==
  ASSUME IInv, NEW x \in saving, NEW c \in Content, Capture(x, c)
  PROVE  IInv'
<1> USE DEF Capture
<1> DEFINE d == x.source
           g == x.epoch
<1>0. TypeOK /\ d \in Database /\ g \in Generation /\ g <= issued
  BY DEF IInv, TypeOK, Saving, MovesIssued
<1>1. TypeOK'
  BY <1>0 DEF TypeOK, Export
<1>2. MovesIssued'
  BY <1>0 DEF IInv, MovesIssued, TypeOK
<1>3. \A y \in Content : Written(y) => Written(y)' /\ exports'[y] = exports[y]
  BY <1>0 DEF Written, TypeOK
<1>4. FencesWellFormed'
  BY DEF IInv, FencesWellFormed
<1>5. SealsWellFormed'
  BY <1>0, <1>3 DEF IInv, SealsWellFormed, TypeOK, Seal, FencesWellFormed
<1>6. LatestMoveIsNewest' /\ SealedMoves' /\ DecisionsHeld' /\ OneOutcome'
  BY DEF IInv, LatestMoveIsNewest, SealedMoves, DecisionsHeld, OneOutcome
<1>7. Ledger' = Ledger /\ \A y \in Database : Token(y)' <=> Token(y)
  BY DEF Ledger, Token, Writable, Pending
<1>8. OneAuthority'
  BY <1>7 DEF IInv, OneAuthority
<1>9. events[d] \subseteq Ledger
  BY <1>0 DEF Ledger
<1>10. AuthorityHoldsLedger'
  BY <1>0, <1>7, <1>9 DEF IInv, AuthorityHoldsLedger, TypeOK
<1> QED
  BY <1>1, <1>2, <1>4, <1>5, <1>6, <1>8, <1>10 DEF IInv

LEMMA StageStep ==
  ASSUME IInv, NEW d \in Database, NEW c \in Content, StageTransfer(d, c)
  PROVE  IInv'
<1> USE DEF StageTransfer
<1>0. TypeOK
  BY DEF IInv
<1>1. fence[d].state = "none" /\ exports[c].rows \subseteq Event
  BY <1>0 DEF IInv, FencesWellFormed, TypeOK, Export
<1>2. TypeOK'
  BY <1>0, <1>1 DEF TypeOK
<1>3. MovesIssued'
  BY DEF IInv, MovesIssued
<1>4. FencesWellFormed'
  BY <1>0, <1>1 DEF IInv, FencesWellFormed, TypeOK, Written
<1>5. SealsWellFormed'
  BY <1>0, <1>1 DEF IInv, SealsWellFormed, Written, TypeOK
<1>6. LatestMoveIsNewest' /\ SealedMoves' /\ DecisionsHeld' /\ OneOutcome'
  BY DEF IInv, LatestMoveIsNewest, SealedMoves, DecisionsHeld, OneOutcome
<1>7. ~ Token(d) /\ ~ Token(d)'
  BY <1>0, <1>1, ContentAssumption DEF Token, Writable, Pending, TypeOK
<1>8. \A x \in Database : Token(x)' => Token(x) /\ x # d /\ events'[x] = events[x]
  BY <1>0, <1>7 DEF Token, Writable, Pending, TypeOK
<1>9. OneAuthority'
  BY <1>8 DEF IInv, OneAuthority
<1>10. Ledger' = Ledger
  <2>1. exports[c].rows \subseteq Ledger
    BY DEF IInv, AuthorityHoldsLedger
  <2>2. \A x \in Database : events'[x] \subseteq Ledger /\ events[x] \subseteq events'[x]
    BY <1>0, <2>1 DEF Ledger, TypeOK
  <2> QED
    BY <2>2 DEF Ledger
<1>11. AuthorityHoldsLedger'
  BY <1>8, <1>10 DEF IInv, AuthorityHoldsLedger
<1> QED
  BY <1>2, <1>3, <1>4, <1>5, <1>6, <1>9, <1>11 DEF IInv

(* A step that touches no durable state keeps the invariant if what it     *)
(* leaves in flight is well formed.                                        *)
LEMMA InFlightStep ==
  ASSUME IInv, UNCHANGED <<events, receipt, fence, decided, exports, issued>>,
         deciding' \in [Database -> Progress], preflight' \subseteq Seal,
         \A p \in preflight' : p.source # p.target /\ Written(p.content),
         \A x \in saving' : x \in saving \/ (x \in Saving /\ x.epoch <= issued),
         DecisionsHeld'
  PROVE  IInv'
<1>1. TypeOK'
  BY DEF IInv, TypeOK
<1>2. MovesIssued' /\ FencesWellFormed'
  BY DEF IInv, MovesIssued, FencesWellFormed
<1>3. SealsWellFormed'
  BY DEF IInv, SealsWellFormed, Written
<1>4. LatestMoveIsNewest' /\ SealedMoves' /\ OneOutcome'
  BY DEF IInv, LatestMoveIsNewest, SealedMoves, OneOutcome
<1>5. OneAuthority' /\ AuthorityHoldsLedger'
  BY DEF IInv, OneAuthority, AuthorityHoldsLedger, Token, Writable, Pending, Ledger
<1> QED
  BY <1>1, <1>2, <1>3, <1>4, <1>5 DEF IInv

LEMMA ExportGenerationStep ==
  ASSUME IInv, NEW d \in Database, NEW g \in Seed \cup 1..issued, ExportGeneration(d, g)
  PROVE  IInv'
<1> USE DEF ExportGeneration
<1>1. g \in Generation /\ g <= issued
  BY SeedAssumption DEF IInv, TypeOK, Generation
<1>2. \A x \in saving' : x \in saving \/ (x \in Saving /\ x.epoch <= issued)
  BY <1>1 DEF Saving
<1>3. DecisionsHeld' /\ deciding' \in [Database -> Progress] /\ preflight' \subseteq Seal
  BY DEF IInv, DecisionsHeld, TypeOK
<1>4. \A p \in preflight' : p.source # p.target /\ Written(p.content)
  BY DEF IInv, SealsWellFormed
<1> QED
  BY <1>2, <1>3, <1>4, InFlightStep

LEMMA SaveFailsStep ==
  ASSUME IInv, NEW x \in saving, SaveFails(x)
  PROVE  IInv'
<1> USE DEF SaveFails
<1>1. DecisionsHeld' /\ deciding' \in [Database -> Progress] /\ preflight' \subseteq Seal
  BY DEF IInv, DecisionsHeld, TypeOK
<1>2. \A p \in preflight' : p.source # p.target /\ Written(p.content)
  BY DEF IInv, SealsWellFormed
<1> QED
  BY <1>1, <1>2, InFlightStep

LEMMA CheckDestinationStep ==
  ASSUME IInv, NEW s \in Database, NEW t \in Database, NEW c \in Content,
         CheckTransferDestination(s, t, c)
  PROVE  IInv'
<1> USE DEF CheckTransferDestination
<1>1. preflight' \subseteq Seal
  BY DEF IInv, TypeOK, Seal
<1>2. \A p \in preflight' : p.source # p.target /\ Written(p.content)
  BY DEF IInv, SealsWellFormed
<1>3. DecisionsHeld' /\ deciding' \in [Database -> Progress]
  BY DEF IInv, DecisionsHeld, TypeOK
<1> QED
  BY <1>1, <1>2, <1>3, InFlightStep

LEMMA SealEndsStep ==
  ASSUME IInv, NEW p \in preflight, SealEnds(p)
  PROVE  IInv'
<1> USE DEF SealEnds
<1>1. preflight' \subseteq Seal
  BY DEF IInv, TypeOK
<1>2. \A q \in preflight' : q.source # q.target /\ Written(q.content)
  BY DEF IInv, SealsWellFormed
<1>3. DecisionsHeld' /\ deciding' \in [Database -> Progress]
  BY DEF IInv, DecisionsHeld, TypeOK
<1> QED
  BY <1>1, <1>2, <1>3, InFlightStep

LEMMA DecideStep ==
  ASSUME IInv, NEW s \in Database, NEW decision \in {"activate", "abort"},
         DecideTransfer(s, decision)
  PROVE  IInv'
<1> USE DEF DecideTransfer
<1>1. deciding' \in [Database -> Progress] /\ preflight' \subseteq Seal
  BY DEF IInv, TypeOK, Progress
<1>2. \A p \in preflight' : p.source # p.target /\ Written(p.content)
  BY DEF IInv, SealsWellFormed
<1>3. DecisionsHeld'
  BY DEF IInv, DecisionsHeld, TypeOK
<1> QED
  BY <1>1, <1>2, <1>3, InFlightStep

LEMMA DecideFailsStep ==
  ASSUME IInv, NEW s \in Database, DecideFails(s)
  PROVE  IInv'
<1> USE DEF DecideFails
<1>1. deciding' \in [Database -> Progress] /\ preflight' \subseteq Seal
  BY DEF IInv, TypeOK, Progress
<1>2. \A p \in preflight' : p.source # p.target /\ Written(p.content)
  BY DEF IInv, SealsWellFormed
<1>3. DecisionsHeld'
  BY DEF IInv, DecisionsHeld, TypeOK
<1> QED
  BY <1>1, <1>2, <1>3, InFlightStep

LEMMA FindActivatedStep ==
  ASSUME IInv, NEW s \in Database, FindActivated(s)
  PROVE  IInv'
<1> USE DEF FindActivated
<1>1. deciding' \in [Database -> Progress] /\ preflight' \subseteq Seal
  BY DEF IInv, TypeOK, Progress
<1>2. \A p \in preflight' : p.source # p.target /\ Written(p.content)
  BY DEF IInv, SealsWellFormed
<1>3. fence[s].state = "sealed" /\ fence[s].peer \in Database
  BY DEF IInv, DecisionsHeld, FencesWellFormed
<1>4. deciding[s] = "activate"
  BY <1>3 DEF DestinationAllows, AlreadyActive
<1>5. <<fence[s].move, "active">> \in decided[fence[s].peer]
  BY <1>3 DEF IInv, FencesWellFormed, AlreadyActive
<1>6. DecisionsHeld'
  BY <1>4, <1>5 DEF IInv, DecisionsHeld, TypeOK
<1> QED
  BY <1>1, <1>2, <1>6, InFlightStep

(* A destination that allows the decision of a sealed source and has not   *)
(* activated that very move has never become active for it.                *)
LEMMA AllowedMoveIsNew ==
  ASSUME IInv, NEW s \in Database, fence[s].state = "sealed", NEW activate \in BOOLEAN,
         DestinationAllows(fence[s].peer, fence[s], activate),
         ~ AlreadyActive(fence[s].peer, fence[s])
  PROVE  /\ fence[s].peer \in Database /\ fence[s].peer # s
         /\ fence[fence[s].peer].state \in {"none", "cancelled", "moved"}
         /\ <<fence[s].move, "active">> \notin decided[fence[s].peer]
         /\ fence[s].move \in 1..issued
<1> DEFINE t == fence[s].peer
           m == fence[s].move
<1>1. t \in Database /\ t # s /\ m \in 1..issued
  <2>1. t \in Database /\ m >= 1
    BY DEF IInv, FencesWellFormed
  <2>2. t # s
    BY DEF IInv, SealsWellFormed
  <2>3. m \in Nat /\ issued \in Nat /\ m <= issued
    BY DEF IInv, TypeOK, Fence, MovesIssued
  <2> QED
    BY <2>1, <2>2, <2>3
<1>2. fence[t].state \in {"none", "cancelled", "moved"}
  BY <1>1 DEF DestinationAllows, AlreadyActive, IInv, TypeOK, Fence, State
<1>3. CASE fence[t].state = "none"
  BY <1>1, <1>2, <1>3 DEF IInv, FencesWellFormed
<1>4. CASE fence[t].state = "cancelled"
  BY <1>1, <1>2, <1>4 DEF IInv, LatestMoveIsNewest
<1>5. CASE fence[t].state = "moved"
  <2>1. fence[t].move = fence[s].epoch /\ fence[s].epoch < m
    BY <1>1, <1>5 DEF DestinationAllows, IInv, SealsWellFormed
  <2>2. \A k \in 1..issued : <<k, "active">> \in decided[t] => k <= fence[t].move
    BY <1>1, <1>5 DEF IInv, LatestMoveIsNewest
  <2>3. fence[t].move \in Nat /\ m \in Nat
    BY <1>1 DEF IInv, TypeOK, Fence
  <2> QED
    BY <1>1, <1>2, <2>1, <2>2, <2>3
<1> QED
  BY <1>2, <1>3, <1>4, <1>5

LEMMA SealStep ==
  ASSUME IInv, NEW p \in preflight, SealTransfer(p)
  PROVE  IInv'
<1> DEFINE s == p.source
           m == issued + 1
           f == [Proposal(p.target, p.content) EXCEPT !.move = m, !.state = "sealed"]
<1>0. TypeOK
  BY DEF IInv
<1>1. s \in Database /\ p.target \in Database /\ p.content \in Content /\ issued \in Nat
  BY <1>0 DEF TypeOK, Seal
<1>2. /\ f.move = m /\ f.state = "sealed" /\ f.peer = p.target /\ f.content = p.content
      /\ f.epoch = exports[p.content].epoch
  BY DEF Proposal
<1>3. f \in Fence /\ f.epoch <= issued /\ f.epoch \in Int
  <2>1. exports[p.content].epoch \in Generation /\ exports[p.content].epoch <= issued
    BY <1>0, <1>1 DEF TypeOK, Export, IInv, MovesIssued
  <2>2. m \in Nat
    BY <1>1
  <2> QED
    BY <1>1, <2>1, <2>2, GenerationsAreIntegers DEF Proposal, Fence, State
<1>4. /\ fence' = [fence EXCEPT ![s] = f]
      /\ decided' = [decided EXCEPT ![s] = @ \cup {<<m, "sealed">>}]
      /\ issued' = m /\ preflight' = preflight \ {p}
      /\ UNCHANGED <<events, receipt, exports, deciding, saving>>
      /\ deciding[s] = "idle"
      /\ events[s] = exports[p.content].rows /\ SourceMaySeal(s, p.content)
  BY <1>2 DEF SealTransfer, ExportIsCurrent
<1> HIDE DEF f
<1>5. events[s] # {} /\ p.target # s
  BY <1>4 DEF IInv, SealsWellFormed, Written
<1>6. Writable(s)
  BY <1>4, <1>5 DEF SourceMaySeal, Writable
<1>7. TypeOK'
  BY <1>0, <1>1, <1>3, <1>4 DEF TypeOK, State
<1>8. MovesIssued'
  <2>1. \A d \in Database : fence'[d].move <= issued' /\ fence'[d].epoch <= issued'
    <3>1. \A d \in Database : /\ fence[d].epoch \in Int /\ fence[d].epoch <= issued
                             /\ fence[d].move \in Nat /\ fence[d].move <= issued
      BY <1>0, GenerationsAreIntegers DEF TypeOK, Fence, IInv, MovesIssued
    <3> QED
      BY <1>0, <1>1, <1>2, <1>3, <1>4, <3>1 DEF TypeOK
  <2>2. \A d \in Database : \A r \in decided'[d] : r[1] \in 1..issued'
    BY <1>0, <1>1, <1>4 DEF IInv, MovesIssued, TypeOK
  <2>3. \A c \in Content : exports'[c].epoch <= issued'
    <3>1. \A c \in Content : exports[c].epoch \in Int /\ exports[c].epoch <= issued
      BY <1>0, GenerationsAreIntegers DEF TypeOK, Export, IInv, MovesIssued
    <3> QED
      BY <1>1, <1>4, <3>1
  <2>4. \A x \in saving' : x.epoch <= issued'
    <3>1. \A x \in saving : x.epoch \in Int /\ x.epoch <= issued
      BY <1>0, GenerationsAreIntegers DEF TypeOK, Saving, IInv, MovesIssued
    <3> QED
      BY <1>1, <1>4, <3>1
  <2> QED
    BY <2>1, <2>2, <2>3, <2>4 DEF MovesIssued
<1>9. FencesWellFormed'
  <2>1. fence'[s] = f /\ <<m, "sealed">> \in decided'[s]
    BY <1>0, <1>1, <1>4 DEF TypeOK
  <2>2. \A d \in Database \ {s} : fence'[d] = fence[d] /\ decided'[d] = decided[d]
    BY <1>0, <1>1, <1>4 DEF TypeOK
  <2> QED
    BY <1>1, <1>2, <1>4, <1>5, <2>1, <2>2 DEF IInv, FencesWellFormed
<1>10. \A d \in Database : \A k \in {m} : <<k, "active">> \notin decided[d] /\ <<k, "cancelled">> \notin decided[d]
  BY <1>1 DEF IInv, MovesIssued
<1>11. \A d \in Database : \A k \in Nat :
         /\ <<k, "active">> \in decided'[d] <=> <<k, "active">> \in decided[d]
         /\ <<k, "cancelled">> \in decided'[d] <=> <<k, "cancelled">> \in decided[d]
  BY <1>0, <1>1, <1>4 DEF TypeOK
<1>12. SealsWellFormed'
  <2>1. \A q \in preflight' : q.source # q.target /\ Written(q.content)'
    BY <1>4 DEF IInv, SealsWellFormed, Written
  <2>2. f.epoch < m /\ Written(p.content)
    BY <1>1, <1>2, <1>3, <1>4, <1>5 DEF Written
  <2>3. fence'[s] = f /\ \A d \in Database \ {s} : fence'[d] = fence[d]
    BY <1>0, <1>1, <1>4 DEF TypeOK
  <2>4. /\ fence'[s].peer # s /\ fence'[s].epoch < fence'[s].move
        /\ exports'[fence'[s].content].rows # {} /\ exports'[fence'[s].content].rows = events'[s]
    BY <1>2, <1>4, <1>5, <2>2, <2>3 DEF Written
  <2>5. \A d \in Database \ {s} : fence'[d].state = "sealed" =>
           /\ fence'[d].peer # d /\ fence'[d].epoch < fence'[d].move
           /\ exports'[fence'[d].content].rows # {} /\ exports'[fence'[d].content].rows = events'[d]
    BY <1>4, <2>3 DEF IInv, SealsWellFormed, Written
  <2> QED
    BY <2>1, <2>4, <2>5 DEF SealsWellFormed, Written
<1>13. \A d \in Database : \A k \in 1..issued' :
          <<k, "active">> \in decided'[d] => k \in 1..issued /\ <<k, "active">> \in decided[d]
  BY <1>1, <1>4, <1>10, <1>11
<1>14. LatestMoveIsNewest'
  BY <1>0, <1>1, <1>2, <1>4, <1>13 DEF IInv, LatestMoveIsNewest, TypeOK, Fence
<1>15. SealedMoves'
  <2>1. \A d \in Database : fence[d].move # m /\ fence[d].move \in Nat
    BY <1>0, <1>1 DEF IInv, MovesIssued, TypeOK, Fence
  <2>2. fence'[s] = f /\ \A d \in Database \ {s} : fence'[d] = fence[d]
    BY <1>0, <1>1, <1>4 DEF TypeOK
  <2>3. \A d \in Database : <<m, "cancelled">> \notin decided'[d] /\ <<m, "active">> \notin decided'[d]
    BY <1>1, <1>10, <1>11
  <2>4. \A d \in Database \ {s} : fence'[d].move # m
    BY <2>1, <2>2
  <2> QED
    BY <1>2, <1>11, <2>1, <2>2, <2>3, <2>4 DEF IInv, SealedMoves
<1>16. DecisionsHeld'
  <2>1. \A d \in Database : decided[d] \subseteq decided'[d]
    BY <1>0, <1>1, <1>4 DEF TypeOK
  <2>2. \A d \in Database : deciding'[d] # "idle" => d # s /\ fence'[d] = fence[d] /\ deciding'[d] = deciding[d]
    BY <1>0, <1>1, <1>4 DEF TypeOK
  <2>3. \A d \in Database : fence[d].state = "sealed" => fence[d].peer \in Database
    BY DEF IInv, FencesWellFormed
  <2> QED
    BY <2>1, <2>2, <2>3 DEF IInv, DecisionsHeld
<1>17. OneOutcome'
  BY <1>1, <1>11, <1>13 DEF IInv, OneOutcome
<1>18. \A d \in Database : Token(d)' => Token(d)
  <2>1. \A d \in Database \ {s} : Token(d)' => Token(d)
    BY <1>0, <1>1, <1>4 DEF Token, Writable, Pending, TypeOK
  <2> QED
    BY <1>6, <2>1 DEF Token
<1>19. Ledger' = Ledger
  BY <1>4 DEF Ledger
<1>20. OneAuthority' /\ AuthorityHoldsLedger'
  BY <1>4, <1>18, <1>19 DEF IInv, OneAuthority, AuthorityHoldsLedger
<1> QED
  BY <1>7, <1>8, <1>9, <1>12, <1>14, <1>15, <1>16, <1>17, <1>20 DEF IInv

LEMMA ReceiveStep ==
  ASSUME IInv, NEW s \in Database, ReceiveTransfer(s)
  PROVE  IInv'
<1> DEFINE t == fence[s].peer
           m == fence[s].move
           rows == exports[fence[s].content].rows
           f == [fence[s] EXCEPT !.state = "active", !.epoch = m]
<1>0. TypeOK
  BY DEF IInv
<1>1. /\ deciding[s] = "activate" /\ deciding[t] = "idle"
      /\ DestinationAllows(t, fence[s], TRUE) /\ ~ AlreadyActive(t, fence[s])
      /\ PrefixOfSealed(t, fence[s])
      /\ events' = [events EXCEPT ![t] = rows]
      /\ fence' = [fence EXCEPT ![t] = f]
      /\ decided' = [decided EXCEPT ![t] = @ \cup {<<m, "receiving">>, <<m, "active">>}]
      /\ deciding' = [deciding EXCEPT ![s] = "activated"]
      /\ UNCHANGED <<receipt, exports, issued, preflight, saving>>
  BY DEF ReceiveTransfer
<1>2. fence[s].state = "sealed"
  BY <1>1 DEF IInv, DecisionsHeld
<1>3. /\ t \in Database /\ t # s /\ m \in 1..issued
      /\ fence[t].state \in {"none", "cancelled", "moved"}
      /\ <<m, "active">> \notin decided[t]
  BY <1>1, <1>2, AllowedMoveIsNew
<1>4. /\ f.move = m /\ f.epoch = m /\ f.state = "active"
      /\ f.peer = t /\ f.content = fence[s].content /\ f \in Fence
  <2>1. m \in Nat /\ fence[s] \in Fence /\ m \in Generation
    BY <1>0, <1>3 DEF TypeOK, Generation
  <2> QED
    BY <2>1 DEF Fence, State
<1>5. rows = events[s] /\ rows # {} /\ fence[s].content \in Content /\ rows \subseteq Event
  BY <1>0, <1>2 DEF IInv, SealsWellFormed, FencesWellFormed, Written, TypeOK, Export
<1> HIDE DEF f, rows
<1>6. TypeOK'
  BY <1>0, <1>1, <1>3, <1>4, <1>5 DEF TypeOK, State, Progress
<1>7. MovesIssued'
  BY <1>0, <1>1, <1>3, <1>4 DEF IInv, MovesIssued, TypeOK
<1>8. FencesWellFormed'
  <2>1. fence'[t] = f /\ <<m, "active">> \in decided'[t] /\ events'[t] = rows
    BY <1>0, <1>1, <1>3 DEF TypeOK
  <2>2. \A d \in Database \ {t} :
          fence'[d] = fence[d] /\ decided'[d] = decided[d] /\ events'[d] = events[d]
    BY <1>0, <1>1, <1>3 DEF TypeOK
  <2> QED
    BY <1>1, <1>3, <1>4, <1>5, <2>1, <2>2 DEF IInv, FencesWellFormed
<1>9. SealsWellFormed'
  BY <1>0, <1>1, <1>2, <1>3, <1>4 DEF IInv, SealsWellFormed, TypeOK, Written
<1>10. \A d \in Database : \A k \in Nat :
         /\ <<k, "active">> \in decided'[d] <=> <<k, "active">> \in decided[d] \/ (d = t /\ k = m)
         /\ <<k, "cancelled">> \in decided'[d] <=> <<k, "cancelled">> \in decided[d]
  BY <1>0, <1>1, <1>3 DEF TypeOK
<1>11. \A k \in 1..issued : <<k, "active">> \in decided'[t] => k <= m
  <2>0. /\ m \in Nat /\ issued \in Nat
        /\ \A k \in 1..issued : <<k, "active">> \in decided'[t] =>
              k = m \/ <<k, "active">> \in decided[t]
    <3>1. m \in Nat /\ issued \in Nat
      BY <1>0, <1>3 DEF TypeOK
    <3>2. ASSUME NEW k \in 1..issued, <<k, "active">> \in decided'[t]
          PROVE  k = m \/ <<k, "active">> \in decided[t]
      <4>1. k \in Nat
        BY <3>1
      <4> QED
        BY <1>3, <1>10, <3>2, <4>1
    <3> QED
      BY <3>1, <3>2
  <2>1. CASE fence[t].state = "none"
    <3>1. decided[t] = {}
      BY <1>3, <2>1 DEF IInv, FencesWellFormed
    <3> QED
      BY <2>0, <3>1
  <2>2. CASE fence[t].state = "cancelled"
    BY <1>3, <2>0, <2>2 DEF IInv, LatestMoveIsNewest
  <2>3. CASE fence[t].state = "moved"
    <3>1. fence[t].move = fence[s].epoch /\ fence[s].epoch < m
      BY <1>1, <1>2, <2>3 DEF DestinationAllows, IInv, SealsWellFormed
    <3>2. \A k \in 1..issued : <<k, "active">> \in decided[t] => k <= fence[t].move
      BY <1>3, <2>3 DEF IInv, LatestMoveIsNewest
    <3>3. fence[t].move \in Nat
      BY <1>0, <1>3 DEF TypeOK, Fence
    <3> QED
      BY <2>0, <3>1, <3>2, <3>3
  <2> QED
    BY <1>3, <2>1, <2>2, <2>3
<1>12. LatestMoveIsNewest'
  BY <1>0, <1>1, <1>3, <1>4, <1>10, <1>11 DEF IInv, LatestMoveIsNewest, TypeOK
<1>13. \A d \in Database : fence'[d].state = "sealed" =>
          d # t /\ fence[d].state = "sealed" /\ fence'[d] = fence[d]
  BY <1>0, <1>1, <1>3, <1>4 DEF TypeOK
<1>14. \A d \in Database : fence[d].move \in Nat
  BY <1>0 DEF TypeOK, Fence
<1>15. SealedMoves'
  BY <1>2, <1>3, <1>10, <1>13, <1>14 DEF IInv, SealedMoves
<1>16. DecisionsHeld'
  <2>1. \A d \in Database : decided[d] \subseteq decided'[d]
    BY <1>0, <1>1, <1>3 DEF TypeOK
  <2>2. \A d \in Database : deciding'[d] # "idle" => d # t /\ fence'[d] = fence[d]
    BY <1>0, <1>1, <1>3 DEF TypeOK
  <2>3. deciding'[s] = "activated" /\ \A d \in Database \ {s} : deciding'[d] = deciding[d]
    BY <1>0, <1>1 DEF TypeOK
  <2>4. <<m, "active">> \in decided'[t]
    BY <1>0, <1>1, <1>3 DEF TypeOK
  <2>5. \A d \in Database : fence[d].state = "sealed" => fence[d].peer \in Database
    BY DEF IInv, FencesWellFormed
  <2> QED
    BY <1>2, <1>3, <2>1, <2>2, <2>3, <2>4, <2>5 DEF IInv, DecisionsHeld
<1>17. OneOutcome'
  <2>1. \A d \in Database : <<m, "active">> \notin decided[d]
    BY <1>2, <1>3 DEF IInv, SealedMoves
  <2>2. <<m, "cancelled">> \notin decided[t]
    BY <1>1 DEF DestinationAllows
  <2> QED
    BY <1>1, <1>3, <1>10, <2>1, <2>2 DEF IInv, OneOutcome
<1>18. Token(s) /\ events[s] = Ledger
  <2>1. Token(s)
    BY <1>2, <1>3 DEF Token, Pending
  <2> QED
    BY <2>1 DEF IInv, AuthorityHoldsLedger
<1>19. \A d \in Database : Token(d)' => d = t
  <2>1. ~ Token(s)'
    BY <1>0, <1>1, <1>2, <1>3, <1>10 DEF Token, Writable, Pending, TypeOK
  <2>2. \A d \in Database \ {t} : Token(d)' => Token(d)
    <3> SUFFICES ASSUME NEW d \in Database \ {t}, Token(d)'
                 PROVE  Token(d)
      OBVIOUS
    <3>1. fence'[d] = fence[d] /\ events'[d] = events[d] /\ receipt'[d] = receipt[d]
      BY <1>0, <1>1 DEF TypeOK
    <3>2. Writable(d)' => Writable(d)
      BY <3>1 DEF Writable
    <3>3. Pending(d)' => Pending(d)
      BY <1>10, <1>14, <3>1 DEF Pending, IInv, FencesWellFormed
    <3> QED
      BY <3>2, <3>3 DEF Token
  <2> QED
    BY <1>18, <2>1, <2>2 DEF IInv, OneAuthority
<1>20. Ledger' = Ledger /\ events'[t] = Ledger
  <2>1. events'[t] = events[s] /\ events'[s] = events[s]
    BY <1>0, <1>1, <1>3, <1>5 DEF TypeOK
  <2>2. \A d \in Database : events'[d] = events[d] \/ events'[d] = events[s]
    BY <1>0, <1>1, <1>5 DEF TypeOK
  <2>3. Ledger' \subseteq Ledger
    BY <2>2 DEF Ledger
  <2>4. events[s] \subseteq Ledger'
    BY <2>1 DEF Ledger
  <2> QED
    BY <1>18, <2>1, <2>3, <2>4
<1>21. OneAuthority' /\ AuthorityHoldsLedger'
  BY <1>1, <1>19, <1>20 DEF IInv, OneAuthority, AuthorityHoldsLedger
<1> QED
  BY <1>6, <1>7, <1>8, <1>9, <1>12, <1>15, <1>16, <1>17, <1>21 DEF IInv

LEMMA CancelStep ==
  ASSUME IInv, NEW s \in Database, CancelAtDestination(s)
  PROVE  IInv'
<1> DEFINE t == fence[s].peer
           m == fence[s].move
           f == [fence[s] EXCEPT !.state = "cancelled"]
           kept == fence[t].state = "moved"
<1>0. TypeOK
  BY DEF IInv
<1>1. /\ deciding[s] = "abort" /\ deciding[t] = "idle"
      /\ DestinationAllows(t, fence[s], FALSE) /\ ~ AlreadyActive(t, fence[s])
      /\ fence' = IF kept THEN fence ELSE [fence EXCEPT ![t] = f]
      /\ decided' = [decided EXCEPT ![t] = @ \cup {<<m, "cancelled">>}]
      /\ deciding' = [deciding EXCEPT ![s] = "aborted"]
      /\ UNCHANGED <<events, receipt, exports, issued, preflight, saving>>
  BY DEF CancelAtDestination
<1>2. fence[s].state = "sealed"
  BY <1>1 DEF IInv, DecisionsHeld
<1>3. /\ t \in Database /\ t # s /\ m \in 1..issued
      /\ fence[t].state \in {"none", "cancelled", "moved"}
      /\ <<m, "active">> \notin decided[t]
  BY <1>1, <1>2, AllowedMoveIsNew
<1>4. /\ f.move = m /\ f.epoch = fence[s].epoch /\ f.state = "cancelled"
      /\ f.peer = t /\ f.content \in Content /\ f \in Fence
  <2>1. fence[s] \in Fence /\ fence[s].content \in Content
    BY <1>0, <1>2 DEF TypeOK, IInv, FencesWellFormed
  <2> QED
    BY <2>1 DEF Fence, State
<1>5. ~ kept => receipt[t] # None /\ events[t] # {}
  BY <1>1, <1>3 DEF DestinationAllows, InactiveCopyMatches, IInv, FencesWellFormed
<1> HIDE DEF f
<1>6. /\ \A d \in Database \ {t} : fence'[d] = fence[d] /\ decided'[d] = decided[d]
      /\ fence'[t] = IF kept THEN fence[t] ELSE f
      /\ decided'[t] = decided[t] \cup {<<m, "cancelled">>}
      /\ \A d \in Database \ {s} : deciding'[d] = deciding[d]
      /\ deciding'[s] = "aborted"
  BY <1>0, <1>1, <1>3 DEF TypeOK
<1>7. TypeOK'
  BY <1>0, <1>1, <1>3, <1>4 DEF TypeOK, State, Progress
<1>8. MovesIssued'
  <2>1. \A d \in Database : fence'[d].move <= issued' /\ fence'[d].epoch <= issued'
    BY <1>0, <1>1, <1>2, <1>3, <1>4, <1>6 DEF TypeOK, IInv, MovesIssued
  <2> QED
    BY <1>1, <1>3, <1>6, <2>1 DEF IInv, MovesIssued
<1>9. FencesWellFormed'
  <2>1. f.move >= 1
    BY <1>0, <1>3, <1>4 DEF TypeOK
  <2> QED
    BY <1>1, <1>3, <1>4, <1>5, <1>6, <2>1 DEF IInv, FencesWellFormed
<1>10. \A d \in Database : fence'[d].state = "sealed" =>
          d # t /\ fence[d].state = "sealed" /\ fence'[d] = fence[d]
  BY <1>3, <1>4, <1>6
<1>11. SealsWellFormed'
  <2>1. UNCHANGED <<events, exports, preflight>>
    BY <1>1
  <2>2. (\A p \in preflight : p.source # p.target /\ Written(p.content))'
    BY <2>1 DEF IInv, SealsWellFormed, Written
  <2>3. (\A d \in Database : fence[d].state = "sealed" =>
           /\ fence[d].peer # d
           /\ fence[d].epoch < fence[d].move
           /\ Written(fence[d].content)
           /\ exports[fence[d].content].rows = events[d])'
    <3> SUFFICES ASSUME NEW d \in Database, fence'[d].state = "sealed"
                 PROVE  (/\ fence[d].peer # d
                         /\ fence[d].epoch < fence[d].move
                         /\ Written(fence[d].content)
                         /\ exports[fence[d].content].rows = events[d])'
      BY Zenon DEF Written
    <3>1. fence[d].state = "sealed" /\ fence'[d] = fence[d]
      BY <1>10
    <3> QED
      BY <2>1, <3>1 DEF IInv, SealsWellFormed, Written
  <2> QED
    BY <2>2, <2>3, Zenon DEF SealsWellFormed
<1>12. \A d \in Database : \A k : <<k, "active">> \in decided'[d] <=> <<k, "active">> \in decided[d]
  BY <1>6
<1>13. LatestMoveIsNewest'
  <2>1. ~ kept => \A k \in 1..issued : <<k, "active">> \notin decided[t]
    BY <1>3 DEF IInv, LatestMoveIsNewest, FencesWellFormed
  <2> QED
    BY <1>1, <1>4, <1>6, <1>12, <2>1 DEF IInv, LatestMoveIsNewest
<1>14. SealedMoves'
  BY <1>6, <1>10, <1>12 DEF IInv, SealedMoves
<1>15. DecisionsHeld'
  <2>1. \A d \in Database : decided[d] \subseteq decided'[d]
    BY <1>6
  <2>2. \A d \in Database : deciding'[d] # "idle" => d # t
    BY <1>1, <1>3, <1>6
  <2>3. \A d \in Database : fence[d].state = "sealed" => fence[d].peer \in Database
    BY DEF IInv, FencesWellFormed
  <2> QED
    BY <1>2, <1>3, <1>6, <2>1, <2>2, <2>3 DEF IInv, DecisionsHeld
<1>16. OneOutcome'
  BY <1>1, <1>3, <1>6, <1>12 DEF IInv, OneOutcome
<1>17. \A d \in Database : Token(d)' => Token(d)
  <2>1. \A d \in Database : d = t => ~ Token(d)'
    BY <1>1, <1>3, <1>4, <1>6 DEF Token, Writable, Pending
  <2>2. ASSUME NEW d \in Database \ {t}, Token(d)'
        PROVE  Token(d)
    <3>1. Writable(d)' => Writable(d)
      BY <1>1, <1>6 DEF Writable
    <3>2. Pending(d)' => Pending(d)
      BY <1>6, <1>10, <1>12 DEF Pending, IInv, FencesWellFormed
    <3> QED
      BY <2>2, <3>1, <3>2 DEF Token
  <2> QED
    BY <2>1, <2>2
<1>18. Ledger' = Ledger
  BY <1>1 DEF Ledger
<1>19. OneAuthority' /\ AuthorityHoldsLedger'
  BY <1>1, <1>17, <1>18 DEF IInv, OneAuthority, AuthorityHoldsLedger
<1> QED
  BY <1>7, <1>8, <1>9, <1>11, <1>13, <1>14, <1>15, <1>16, <1>19 DEF IInv

LEMMA CommitStep ==
  ASSUME IInv, NEW s \in Database, CommitSource(s)
  PROVE  IInv'
<1> DEFINE t == fence[s].peer
           m == fence[s].move
           outcome == SourceOutcome(deciding[s])
<1>0. TypeOK
  BY DEF IInv
<1>1. /\ deciding[s] \in {"activated", "aborted"}
      /\ fence' = [fence EXCEPT ![s].state = outcome]
      /\ decided' = [decided EXCEPT ![s] = @ \cup {<<m, outcome>>}]
      /\ deciding' = [deciding EXCEPT ![s] = "idle"]
      /\ UNCHANGED <<events, receipt, exports, issued, preflight, saving>>
  BY DEF CommitSource
<1>2. /\ fence[s].state = "sealed" /\ t \in Database /\ t # s
      /\ m \in Nat /\ m >= 1 /\ m <= issued /\ issued \in Nat
  BY <1>0, <1>1 DEF IInv, DecisionsHeld, FencesWellFormed, SealsWellFormed, MovesIssued, TypeOK, Fence
<1>3. /\ outcome \in {"moved", "active"}
      /\ outcome = "moved" => <<m, "active">> \in decided[t]
      /\ outcome = "active" => <<m, "cancelled">> \in decided[t]
  BY <1>1 DEF SourceOutcome, IInv, DecisionsHeld
<1>4. outcome = "active" => Pending(s)
  BY <1>2, <1>3 DEF Pending, IInv, OneOutcome
<1> HIDE DEF outcome
<1>5. /\ \A d \in Database \ {s} : fence'[d] = fence[d] /\ decided'[d] = decided[d] /\ deciding'[d] = deciding[d]
      /\ fence'[s].move = m /\ fence'[s].peer = t /\ fence'[s].content = fence[s].content
      /\ fence'[s].epoch = fence[s].epoch /\ fence'[s].state = outcome
      /\ decided'[s] = decided[s] \cup {<<m, outcome>>}
      /\ deciding'[s] = "idle"
  BY <1>0, <1>1 DEF TypeOK, Fence
<1>6. TypeOK'
  <2>1. fence' \in [Database -> Fence]
    <3>1. fence[s] \in Fence /\ outcome \in State
      BY <1>0, <1>3 DEF TypeOK, State
    <3>2. [fence[s] EXCEPT !.state = outcome] \in Fence
      BY <3>1 DEF Fence
    <3> QED
      BY <1>0, <1>1, <3>2 DEF TypeOK
  <2>2. decided' \in [Database -> SUBSET (Nat \X State)]
    BY <1>0, <1>1, <1>2, <1>3 DEF TypeOK, State
  <2>3. deciding' \in [Database -> Progress]
    BY <1>0, <1>1 DEF TypeOK, Progress
  <2> QED
    BY <1>0, <1>1, <2>1, <2>2, <2>3 DEF TypeOK
<1>7. MovesIssued'
  BY <1>1, <1>2, <1>5 DEF IInv, MovesIssued
<1>8. FencesWellFormed'
  <2>1. /\ fence[s].content \in Content /\ events[s] # {}
        /\ receipt[s] # None => events[s] # {}
    BY <1>2 DEF IInv, FencesWellFormed
  <2>2. /\ fence'[s].state # "receiving" /\ fence'[s].state # "none" /\ fence'[s].state # "cancelled"
        /\ fence'[s].move >= 1 /\ <<fence'[s].move, fence'[s].state>> \in decided'[s]
        /\ fence'[s].peer \in Database /\ fence'[s].content \in Content /\ events'[s] # {}
    BY <1>1, <1>2, <1>3, <1>5, <2>1
  <2> QED
    BY <1>1, <1>5, <2>2 DEF IInv, FencesWellFormed
<1>9. \A d \in Database : fence'[d].state = "sealed" => d # s /\ fence'[d] = fence[d]
  BY <1>3, <1>5
<1>10. SealsWellFormed'
  BY <1>1, <1>9 DEF IInv, SealsWellFormed, Written
<1>11. /\ \A d \in Database : \A k : <<k, "active">> \in decided'[d] =>
            <<k, "active">> \in decided[d] \/ (d = s /\ k = m /\ outcome = "active")
       /\ \A d \in Database : \A k : <<k, "cancelled">> \in decided'[d] <=> <<k, "cancelled">> \in decided[d]
       /\ \A d \in Database : decided[d] \subseteq decided'[d]
  BY <1>3, <1>5
<1>12. LatestMoveIsNewest'
  <2>1. ASSUME NEW k \in 1..issued, <<k, "active">> \in decided'[s]
        PROVE  k <= m
    BY <1>2, <1>11, <2>1 DEF IInv, LatestMoveIsNewest
  <2> QED
    BY <1>1, <1>3, <1>5, <2>1 DEF IInv, LatestMoveIsNewest
<1>13. SealedMoves'
  <2>1. \A d \in Database \ {s} : fence[d].state = "sealed" => fence[d].move # m
    BY <1>2 DEF IInv, SealedMoves
  <2> QED
    BY <1>9, <1>11, <2>1 DEF IInv, SealedMoves
<1>14. DecisionsHeld'
  <2>1. \A d \in Database : fence[d].state = "sealed" => fence[d].peer \in Database
    BY DEF IInv, FencesWellFormed
  <2> QED
    BY <1>5, <1>11, <2>1 DEF IInv, DecisionsHeld
<1>15. OneOutcome'
  <2>1. outcome = "active" => \A d \in Database : <<m, "active">> \notin decided[d]
    BY <1>2, <1>4 DEF Pending, IInv, SealedMoves
  <2>2. <<m, "cancelled">> \notin decided[s]
    BY <1>2 DEF IInv, SealedMoves
  <2> QED
    BY <1>1, <1>11, <2>1, <2>2 DEF IInv, OneOutcome
<1>16. \A d \in Database : Token(d)' => Token(d)
  <2>1. Token(s)' => Token(s)
    BY <1>3, <1>4, <1>5 DEF Token, Writable, Pending
  <2>2. ASSUME NEW d \in Database \ {s}, Token(d)'
        PROVE  Token(d)
    <3>1. Writable(d)' => Writable(d)
      BY <1>1, <1>5 DEF Writable
    <3>2. Pending(d)' => Pending(d)
      BY <1>5, <1>11 DEF Pending, IInv, FencesWellFormed
    <3> QED
      BY <2>2, <3>1, <3>2 DEF Token
  <2> QED
    BY <2>1, <2>2
<1>17. Ledger' = Ledger
  BY <1>1 DEF Ledger
<1>18. OneAuthority' /\ AuthorityHoldsLedger'
  BY <1>1, <1>16, <1>17 DEF IInv, OneAuthority, AuthorityHoldsLedger
<1> QED
  BY <1>6, <1>7, <1>8, <1>10, <1>12, <1>13, <1>14, <1>15, <1>18 DEF IInv

(* No step of any database, command or crash breaks the invariant. *)
LEMMA NextInvariant == IInv /\ [Next]_vars => IInv'
<1> SUFFICES ASSUME IInv, [Next]_vars PROVE IInv'
  OBVIOUS
<1>1. ASSUME NEW d \in Database, NEW e \in Event, Append(d, e) PROVE IInv'
  BY <1>1, AppendStep
<1>2. ASSUME NEW x \in saving, NEW c \in Content, Capture(x, c) PROVE IInv'
  BY <1>2, CaptureStep
<1>3. ASSUME NEW d \in Database, NEW c \in Content, StageTransfer(d, c) PROVE IInv'
  BY <1>3, StageStep
<1>4. ASSUME NEW s \in Database, NEW t \in Database, NEW c \in Content, CheckTransferDestination(s, t, c)
      PROVE  IInv'
  BY <1>4, CheckDestinationStep
<1>5. ASSUME NEW p \in preflight, SealTransfer(p) \/ SealEnds(p) PROVE IInv'
  BY <1>5, SealStep, SealEndsStep
<1>6. ASSUME NEW s \in Database, NEW decision \in {"activate", "abort"}, DecideTransfer(s, decision)
      PROVE  IInv'
  BY <1>6, DecideStep
<1>7. ASSUME NEW s \in Database,
             \/ ReceiveTransfer(s) \/ FindActivated(s) \/ CancelAtDestination(s)
             \/ CommitSource(s) \/ DecideFails(s)
      PROVE  IInv'
  BY <1>7, ReceiveStep, FindActivatedStep, CancelStep, CommitStep, DecideFailsStep
<1>8. CASE UNCHANGED vars
  <2>1. TypeOK' /\ MovesIssued' /\ FencesWellFormed'
    BY <1>8 DEF vars, IInv, TypeOK, MovesIssued, FencesWellFormed
  <2>2. SealsWellFormed' /\ LatestMoveIsNewest' /\ SealedMoves' /\ DecisionsHeld' /\ OneOutcome'
    BY <1>8 DEF vars, IInv, SealsWellFormed, LatestMoveIsNewest, SealedMoves, DecisionsHeld, OneOutcome, Written
  <2>3. OneAuthority' /\ AuthorityHoldsLedger'
    BY <1>8 DEF vars, IInv, OneAuthority, AuthorityHoldsLedger, Token, Writable, Pending, Ledger
  <2> QED
    BY <2>1, <2>2, <2>3 DEF IInv
<1>9. ASSUME NEW d \in Database, NEW g \in Seed \cup 1..issued, ExportGeneration(d, g) PROVE IInv'
  BY <1>9, ExportGenerationStep
<1>10. ASSUME NEW x \in saving, SaveFails(x) PROVE IInv'
  BY <1>10, SaveFailsStep
<1> QED
  BY <1>1, <1>2, <1>3, <1>4, <1>5, <1>6, <1>7, <1>8, <1>9, <1>10 DEF Next

(* Every reachable state satisfies the inductive invariant. *)
THEOREM Invariant == Spec => []IInv
BY InitInvariant, NextInvariant, PTL DEF Spec

(* The tables, receipts, files and commands keep their shape. *)
THEOREM TypeCorrect == Spec => []TypeOK
<1>1. IInv => TypeOK
  BY DEF IInv
<1> QED
  BY <1>1, Invariant, PTL

(* Two copies of the league never accept changes at the same time. *)
THEOREM NeverTwoWritable == Spec => []AtMostOneWritable
<1>1. IInv => AtMostOneWritable
  BY DEF IInv, OneAuthority, AtMostOneWritable, Token
<1> QED
  BY <1>1, Invariant, PTL

(* The writable copy holds every change ever committed on any database. *)
THEOREM NoEventLost == Spec => []WritableHoldsLedger
<1>1. IInv => WritableHoldsLedger
  BY DEF IInv, AuthorityHoldsLedger, WritableHoldsLedger, Token
<1> QED
  BY <1>1, Invariant, PTL

(* A move activates one database at most, and never one that cancelled it. *)
THEOREM MoveEndsOneWay == Spec => []OneOutcome
<1>1. IInv => OneOutcome
  BY DEF IInv
<1> QED
  BY <1>1, Invariant, PTL

(* Only a source's own commit changes a sealed fence. *)
LEMMA SealedFenceStep ==
  ASSUME IInv, Next, NEW s \in Database, fence[s].state = "sealed", fence'[s] # fence[s]
  PROVE  CommitSource(s)
<1>0. TypeOK
  BY DEF IInv
<1>1. ASSUME NEW p \in preflight, SealTransfer(p) PROVE fence'[s] = fence[s]
  BY <1>0, <1>1 DEF SealTransfer, SourceMaySeal, TypeOK
<1>2. ASSUME NEW x \in Database, ReceiveTransfer(x) PROVE fence'[s] = fence[s]
  <2>1. fence[x].state = "sealed"
    BY <1>2 DEF ReceiveTransfer, IInv, DecisionsHeld
  <2>2. fence[fence[x].peer].state # "sealed"
    BY <1>2, <2>1, AllowedMoveIsNew DEF ReceiveTransfer
  <2> QED
    BY <1>0, <1>2, <2>2 DEF ReceiveTransfer, TypeOK
<1>3. ASSUME NEW x \in Database, CancelAtDestination(x) PROVE fence'[s] = fence[s]
  <2>1. fence[x].state = "sealed"
    BY <1>3 DEF CancelAtDestination, IInv, DecisionsHeld
  <2>2. fence[fence[x].peer].state # "sealed"
    BY <1>3, <2>1, AllowedMoveIsNew DEF CancelAtDestination
  <2> QED
    BY <1>0, <1>3, <2>2 DEF CancelAtDestination, TypeOK
<1>4. ASSUME NEW x \in Database, CommitSource(x), x # s PROVE fence'[s] = fence[s]
  BY <1>0, <1>4 DEF CommitSource, TypeOK
<1> QED
  BY <1>1, <1>2, <1>3, <1>4 DEF Next, Append, ExportGeneration, Capture, SaveFails,
       StageTransfer, CheckTransferDestination,
       SealEnds, DecideTransfer, FindActivated, DecideFails

(* A paused source resumes or retires only after its destination has made  *)
(* the matching outcome durable.                                           *)
THEOREM SourceFollows == Spec => SourceFollowsDestination
<1> DEFINE Follows ==
      \A s \in Database :
        LET m == fence[s].move
            t == fence[s].peer
        IN fence[s].state = "sealed" /\ fence'[s] # fence[s] =>
             \/ fence'[s].state = "moved"  /\ <<m, "active">> \in decided[t]
             \/ fence'[s].state = "active" /\ <<m, "cancelled">> \in decided[t]
<1>1. IInv /\ [Next]_vars => [Follows]_vars
  <2> SUFFICES ASSUME IInv, Next, NEW s \in Database,
                      fence[s].state = "sealed", fence'[s] # fence[s]
               PROVE  \/ /\ fence'[s].state = "moved"
                         /\ <<fence[s].move, "active">> \in decided[fence[s].peer]
                      \/ /\ fence'[s].state = "active"
                         /\ <<fence[s].move, "cancelled">> \in decided[fence[s].peer]
    OBVIOUS
  <2>1. CommitSource(s)
    BY SealedFenceStep
  <2>2. fence'[s].state = SourceOutcome(deciding[s])
    BY <2>1 DEF CommitSource, IInv, TypeOK, Fence
  <2> QED
    BY <2>1, <2>2 DEF CommitSource, SourceOutcome, IInv, DecisionsHeld
<1> QED
  BY <1>1, Invariant, PTL DEF Spec, SourceFollowsDestination

(* The rows a receiving destination gains are the paused source's. *)
LEMMA ReceivedRows ==
  ASSUME IInv, NEW s \in Database, ReceiveTransfer(s), NEW t, t = fence[s].peer
  PROVE  /\ fence[s].state = "sealed"
         /\ events'[t] = events[s]
         /\ Writable(t)'
         /\ \A x \in Database \ {t} : events'[x] = events[x]
<1>0. TypeOK
  BY DEF IInv
<1>1. fence[s].state = "sealed"
  BY DEF ReceiveTransfer, IInv, DecisionsHeld
<1>2. t \in Database
  BY <1>1, AllowedMoveIsNew DEF ReceiveTransfer
<1>3. exports[fence[s].content].rows = events[s]
  BY <1>1 DEF IInv, SealsWellFormed
<1>4. events'[t] = events[s] /\ \A x \in Database \ {t} : events'[x] = events[x]
  BY <1>0, <1>2, <1>3 DEF ReceiveTransfer, TypeOK
<1>5. fence'[t].state = "active"
  <2>1. fence'[t] = [fence[s] EXCEPT !.state = "active", !.epoch = fence[s].move]
    BY <1>0, <1>2 DEF ReceiveTransfer, TypeOK
  <2>2. fence[s] \in Fence
    BY <1>0 DEF TypeOK
  <2> QED
    BY <2>1, <2>2 DEF Fence
<1>6. Writable(t)'
  BY <1>5 DEF Writable
<1> QED
  BY <1>1, <1>4, <1>6

(* A copy that may not be written, retired or imported, changes its rows   *)
(* in one step only, the one that makes it the authority, and they become  *)
(* the rows the paused source holds.                                       *)
THEOREM CopiesAreFrozen == Spec => ReadOnlyCopiesAreFrozen
<1> DEFINE Gains(d) == /\ Writable(d)'
                       /\ \E s \in Database :
                            fence[s].state = "sealed" /\ events'[d] = events[s]
           Frozen == \A d \in Database :
             events[d] # {} /\ ~ Writable(d) /\ events'[d] # events[d] => Gains(d)
<1>1. IInv /\ [Next]_vars => [Frozen]_vars
  <2> SUFFICES ASSUME IInv, Next, NEW d \in Database,
                      events[d] # {}, ~ Writable(d), events'[d] # events[d]
               PROVE  Gains(d)
    OBVIOUS
  <2>0. TypeOK
    BY DEF IInv
  <2>1. ASSUME NEW x \in Database, NEW e \in Event, Append(x, e) PROVE FALSE
    <3>1. x = d
      BY <2>0, <2>1 DEF Append, TypeOK
    <3> QED
      BY <2>1, <3>1, GuardedCopyIsWritable DEF Append
  <2>2. ASSUME NEW x \in Database, NEW c \in Content, StageTransfer(x, c) PROVE FALSE
    BY <2>0, <2>2 DEF StageTransfer, TypeOK
  <2>3. ASSUME NEW s \in Database, ReceiveTransfer(s) PROVE Gains(d)
    <3>1. d = fence[s].peer
      BY <2>0, <2>3 DEF ReceiveTransfer, TypeOK
    <3>2. fence[s].state = "sealed" /\ events'[d] = events[s] /\ Writable(d)'
      BY <2>3, <3>1, ReceivedRows
    <3> QED
      BY <3>2
  <2> QED
    BY <2>1, <2>2, <2>3 DEF Next, ExportGeneration, Capture, SaveFails,
         CheckTransferDestination, SealTransfer, SealEnds, DecideTransfer,
         FindActivated, CancelAtDestination, CommitSource, DecideFails
<1> QED
  BY <1>1, Invariant, PTL DEF Spec, ReadOnlyCopiesAreFrozen

-----------------------------------------------------------------------------
(* Refinement. *)

(* Under the invariant the home is the one writable copy, if there is any. *)
HomeServesLedger ==
  /\ \A d \in Database : Home = d <=> Writable(d)
  /\ Home \in Database \cup {None}
  /\ Served = IF Home = None THEN {} ELSE Ledger

LEMMA HomeIsWritable == IInv => HomeServesLedger
<1> SUFFICES ASSUME IInv PROVE HomeServesLedger
  OBVIOUS
<1>1. \A d, x \in Database : Writable(d) /\ Writable(x) => d = x
  BY DEF IInv, OneAuthority, Token
<1>2. \A d \in Database : Home = d <=> Writable(d)
  BY <1>1, DatabaseAssumption DEF Home
<1>3. Home \in Database \cup {None}
  BY DEF Home
<1>4. Home # None => Served = Ledger
  BY <1>2, <1>3 DEF Served, IInv, AuthorityHoldsLedger, Token
<1> QED
  BY <1>2, <1>3, <1>4 DEF Served, HomeServesLedger

(* Every step but an append leaves the ledger alone. *)
LEMMA LedgerStep ==
  ASSUME IInv, Next
  PROVE  \/ Ledger' = Ledger
         \/ \E d \in Database, e \in Event : Append(d, e)
<1>0. TypeOK
  BY DEF IInv
<1>1. ASSUME NEW d \in Database, NEW c \in Content, StageTransfer(d, c)
      PROVE  Ledger' = Ledger
  <2>1. exports[c].rows \subseteq Ledger
    BY DEF IInv, AuthorityHoldsLedger
  <2>2. \A x \in Database : events[x] \subseteq events'[x] /\ events'[x] \subseteq Ledger
    BY <1>0, <1>1, <2>1 DEF StageTransfer, Ledger, TypeOK
  <2> QED
    BY <2>2 DEF Ledger
<1>2. ASSUME NEW s \in Database, ReceiveTransfer(s)
      PROVE  Ledger' = Ledger
  <2>1. exports[fence[s].content].rows \subseteq Ledger
    BY <1>2 DEF ReceiveTransfer, IInv, DecisionsHeld, FencesWellFormed, AuthorityHoldsLedger
  <2>2. \A x \in Database : events[x] \subseteq events'[x] /\ events'[x] \subseteq Ledger
    BY <1>0, <1>2, <2>1 DEF ReceiveTransfer, PrefixOfSealed, Ledger, TypeOK
  <2> QED
    BY <2>2 DEF Ledger
<1>3. events' = events => Ledger' = Ledger
  BY DEF Ledger
<1> QED
  BY <1>1, <1>2, <1>3 DEF Next, ExportGeneration, Capture, SaveFails, CheckTransferDestination,
       SealTransfer, SealEnds,
       DecideTransfer, FindActivated, CancelAtDestination, CommitSource, DecideFails

(* The home never goes from one database to another in a single step. *)
LEMMA HomeStep ==
  ASSUME IInv, Next, NEW d \in Database, NEW x \in Database, Writable(d), Writable(x)'
  PROVE  d = x
<1>0. TypeOK
  BY DEF IInv
<1>1. Token(d) /\ ~ Pending(d)
  BY DEF Token, Writable, Pending
<1>2. Writable(x) => d = x
  BY DEF IInv, OneAuthority, Token
<1>3. fence'[x] = fence[x] /\ events'[x] = events[x] /\ receipt'[x] = receipt[x] => d = x
  BY <1>2 DEF Writable
<1>4. ASSUME NEW y \in Database, NEW e \in Event, Append(y, e) PROVE d = x
  BY <1>0, <1>2, <1>4 DEF Append, Writable, TypeOK
<1>5. ASSUME NEW y \in Database, NEW c \in Content, StageTransfer(y, c) PROVE d = x
  <2>1. x = y => FALSE
    <3>1. fence[y].state = "none"
      BY <1>5 DEF StageTransfer, IInv, FencesWellFormed
    <3> QED
      BY <1>0, <1>5, <3>1, ContentAssumption DEF StageTransfer, Writable, TypeOK
  <2> QED
    BY <1>0, <1>3, <1>5, <2>1 DEF StageTransfer, TypeOK
<1>6. ASSUME NEW p \in preflight, SealTransfer(p) PROVE d = x
  <2>1. p.source \in Database
    BY <1>0 DEF TypeOK, Seal
  <2>2. fence'[p.source].state = "sealed"
    BY <1>0, <1>6, <2>1 DEF SealTransfer, Proposal, TypeOK
  <2>3. x # p.source
    BY <2>2 DEF Writable
  <2> QED
    BY <1>0, <1>3, <1>6, <2>3 DEF SealTransfer, TypeOK
<1>7. ASSUME NEW s \in Database, Token(s), fence[s].state = "sealed" PROVE FALSE
  BY <1>1, <1>7 DEF Writable, IInv, OneAuthority
<1>8. ASSUME NEW s \in Database, ReceiveTransfer(s) PROVE d = x
  <2>1. fence[s].state = "sealed"
    BY <1>8 DEF ReceiveTransfer, IInv, DecisionsHeld
  <2>2. <<fence[s].move, "active">> \notin decided[fence[s].peer]
    BY <1>8, <2>1, AllowedMoveIsNew DEF ReceiveTransfer
  <2> QED
    BY <1>7, <2>1, <2>2 DEF Token, Pending
<1>9. ASSUME NEW s \in Database, CancelAtDestination(s) PROVE d = x
  <2>1. fence[s].state = "sealed"
    BY <1>9 DEF CancelAtDestination, IInv, DecisionsHeld
  <2>2. <<fence[s].move, "active">> \notin decided[fence[s].peer]
    BY <1>9, <2>1, AllowedMoveIsNew DEF CancelAtDestination
  <2> QED
    BY <1>7, <2>1, <2>2 DEF Token, Pending
<1>10. ASSUME NEW s \in Database, CommitSource(s) PROVE d = x
  <2>1. fence[s].state = "sealed" /\ fence[s].peer \in Database
    BY <1>10 DEF CommitSource, IInv, DecisionsHeld, FencesWellFormed
  <2>2. deciding[s] = "activated"
    <3>0. fence[s].move \in 1..issued
      BY <1>0, <2>1 DEF TypeOK, Fence, IInv, MovesIssued, FencesWellFormed
    <3>1. deciding[s] = "aborted" => Pending(s)
      BY <2>1, <3>0 DEF IInv, DecisionsHeld, OneOutcome, Pending
    <3> QED
      BY <1>7, <1>10, <2>1, <3>1 DEF CommitSource, Token
  <2>3. fence'[s].state = "moved" /\ \A y \in Database \ {s} : fence'[y] = fence[y]
    BY <1>0, <1>10, <2>2 DEF CommitSource, SourceOutcome, TypeOK, Fence
  <2>4. x # s
    BY <2>3 DEF Writable
  <2> QED
    BY <1>3, <1>10, <2>3, <2>4 DEF CommitSource
<1> QED
  BY <1>3, <1>4, <1>5, <1>6, <1>8, <1>9, <1>10 DEF Next, ExportGeneration, Capture, SaveFails, CheckTransferDestination,
      
       SealEnds, DecideTransfer, FindActivated, DecideFails

LEMMA AuthorityStep ==
  ASSUME IInv, IInv', [Next]_vars
  PROVE  [Authority!Next]_(Authority!vars)
<1>1. /\ \A d \in Database : Home = d <=> Writable(d)
      /\ Home \in Database \cup {None}
      /\ Served = IF Home = None THEN {} ELSE Ledger
  BY HomeIsWritable DEF HomeServesLedger
<1>2. /\ \A d \in Database : Home' = d <=> Writable(d)'
      /\ Home' \in Database \cup {None}
      /\ Served' = IF Home' = None THEN {} ELSE Ledger'
  <2>1. HomeServesLedger'
    BY HomeIsWritable, PTL
  <2> QED
    BY <2>1 DEF HomeServesLedger
<1>3. CASE UNCHANGED vars
  BY <1>3 DEF vars, Authority!vars, Home, Ledger, Served, Writable
<1>4. ASSUME NEW d \in Database, NEW e \in Event, Append(d, e)
      PROVE  Authority!Write(e)
  <2>1. Writable(d)
    BY <1>4, GuardedCopyIsWritable DEF Append
  <2>2. Writable(d)'
    BY <1>4, <2>1 DEF Append, Writable, IInv, TypeOK
  <2>3. Home = d /\ Home' = d /\ d # None
    BY <1>1, <1>2, <2>1, <2>2, DatabaseAssumption
  <2>4. e \notin Ledger /\ events[d] = Ledger
    BY <1>4, <2>1 DEF Append, Ledger, IInv, AuthorityHoldsLedger, Token
  <2>5. Ledger' = Ledger \cup {e}
    BY <1>4, <2>4 DEF Append, Ledger, IInv, TypeOK
  <2> QED
    BY <1>2, <2>3, <2>4, <2>5 DEF Authority!Write
<1>5. CASE Next /\ Ledger' = Ledger
  <2>1. Home # None /\ Home' # None => Home' = Home
    BY <1>1, <1>2, <1>5, HomeStep
  <2>2. CASE Home' = Home
    BY <1>1, <1>2, <1>5, <2>2 DEF Authority!vars
  <2>3. CASE Home' # Home /\ Home' = None
    BY <1>1, <1>2, <1>5, <2>3 DEF Authority!Next, Authority!Pause
  <2>4. CASE Home' # Home /\ Home' # None
    BY <1>1, <1>2, <1>5, <2>1, <2>4 DEF Authority!Next, Authority!Resume
  <2> QED
    BY <2>2, <2>3, <2>4
<1> QED
  BY <1>3, <1>4, <1>5, LedgerStep DEF Authority!Next

LEMMA AuthorityInit == Init => Authority!Init
<1> SUFFICES ASSUME Init PROVE Authority!Init
  OBVIOUS
<1>1. IInv
  BY InitInvariant
<1>2. Writable(Origin)
  BY DatabaseAssumption DEF Init, Writable, NoFence
<1>3. Home = Origin
  BY <1>1, <1>2, HomeIsWritable, DatabaseAssumption DEF HomeServesLedger
<1>4. Ledger = {Founding}
  BY DatabaseAssumption DEF Init, Ledger
<1> QED
  BY <1>1, <1>3, <1>4, HomeIsWritable, DatabaseAssumption DEF Authority!Init, HomeServesLedger

(* The databases together behave as one league with one home at a time,    *)
(* whose history only grows and is served whole wherever it resumes.       *)
THEOREM AuthorityImplemented == Spec => ImplementsAuthority
<1>1. IInv /\ IInv' /\ [Next]_vars => [Authority!Next]_(Authority!vars)
  BY AuthorityStep
<1> QED
  BY <1>1, AuthorityInit, Invariant, PTL DEF Spec, ImplementsAuthority, Authority!Spec
=============================================================================
