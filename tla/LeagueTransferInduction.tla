---------------------- MODULE LeagueTransferInduction ----------------------
(***************************************************************************)
(* The inductive invariant behind the safety of LeagueTransfer.  It is     *)
(* model-checked with the safety properties and proved in                  *)
(* LeagueTransferProofs.                                                   *)
(***************************************************************************)
EXTENDS LeagueTransfer

(* The copy the league lives in: the writable one, or the source paused    *)
(* for a move that its destination has not taken over.                     *)
Token(d) == Writable(d) \/ Pending(d)

(* Every move and generation named anywhere has been drawn. *)
MovesIssued ==
  /\ \A d \in Database : fence[d].move <= issued /\ fence[d].epoch <= issued
  /\ \A d \in Database : \A r \in decided[d] : r[1] \in 1..issued
  /\ \A c \in Content : exports[c].epoch <= issued
  /\ \A x \in saving : x.epoch <= issued

(* What a fence says about the rest of its database. *)
FencesWellFormed ==
  \A d \in Database :
    /\ fence[d].state # "receiving"
    /\ fence[d].state = "none" => decided[d] = {}
    /\ fence[d].state # "none" =>
         /\ fence[d].move >= 1
         /\ <<fence[d].move, fence[d].state>> \in decided[d]
         /\ fence[d].peer \in Database /\ fence[d].content \in Content
         /\ events[d] # {}
    /\ fence[d].state = "cancelled" => receipt[d] # None
    /\ receipt[d] # None => events[d] # {}

(* A sealed source still holds exactly the rows of the file it sealed. *)
SealsWellFormed ==
  /\ \A p \in preflight : p.source # p.target /\ Written(p.content)
  /\ \A s \in Database : fence[s].state = "sealed" =>
       /\ fence[s].peer # s
       /\ fence[s].epoch < fence[s].move
       /\ Written(fence[s].content)
       /\ exports[fence[s].content].rows = events[s]

(* A database that took part in moves shows the newest one: this is what   *)
(* makes a late retry of an old move recognisable.                         *)
LatestMoveIsNewest ==
  \A d \in Database :
    /\ fence[d].state = "cancelled" =>
         \A m \in 1..issued : <<m, "active">> \notin decided[d]
    /\ fence[d].state \in {"active", "sealed", "moved"} =>
         \A m \in 1..issued : <<m, "active">> \in decided[d] => m <= fence[d].move

(* A sealed move belongs to one source, and only its destination can have  *)
(* become active for it.                                                   *)
SealedMoves ==
  \A s \in Database : fence[s].state = "sealed" =>
    /\ <<fence[s].move, "cancelled">> \notin decided[s]
    /\ \A x \in Database : fence[x].state = "sealed" /\ fence[x].move = fence[s].move => x = s
    /\ \A x \in Database : <<fence[s].move, "active">> \in decided[x] => x = fence[s].peer

(* While a source writer is held its fence stays sealed, and what the      *)
(* destination answered is in the destination's table.                     *)
DecisionsHeld ==
  \A s \in Database :
    /\ deciding[s] # "idle" => fence[s].state = "sealed"
    /\ deciding[s] = "activated" => <<fence[s].move, "active">> \in decided[fence[s].peer]
    /\ deciding[s] = "aborted" => <<fence[s].move, "cancelled">> \in decided[fence[s].peer]

(* The league lives in one place, paused or not. *)
OneAuthority == \A d, x \in Database : Token(d) /\ Token(x) => d = x

(* That place holds every row, and files carry only committed rows. *)
AuthorityHoldsLedger ==
  /\ \A d \in Database : Token(d) => events[d] = Ledger
  /\ \A c \in Content : exports[c].rows \subseteq Ledger

(* The inductive invariant: no step of the protocol breaks the whole of it, *)
(* though most of its parts can be broken from states that violate another. *)
IInv ==
  /\ TypeOK
  /\ MovesIssued
  /\ FencesWellFormed
  /\ SealsWellFormed
  /\ LatestMoveIsNewest
  /\ SealedMoves
  /\ DecisionsHeld
  /\ OneOutcome
  /\ OneAuthority
  /\ AuthorityHoldsLedger
=============================================================================
