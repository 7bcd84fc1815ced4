-------------------------- MODULE LeagueAuthority --------------------------
(***************************************************************************)
(* What a league is promised while it moves between databases: one home at *)
(* a time, or none during a pause; one history, which only the home adds   *)
(* to; and a home that serves that whole history.                          *)
(***************************************************************************)
CONSTANTS
  Database,  \* places the league can live
  Origin,    \* where it was created
  Event,     \* changes
  Founding,  \* the change that created it
  Nowhere    \* the league is paused

VARIABLES
  home,    \* the database that accepts changes, or Nowhere
  ledger,  \* every change ever accepted
  served   \* the history the home shows; none while paused

vars == <<home, ledger, served>>

Init ==
  /\ home = Origin
  /\ ledger = {Founding}
  /\ served = {Founding}

Write(e) ==
  /\ home # Nowhere
  /\ e \notin ledger
  /\ ledger' = ledger \cup {e}
  /\ served' = ledger \cup {e}
  /\ UNCHANGED home

Pause ==
  /\ home # Nowhere
  /\ home' = Nowhere
  /\ served' = {}
  /\ UNCHANGED ledger

Resume(d) ==
  /\ home = Nowhere
  /\ home' = d
  /\ served' = ledger
  /\ UNCHANGED ledger

Next ==
  \/ \E e \in Event : Write(e)
  \/ Pause
  \/ \E d \in Database : Resume(d)

Spec == Init /\ [][Next]_vars
=============================================================================
