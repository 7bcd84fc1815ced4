-------------------------- MODULE MCLeagueTransfer --------------------------
(***************************************************************************)
(* Small instances of LeagueTransfer.  The league is created in a1; the    *)
(* other databases and all later changes are interchangeable.              *)
(***************************************************************************)
EXTENDS LeagueTransferInduction, TLC

Interchangeable ==
  Permutations(Database \ {Origin}) \cup Permutations(Event \ {Founding})
    \cup Permutations(Content)
=============================================================================
