------------------------------- MODULE RequestLog -------------------------------
(***************************************************************************)
(* What the league ledger promises: one list of changes that only grows,   *)
(* by whole submissions, each change under a request key of its own.       *)
(***************************************************************************)
EXTENDS Integers, Sequences, FiniteSets

CONSTANTS Commands,     \* changes somebody may ask for: [request, principal, kind, target]
          Submissions   \* sequences of commands sent as one

VARIABLE entries        \* what has been recorded: [command, expected]

Keys(es) == {es[i].command.request : i \in 1..Len(es)}

Init == entries = <<>>

(* The changes of one submission that were not recorded before are added   *)
(* together, in their order and each under a key no entry has; a created   *)
(* league brings its start along.                                          *)
Record(cs) ==
  \E added \in 1..(Len(cs) + 1) :
    LET total == Len(entries) + added
        new   == {entries'[i].command : i \in (Len(entries) + 1)..total}
    IN  /\ Len(entries') = total /\ SubSeq(entries', 1, Len(entries)) = entries
        /\ Cardinality(Keys(entries')) = total
        /\ \A i \in 1..Len(cs) : cs[i].request \in Keys(entries')
        /\ \A c \in new :
             \/ c \in {cs[i] : i \in 1..Len(cs)}
             \/ c.kind = "seed" /\ \E b \in new : b.kind = "create"
        /\ (\E c \in new : c.kind = "create") => \E c \in new : c.kind = "seed"

Next == \E cs \in Submissions : Record(cs)

Spec == Init /\ [][Next]_entries
=============================================================================
