---------------------------- MODULE AtomicRestore ----------------------------
(***************************************************************************)
(* What an offline restore promises about the profile, the databases a     *)
(* user's data directory holds: a requested restore replaces all of them   *)
(* at once or none, and nothing but the application writes to them.        *)
(***************************************************************************)
EXTENDS Integers

CONSTANTS
  Name,        \* the databases
  Absent,      \* "no such file"
  MaxContent,  \* bound: contents the application may write
  None         \* no restore is pending

VARIABLES
  profile,  \* profile[n]: what database n holds, or Absent
  pending   \* the set a restore is replacing the profile with, or None

vars == <<profile, pending>>

Content == 0..MaxContent

Init ==
  /\ profile = [n \in Name |-> Absent]
  /\ pending = None

(* The application creates a database it misses, or changes one it holds. *)
Write(n, c) ==
  /\ pending = None
  /\ profile' = [profile EXCEPT ![n] = c]
  /\ UNCHANGED pending

Request(set) ==
  /\ pending = None
  /\ pending' = set
  /\ UNCHANGED profile

Apply ==
  /\ pending # None
  /\ profile' = pending
  /\ pending' = None

Abandon ==
  /\ pending # None
  /\ pending' = None
  /\ UNCHANGED profile

Next ==
  \/ \E n \in Name, c \in Content : Write(n, c)
  \/ \E set \in [Name -> Content] : Request(set)
  \/ Apply
  \/ Abandon

Spec == Init /\ [][Next]_vars
=============================================================================
