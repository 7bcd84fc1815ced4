------------------------------- MODULE MCAccounts -------------------------------
EXTENDS Accounts

Few == [password |-> 3, invite |-> 1, session |-> 2, token |-> 2, seed |-> 2, proof |-> 2,
        code |-> 2, epoch |-> 1]
=============================================================================
