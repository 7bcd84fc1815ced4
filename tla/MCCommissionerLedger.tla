-------------------------- MODULE MCCommissionerLedger --------------------------
EXTENDS CommissionerLedger, TLC

Change(request, principal, kind, target) ==
  [request |-> request, principal |-> principal, kind |-> kind, target |-> target]

Found      == Change("found", "ann", "create", "")
FoundStart == Change("found.start", "ann", "seed", "")
Import     == Change("import", "ann", "import", "")
ImportSeed == Change("import.seed", "ann", "seed", "")
Rules      == Change("rules", "ann", "rules", "")
Roll       == Change("roll", "ann", "roll", "")
Cut        == Change("cut", "bob", "cut", "")
Correct    == Change("correct", "ann", "correct", "cut")
Undo       == Change("undo", "ann", "revert", "rules")
UndoOther  == Change("undo", "ann", "revert", "cut")
Redo       == Change("redo", "ann", "revert", "undo")
Unroll     == Change("unroll", "ann", "revert", "roll")
Reroll     == Change("reroll", "ann", "revert", "unroll")
Pick       == Change("pick", "bob", "pick", "")
Restore    == Change("restore", "ann", "restore", "pick")

AllCommands == {Found, Import, ImportSeed, Rules, Roll, Cut, Correct, Undo, UndoOther, Redo,
                Pick, Restore}
Alone == {<<c>> : c \in AllCommands \ {Import, ImportSeed}}
MostSubmissions == Alone \union {<<Import, ImportSeed>>}

SeasonCommands == {Import, Rules, Roll, Undo, Unroll, Reroll}
SeasonSubmissions == {<<c>> : c \in SeasonCommands}
=============================================================================
