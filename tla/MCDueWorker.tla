------------------------------- MODULE MCDueWorker -------------------------------
EXTENDS DueWorker, TLC

Item(league, kind) == [league |-> league, kind |-> kind]

WaiverThenDraft == <<"waiver", "draft">>
TwoLeagues == <<"a", "b">>
TwoItems == {Item("a", "waiver"), Item("b", "draft")}
Ahead == {2}

OnlyDraft == <<"draft">>
OneLeague == <<"a">>
OneDraft == {Item("a", "draft")}
Exact == {0}
=============================================================================
