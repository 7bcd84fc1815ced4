------------------------- MODULE MCLeagueGovernance -------------------------
EXTENDS LeagueGovernance, TLC

\* People are alike but for whether their inactivity is followed.
Interchangeable == Permutations(Watched) \cup Permutations(Principal \ Watched)
=============================================================================
