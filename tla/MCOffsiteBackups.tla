----------------------------- MODULE MCOffsiteBackups -----------------------------
EXTENDS OffsiteBackups

SmallSteps == {-1, 2}
Back == {-5}
=============================================================================
