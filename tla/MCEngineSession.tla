-------------------------- MODULE MCEngineSession --------------------------
\* Model-checking instance of EngineSession.
EXTENDS EngineSession, TLC

Calls == Permutations(Start \ Host) \cup Permutations(Cancel)
=============================================================================
