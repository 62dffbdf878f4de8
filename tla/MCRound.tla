------------------------------- MODULE MCRound -------------------------------
\* Two arms of two lifetimes, two timed turns, two overlapping invocations.
EXTENDS Round
=============================================================================
