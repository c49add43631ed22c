----------------------------- MODULE MCRecovery -----------------------------
EXTENDS Recovery, TLC

\* Workers run the same loop, and files are alike.
Permuted == Permutations(Workers) \cup Permutations(Files)
=============================================================================
