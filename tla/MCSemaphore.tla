---------------------------- MODULE MCSemaphore -----------------------------
EXTENDS ResizableSemaphore, TLC

\* The workers run the same code.
Permuted == Permutations(Workers)
=============================================================================
