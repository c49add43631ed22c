----------------------------- MODULE MCLicense -----------------------------
EXTENDS LicenseCommands, TLC

Processes == Permutations(Procs)
=============================================================================
