-------------------------- MODULE MCWingAdmission --------------------------
EXTENDS WingAdmission, TLC

\* Fd numbers and peer addresses are interchangeable.
Symmetry == Permutations(Workers) \cup Permutations(IPs) \cup Permutations(Fds)
=============================================================================
