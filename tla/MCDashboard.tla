---------------------------- MODULE MCDashboard ----------------------------
EXTENDS Dashboard

\* Requests of a kind are interchangeable.
DashSymmetry == Permutations(Change) \cup Permutations(Login)
=============================================================================
