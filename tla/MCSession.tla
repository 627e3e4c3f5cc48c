----------------------------- MODULE MCSession -----------------------------
EXTENDS Session, TLC

\* Goroutines and batches are interchangeable, and so are the extensions of a
\* local pool: nothing in Session tells two of them apart.
LocalSymmetry == Permutations(Call) \cup Permutations(Batch) \cup Permutations(Caller)

=============================================================================
