------------------------------- MODULE MCNSLock -------------------------------
(* Model-checking instance of NSLock.                                      *)
EXTENDS NSLock, TLC

\* Instances, resources and addresses are interchangeable.
Symmetry == Permutations(Instances) \cup Permutations(Params)
              \cup Permutations(Entries)
=============================================================================
