---- MODULE MCThreadPool ----
(* Instances of ThreadPool for TLC. *)
EXTENDS ThreadPoolProps, TLC

Symmetry == Permutations(Threads) \cup Permutations(Tasks) \cup Permutations(Callers)
====
