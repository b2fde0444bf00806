----------------------------- MODULE MCResponseCache -----------------------------
(* ResponseCacheHistory for model checking: keys are interchangeable, and so are  *)
(* clients, since every property of the run is about states and single steps.     *)
EXTENDS ResponseCacheHistory, TLC

Symmetry == Permutations(Keys) \cup Permutations(Clients)

================================================================================
