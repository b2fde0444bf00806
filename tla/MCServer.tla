-------------------------------- MODULE MCServer --------------------------------
(* Server for model checking: requests are interchangeable, since each may be of *)
(* any kind, and the properties its runs check are about states and single steps. *)
EXTENDS Server, TLC

Symmetry == Permutations(Requests)

================================================================================
