----------------------------- MODULE MCCawHandler ----------------------------
(***************************************************************************)
(* CawHandler on small instances: two threads of the Faz server, two users *)
(* and up to three caws.                                                   *)
(***************************************************************************)
EXTENDS CawHandler, TLC

\* Caw ids and threads are interchangeable, and so are users that start alike.
Symmetry ==
  Permutations(Ids) \cup Permutations(Threads)
    \cup (IF Registered \in {{}, Users} THEN Permutations(Users) ELSE {})
=============================================================================
