---------------------------- MODULE MCFazService -----------------------------
(***************************************************************************)
(* FazService on a small instance: two types of events and two nodes; one  *)
(* client in C++, which hooks and unhooks, and another in Go.              *)
(***************************************************************************)
EXTENDS FazService
=============================================================================
