----------------------------- MODULE MCLogBytes -----------------------------
(***************************************************************************)
(* LogBytes with groups of one bit and an int of three: a length from two  *)
(* on takes two bytes, one of four is too long.                            *)
(***************************************************************************)
EXTENDS LogBytes

SomeKeys   == {<<>>, <<0, 1, 2>>}
SomeValues == {<<>>, <<1, 0, 0, 3>>}
=============================================================================
