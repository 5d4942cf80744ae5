------------------------------ MODULE MultiMap ------------------------------
(***************************************************************************)
(* The data a KVStore holds: for each key the values put under it, oldest  *)
(* first, and the three changes that the store makes and logs             *)
(* (cpp/kvstore/kvstore.cc).                                               *)
(*                                                                         *)
(* A change is written as the cells its log record consists of: the byte   *)
(* of its ChangeType, then its strings.  A string and the length in front  *)
(* of it are one cell: a string of which the end is missing and a string   *)
(* which is missing altogether are the same thing to the only code that    *)
(* reads it (LoadString fails on both, at the same record).                *)
(***************************************************************************)
EXTENDS Integers, Sequences

CONSTANTS Keys,    \* the keys clients use
          Values   \* the values clients store

Maps == [Keys -> Seq(Values)]

\* A key that is not in map_ is a key without values: push_back is the only
\* way a vector gets into map_, so no vector there is empty.
EmptyMap == [k \in Keys |-> <<>>]

PutChange(k, v) == <<"put", k, v>>
RemoveChange(k) == <<"remove", k>>
ClearChange     == <<"clear">>

Changes == {PutChange(k, v) : k \in Keys, v \in Values}
             \cup {RemoveChange(k) : k \in Keys}
             \cup {ClearChange}

NoChange == <<>>

Cells == {"put", "remove", "clear"} \cup Keys \cup Values

\* What change c makes of a map.
Apply(m, c) ==
  IF c[1] = "put" THEN [m EXCEPT ![c[2]] = Append(@, c[3])]
  ELSE IF c[1] = "remove" THEN [m EXCEPT ![c[2]] = <<>>]
  ELSE EmptyMap

\* The keys whose values change c may alter.
Touched(c) == IF c[1] = "clear" THEN Keys ELSE {c[2]}

\* The keys whose values after change c do not depend on those before it.
Settled(c) == IF c[1] = "put" THEN {} ELSE Touched(c)
=============================================================================
