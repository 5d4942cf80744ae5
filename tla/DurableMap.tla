----------------------------- MODULE DurableMap -----------------------------
(***************************************************************************)
(* What a KVStore with a file promises its callers (the comments of        *)
(* cpp/kvstore/kvstore.h, and the statuses of kvstore_service.cc), with    *)
(* every call taking effect in one step:                                   *)
(*                                                                         *)
(*   - a change that is answered OK is in memory and survives any crash;   *)
(*   - a change that is answered UNAVAILABLE is in memory all the same,    *)
(*     and gone after the next restart;                                    *)
(*   - a crash may keep the one change whose call had not returned, or     *)
(*     lose it, and touches nothing else;                                  *)
(*   - a restarted store holds exactly what has survived.                  *)
(***************************************************************************)
EXTENDS MultiMap

VARIABLES
  up,       \* the process runs and has loaded its file
  mem,      \* what Get returns
  dur,      \* what a restart would bring back
  pending,  \* the change whose call has not returned yet, or NoChange
  ret       \* what the last call returned

absVars == <<up, mem, dur, pending, ret>>

\* The status of a change: Remove finds nothing, or the log does not take it,
\* or it is done.
StatusOf(c, existed, logged) ==
  [status |-> IF c[1] = "remove" /\ ~existed THEN "NOT_FOUND"
              ELSE IF logged THEN "OK" ELSE "UNAVAILABLE",
   values |-> <<>>]

Existed(m, c) == c[1] = "remove" => m[c[2]] # <<>>

AbsInit ==
  /\ up = FALSE
  /\ mem = EmptyMap
  /\ dur = EmptyMap
  /\ pending = NoChange
  /\ ret = [status |-> "NONE", values |-> <<>>]

AbsCall(c) ==
  /\ up
  /\ pending = NoChange
  /\ pending' = c
  /\ UNCHANGED <<up, mem, dur, ret>>

AbsStore ==
  /\ pending # NoChange
  /\ mem' = Apply(mem, pending)
  /\ dur' = Apply(dur, pending)
  /\ ret' = StatusOf(pending, Existed(mem, pending), TRUE)
  /\ pending' = NoChange
  /\ UNCHANGED up

AbsRefuse ==
  /\ pending # NoChange
  /\ mem' = Apply(mem, pending)
  /\ ret' = StatusOf(pending, Existed(mem, pending), FALSE)
  /\ pending' = NoChange
  /\ UNCHANGED <<up, dur>>

AbsGet(k) ==
  /\ up
  /\ pending = NoChange
  /\ ret' = [status |-> "OK", values |-> mem[k]]
  /\ UNCHANGED <<up, mem, dur, pending>>

AbsCrash ==
  /\ up
  /\ up' = FALSE
  /\ mem' = EmptyMap
  /\ \/ dur' = dur
     \/ /\ pending # NoChange
        /\ dur' = Apply(dur, pending)
  /\ pending' = NoChange
  /\ UNCHANGED ret

AbsRestart ==
  /\ ~up
  /\ up' = TRUE
  /\ mem' = dur
  /\ UNCHANGED <<dur, pending, ret>>

AbsNext ==
  \/ \E c \in Changes : AbsCall(c)
  \/ AbsStore
  \/ AbsRefuse
  \/ \E k \in Keys : AbsGet(k)
  \/ AbsCrash
  \/ AbsRestart

AbsSpec == AbsInit /\ [][AbsNext]_absVars
=============================================================================
