------------------------------ MODULE MCCawCli -------------------------------
(***************************************************************************)
(* CawCli with one tool of each kind.  Only the C++ tool hooks and         *)
(* unhooks, so that the table keeps its promise.                           *)
(***************************************************************************)
EXTENDS CawCli, TLC

CONSTANTS cpp, go, u1, u2

NoLine == [flags |-> {}, registeruser |-> Nobody, user |-> Nobody,
           follow |-> Nobody, reply |-> NoCaw, read |-> BadId]

FollowOfGo == [NoLine EXCEPT !.flags = {"follow"}, !.user = u2, !.follow = u1]

\* A chained line, one that does nothing but unhook, and one of the other tool.
CliLines ==
  (cpp :> <<[NoLine EXCEPT
               !.flags = {"hook_all", "registeruser", "follow", "profile"},
               !.registeruser = u1, !.user = u1, !.follow = u2],
            [NoLine EXCEPT !.flags = {"follow", "unhook_all"}, !.follow = u2]>>)
  @@ (go :> <<FollowOfGo>>)

\* The tool that hooks unhooks everything and hooks it again.
RehookLines ==
  (cpp :> <<[NoLine EXCEPT !.flags = {"hook_all"}],
            [NoLine EXCEPT !.flags = {"unhook_all"}],
            [NoLine EXCEPT !.flags = {"hook_all"}]>>)
  @@ (go :> <<FollowOfGo>>)
=============================================================================
