--------------------------- MODULE MCRunLifecycle ---------------------------
(* RunLifecycle on a small instance: three cases, the second of which the  *)
(* server does not support; the server may be kept or not.                 *)
EXTENDS RunLifecycle

CONSTANT p1

MCOneProc == {p1}
MCSecond == {2}
MCBoth == BOOLEAN
=============================================================================
