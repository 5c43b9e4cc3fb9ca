-------------------------- MODULE MCVideoPlayback --------------------------
(***************************************************************************)
(* An instance of VideoPlayback for TLC: the surface of one activity has   *)
(* every window there is, those of the others never come.                  *)
(***************************************************************************)
EXTENDS VideoPlayback

CONSTANT a1

MCSurface == [a \in Activities |-> IF a = a1 THEN Windows ELSE {}]
=============================================================================
