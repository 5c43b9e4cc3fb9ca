----------------------------- MODULE MCWifiLink -----------------------------
(***************************************************************************)
(* Instances of WifiLink for TLC, with two adapters.                       *)
(***************************************************************************)
EXTENDS WifiLink

Lossy    == {"lost", "corrupt", "intact"}
Lossless == {"intact"}
Losing   == {"lost", "intact"}

\* Both adapters lose and damage packets, or only one of them.
LossyLinks == {<<Lossy, Lossy>>, <<Lossless, Lossy>>}

\* The same as functions on the adapters, which are numbered from zero.
AnyLink      == {[a \in {0, 1} |-> l[a + 1]] : l \in LossyLinks}
LosslessLink == {[a \in {0, 1} |-> IF a = 0 THEN Lossless ELSE Losing]}
=============================================================================
