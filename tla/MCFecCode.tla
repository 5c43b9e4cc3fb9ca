----------------------------- MODULE MCFecCode -----------------------------
(***************************************************************************)
(* Values for the model checker: two bytes for the DATA, and the matrices  *)
(* of rank 1 over the whole field, of rank 2 over five bytes and of rank 3 *)
(* over zero and two more.                                                 *)
(***************************************************************************)
EXTENDS FecCode

MCDataValues == {Zero, Byte(83)}

SquareMatrices(k, entries) == [0..(k - 1) -> [0..(k - 1) -> entries]]

MCMatrices ==
  SquareMatrices(1, gf)
    \cup SquareMatrices(2, {Byte(n) : n \in {0, 1, 2, 3, 142}})
    \cup SquareMatrices(3, {Byte(n) : n \in {0, 1, 2}})
=============================================================================
