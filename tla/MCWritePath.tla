---- MODULE MCWritePath ----
(* WritePath with thread names as model values.                            *)
EXTENDS WritePath

CONSTANTS w1, a1

OneWriter == {w1}
OneAborter == {a1}
NoAborter == {}
====
