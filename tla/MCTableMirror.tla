---- MODULE MCTableMirror ----
(* TableMirror for TLC: the configurations give the constants small values. *)
EXTENDS TableMirror
====
