---------------------------- MODULE MCScanTurns ----------------------------
(* Instances of ScanTurns for TLC: one NSE equity, an index that is evidenced and two *)
(* indices in rotation.                                                               *)
EXTENDS ScanTurns

CONSTANTS a, x, p, q
List == <<a, x, p, q>>
Equities == {a}
Index == {x}
=============================================================================
