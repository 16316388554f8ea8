---------------------------- MODULE MCSwingLong ----------------------------
(* Instances of SwingLong for TLC. *)
EXTENDS SwingLong
=============================================================================
