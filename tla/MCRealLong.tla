----------------------------- MODULE MCRealLong -----------------------------
(* One symbol, two stop levels; the configurations choose quantities and faults. *)
EXTENDS RealLong
=============================================================================
