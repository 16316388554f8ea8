--------------------------- MODULE MCDurableMirror ---------------------------
(* Symbols of DurableMirror for TLC. *)
EXTENDS DurableMirror, TLC

CONSTANTS a, b, c
MCEngineOf == a :> "swing" @@ b :> "swing" @@ c :> "long"
=============================================================================
