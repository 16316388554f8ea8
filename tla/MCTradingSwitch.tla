-------------------------- MODULE MCTradingSwitch --------------------------
(* Instances of TradingSwitch for TLC: a symbol of the intraday engine, and one of the swing engine. *)
EXTENDS TradingSwitch

CONSTANTS a, c
Two == {a, c}
OneSwing == {c}
=============================================================================
