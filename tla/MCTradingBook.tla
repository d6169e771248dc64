---------------------------- MODULE MCTradingBook ---------------------------
(* Model instances of TradingBook: one entry, a market exit and a stop.    *)
EXTENDS TradingBook

CONSTANTS b1, s1, s2

MCIntents == {b1, s1, s2}
MCBuys == {b1}
MCStops == {s2}
=============================================================================
