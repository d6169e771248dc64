------------------------------- MODULE MCGate -------------------------------
(* Instances of Gate: two symbols of one sector, one of another; one of    *)
(* the symbols is signalled by two strategies.                             *)
EXTENDS Gate

MCInstruments == {"TCS", "INFY", "SBIN"}
MCSector == [i \in MCInstruments |-> IF i = "SBIN" THEN "bank" ELSE "it"]
Sig(i, st, use, rank) == [instrument |-> i, strategy |-> st, use |-> use, rank |-> rank]
MCSignals == {Sig("TCS", "momentum", "trade", 1), Sig("INFY", "momentum", "trade", 2),
              Sig("TCS", "reversion", "trade", 3), Sig("SBIN", "breakout", "shadow", 4),
              Sig("SBIN", "reversion", "trade", 5)}
=============================================================================
