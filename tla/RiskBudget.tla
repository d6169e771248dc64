----------------------------- MODULE RiskBudget -----------------------------
(***************************************************************************)
(* What the pre-trade gate promises of a book, without orders, fills or    *)
(* quotes: capacity is granted to a symbol at most once a day, only while  *)
(* the switches are armed, and a grant never takes what is held and what   *)
(* is still being bought over the limits of src/config/limits.py.          *)
(***************************************************************************)
EXTENDS Sums

CONSTANTS
    Instruments,
    Sector,             \* the sector of each instrument
    MaxPositions,       \* max_positions
    MaxEntries,         \* max_entries_per_day
    MaxGrossPct,        \* max_gross_exposure_pct
    MaxSectorPct        \* max_sector_pct

VARIABLES
    units,      \* shares held or being bought
    value,      \* what they are worth
    worth,      \* the equity of the book
    entered,    \* the symbols granted today
    halted      \* an armed switch has tripped

vars == <<units, value, worth, entered, halted>>

Taken == {i \in Instruments : units[i] > 0}
Worth(v, S) == Total([i \in S |-> v[i]])
Peers(i) == {j \in Instruments : Sector[j] = Sector[i]}

Init ==
    /\ units = [i \in Instruments |-> 0] /\ value = [i \in Instruments |-> 0]
    /\ worth \in Nat /\ entered = {} /\ halted = FALSE

(* One entry in a new symbol, within every limit at today's prices.        *)
Grant(i) ==
    /\ ~halted /\ ~halted'
    /\ i \notin entered /\ units[i] = 0
    /\ entered' = entered \cup {i} /\ Cardinality(entered') <= MaxEntries
    /\ units'[i] > 0 /\ \A j \in Instruments \ {i} : units'[j] = units[j] /\ value'[j] = value[j]
    /\ Cardinality(Taken') <= MaxPositions
    /\ 100 * Worth(value', Instruments) <= MaxGrossPct * worth
    /\ 100 * Worth(value', Peers(i)) <= MaxSectorPct * worth
    /\ worth' = worth

(* An order ends or a position is reduced; fills and prices change what    *)
(* the shares are worth, never how many there are.                         *)
Release ==
    /\ \A i \in Instruments : units'[i] <= units[i]
    /\ UNCHANGED entered

Next == Release \/ \E i \in Instruments : Grant(i)

Spec == Init /\ [][Next]_vars
=============================================================================
