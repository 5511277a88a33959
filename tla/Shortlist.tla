------------------------------ MODULE Shortlist -----------------------------
(* apps/screener/enrich.py: the derived criteria over a candidate's daily bars *)
(* and the ranking of the candidates that pass.                                *)
EXTENDS Integers, Sequences, FiniteSets

CONSTANTS
    Names,         \* symbols of the candidates
    Caps,          \* market caps the vendor sends; 0 = none
    Histories,     \* bar series, oldest first: [close, high]
    Windows,       \* SMA_WINDOWS
    SLOPE_LOOKBACK,
    HIGH_WINDOW,
    Asked          \* derived criteria: [above, rising: sets of windows, near: tenths or 0]

ASSUME ShortlistAssumption ==
    /\ Names \subseteq Int /\ Caps \subseteq Nat
    /\ Histories \subseteq Seq([close : Nat, high : Nat])
    /\ SLOPE_LOOKBACK \in Nat /\ HIGH_WINDOW \in Nat \ {0} /\ Windows \subseteq Nat \ {0}
    /\ \A d \in Asked : d.above \union d.rising \subseteq Windows

VARIABLES
    derived,   \* the criteria of this screen
    came,      \* the candidates in the order the vendor sent them
    shown      \* the ranked table

listVars == <<derived, came, shown>>

ListInit == derived \in Asked /\ came = <<>> /\ shown = <<>>

\* {} is None: the series is too short for that window.
_sma(bars, window, offset) ==
    LET end == Len(bars) - offset
        Sum[i \in Nat] == IF i <= end - window THEN 0 ELSE bars[i].close + Sum[i - 1]
    IN  IF end - window < 0 THEN {} ELSE {Sum[end]}

Highs(bars) == {bars[i].high : i \in {j \in DOMAIN bars : j > Len(bars) - HIGH_WINDOW}}
high_252(bars) == {h \in Highs(bars) : \A g \in Highs(bars) : g <= h}
Close(bars) == bars[Len(bars)].close

\* Below the high in hundredths of a percent, rounded; {} when there is no high.
pct_from_52w_high(bars) == {((h - Close(bars)) * 20000 + h) \div (2 * h) : h \in high_252(bars) \ {0}}

\* A criterion whose input is missing fails.
passes(bars, crit) ==
    /\ bars # <<>>
    /\ \A w \in crit.above  : \E s \in _sma(bars, w, 0) : Close(bars) * w > s
    /\ \A w \in crit.rising : \E s \in _sma(bars, w, 0), p \in _sma(bars, w, SLOPE_LOOKBACK) : s > p
    /\ crit.near > 0 => \E h \in high_252(bars) : 10 * Close(bars) >= (10 - crit.near) * h

\* What a row is ranked by, {} when it is missing: distance to the high, or market cap downwards.
column(row, crit) == IF crit.near > 0 THEN pct_from_52w_high(row.bars) ELSE {-c : c \in {row.cap} \ {0}}

\* The smaller comes first, a missing one last.
Leads(p, q) == \E x \in p : \A y \in q : x < y

\* Mutant: ties keep the vendor's order.
rank_loose(a, b, crit) == Leads(column(a, crit), column(b, crit))

\* a before b: by the column, ties by the symbol.
rank(a, b, crit) == Leads(column(a, crit), column(b, crit)) \/ (column(a, crit) = column(b, crit) /\ a.symbol < b.symbol)

Kept(rows, crit) == {i \in DOMAIN rows : passes(rows[i].bars, crit)}

\* The rows a stable sort puts before row i.
Ahead(rows, i, crit) ==
    {j \in Kept(rows, crit) : rank(rows[j], rows[i], crit) \/ (j < i /\ ~rank(rows[i], rows[j], crit))}

\* The rows that pass, each behind the rows ahead of it.
Ranked(rows, crit) ==
    [k \in 1..Cardinality(Kept(rows, crit)) |->
       rows[CHOOSE i \in Kept(rows, crit) : Cardinality(Ahead(rows, i, crit)) = k - 1]]

\* The next candidate is enriched; the table is ranked when the loop is over.
Candidate(row) ==
    /\ \A i \in DOMAIN came : came[i].symbol # row.symbol
    /\ came' = Append(came, row)
    /\ shown' = Ranked(came', derived)
    /\ UNCHANGED derived

ListNext == \E s \in Names, c \in Caps, h \in Histories : Candidate([symbol |-> s, cap |-> c, bars |-> h])

-----------------------------------------------------------------------------
Reorderings == {f \in [DOMAIN came -> DOMAIN came] : \A i, j \in DOMAIN came : f[i] = f[j] => i = j}

\* The same candidates give the same table in whatever order the vendor lists
\* them, and every row of it meets every criterion asked for.
TableIsReproducible ==
    /\ \A f \in Reorderings : Ranked([i \in DOMAIN came |-> came[f[i]]], derived) = shown
    /\ \A i \in DOMAIN shown, w \in derived.above \union derived.rising : Len(shown[i].bars) >= w
=============================================================================
