----------------------------- MODULE WalkForward ----------------------------
(* The arithmetic under a backtest: the walk-forward windows (wf.py), the       *)
(* coverage check over the stored bars (data.py), the parameter grid (views.py, *)
(* vbt_engine.py) and the signals of the SMA-crossover adapter.  Days are       *)
(* numbers; the calendar is scanned a day at a time, as the loops do.           *)
EXTENDS Integers, Sequences, FiniteSets, SequencesExt

CONSTANTS
    Configs,      \* [start, end, train, test, anchored], as the serializer accepts them
    MaxWindows,   \* MAX_WINDOWS
    Weekdays,     \* the weekdays among the days scanned
    LastDay,      \* bound: days scanned and bars read
    Closes,       \* closing prices
    Fast, Slow,   \* the periods of the crossover
    Declared,     \* the adapter's grid: [parameter -> values]
    Refinements   \* grids a user may send; the empty one asks for the whole grid

ASSUME WalkAssumption ==
    /\ {MaxWindows, LastDay, Fast, Slow} \subseteq Nat /\ Weekdays \subseteq Nat
    /\ 0 < Fast /\ Fast < Slow
    /\ Configs \subseteq [start : Nat, end : Nat, train : Nat \ {0}, test : Nat \ {0}, anchored : BOOLEAN]
    /\ \A grid \in Refinements \union {Declared} : \A k \in DOMAIN grid : grid[k] # {}

VARIABLES
    wf,        \* the configuration
    user_grid, \* and the grid sent with it
    t,         \* start of the next rolling window
    windows,   \* Windows made so far
    scan,      \* coverage scan: day, bars present, open run of missing days, closed runs
    series     \* the closes the adapter has been given, oldest first

walkVars == <<wf, user_grid, t, windows, scan, series>>

WalkInit ==
    /\ wf \in Configs /\ user_grid \in Refinements /\ t = wf.start /\ windows = <<>>
    /\ scan = [day |-> 0, have |-> {}, run |-> <<>>, runs |-> {}]
    /\ series = <<>>

\* One iteration: the step is the test length (the serializer insists), half-open.
compute_windows ==
    /\ t + wf.train + wf.test <= wf.end
    /\ windows' = Append(windows,
         [train_start |-> IF wf.anchored THEN wf.start ELSE t, train_end |-> t + wf.train,
          test_start  |-> t + wf.train, test_end |-> t + wf.train + wf.test])
    /\ t' = t + wf.test
    /\ UNCHANGED <<wf, user_grid, scan, series>>

AllWindows == t + wf.train + wf.test > wf.end
_check_windows == AllWindows /\ Len(windows) \in 2..MaxWindows

\* A bar stored once or again is stored once.
upsert_bars(have, day) == have \union {day}

\* One weekday of _largest_gaps: a run of missing days opens, goes on or closes.
_largest_gaps(present) ==
    LET d == scan.day + 1
    IN  /\ d <= LastDay
        /\ scan' = IF d \notin Weekdays THEN [scan EXCEPT !.day = d]
                   ELSE IF ~present THEN [scan EXCEPT !.day = d,
                                              !.run = IF @ = <<>> THEN <<d, d>> ELSE <<@[1], d>>]
                   ELSE [scan EXCEPT !.day = d, !.have = upsert_bars(@, d), !.run = <<>>,
                             !.runs = @ \union IF scan.run = <<>> THEN {} ELSE {scan.run}]
        /\ UNCHANGED <<wf, user_grid, t, windows, series>>

_weekdays == Weekdays \intersect 1..scan.day
missing_bars == _weekdays \ scan.have
_validate_coverage == _weekdays # {} /\ Cardinality(scan.have) * 100 >= 95 * Cardinality(_weekdays)
\* The runs, of which the refusal prints the three longest.
Gaps == scan.runs \union IF scan.run = <<>> THEN {} ELSE {scan.run}

\* The effective grid of the user's refinement; {} refuses it.
_effective_grid ==
    IF \E k \in DOMAIN user_grid : k \notin DOMAIN Declared \/ ~(user_grid[k] \subseteq Declared[k]) THEN {}
    ELSE {[k \in DOMAIN Declared |-> IF k \in DOMAIN user_grid THEN user_grid[k] ELSE Declared[k]]}

make_combos(grid) == {c \in [DOMAIN grid -> UNION {grid[k] : k \in DOMAIN grid}] :
                        \A k \in DOMAIN grid : c[k] \in grid[k]}

\* The adapter gets one more bar.
NextBar(c) ==
    /\ Len(series) < LastDay
    /\ series' = Append(series, c)
    /\ UNCHANGED <<wf, user_grid, t, windows, scan>>

-----------------------------------------------------------------------------
\* rolling(n, min_periods = n).mean() at row i, as the sum over its window; {} is NaN.
total(window) == FoldLeft(+, 0, window)
rolling(s, n, i) == IF i < n THEN {} ELSE {total(SubSeq(s, i - n + 1, i))}
above(s, i) == \E f \in rolling(s, Fast, i), g \in rolling(s, Slow, i) : f * Slow > g * Fast

generate_signals(s) ==
    [i \in DOMAIN s |->
        LET valid == rolling(s, Fast, i) # {} /\ rolling(s, Slow, i) # {}
            prev  == i > 1 /\ above(s, i - 1)
        IN  [entry |-> valid /\ above(s, i) /\ ~prev, exit |-> valid /\ ~above(s, i) /\ prev]]

warmup_bars == Slow

-----------------------------------------------------------------------------
\* The out-of-sample segments follow each other without overlap or gap, each right
\* behind its training window, none beyond the end; once the loop is over as many
\* as fit are there, and the POST accepts exactly the spans of 2 to MaxWindows.
WindowsTile ==
    /\ \A i \in DOMAIN windows :
         LET w == windows[i]
         IN  /\ w.train_start >= wf.start /\ w.test_end <= wf.end
             /\ w.train_end = w.test_start /\ w.test_end - w.test_start = wf.test
             /\ w.train_start = (IF wf.anchored THEN wf.start ELSE w.train_end - wf.train)
             /\ i > 1 => w.test_start = windows[i - 1].test_end
    /\ AllWindows => LET room == wf.end - wf.start - wf.train
                     IN  Len(windows) = IF room < wf.test THEN 0 ELSE room \div wf.test
    /\ _check_windows <=> AllWindows /\ wf.end - wf.start >= wf.train + 2 * wf.test
                         /\ wf.end - wf.start < wf.train + (MaxWindows + 1) * wf.test

\* The runs a refusal picks its three longest from are the maximal runs of missing
\* weekdays, each once, and a refusal for want of coverage always has one to name.
GapsAreMaximal ==
    LET missing == missing_bars
        Between(a, b) == _weekdays \intersect a..b
    IN  /\ ~_validate_coverage /\ _weekdays # {} => Gaps # {}
        /\ Gaps = {gap \in missing \X missing :
                      LET a == gap[1]  b == gap[2]
                      IN  /\ a <= b /\ Between(a, b) \subseteq missing
                          /\ \A x \in missing : x < a => ~(Between(x, b) \subseteq missing)
                          /\ \A y \in missing : y > b => ~(Between(a, y) \subseteq missing)}

\* No look-ahead: what is signalled at a row never changes when later bars come;
\* and with warmup_bars rows before it, a row's signals do not depend on what the
\* loader left out.
SignalsStand ==
    LET Upto(s, n) == SubSeq(s, 1, n)
        From(s, k) == SubSeq(s, k, Len(s))
    IN  \A n \in 1..Len(series) :
          /\ generate_signals(Upto(series, n)) = Upto(generate_signals(series), n)
          /\ \A k \in 1..(n - warmup_bars) :
               generate_signals(From(series, k))[n - k + 1] = generate_signals(series)[n]

\* No value reaches the adapter that its own grid does not allow, and a refinement
\* never loses a parameter.
GridRefines ==
    \A g \in _effective_grid : make_combos(g) \subseteq make_combos(Declared) /\ make_combos(g) # {}

\* The windows, the gaps and the grid together.
WalkIsSound == WindowsTile /\ GapsAreMaximal /\ GridRefines
=============================================================================
