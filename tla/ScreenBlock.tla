----------------------------- MODULE ScreenBlock ----------------------------
(* apps/screener/criteria.py: the [screen] block of a description, found, read *)
(* line by line and folded into what the vendor is asked and what is checked   *)
(* locally.  A line is its key and its value: an operator and one or two number *)
(* tokens (Junk: no usable number, or a text with several values).             *)
EXTENDS Integers, Sequences, FiniteSets

CONSTANTS
    Lines,        \* lines an author writes: [key, op, a, b]
    Junk,
    SmaWindows,   \* SMA_WINDOWS
    MaxNumber,    \* MAX_NUMBER
    PctMax,       \* 100 per cent
    LimitMax,     \* LIMIT_MAX and, as LIMIT_DEFAULT is below it, the default
    HistoryMax,   \* MIN_HISTORY_MAX
    MaxLines      \* MAX_BLOCK_LINES

ASSUME BlockAssumption == {MaxNumber, PctMax, LimitMax, HistoryMax, MaxLines} \subseteq Nat

VARIABLES
    block,     \* what extract_block finds: opening tags, a closing one, the size
    read,      \* the lines read so far
    parser,    \* criteria (facts <<key, part, number>>), seen_scalar, errors (line numbers)
    outcome    \* "reading", "none", "errors", or the vendor params and derived criteria

blockVars == <<block, read, parser, outcome>>

_RANGE_KEYS   == {"price", "volume"}
_STRING_KEYS  == {"country"}
_DERIVED_KEYS == {"above_sma", "near_52w_high", "min_history"}
_REPEATABLE   == {"above_sma"}
ALL_KEYS == _RANGE_KEYS \union _STRING_KEYS \union _DERIVED_KEYS \union {"etf", "limit"}

BlockInit ==
    /\ block \in [opens : 0..2, closed : BOOLEAN, small : BOOLEAN]
    /\ read = <<>>
    /\ parser = [criteria |-> {}, seen |-> {}, errors |-> {}]
    /\ outcome = "reading"

\* One opening tag at the start of a line, closed, within the size cap.
extract_block ==
    IF block.opens = 0 THEN "none"
    ELSE IF block.opens = 1 /\ block.closed /\ block.small THEN "reading" ELSE "errors"

\* {} is None: no number, or beyond MAX_NUMBER.
_parse_number(tok) == IF tok = Junk THEN {} ELSE {tok} \intersect 0..MaxNumber

_parse_range(key, l) ==
    LET Bound(half, tok) == {<<key, half, n>> : n \in _parse_number(tok)}
    IN  CASE l.op = ">=" -> Bound("gte", l.a)
          [] l.op = "<=" -> Bound("lte", l.a)
          [] l.op = ".." -> IF \E lo \in _parse_number(l.a), hi \in _parse_number(l.b) : lo <= hi
                            THEN Bound("gte", l.a) \union Bound("lte", l.b) ELSE {}
          [] OTHER -> {}

Clamp(n) == IF n < 1 THEN 1 ELSE IF n > LimitMax THEN LimitMax ELSE n

\* The facts a line adds; none: the line is an error.
_apply(l) ==
    LET Is(S) == {<<l.key, "is", n>> : n \in IF l.op = "bare" THEN _parse_number(l.a) \intersect S ELSE {}}
    IN  CASE l.key \in _RANGE_KEYS     -> _parse_range(l.key, l)
          [] l.key = "etf"             -> Is({0, 1})
          [] l.key = "above_sma"       -> Is(SmaWindows)
          [] l.key = "near_52w_high"   -> Is(1..PctMax)
          [] l.key = "min_history"     -> Is(1..HistoryMax)
          [] l.key = "limit"           -> {<<f[1], f[2], Clamp(f[3])>> : f \in Is(Nat)}
          [] OTHER                     -> Is(Nat)

Wrong(p)   == [p EXCEPT !.errors = @ \union {Len(read) + 1}]
Took(p, l) == [p EXCEPT !.criteria = @ \union _apply(l)]
Seen(p, l) == IF l.key \in _REPEATABLE THEN p ELSE [p EXCEPT !.seen = @ \union {l.key}]

\* One iteration of _parse_body: a key counts as seen before its value is looked at.
_parse_body(p, l) ==
    IF l.key = "comment" THEN p
    ELSE IF l.key \notin ALL_KEYS \/ l.op = "empty" \/ l.key \in p.seen THEN Wrong(p)
    ELSE IF _apply(l) = {} \/ (l.key \in _REPEATABLE /\ _apply(l) \subseteq p.criteria)
      THEN Wrong(Seen(p, l)) ELSE Took(Seen(p, l), l)

Only(c, keys) == {f \in c : f[1] \in keys}
_build(c) ==
    LET limit   == IF Only(c, {"limit"}) = {} THEN {<<"limit", "is", LimitMax>>} ELSE Only(c, {"limit"})
        etf     == IF Only(c, {"etf"}) = {} THEN {<<"etf", "is", 0>>} ELSE Only(c, {"etf"})
        derived == Only(c, _DERIVED_KEYS)
    IN  [vendor  |-> Only(c, _RANGE_KEYS \union _STRING_KEYS) \union etf \union limit,
         derived |-> IF derived = {} \/ Only(derived, {"min_history"}) # {} THEN derived
                     ELSE derived \union {<<"min_history", "is", HistoryMax>>}]

ParseLine(l) ==
    /\ outcome = "reading" /\ extract_block = "reading" /\ Len(read) < MaxLines
    /\ read' = Append(read, l)
    /\ parser' = _parse_body(parser, l)
    /\ UNCHANGED <<block, outcome>>

Parsed ==
    /\ outcome = "reading"
    /\ outcome' = IF extract_block # "reading" THEN extract_block
                  ELSE IF parser.errors # {} THEN "errors" ELSE "criteria"
    /\ UNCHANGED <<block, read, parser>>

BlockNext == Parsed \/ \E l \in Lines : ParseLine(l)

-----------------------------------------------------------------------------
Given(i) == read[i].key \in ALL_KEYS /\ read[i].op # "empty"
Faulty(i) == read[i].key # "comment" /\ (~Given(i) \/ _apply(read[i]) = {})
Repeats(i) ==
    \E j \in 1..(i - 1) :
        /\ Given(i) /\ Given(j) /\ read[i].key = read[j].key
        /\ read[i].key \in _REPEATABLE => _apply(read[i]) = _apply(read[j])

\* The block means its lines, in any order: an error at exactly the lines that are
\* wrong or say again what an earlier one said, and otherwise every line reaches
\* the vendor or the local checks, with at most the documented defaults added.
BlockMeansItsLines ==
    LET all == UNION {_apply(read[i]) : i \in {k \in DOMAIN read : Given(k)}}
        out == _build(parser.criteria)
    IN  /\ parser.errors = {i \in DOMAIN read : Faulty(i) \/ Repeats(i)}
        /\ parser.errors = {} =>
             /\ all \subseteq out.vendor \union out.derived
             /\ (out.vendor \union out.derived) \ all
                  \subseteq {<<"limit", "is", LimitMax>>, <<"etf", "is", 0>>, <<"min_history", "is", HistoryMax>>}
        /\ \A f, g \in out.vendor \union out.derived :
             f[1] = g[1] /\ f[2] = g[2] /\ f[1] \notin _REPEATABLE => f = g
=============================================================================
