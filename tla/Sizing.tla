------------------------------- MODULE Sizing -------------------------------
(* apps/risk, sizing and integration: how many shares or contracts an order    *)
(* gets, from the user's risk profile, the account at the broker, the latest   *)
(* regime and the sentiment of its symbol.                                     *)
EXTENDS Regime

CONSTANTS
    Profiles,  \* risk profiles
    Asks       \* orders to size, with what the broker and the books say

VARIABLES
    ask,      \* the order
    profile,  \* the user's riskprofile, NoProfile when there is none
    decided   \* what became of it

sizingVars == <<regimeVars, ask, profile, decided>>

\* A share; an option of 100; a future by its root, 50 when the root is unknown.
MULTIPLIER == [STOCK |-> 1, OPTION |-> 100, MES |-> 5, UNKNOWN_ROOT |-> 50]
contract_multiplier_for(a) == MULTIPLIER[a.asset]
ClassOf(a) == IF a.asset \in {"MES", "UNKNOWN_ROOT"} THEN "FUTURE" ELSE a.asset

\* What the validators of the profile let through: percentages, here whole ones, and
\* nothing that keeps the caps and stops from being negative.
RiskProfile ==
    {p \in [here : {TRUE}, strict_mode : BOOLEAN, risk_per_trade_pct : 1..5, max_position_pct : Int,
            max_concurrent : Nat \ {0}, leverage_cap : Int, soft_stop_pct : Int, hard_stop_pct : Int,
            permitted : SUBSET {"STOCK", "ETF", "OPTION", "FUTURE"}] :
        p.max_position_pct <= 50 /\ p.soft_stop_pct < p.hard_stop_pct}

\* A price of 0 is none; the stop is at the least a fraction of the price.
Order == [asset : DOMAIN MULTIPLIER, live : BOOLEAN, requested : Nat, long : BOOLEAN, held : BOOLEAN,
          open : Nat, equity : Int, last_equity : Int, price : Nat, stop : Nat \ {0},
          sentiment : (0 - 100)..100]

ASSUME SizingAssumption == Profiles \subseteq RiskProfile /\ Asks \subseteq Order

\* In tenths.
ScaleSwapped ==  \* mutant: CHOP and BEAR change places
    [CRISIS |-> 0, BEAR |-> 6, CHOP |-> 3, NEUTRAL |-> 6, BULL |-> 10]
REGIME_SCALE == [CRISIS |-> 0, BEAR |-> 3, CHOP |-> 6, NEUTRAL |-> 6, BULL |-> 10]

NoProfile == [here |-> FALSE]
Reject(reason) == [ok |-> FALSE, qty |-> 0, reason |-> reason, soft |-> FALSE]
Accept(qty, soft) == [ok |-> TRUE, qty |-> qty, reason |-> "", soft |-> soft]
Smallest(S) == CHOOSE x \in S : \A y \in S : x <= y

\* The drawdown of the day, in percent of the equity at its open; only a loss.
Drawdown(a, pct) == a.equity < a.last_equity /\ 100 * (a.last_equity - a.equity) >= pct * a.last_equity
HardStop(a, p) == p.hard_stop_pct > 0 /\ Drawdown(a, p.hard_stop_pct)
SoftStop(a, p) == p.soft_stop_pct <= 0 \/ Drawdown(a, p.soft_stop_pct)

\* The sentiment adjustment and the soft stop, a fraction.
Adjust(a, p) ==
    LET s == CASE a.long /\ a.sentiment > 70 -> <<11, 10>>
               [] a.long /\ a.sentiment < -50 -> <<1, 2>>
               [] OTHER -> <<1, 1>>
    IN  IF SoftStop(a, p) THEN <<s[1], s[2] * 2>> ELSE s

\* What an order may be at most, whatever else is decided.
PositionCap(a, p) == (a.equity * p.max_position_pct) \div (100 * a.price * contract_multiplier_for(a))
LeverageCaps(a, p) ==
    IF p.leverage_cap <= 0 THEN {} ELSE {(a.equity * p.leverage_cap) \div (a.price * contract_multiplier_for(a))}
RequestCaps(a) == IF a.requested = 0 THEN {} ELSE {a.requested}

\* The code takes the floor last; the floor of a minimum is the least floor.
Clamped(a, p, label) ==
    LET mult == contract_multiplier_for(a)
        k    == Adjust(a, p)
        byRisk == (a.equity * p.risk_per_trade_pct * REGIME_SCALE[label] * k[1]) \div (1000 * a.stop * mult * k[2])
        byPos  == (a.equity * p.max_position_pct * k[1]) \div (100 * a.price * mult * k[2])
    IN  {byRisk, byPos} \union LeverageCaps(a, p) \union RequestCaps(a)
QtyBoosted(a, p, label) ==  \* mutant: the boost is applied after the ceiling
    Smallest(Clamped(a, p, label))
Qty(a, p, label) == Smallest(Clamped(a, p, label) \union {PositionCap(a, p)})

compute_size(a, p, label) ==
    IF p.strict_mode /\ label \in {"BEAR", "CRISIS"} /\ a.long THEN Reject("REGIME_SIDE_MISMATCH")
    ELSE IF label = "CRISIS" THEN Reject("REGIME_CRISIS")
    ELSE IF HardStop(a, p) THEN Reject("HARD_STOP")
    ELSE IF Qty(a, p, label) <= 0 THEN Reject("SIZING_ZERO")
    ELSE Accept(Qty(a, p, label), SoftStop(a, p))

\* apply_sizing, in the order of its checks.
Checked(a, p, label) ==
    IF p.permitted # {} /\ ClassOf(a) \notin p.permitted THEN Reject("SIZING_ASSET_CLASS_BLOCKED")
    ELSE IF p.max_concurrent > 0 /\ ~a.held /\ a.open >= p.max_concurrent THEN Reject("SIZING_MAX_CONCURRENT")
    ELSE IF a.equity <= 0 THEN Reject("SIZING_NO_EQUITY")
    ELSE IF a.price = 0 THEN Reject("SIZING_NO_PRICE")
    ELSE compute_size(a, p, label)

\* Without a profile a paper order goes out as it was asked for, a live one does not.
Decision(a, p, label) ==
    IF p.here THEN Checked(a, p, label)
    ELSE IF a.live THEN Reject("NO_RISK_PROFILE") ELSE Accept(a.requested, FALSE)

apply_sizing ==
    /\ decided.reason = "pending"
    /\ decided' = Decision(ask, profile, seen.label)
    /\ UNCHANGED <<regimeVars, ask, profile>>

\* The first PUT makes the row that turns sizing on; opening the page makes none.
\* A decision uses the profile it loaded.
PutProfile(p) ==
    /\ decided.reason = "pending"
    /\ profile' = p
    /\ UNCHANGED <<regimeVars, ask, decided>>

SizingInit ==
    /\ RegimeInit
    /\ ask \in Asks /\ profile \in Profiles \union {NoProfile}
    /\ decided = Reject("pending")

SizingNext ==
    \/ apply_sizing
    \/ \E p \in Profiles : PutProfile(p)
    \/ decided.reason = "pending" /\ run_daily_feature_pipeline /\ UNCHANGED <<ask, profile, decided>>

SizingSpec == SizingInit /\ [][SizingNext]_sizingVars

-----------------------------------------------------------------------------
\* What is accepted stays within every limit of the profile at once: the value
\* of the position, the leverage, what was asked for, the money at risk between
\* the price and its stop, no new symbol beyond the allowed number, and nothing
\* on a day that lost as much as the hard stop; whatever sentiment, soft stop
\* and contract size did to the number in between.
SizingIsSafe ==
    (decided.ok /\ profile.here) =>
        LET q == decided.qty
            unit == ask.price * contract_multiplier_for(ask)
        IN  /\ q > 0 /\ (ask.requested > 0 => q <= ask.requested)
            /\ 100 * q * unit <= ask.equity * profile.max_position_pct
            /\ profile.leverage_cap > 0 => q * unit <= ask.equity * profile.leverage_cap
            /\ 1000 * q * ask.stop * contract_multiplier_for(ask)
                 <= 11 * ask.equity * profile.risk_per_trade_pct
            /\ ask.held \/ ask.open < profile.max_concurrent
            /\ ~HardStop(ask, profile)

\* Of two days that differ in stress alone, the more stressed one never gets the
\* larger order, through score, bucket, the model's opinion and scale.
SizeFollowsStress ==
    profile.here =>
        \A v, h \in Readings :
            (v >= day.vix /\ h >= day.hy_oas) =>
                LET worse == compute_observation([day EXCEPT !.vix = v, !.hy_oas = h])
                IN  Checked(ask, profile, worse.label).qty <= Checked(ask, profile, seen.label).qty

\* Two days that differ only in what could be fetched: the day on which more is
\* missing never gets the larger scale.
DataLossDeRisks ==
    [][(day.lost \subseteq day'.lost /\ day' = [day EXCEPT !.lost = day'.lost])
         => REGIME_SCALE[seen'.label] <= REGIME_SCALE[seen.label]]_sizingVars

=============================================================================
