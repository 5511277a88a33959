---------------------------- MODULE DecisionProofs ----------------------------
(* The sizing of an order, for every profile the validators let through, every  *)
(* order and every observation: it keeps within the limits of the profile, and  *)
(* more stress never makes an order larger.                                     *)
EXTENDS Sizing, News, TLAPS

-----------------------------------------------------------------------------
(* Arithmetic: floors and the least of a few numbers.                           *)

LEMMA Product == ASSUME NEW x \in Nat \ {0}, NEW y \in Nat \ {0} PROVE x * y \in Nat \ {0}
  OBVIOUS

LEMMA FloorBelow ==
  ASSUME NEW x \in Int, NEW d \in Nat \ {0}
  PROVE  x \div d \in Int /\ d * (x \div d) <= x /\ x < d * (x \div d) + d
  OBVIOUS

LEMMA FloorScales ==
  ASSUME NEW x \in Int, NEW d \in Nat \ {0}, NEW q \in Int, q <= x \div d
  PROVE  d * q <= x
  <1>1. PICK k \in Int : k = x \div d
    BY FloorBelow
  <1>2. d * k <= x
    BY <1>1, FloorBelow
  <1>3. d * q <= d * k
    BY <1>1
  <1> QED
    BY <1>1, <1>2, <1>3

LEMMA FloorMonotone ==
  ASSUME NEW x \in Int, NEW y \in Int, NEW d \in Nat \ {0}, x <= y
  PROVE  x \div d <= y \div d
  <1>1. PICK k \in Int : k = x \div d
    BY FloorBelow
  <1>2. PICK l \in Int : l = y \div d
    BY FloorBelow
  <1>3. d * k <= x /\ y < d * l + d
    BY <1>1, <1>2, FloorBelow
  <1>4. d * k < d * (l + 1)
    BY <1>3
  <1>5. k < l + 1
    <2> SUFFICES ASSUME k >= l + 1 PROVE FALSE
      OBVIOUS
    <2>1. d * k >= d * (l + 1)
      OBVIOUS
    <2> QED
      BY <1>4, <2>1
  <1> QED
    BY <1>1, <1>2, <1>5

HasLeast(S) == \E m \in S : \A y \in S : m <= y

LEMMA LeastOfMore ==
  ASSUME NEW S \in SUBSET Int, HasLeast(S), NEW x \in Int
  PROVE  HasLeast(S \union {x})
  <1>1. PICK m \in S : \A y \in S : m <= y
    BY DEF HasLeast
  <1>2. CASE x <= m
    BY <1>1, <1>2 DEF HasLeast
  <1>3. CASE ~(x <= m)
    BY <1>1, <1>3 DEF HasLeast
  <1> QED
    BY <1>2, <1>3

LEMMA SmallestIsLeast ==
  ASSUME NEW S \in SUBSET Int, HasLeast(S)
  PROVE  Smallest(S) \in S /\ \A y \in S : Smallest(S) <= y
  BY DEF HasLeast, Smallest

-----------------------------------------------------------------------------
(* What Qty is, where apply_sizing asks for it.                                 *)

Labels == {"CRISIS", "BEAR", "CHOP", "NEUTRAL", "BULL"}

\* The factors of the sentiment and of the soft stop.
Factors == {<<11, 10>>, <<1, 2>>, <<1, 1>>, <<11, 20>>, <<1, 4>>}

LEMMA AdjustIs ==
  ASSUME NEW a, NEW p
  PROVE  Adjust(a, p) \in Factors
  BY DEF Adjust, Factors

\* The two quantities before the caps.
ByRisk(a, p, label) ==
    (a.equity * p.risk_per_trade_pct * REGIME_SCALE[label] * Adjust(a, p)[1])
      \div (1000 * a.stop * contract_multiplier_for(a) * Adjust(a, p)[2])
ByPosition(a, p) ==
    (a.equity * p.max_position_pct * Adjust(a, p)[1])
      \div (100 * a.price * contract_multiplier_for(a) * Adjust(a, p)[2])
Caps(a, p) == {ByPosition(a, p), PositionCap(a, p)} \union LeverageCaps(a, p) \union RequestCaps(a)

\* An order apply_sizing hands to compute_size.
Sizable(a, p) == a \in Order /\ p \in RiskProfile /\ a.equity > 0 /\ a.price # 0

LEMMA MultiplierIs == ASSUME NEW a \in Order PROVE contract_multiplier_for(a) \in Nat \ {0}
  BY DEF Order, contract_multiplier_for, MULTIPLIER

LEMMA CapsAre ==
  ASSUME NEW a, NEW p, Sizable(a, p)
  PROVE  Caps(a, p) \subseteq Int
  <1> DEFINE m == contract_multiplier_for(a)
             k == Adjust(a, p)
  <1>1. m \in Nat \ {0} /\ a.price \in Nat \ {0} /\ a.equity \in Int /\ a.requested \in Nat
        /\ p.max_position_pct \in Int /\ p.leverage_cap \in Int
    BY MultiplierIs DEF Sizable, Order, RiskProfile
  <1>2. k[1] \in Nat \ {0} /\ k[2] \in Nat \ {0}
    BY AdjustIs DEF Factors
  <1> HIDE DEF m, k
  <1>3. ASSUME NEW x \in Int, NEW n \in Nat \ {0} PROVE x \div n \in Int
    BY <1>3, FloorBelow
  <1>4. a.price * m \in Nat \ {0}
    BY <1>1, Product
  <1>5. 100 * a.price * m \in Nat \ {0}
    BY <1>1, <1>4
  <1>6. 100 * a.price * m * k[2] \in Nat \ {0}
    BY <1>2, <1>5, Product
  <1>7. a.equity * p.max_position_pct * k[1] \in Int /\ a.equity * p.max_position_pct \in Int
        /\ a.equity * p.leverage_cap \in Int
    BY <1>1, <1>2
  <1>8. ByPosition(a, p) \in Int
    BY <1>3, <1>6, <1>7 DEF ByPosition, m, k
  <1>9. PositionCap(a, p) \in Int
    BY <1>3, <1>5, <1>7 DEF PositionCap, m
  <1>10. LeverageCaps(a, p) \subseteq Int
    BY <1>3, <1>4, <1>7 DEF LeverageCaps, m
  <1>11. RequestCaps(a) \subseteq Int
    BY <1>1 DEF RequestCaps
  <1> QED
    BY <1>8, <1>9, <1>10, <1>11 DEF Caps

LEMMA RiskIs ==
  ASSUME NEW a, NEW p, Sizable(a, p), NEW label \in Labels
  PROVE  /\ a.equity * p.risk_per_trade_pct * REGIME_SCALE[label] * Adjust(a, p)[1] \in Int
         /\ 1000 * a.stop * contract_multiplier_for(a) * Adjust(a, p)[2] \in Nat \ {0}
         /\ ByRisk(a, p, label) \in Int
  <1> DEFINE m == contract_multiplier_for(a)
             k == Adjust(a, p)
  <1>1. m \in Nat \ {0} /\ a.stop \in Nat \ {0} /\ a.equity \in Int /\ p.risk_per_trade_pct \in Int
    BY MultiplierIs DEF Sizable, Order, RiskProfile
  <1>2. k[1] \in Nat \ {0} /\ k[2] \in Nat \ {0} /\ REGIME_SCALE[label] \in 0..10
    BY AdjustIs DEF Factors, Labels, REGIME_SCALE
  <1> HIDE DEF m, k
  <1>3. 1000 * a.stop * m \in Nat \ {0}
    BY <1>1, Product
  <1>4. 1000 * a.stop * m * k[2] \in Nat \ {0}
    BY <1>2, <1>3, Product
  <1>5. a.equity * p.risk_per_trade_pct * REGIME_SCALE[label] * k[1] \in Int
    BY <1>1, <1>2
  <1>6. ByRisk(a, p, label) \in Int
    BY <1>4, <1>5, FloorBelow DEF ByRisk, m, k
  <1> QED
    BY <1>4, <1>5, <1>6 DEF m, k

LEMMA QtyIs ==
  ASSUME NEW a, NEW p, Sizable(a, p), NEW label \in Labels
  PROVE  LET S == {ByRisk(a, p, label)} \union Caps(a, p)
         IN  /\ Qty(a, p, label) = Smallest(S) /\ S \subseteq Int
             /\ Qty(a, p, label) \in S /\ \A y \in S : Qty(a, p, label) <= y
  <1> DEFINE S == {ByRisk(a, p, label)} \union Caps(a, p)
             A == {ByRisk(a, p, label)} \union {ByPosition(a, p)}
             B == A \union {PositionCap(a, p)}
             C == B \union LeverageCaps(a, p)
  <1>1. Qty(a, p, label) = Smallest(S)
    <2>1. Clamped(a, p, label) \union {PositionCap(a, p)} = S
      BY DEF Clamped, Caps, ByRisk, ByPosition
    <2> QED
      BY <2>1 DEF Qty
  <1>2. S \subseteq Int
    BY CapsAre, RiskIs
  <1>3. ByPosition(a, p) \in Int /\ PositionCap(a, p) \in Int /\ ByRisk(a, p, label) \in Int
        /\ LeverageCaps(a, p) \subseteq Int /\ RequestCaps(a) \subseteq Int
    BY CapsAre, RiskIs DEF Caps
  <1>4. HasLeast({ByRisk(a, p, label)})
    BY <1>3 DEF HasLeast
  <1>5. HasLeast(A) /\ A \subseteq Int
    BY <1>3, <1>4, LeastOfMore
  <1>6. HasLeast(B) /\ B \subseteq Int
    <2> HIDE DEF A
    <2> QED
      BY <1>3, <1>5, LeastOfMore
  <1>7. HasLeast(C) /\ C \subseteq Int
    <2> HIDE DEF B
    <2>1. LeverageCaps(a, p) = {} \/ \E x \in Int : LeverageCaps(a, p) = {x}
      BY <1>3 DEF LeverageCaps
    <2>2. CASE LeverageCaps(a, p) = {}
      BY <1>6, <2>2
    <2>3. ASSUME NEW x \in Int, LeverageCaps(a, p) = {x} PROVE HasLeast(C) /\ C \subseteq Int
      BY <1>6, <2>3, LeastOfMore
    <2> QED
      BY <2>1, <2>2, <2>3
  <1>8. HasLeast(S)
    <2>1. S = C \union RequestCaps(a)
      BY DEF Caps
    <2> HIDE DEF C, S
    <2>2. RequestCaps(a) = {} \/ \E x \in Int : RequestCaps(a) = {x}
      BY <1>3 DEF RequestCaps
    <2>3. CASE RequestCaps(a) = {}
      BY <1>7, <2>1, <2>3
    <2>4. ASSUME NEW x \in Int, RequestCaps(a) = {x} PROVE HasLeast(S)
      BY <1>7, <2>1, <2>4, LeastOfMore
    <2> QED
      BY <2>2, <2>3, <2>4
  <1> HIDE DEF S
  <1>9. Smallest(S) \in S /\ \A y \in S : Smallest(S) <= y
    BY <1>2, <1>8, SmallestIsLeast
  <1> QED
    BY <1>1, <1>2, <1>9 DEF S

-----------------------------------------------------------------------------
(* What is accepted keeps within the limits.                                    *)

LEMMA LabelIs == ASSUME NEW d PROVE compute_observation(d).label \in Labels
  BY DEF compute_observation, decide, classify, _RULE_TO_LABEL, Labels

LEMMA AcceptedIs ==
  ASSUME NEW a \in Order, NEW p \in RiskProfile, NEW label \in Labels, Checked(a, p, label).ok
  PROVE  /\ Sizable(a, p) /\ Checked(a, p, label).qty = Qty(a, p, label) /\ Qty(a, p, label) > 0
         /\ a.held \/ a.open < p.max_concurrent
         /\ ~HardStop(a, p)
  <1>1. a.equity \in Int /\ a.price \in Nat /\ a.open \in Nat /\ p.max_concurrent \in Nat \ {0}
    BY DEF Order, RiskProfile
  <1>2. /\ ~(p.max_concurrent > 0 /\ ~a.held /\ a.open >= p.max_concurrent)
        /\ ~(a.equity <= 0) /\ a.price # 0
        /\ Checked(a, p, label) = compute_size(a, p, label)
    BY DEF Checked, Reject
  <1>3. compute_size(a, p, label).ok
    BY <1>2
  <1>4. /\ ~HardStop(a, p) /\ ~(Qty(a, p, label) <= 0)
        /\ compute_size(a, p, label) = Accept(Qty(a, p, label), SoftStop(a, p))
    BY <1>3 DEF compute_size, Reject
  <1>5. Sizable(a, p)
    BY <1>1, <1>2 DEF Sizable
  <1>6. Qty(a, p, label) \in Int
    BY <1>5, QtyIs
  <1>7. Checked(a, p, label).qty = Qty(a, p, label)
    <2>1. \A n, b : Accept(n, b).qty = n
      BY DEF Accept
    <2>2. Checked(a, p, label) = Accept(Qty(a, p, label), SoftStop(a, p))
      BY <1>2, <1>4
    <2>3. \A r : r = Accept(Qty(a, p, label), SoftStop(a, p)) => r.qty = Qty(a, p, label)
      BY <2>1
    <2> QED
      BY <2>2, <2>3
  <1>8. Qty(a, p, label) > 0
    BY <1>4, <1>6
  <1>9. a.held \/ a.open < p.max_concurrent
    BY <1>1, <1>2
  <1> QED
    BY <1>4, <1>5, <1>7, <1>8, <1>9

LEMMA WithinRisk ==
  ASSUME NEW a, NEW p, Sizable(a, p), NEW label \in Labels, NEW q \in Nat, q <= ByRisk(a, p, label)
  PROVE  1000 * q * a.stop * contract_multiplier_for(a) <= 11 * a.equity * p.risk_per_trade_pct
  <1> DEFINE m == contract_multiplier_for(a)
             k == Adjust(a, p)
             scale == REGIME_SCALE[label]
             money == a.equity * p.risk_per_trade_pct
             unit == a.stop * m
  <1>1. m \in Nat \ {0} /\ a.stop \in Nat \ {0} /\ a.equity \in Nat /\ p.risk_per_trade_pct \in Nat
    BY MultiplierIs DEF Sizable, Order, RiskProfile
  <1>2. k \in Factors /\ scale \in 0..10
    BY AdjustIs DEF Labels, REGIME_SCALE
  <1>3. (1000 * a.stop * m * k[2]) * q <= a.equity * p.risk_per_trade_pct * scale * k[1]
    BY RiskIs, FloorScales DEF ByRisk
  <1> HIDE DEF m, k, scale
  <1>4. money \in Nat /\ unit \in Nat /\ k[1] \in Nat /\ k[2] \in Nat \ {0}
    BY <1>1, <1>2 DEF Factors
  <1>5. 1000 * (q * unit) * k[2] <= (money * scale) * k[1]
    BY <1>1, <1>2, <1>3, <1>4
  <1> DEFINE risked == q * unit
             scaled == money * scale
  <1>6. risked \in Nat /\ scaled \in Nat /\ scaled <= 10 * money
    BY <1>2, <1>4
  <1>7. 1000 * risked * k[2] <= scaled * k[1]
    BY <1>5
  <1>8. 1000 * risked <= 11 * money
    <2> HIDE DEF risked, scaled, money
    <2>1. CASE k = <<11, 10>>
      BY <1>4, <1>6, <1>7, <2>1
    <2>2. CASE k = <<1, 2>>
      BY <1>4, <1>6, <1>7, <2>2
    <2>3. CASE k = <<1, 1>>
      BY <1>4, <1>6, <1>7, <2>3
    <2>4. CASE k = <<11, 20>>
      BY <1>4, <1>6, <1>7, <2>4
    <2>5. CASE k = <<1, 4>>
      BY <1>4, <1>6, <1>7, <2>5
    <2> QED
      BY <1>2, <2>1, <2>2, <2>3, <2>4, <2>5 DEF Factors
  <1>9. 1000 * q * a.stop * m = 1000 * (q * (a.stop * m))
        /\ 11 * a.equity * p.risk_per_trade_pct = 11 * (a.equity * p.risk_per_trade_pct)
    BY <1>1
  <1> QED
    BY <1>8, <1>9 DEF m

LEMMA WithinPosition ==
  ASSUME NEW a, NEW p, Sizable(a, p), NEW q \in Nat, q <= PositionCap(a, p)
  PROVE  100 * q * (a.price * contract_multiplier_for(a)) <= a.equity * p.max_position_pct
  <1> DEFINE m == contract_multiplier_for(a)
  <1>1. m \in Nat \ {0} /\ a.price \in Nat \ {0} /\ a.equity \in Int /\ p.max_position_pct \in Int
    BY MultiplierIs DEF Sizable, Order, RiskProfile
  <1> HIDE DEF m
  <1>2. a.price * m \in Nat \ {0}
    BY <1>1, Product
  <1>3. 100 * a.price * m \in Nat \ {0} /\ a.equity * p.max_position_pct \in Int
    BY <1>1, <1>2
  <1>4. (100 * a.price * m) * q <= a.equity * p.max_position_pct
    BY <1>3, FloorScales DEF PositionCap, m
  <1> QED
    BY <1>1, <1>4 DEF m

LEMMA WithinLeverage ==
  ASSUME NEW a, NEW p, Sizable(a, p), NEW q \in Nat, p.leverage_cap > 0,
         \A x \in LeverageCaps(a, p) : q <= x
  PROVE  q * (a.price * contract_multiplier_for(a)) <= a.equity * p.leverage_cap
  <1> DEFINE m == contract_multiplier_for(a)
  <1>1. m \in Nat \ {0} /\ a.price \in Nat \ {0} /\ a.equity \in Int /\ p.leverage_cap \in Int
    BY MultiplierIs DEF Sizable, Order, RiskProfile
  <1>2. q <= (a.equity * p.leverage_cap) \div (a.price * m)
    BY <1>1 DEF LeverageCaps
  <1> HIDE DEF m
  <1>3. a.price * m \in Nat \ {0} /\ a.equity * p.leverage_cap \in Int
    BY <1>1, Product
  <1>4. (a.price * m) * q <= a.equity * p.leverage_cap
    BY <1>2, <1>3, FloorScales
  <1> QED
    BY <1>1, <1>4 DEF m

\* What was decided is what apply_sizing made of the order, the profile it loaded and
\* the latest observation; none of the three changes afterwards.
SizingInv ==
    /\ ask \in Order /\ profile \in RiskProfile \union {NoProfile}
    /\ day \in Days \union {QuietDay} /\ seen = compute_observation(day)
    /\ decided.reason # "pending" => decided = Decision(ask, profile, seen.label)
    /\ decided.reason = "pending" => ~decided.ok

LEMMA SizingInitInv == SizingInit => SizingInv
  BY SizingAssumption DEF SizingInit, RegimeInit, SizingInv, Reject

LEMMA SizingNextInv == SizingInv /\ [SizingNext]_sizingVars => SizingInv'
  <1> SUFFICES ASSUME SizingInv, [SizingNext]_sizingVars PROVE SizingInv'
    OBVIOUS
  <1>1. CASE apply_sizing
    <2>1. decided' = Decision(ask, profile, seen.label)
      BY <1>1 DEF apply_sizing
    <2>2. Decision(ask, profile, seen.label).reason # "pending"
      BY DEF Decision, Checked, compute_size, Reject, Accept
    <2>3. UNCHANGED <<day, seen, ask, profile>>
      BY <1>1 DEF apply_sizing, regimeVars
    <2> QED
      BY <2>1, <2>2, <2>3 DEF SizingInv
  <1>2. ASSUME NEW p \in Profiles, PutProfile(p) PROVE SizingInv'
    BY <1>2, SizingAssumption DEF PutProfile, SizingInv, regimeVars
  <1>3. CASE decided.reason = "pending" /\ run_daily_feature_pipeline /\ UNCHANGED <<ask, profile, decided>>
    BY <1>3 DEF run_daily_feature_pipeline, SizingInv
  <1>4. CASE UNCHANGED sizingVars
    BY <1>4 DEF sizingVars, regimeVars, SizingInv
  <1> QED
    BY <1>1, <1>2, <1>3, <1>4 DEF SizingNext

LEMMA SizingInvHolds == SizingSpec => []SizingInv
  BY SizingInitInv, SizingNextInv, PTL DEF SizingSpec

\* Whatever the sentiment, the soft stop, the regime and the contract do to the number
\* in between, an accepted order keeps within the value, the leverage, the quantity,
\* the risk and the positions its profile allows, and none is accepted past the hard
\* stop (apply_sizing, compute_size).
THEOREM SizesAreSafe == SizingSpec => []SizingIsSafe
  <1>1. SizingInv => SizingIsSafe
    <2> SUFFICES ASSUME SizingInv, decided.ok, profile.here PROVE SizingIsSafe
      BY DEF SizingIsSafe
    <2> DEFINE q == Qty(ask, profile, seen.label)
    <2>1. ask \in Order /\ profile \in RiskProfile /\ seen.label \in Labels
      BY LabelIs DEF SizingInv, NoProfile
    <2>2. decided = Checked(ask, profile, seen.label)
      BY DEF SizingInv, Decision
    <2>3. /\ Sizable(ask, profile) /\ decided.qty = q /\ q > 0
          /\ ask.held \/ ask.open < profile.max_concurrent
          /\ ~HardStop(ask, profile)
      BY <2>1, <2>2, AcceptedIs
    <2>4. /\ q \in Int /\ q <= ByRisk(ask, profile, seen.label) /\ q <= PositionCap(ask, profile)
          /\ \A x \in LeverageCaps(ask, profile) : q <= x
          /\ \A x \in RequestCaps(ask) : q <= x
      BY <2>1, <2>3, QtyIs DEF Caps
    <2> HIDE DEF q
    <2>5. q \in Nat
      BY <2>3, <2>4
    <2>6. ask.requested > 0 => q <= ask.requested
      BY <2>1, <2>4 DEF RequestCaps, Order
    <2>7. 1000 * q * ask.stop * contract_multiplier_for(ask) <= 11 * ask.equity * profile.risk_per_trade_pct
      BY <2>1, <2>3, <2>4, <2>5, WithinRisk
    <2>8. 100 * q * (ask.price * contract_multiplier_for(ask)) <= ask.equity * profile.max_position_pct
      BY <2>3, <2>4, <2>5, WithinPosition
    <2>9. profile.leverage_cap > 0 =>
            q * (ask.price * contract_multiplier_for(ask)) <= ask.equity * profile.leverage_cap
      BY <2>3, <2>4, <2>5, WithinLeverage
    <2> QED
      BY <2>3, <2>6, <2>7, <2>8, <2>9 DEF SizingIsSafe
  <1> QED
    BY <1>1, SizingInvHolds, PTL

-----------------------------------------------------------------------------
(* More stress, smaller orders.                                                 *)

LEMMA QtyFollowsScale ==
  ASSUME NEW a, NEW p, Sizable(a, p), NEW worse \in Labels, NEW label \in Labels,
         REGIME_SCALE[worse] <= REGIME_SCALE[label]
  PROVE  Qty(a, p, worse) <= Qty(a, p, label)
  <1> DEFINE k == Adjust(a, p)
             n == 1000 * a.stop * contract_multiplier_for(a) * k[2]
             money == a.equity * p.risk_per_trade_pct
             Risked(l) == a.equity * p.risk_per_trade_pct * REGIME_SCALE[l] * k[1]
  <1>1. a.equity \in Nat /\ p.risk_per_trade_pct \in Nat /\ k[1] \in Nat
    BY AdjustIs DEF Sizable, Order, RiskProfile, Factors
  <1>2. REGIME_SCALE[worse] \in Nat /\ REGIME_SCALE[label] \in Nat
    BY DEF Labels, REGIME_SCALE
  <1>3. n \in Nat \ {0} /\ Risked(worse) \in Int /\ Risked(label) \in Int
    BY RiskIs
  <1>4. Risked(worse) <= Risked(label)
    <2> HIDE DEF k
    <2>1. money \in Nat
      BY <1>1
    <2>2. money * REGIME_SCALE[worse] <= money * REGIME_SCALE[label]
          /\ money * REGIME_SCALE[worse] \in Nat /\ money * REGIME_SCALE[label] \in Nat
      BY <1>2, <2>1
    <2> QED
      BY <1>1, <2>2
  <1>5. ByRisk(a, p, worse) <= ByRisk(a, p, label)
    <2> HIDE DEF n, Risked, k
    <2>1. Risked(worse) \div n <= Risked(label) \div n
      BY <1>3, <1>4, FloorMonotone
    <2> QED
      BY <2>1 DEF ByRisk, n, Risked, k
  <1>6. /\ Qty(a, p, worse) \in Int /\ Qty(a, p, worse) <= ByRisk(a, p, worse)
        /\ \A y \in Caps(a, p) : Qty(a, p, worse) <= y
        /\ Qty(a, p, label) \in {ByRisk(a, p, label)} \union Caps(a, p)
    BY QtyIs
  <1>7. CASE Qty(a, p, label) \in Caps(a, p)
    BY <1>6, <1>7
  <1>8. CASE Qty(a, p, label) = ByRisk(a, p, label)
    BY <1>5, <1>6, <1>8, RiskIs
  <1> QED
    BY <1>6, <1>7, <1>8

LEMMA CheckedFollowsScale ==
  ASSUME NEW a \in Order, NEW p \in RiskProfile, NEW worse \in Labels, NEW label \in Labels,
         REGIME_SCALE[worse] <= REGIME_SCALE[label]
  PROVE  Checked(a, p, worse).qty <= Checked(a, p, label).qty
  <1>1. \A l \in Labels : ~Checked(a, p, l).ok => Checked(a, p, l).qty = 0
    BY DEF Checked, compute_size, Reject, Accept
  <1>2. \A l \in Labels : Checked(a, p, l).ok => Checked(a, p, l).qty = Qty(a, p, l) /\ Qty(a, p, l) > 0
    BY AcceptedIs
  <1>3. CASE Checked(a, p, worse).ok
    <2>1. Sizable(a, p) /\ Qty(a, p, worse) > 0 /\ ~HardStop(a, p)
      BY <1>3, AcceptedIs
    <2>2. Qty(a, p, worse) \in Int /\ Qty(a, p, label) \in Int
      BY <2>1, QtyIs
    <2>3. Qty(a, p, worse) <= Qty(a, p, label)
      BY <2>1, QtyFollowsScale
    <2>4. Checked(a, p, worse) = compute_size(a, p, worse) /\ Checked(a, p, label) = compute_size(a, p, label)
      BY <1>3 DEF Checked, Reject
    <2>5. ~(p.strict_mode /\ worse \in {"BEAR", "CRISIS"} /\ a.long) /\ worse # "CRISIS"
      BY <1>3, <2>4 DEF compute_size, Reject
    <2>6. ~(p.strict_mode /\ label \in {"BEAR", "CRISIS"} /\ a.long) /\ label # "CRISIS"
      BY <2>5 DEF Labels, REGIME_SCALE
    <2>7. compute_size(a, p, label) = Accept(Qty(a, p, label), SoftStop(a, p))
      BY <2>1, <2>2, <2>3, <2>6 DEF compute_size
    <2>8. compute_size(a, p, label).ok
      <3>1. \A n, b : Accept(n, b).ok = TRUE
        BY DEF Accept
      <3>2. \A r : r = Accept(Qty(a, p, label), SoftStop(a, p)) => r.ok = TRUE
        BY <3>1
      <3> QED
        BY <2>7, <3>2
    <2> QED
      BY <1>2, <1>3, <2>2, <2>3, <2>4, <2>8
  <1>4. CASE ~Checked(a, p, worse).ok
    <2>1. CASE ~Checked(a, p, label).ok
      BY <1>1, <1>4, <2>1
    <2>2. CASE Checked(a, p, label).ok
      <3>1. Sizable(a, p)
        BY <2>2, AcceptedIs
      <3>2. Qty(a, p, label) \in Int
        BY <3>1, QtyIs
      <3> QED
        BY <1>1, <1>2, <1>4, <2>2, <3>2
    <2> QED
      BY <2>1, <2>2
  <1> QED
    BY <1>3, <1>4

\* The inputs of a day's observation are numbers.
Measured(d) == /\ d.vix \in Int /\ d.hy_oas \in Int /\ d.ig_oas \in Int
               /\ d.dxy \in Int /\ d.spread \in Int /\ d.momentum \in Int

LEMMA StandardizedIs ==
  ASSUME NEW d, Measured(d)
  PROVE  /\ standardize(d, "vix") = IF "vix" \in d.lost THEN 0 ELSE d.vix
         /\ standardize(d, "hy_oas") = IF "hy_oas" \in d.lost THEN 0 ELSE d.hy_oas
         /\ standardize(d, "ig_oas") = IF "ig_oas" \in d.lost THEN 0 ELSE d.ig_oas
         /\ standardize(d, "dxy") = IF "dxy" \in d.lost THEN -4 ELSE d.dxy
         /\ standardize(d, "spread") = IF "y10" \in d.lost THEN -4 ELSE IF "y2" \in d.lost THEN 4 ELSE d.spread
  BY DEF standardize, missing_critical_inputs, CRITICAL_INPUTS, Z_CLIP

LEMMA BucketFollowsScore ==
  ASSUME NEW d, NEW e, Contributions(d) \in Int, Contributions(e) \in Int,
         Contributions(e) <= Contributions(d), e.hmm = d.hmm
  PROVE  REGIME_SCALE[compute_observation(e).label] <= REGIME_SCALE[compute_observation(d).label]
  <1> DEFINE Falls(better, worse) == <<better, worse>> \in
               {<<"RISK_ON", "RISK_ON">>, <<"RISK_ON", "NEUTRAL">>, <<"RISK_ON", "RISK_OFF">>,
                <<"RISK_ON", "PANIC">>, <<"NEUTRAL", "NEUTRAL">>, <<"NEUTRAL", "RISK_OFF">>,
                <<"NEUTRAL", "PANIC">>, <<"RISK_OFF", "RISK_OFF">>, <<"RISK_OFF", "PANIC">>,
                <<"PANIC", "PANIC">>}
  <1>1. Falls(classify(d), classify(e))
    BY DEF classify
  <1>2. \A b, w : Falls(b, w) => REGIME_SCALE[decide(w, d.hmm)] <= REGIME_SCALE[decide(b, d.hmm)]
    BY DEF decide, _RULE_TO_LABEL, REGIME_SCALE
  <1> HIDE DEF Falls
  <1> QED
    BY <1>1, <1>2 DEF compute_observation

LEMMA ScaleFollowsStress ==
  ASSUME NEW d, NEW e, Measured(d), Measured(e), e.vix >= d.vix, e.hy_oas >= d.hy_oas,
         e.ig_oas = d.ig_oas, e.dxy = d.dxy, e.spread = d.spread, e.momentum = d.momentum,
         e.lost = d.lost, e.hmm = d.hmm
  PROVE  REGIME_SCALE[compute_observation(e).label] <= REGIME_SCALE[compute_observation(d).label]
  <1>1. Contributions(d) \in Int /\ Contributions(e) \in Int /\ Contributions(e) <= Contributions(d)
    <2> DEFINE Z(x, f) == standardize(x, f)
    <2>1. /\ Z(d, "vix") \in Int /\ Z(d, "hy_oas") \in Int
          /\ Z(e, "vix") \in Int /\ Z(e, "hy_oas") \in Int
          /\ Z(d, "vix") <= Z(e, "vix") /\ Z(d, "hy_oas") <= Z(e, "hy_oas")
      BY StandardizedIs DEF Measured
    <2>2. /\ Z(d, "ig_oas") \in Int /\ Z(d, "dxy") \in Int /\ Z(d, "spread") \in Int
          /\ Z(e, "ig_oas") = Z(d, "ig_oas") /\ Z(e, "dxy") = Z(d, "dxy") /\ Z(e, "spread") = Z(d, "spread")
      BY StandardizedIs DEF Measured
    <2>3. d.momentum \in Int /\ e.momentum = d.momentum
      BY DEF Measured
    <2> QED
      BY <2>1, <2>2, <2>3 DEF Contributions
  <1> QED
    BY <1>1, BucketFollowsScore

\* Of two days that differ in the VIX and the high-yield spread alone, the more stressed
\* one never gets the larger order, whatever is lost, the model says and the profile
\* allows (compute_observation, compute_size).
THEOREM StressShrinksOrders == SizingSpec => []SizeFollowsStress
  <1>1. SizingInv => SizeFollowsStress
    <2> SUFFICES ASSUME SizingInv, profile.here, NEW v \in Readings, NEW h \in Readings,
                        v >= day.vix, h >= day.hy_oas
                 PROVE  LET worse == compute_observation([day EXCEPT !.vix = v, !.hy_oas = h])
                        IN  Checked(ask, profile, worse.label).qty <= Checked(ask, profile, seen.label).qty
      BY DEF SizeFollowsStress
    <2>1. PICK e : e = [day EXCEPT !.vix = v, !.hy_oas = h]
      OBVIOUS
    <2>2. Measured(day) /\ v \in Int /\ h \in Int
      <3>1. ASSUME day = QuietDay PROVE Measured(day)
        BY <3>1 DEF QuietDay, Measured
      <3>2. ASSUME day \in Days PROVE Measured(day)
        <4>1. day.vix \in Readings /\ day.hy_oas \in Readings /\ day.momentum \in Momentum
              /\ day.ig_oas = 0 /\ day.dxy = 0 /\ day.spread = 0
          BY <3>2 DEF Days
        <4> QED
          BY <4>1, RegimeAssumption, 0 \in Int DEF Measured
      <3> QED
        BY <3>1, <3>2, RegimeAssumption DEF SizingInv
    <2>3. /\ e.vix = v /\ e.hy_oas = h /\ e.ig_oas = day.ig_oas /\ e.dxy = day.dxy
          /\ e.spread = day.spread /\ e.momentum = day.momentum /\ e.lost = day.lost /\ e.hmm = day.hmm
      BY <2>1 DEF SizingInv, Days, QuietDay
    <2>4. REGIME_SCALE[compute_observation(e).label] <= REGIME_SCALE[seen.label]
      BY <2>2, <2>3, ScaleFollowsStress DEF Measured, SizingInv
    <2>5. ask \in Order /\ profile \in RiskProfile
      BY DEF SizingInv, NoProfile
    <2> QED
      BY <2>1, <2>4, <2>5, LabelIs, CheckedFollowsScale DEF SizingInv
  <1> QED
    BY <1>1, SizingInvHolds, PTL

-----------------------------------------------------------------------------
(* The sentiment sizing reads.                                                  *)

\* A row is the only one of its scope and run, and its run is done with the scope.
RowsAreSingle ==
    /\ \A r \in rows : r.at \in 1..Len(aggs) /\ r.scope \notin aggs[r.at].todo
    /\ \A r, q \in rows : r.scope = q.scope /\ r.at = q.at => r = q

\* As long as nothing was taken in or scored since the newest run began, what it wrote
\* is what it would write now, and what it has not written is on its list.
NewestIsTrue ==
    aggs # <<>> /\ aggs[Len(aggs)].clean =>
      LET run == aggs[Len(aggs)]
      IN  /\ run.pc = "done" => run.todo = {}
          /\ \A s \in WindowSymbols(run.ages) \union {"MARKET"} :
               \/ s \in run.todo
               \/ \E r \in rows : r.scope = s /\ r.at = Len(aggs) /\ r.pol = PolarityOf(s, run.ages)

RunRecord == [pc : {"run", "done", "dead"}, todo : SUBSET (Symbols \union {"MARKET"}),
              ages : Seq(0..MaxAge), clean : BOOLEAN]
StoredArticle == [story : Stories, finbert : {s.pol : s \in Stories} \union {NoScore},
                  llama : Impacts \union {NoScore}, tier1_scored : BOOLEAN, age : 0..MaxAge]

NewsInv ==
    /\ articles \in Seq(StoredArticle) /\ aggs \in Seq(RunRecord)
    /\ RowsAreSingle /\ NewestIsTrue

LEMMA FunctionIsSeq ==
  ASSUME NEW S, NEW n \in Nat, NEW f \in [1..n -> S]
  PROVE  f \in Seq(S) /\ Len(f) = n
  OBVIOUS

LEMMA SeqIsFunction ==
  ASSUME NEW S, NEW f \in Seq(S)
  PROVE  Len(f) \in Nat /\ DOMAIN f = 1..Len(f) /\ \A i \in 1..Len(f) : f[i] \in S
  OBVIOUS

\* What the aggregates of a run are made of.
SameNews ==
    /\ DOMAIN articles' = DOMAIN articles
    /\ \A i \in DOMAIN articles : /\ articles'[i].story = articles[i].story
                                  /\ articles'[i].finbert = articles[i].finbert
                                  /\ articles'[i].llama = articles[i].llama

LEMMA SamePolarity ==
  ASSUME SameNews, NEW CONSTANT ages
  PROVE  /\ WindowSymbols(ages)' = WindowSymbols(ages)
         /\ \A s : PolarityOf(s, ages)' = PolarityOf(s, ages)
  <1>1. Window(ages)' = Window(ages) /\ Window(ages) \subseteq DOMAIN articles
    BY DEF SameNews, Window, AgeIn
  <1>2. WindowSymbols(ages)' = WindowSymbols(ages)
    BY <1>1 DEF WindowSymbols, SameNews
  <1>3. \A i \in DOMAIN articles : Chosen(articles[i])' = Chosen(articles[i])
    BY DEF SameNews, Chosen
  <1>4. ASSUME NEW CONSTANT s
        PROVE  /\ _symbol_samples(s, ages)' = _symbol_samples(s, ages)
               /\ _symbol_samples(s, ages) \subseteq DOMAIN articles
    BY <1>1, <1>3 DEF _symbol_samples, SameNews
  <1>5. ASSUME NEW CONSTANT s
        PROVE  ewma(_symbol_samples(s, ages), ages)' = ewma(_symbol_samples(s, ages), ages)
    <2> DEFINE X == _symbol_samples(s, ages)
               w == [i \in X |-> 2 ^ (MaxAge - AgeIn(ages, i))]
               v == [i \in X |-> w[i] * Chosen(articles[i])]
    <2>1. w' = w
      BY <1>4 DEF AgeIn
    <2>2. v' = v
      <3> HIDE DEF w
      <3> QED
        BY <1>3, <1>4, <2>1
    <2> HIDE DEF w, v
    <2>3. AddedUp(v)' = AddedUp(v) /\ AddedUp(w)' = AddedUp(w)
      BY <2>1, <2>2
    <2> QED
      BY <1>4, <2>3 DEF ewma, v, w
  <1>6. MarketOf(ages)' = MarketOf(ages)
    <2> DEFINE heard == {s \in WindowSymbols(ages) : _symbol_samples(s, ages) # {}}
               pol == [s \in heard |-> ewma(_symbol_samples(s, ages), ages)]
    <2>1. heard' = heard
      BY <1>2, <1>4
    <2>2. pol' = pol
      <3> HIDE DEF heard
      <3> QED
        BY <1>5, <2>1
    <2> HIDE DEF heard, pol
    <2>3. AddedUp(pol)' = AddedUp(pol) /\ Cardinality(heard)' = Cardinality(heard)
      BY <2>1, <2>2
    <2> QED
      BY <2>1, <2>3 DEF MarketOf, heard, pol
  <1> QED
    BY <1>2, <1>5, <1>6 DEF PolarityOf

LEMMA SameNewsInv ==
  ASSUME NewsInv, articles' \in Seq(StoredArticle), SameNews, UNCHANGED <<aggs, rows>>
  PROVE  NewsInv'
  <1>1. NewestIsTrue'
    <2>1. PICK ages : ages = aggs[Len(aggs)].ages
      OBVIOUS
    <2>2. /\ WindowSymbols(ages)' = WindowSymbols(ages)
          /\ \A s : PolarityOf(s, ages)' = PolarityOf(s, ages)
      BY SamePolarity
    <2> QED
      BY <2>1, <2>2 DEF NewsInv, NewestIsTrue
  <1> QED
    BY <1>1 DEF NewsInv, RowsAreSingle

\* When something is taken in or scored, no run is clean any more.
LEMMA DisturbedInv ==
  ASSUME NewsInv, articles' \in Seq(StoredArticle), aggs' = Disturbed, UNCHANGED rows
  PROVE  NewsInv'
  <1>1. /\ Len(aggs) \in Nat /\ DOMAIN aggs = 1..Len(aggs)
        /\ \A k \in 1..Len(aggs) : aggs[k] \in RunRecord
    BY SeqIsFunction DEF NewsInv
  <1>2. aggs' = [k \in 1..Len(aggs) |-> [aggs[k] EXCEPT !.clean = FALSE]]
    BY <1>1 DEF Disturbed
  <1>3. \A k \in 1..Len(aggs) : [aggs[k] EXCEPT !.clean = FALSE] \in RunRecord
    BY <1>1 DEF RunRecord
  <1>4. aggs' \in [1..Len(aggs) -> RunRecord]
    BY <1>2, <1>3
  <1>5. aggs' \in Seq(RunRecord) /\ Len(aggs') = Len(aggs)
    BY <1>1, <1>4, FunctionIsSeq
  <1>6. \A k \in 1..Len(aggs) : aggs'[k].todo = aggs[k].todo /\ aggs'[k].clean = FALSE
    BY <1>1, <1>2 DEF RunRecord
  <1>7. RowsAreSingle'
    BY <1>5, <1>6 DEF NewsInv, RowsAreSingle
  <1>8. NewestIsTrue'
    <2>1. aggs' # <<>> => Len(aggs') \in 1..Len(aggs)
      BY <1>1, <1>5
    <2> QED
      BY <1>5, <1>6, <2>1 DEF NewestIsTrue
  <1> QED
    BY <1>5, <1>7, <1>8 DEF NewsInv

LEMMA IngestInv == ASSUME NewsInv, NEW s \in Stories, ingest_article(s) PROVE NewsInv'
  <1>1. [story |-> s, finbert |-> NoScore, llama |-> NoScore, tier1_scored |-> FALSE, age |-> 0] \in StoredArticle
    BY NewsAssumption DEF StoredArticle
  <1>2. articles' \in Seq(StoredArticle)
    BY <1>1 DEF NewsInv, ingest_article
  <1> QED
    BY <1>2, DisturbedInv DEF ingest_article

LEMMA StoredInv ==
  ASSUME NewsInv, NEW i, NEW r, i \in DOMAIN articles => r \in StoredArticle,
         articles' = [articles EXCEPT ![i] = r]
  PROVE  articles' \in Seq(StoredArticle)
  <1>1. /\ Len(articles) \in Nat /\ DOMAIN articles = 1..Len(articles)
        /\ \A k \in 1..Len(articles) : articles[k] \in StoredArticle
    BY SeqIsFunction DEF NewsInv
  <1>2. articles' = [k \in 1..Len(articles) |-> IF k = i THEN r ELSE articles[k]]
    BY <1>1
  <1>3. articles' \in [1..Len(articles) -> StoredArticle]
    BY <1>1, <1>2
  <1> QED
    BY <1>1, <1>3, FunctionIsSeq

LEMMA SweepInv == ASSUME NewsInv, NEW w \in Sweepers, Sweeping(w) PROVE NewsInv'
  <1> DEFINE i == Head(sweeps[w].todo)
  <1>1. i \in DOMAIN articles => articles[i] \in StoredArticle
    BY SeqIsFunction DEF NewsInv
  <1>2. CASE score_pending_articles(w)
    BY <1>2, SameNewsInv DEF score_pending_articles, SameNews, NewsInv
  <1>3. ASSUME NEW r, i \in DOMAIN articles => r \in StoredArticle, Stored(w, r), ScoreSame PROVE NewsInv'
    <2> HIDE DEF i
    <2>1. articles' \in Seq(StoredArticle)
      BY <1>3, StoredInv DEF Stored, i
    <2> QED
      BY <1>3, <2>1, DisturbedInv DEF ScoreSame
  <1>4. CASE PoisonMarked(w) \/ MarkTier1(w)
    <2>1. i \in DOMAIN articles => [Current(w) EXCEPT !.tier1_scored = TRUE] \in StoredArticle
      BY <1>1 DEF Current, StoredArticle
    <2> QED
      BY <1>3, <1>4, <2>1 DEF PoisonMarked, MarkTier1
  <1>5. CASE ScoreTier1(w)
    <2>1. i \in DOMAIN articles => [Current(w) EXCEPT !.finbert = Current(w).story.pol] \in StoredArticle
      BY <1>1 DEF Current, StoredArticle
    <2> QED
      BY <1>3, <1>5, <2>1 DEF ScoreTier1
  <1>6. CASE _score_tier2(w)
    <2>1. CASE UNCHANGED articles
      BY <1>6, <2>1, DisturbedInv DEF _score_tier2, ScoreSame, NewsInv
    <2>2. ASSUME NEW p \in Impacts, Stored(w, [Current(w) EXCEPT !.llama = p]) PROVE NewsInv'
      <3>1. i \in DOMAIN articles => [Current(w) EXCEPT !.llama = p] \in StoredArticle
        BY <1>1 DEF Current, StoredArticle
      <3> QED
        BY <1>3, <1>6, <2>2, <3>1 DEF _score_tier2
    <2> QED
      BY <1>6, <2>1, <2>2 DEF _score_tier2
  <1> QED
    BY <1>2, <1>4, <1>5, <1>6 DEF Sweeping

\* Half a life later, or when the newest run has gone on, what was written stands.
LEMMA AgeInv == ASSUME NewsInv, HalfLifePasses PROVE NewsInv'
  <1>1. /\ Len(articles) \in Nat /\ DOMAIN articles = 1..Len(articles)
        /\ \A k \in 1..Len(articles) : articles[k] \in StoredArticle
    BY SeqIsFunction DEF NewsInv
  <1>2. articles' = [k \in 1..Len(articles) |->
                       [articles[k] EXCEPT !.age = IF @ < MaxAge THEN @ + 1 ELSE @]]
    BY <1>1 DEF HalfLifePasses
  <1>3. ASSUME NEW k \in 1..Len(articles)
        PROVE  /\ articles'[k] \in StoredArticle
               /\ articles'[k].story = articles[k].story /\ articles'[k].finbert = articles[k].finbert
               /\ articles'[k].llama = articles[k].llama
    <2>1. articles'[k] = [articles[k] EXCEPT !.age = IF articles[k].age < MaxAge THEN articles[k].age + 1
                                                      ELSE articles[k].age]
      BY <1>2
    <2>2. articles[k] \in StoredArticle
      BY <1>1
    <2>3. (IF articles[k].age < MaxAge THEN articles[k].age + 1 ELSE articles[k].age) \in 0..MaxAge
      BY <2>2, NewsAssumption DEF StoredArticle
    <2> QED
      BY <2>1, <2>2, <2>3 DEF StoredArticle
  <1>4. articles' \in Seq(StoredArticle)
    <2>1. articles' \in [1..Len(articles) -> StoredArticle]
      BY <1>2, <1>3
    <2> QED
      BY <1>1, <2>1, FunctionIsSeq
  <1>5. SameNews
    BY <1>1, <1>2, <1>3 DEF SameNews
  <1>6. UNCHANGED <<aggs, rows>>
    BY DEF HalfLifePasses
  <1> QED
    BY <1>4, <1>5, <1>6, SameNewsInv

LEMMA BeginInv == ASSUME NewsInv, aggregate_sentiment PROVE NewsInv'
  <1>1. /\ Len(aggs) \in Nat /\ DOMAIN aggs = 1..Len(aggs)
        /\ \A k \in 1..Len(aggs) : aggs[k] \in RunRecord
        /\ Len(articles) \in Nat /\ DOMAIN articles = 1..Len(articles)
        /\ \A k \in 1..Len(articles) : articles[k] \in StoredArticle
    BY SeqIsFunction DEF NewsInv
  <1> DEFINE now == [i \in DOMAIN articles |-> articles[i].age]
             run == [pc |-> "run", todo |-> WindowSymbols(now) \union {"MARKET"}, ages |-> now, clean |-> TRUE]
  <1>2. aggs' = Append(Disturbed, run) /\ UNCHANGED <<articles, rows>>
    BY DEF aggregate_sentiment
  <1>3. now \in Seq(0..MaxAge)
    <2>1. \A k \in 1..Len(articles) : articles[k].age \in 0..MaxAge
      BY <1>1 DEF StoredArticle
    <2>2. now \in [1..Len(articles) -> 0..MaxAge]
      BY <1>1, <2>1
    <2> QED
      BY <1>1, <2>2, FunctionIsSeq
  <1> HIDE DEF now
  <1>4. WindowSymbols(now) \subseteq Symbols
    <2>1. Window(now) \subseteq DOMAIN articles
      BY DEF Window
    <2>2. \A k \in DOMAIN articles : articles[k].story \in Stories
      BY <1>1 DEF StoredArticle
    <2> QED
      BY <2>1, <2>2 DEF WindowSymbols, Symbols
  <1>5. run \in RunRecord
    BY <1>3, <1>4 DEF RunRecord
  <1>6. Disturbed \in Seq(RunRecord) /\ Len(Disturbed) = Len(aggs)
    <2>1. Disturbed = [k \in 1..Len(aggs) |-> [aggs[k] EXCEPT !.clean = FALSE]]
      BY <1>1 DEF Disturbed
    <2>2. \A k \in 1..Len(aggs) : [aggs[k] EXCEPT !.clean = FALSE] \in RunRecord
      BY <1>1 DEF RunRecord
    <2>3. Disturbed \in [1..Len(aggs) -> RunRecord]
      BY <2>1, <2>2
    <2> QED
      BY <1>1, <2>3, FunctionIsSeq
  <1>7. \A k \in 1..Len(aggs) : Disturbed[k].todo = aggs[k].todo
    BY <1>1 DEF Disturbed, RunRecord
  <1> HIDE DEF run
  <1>8. /\ aggs' \in Seq(RunRecord) /\ Len(aggs') = Len(aggs) + 1 /\ aggs'[Len(aggs) + 1] = run
        /\ \A k \in 1..Len(aggs) : aggs'[k].todo = aggs[k].todo
    BY <1>1, <1>2, <1>5, <1>6, <1>7
  <1>9. RowsAreSingle'
    BY <1>1, <1>2, <1>8 DEF NewsInv, RowsAreSingle
  <1>10. NewestIsTrue'
    <2>1. run.pc # "done" /\ run.ages = now /\ run.todo = WindowSymbols(now) \union {"MARKET"}
      BY DEF run
    <2>2. aggs'[Len(aggs')] = run
      BY <1>8
    <2>3. (aggs[Len(aggs)].ages)' = now
      BY <2>1, <2>2
    <2>4. WindowSymbols(aggs[Len(aggs)].ages)' = WindowSymbols(now)
      BY <1>2, <2>3 DEF WindowSymbols, Window
    <2> QED
      BY <2>1, <2>2, <2>4 DEF NewestIsTrue
  <1> QED
    BY <1>2, <1>8, <1>9, <1>10 DEF NewsInv

LEMMA WriteInv == ASSUME NewsInv, NEW k \in DOMAIN aggs, NEW s \in aggs[k].todo, WriteScore(k, s) PROVE NewsInv'
  <1>1. /\ Len(aggs) \in Nat /\ DOMAIN aggs = 1..Len(aggs)
        /\ \A l \in 1..Len(aggs) : aggs[l] \in RunRecord
    BY SeqIsFunction DEF NewsInv
  <1> DEFINE run == [aggs[k] EXCEPT !.todo = @ \ {s}, !.pc = IF s = "MARKET" THEN "done" ELSE "run"]
  <1>2. PICK row : row = [scope |-> s, at |-> k, pol |-> PolarityOf(s, aggs[k].ages)]
    OBVIOUS
  <1>3. /\ rows' = rows \union {row} /\ aggs' = [aggs EXCEPT ![k] = run] /\ UNCHANGED articles
        /\ s = "MARKET" => aggs[k].todo = {"MARKET"}
    BY <1>1, <1>2 DEF WriteScore, produced_at
  <1>4. /\ run \in RunRecord /\ run.todo = aggs[k].todo \ {s} /\ run.ages = aggs[k].ages
        /\ run.clean = aggs[k].clean /\ run.pc = IF s = "MARKET" THEN "done" ELSE "run"
    BY <1>1 DEF RunRecord
  <1> HIDE DEF run
  <1>5. aggs' = [l \in 1..Len(aggs) |-> IF l = k THEN run ELSE aggs[l]]
    BY <1>1, <1>3
  <1>6. aggs' \in Seq(RunRecord) /\ Len(aggs') = Len(aggs)
    <2>1. aggs' \in [1..Len(aggs) -> RunRecord]
      BY <1>1, <1>4, <1>5
    <2> QED
      BY <1>1, <2>1, FunctionIsSeq
  <1>7. RowsAreSingle'
    <2>1. row.scope = s /\ row.at = k
      BY <1>2
    <2>2. \A r \in rows : ~(r.scope = s /\ r.at = k)
      BY DEF NewsInv, RowsAreSingle
    <2>3. \A r \in rows : r.scope \notin aggs'[r.at].todo
      BY <1>1, <1>4, <1>5 DEF NewsInv, RowsAreSingle
    <2>4. row.scope \notin aggs'[row.at].todo /\ row.at \in 1..Len(aggs)
      BY <1>1, <1>4, <1>5, <2>1
    <2>5. \A r, q \in rows \union {row} : r.scope = q.scope /\ r.at = q.at => r = q
      BY <2>1, <2>2 DEF NewsInv, RowsAreSingle
    <2> QED
      BY <1>3, <1>6, <2>3, <2>4, <2>5 DEF NewsInv, RowsAreSingle
  <1>8. NewestIsTrue'
    <2> SUFFICES ASSUME aggs # <<>>, aggs'[Len(aggs)].clean PROVE NewestIsTrue'
      BY <1>1, <1>6 DEF NewestIsTrue
    <2>1. PICK ages : ages = aggs[Len(aggs)].ages
      OBVIOUS
    <2>2. SameNews
      BY <1>3 DEF SameNews
    <2>3. /\ WindowSymbols(ages)' = WindowSymbols(ages)
          /\ \A x : PolarityOf(x, ages)' = PolarityOf(x, ages)
      BY <2>2, SamePolarity
    <2>4. Len(aggs) \in 1..Len(aggs)
      BY <1>1
    <2>5. aggs'[Len(aggs)].ages = ages /\ aggs[Len(aggs)].clean
      BY <1>4, <1>5, <2>1, <2>4
    <2>6. aggs'[Len(aggs)].pc = "done" => aggs'[Len(aggs)].todo = {}
      BY <1>3, <1>4, <1>5, <2>4, <2>5 DEF NewsInv, NewestIsTrue
    <2>7. ASSUME NEW x \in WindowSymbols(ages) \union {"MARKET"}
          PROVE  \/ x \in aggs'[Len(aggs)].todo
                 \/ \E r \in rows' : r.scope = x /\ r.at = Len(aggs) /\ r.pol = PolarityOf(x, ages)
      <3>1. CASE \E r \in rows : r.scope = x /\ r.at = Len(aggs) /\ r.pol = PolarityOf(x, ages)
        BY <1>3, <3>1
      <3>2. CASE x \in aggs[Len(aggs)].todo /\ ~(x = s /\ k = Len(aggs))
        BY <1>4, <1>5, <2>4, <3>2
      <3>3. CASE x = s /\ k = Len(aggs)
        <4>1. row.scope = x /\ row.at = Len(aggs) /\ row.pol = PolarityOf(x, ages)
          BY <1>2, <2>1, <3>3
        <4> QED
          BY <1>3, <4>1
      <3> QED
        BY <2>1, <2>5, <3>1, <3>2, <3>3 DEF NewsInv, NewestIsTrue
    <2>8. (aggs[Len(aggs)].ages)' = ages
      BY <1>6, <2>5
    <2> QED
      BY <1>6, <2>3, <2>6, <2>7, <2>8 DEF NewestIsTrue
  <1> QED
    BY <1>3, <1>6, <1>7, <1>8 DEF NewsInv

LEMMA AggDiesInv == ASSUME NewsInv, NEW k \in DOMAIN aggs, AggDies(k) PROVE NewsInv'
  <1> DEFINE run == [pc |-> "dead", todo |-> {}, ages |-> <<>>, clean |-> FALSE]
  <1>1. /\ Len(aggs) \in Nat /\ DOMAIN aggs = 1..Len(aggs)
        /\ \A l \in 1..Len(aggs) : aggs[l] \in RunRecord
    BY SeqIsFunction DEF NewsInv
  <1>2. aggs' = [l \in 1..Len(aggs) |-> IF l = k THEN run ELSE aggs[l]] /\ UNCHANGED <<articles, rows>>
    BY <1>1 DEF AggDies
  <1>3. run \in RunRecord /\ run.todo = {} /\ run.clean = FALSE
    BY DEF RunRecord
  <1> HIDE DEF run
  <1>4. aggs' \in Seq(RunRecord) /\ Len(aggs') = Len(aggs)
    <2>1. aggs' \in [1..Len(aggs) -> RunRecord]
      BY <1>1, <1>2, <1>3
    <2> QED
      BY <1>1, <2>1, FunctionIsSeq
  <1>5. RowsAreSingle'
    BY <1>1, <1>2, <1>3, <1>4 DEF NewsInv, RowsAreSingle
  <1>6. NewestIsTrue'
    <2> SUFFICES ASSUME aggs # <<>>, aggs'[Len(aggs)].clean PROVE NewestIsTrue'
      BY <1>1, <1>4 DEF NewestIsTrue
    <2>1. PICK ages : ages = aggs[Len(aggs)].ages
      OBVIOUS
    <2>2. SameNews
      BY <1>2 DEF SameNews
    <2>3. /\ WindowSymbols(ages)' = WindowSymbols(ages)
          /\ \A x : PolarityOf(x, ages)' = PolarityOf(x, ages)
      BY <2>2, SamePolarity
    <2>4. Len(aggs) \in 1..Len(aggs)
      BY <1>1
    <2>5. aggs'[Len(aggs)] = aggs[Len(aggs)]
      BY <1>2, <1>3, <2>4
    <2>6. (aggs[Len(aggs)])' = aggs[Len(aggs)] /\ Len(aggs)' = Len(aggs) /\ rows' = rows
      BY <1>2, <1>4, <2>5
    <2> QED
      BY <2>1, <2>3, <2>5, <2>6 DEF NewsInv, NewestIsTrue
  <1> QED
    BY <1>2, <1>4, <1>5, <1>6 DEF NewsInv

LEMMA NewsNextInv == NewsInv /\ [NewsNext]_newsVars => NewsInv'
  <1> SUFFICES ASSUME NewsInv, [NewsNext]_newsVars PROVE NewsInv'
    OBVIOUS
  <1>1. ASSUME NEW s \in Stories, ingest_article(s) PROVE NewsInv'
    BY <1>1, IngestInv
  <1>2. CASE HalfLifePasses
    BY <1>2, AgeInv
  <1>3. ASSUME NEW w \in Sweepers, Sweeping(w) PROVE NewsInv'
    BY <1>3, SweepInv
  <1>4. CASE UNCHANGED <<articles, aggs, rows>>
    BY <1>4, SameNewsInv DEF SameNews, NewsInv
  <1>5. CASE aggregate_sentiment
    BY <1>5, BeginInv
  <1>6. ASSUME NEW k \in DOMAIN aggs, AggDies(k) PROVE NewsInv'
    BY <1>6, AggDiesInv
  <1>7. ASSUME NEW k \in DOMAIN aggs, NEW s \in aggs[k].todo, WriteScore(k, s) PROVE NewsInv'
    BY <1>7, WriteInv
  <1>8. CASE UNCHANGED newsVars
    BY <1>4, <1>8 DEF newsVars
  <1>9. ASSUME NEW w \in Sweepers, SweepDies(w) PROVE NewsInv'
    BY <1>4, <1>9 DEF SweepDies
  <1> QED
    BY <1>1, <1>2, <1>3, <1>5, <1>6, <1>7, <1>8, <1>9 DEF NewsNext

\* When the newest run has ended and nothing was taken in or scored since it began, the
\* sizing of an order reads that run's aggregate, whatever older runs write meanwhile
\* and whatever died (aggregate_sentiment, _latest_sentiment).
THEOREM SizingReadsNewestNews == NewsSpec => []NewestNewsRead
  <1>1. NewsInit => NewsInv
    <2> SUFFICES ASSUME NewsInit PROVE NewsInv
      OBVIOUS
    <2>1. articles = <<>> /\ aggs = <<>> /\ rows = {}
      BY DEF NewsInit
    <2> QED
      BY <2>1 DEF NewsInv, RowsAreSingle, NewestIsTrue
  <1>2. NewsInv => NewestNewsRead
    <2> DEFINE n == Len(aggs)
               ages == aggs[n].ages
               Of(scope) == {r \in rows : r.scope = scope}
               Newest(R) == CHOOSE r \in R : \A q \in R : q.at <= r.at
    <2> SUFFICES ASSUME NewsInv, aggs # <<>>, aggs[n].pc = "done", aggs[n].clean, NEW s \in Symbols
                 PROVE  \/ s \in WindowSymbols(ages) /\ _latest_sentiment(s) = ewma(_symbol_samples(s, ages), ages)
                        \/ (~\E r \in rows : r.scope = s) /\ _latest_sentiment(s) = MarketOf(ages)
                        \/ s \notin WindowSymbols(ages) /\ \E r \in rows : r.scope = s
      BY DEF NewestNewsRead, Last
    <2>1. n \in Nat
      BY SeqIsFunction DEF NewsInv
    <2>2. ASSUME NEW x \in WindowSymbols(ages) \union {"MARKET"}
          PROVE  Of(x) # {} /\ Newest(Of(x)).pol = PolarityOf(x, ages)
      <3>1. PICK r \in rows : r.scope = x /\ r.at = n /\ r.pol = PolarityOf(x, ages)
        BY DEF NewsInv, NewestIsTrue
      <3>2. r \in Of(x) /\ \A q \in Of(x) : q.at <= r.at
        BY <2>1, <3>1 DEF NewsInv, RowsAreSingle
      <3>3. Newest(Of(x)) \in Of(x) /\ \A q \in Of(x) : q.at <= Newest(Of(x)).at
        BY <3>2
      <3>4. Newest(Of(x)).at \in 1..n /\ r.at <= Newest(Of(x)).at
        BY <3>2, <3>3 DEF NewsInv, RowsAreSingle
      <3>5. Newest(Of(x)).at = n
        BY <2>1, <3>1, <3>4
      <3>6. Newest(Of(x)) = r
        BY <3>1, <3>3, <3>5 DEF NewsInv, RowsAreSingle
      <3> QED
        BY <3>1, <3>2, <3>6
    <2>3. _latest_sentiment(s) = IF Of(s) # {} THEN Newest(Of(s)).pol
                                 ELSE IF Of("MARKET") # {} THEN Newest(Of("MARKET")).pol ELSE 0
      BY DEF _latest_sentiment
    <2>4. s # "MARKET"
      BY ScopesDiffer
    <2>5. PolarityOf("MARKET", ages) = MarketOf(ages) /\ PolarityOf(s, ages) = ewma(_symbol_samples(s, ages), ages)
      BY <2>4 DEF PolarityOf
    <2>6. Of(s) # {} <=> \E r \in rows : r.scope = s
      OBVIOUS
    <2> HIDE DEF Of, Newest, n, ages
    <2> QED
      BY <2>2, <2>3, <2>5, <2>6
  <1> QED
    BY <1>1, <1>2, NewsNextInv, PTL DEF NewsSpec
=============================================================================
