------------------------------- MODULE Regime -------------------------------
(* apps/regime: the daily observation, from the day's readings to the label    *)
(* that scales every position.                                                 *)
(*                                                                             *)
(* A reading stands for its z-score against a history of real readings.  Only  *)
(* the inputs the daily pipeline fetches are here; the others never change.    *)
(* The hidden Markov model is external: it has an opinion or none.             *)
EXTENDS Integers

CONSTANTS
    Readings,  \* z-scores of a stress input
    Momentum,  \* what the index contributes, in tenths
    Losses,    \* sets of inputs whose fetch may fail on the same day
    Opinions   \* [state, conf]: what the model says, conf in percent

ASSUME RegimeAssumption == Readings \subseteq Int /\ Momentum \subseteq Int

VARIABLES
    day,   \* the readings, the inputs whose fetch failed, the model's opinion
    seen   \* the latest regime_observation

regimeVars == <<day, seen>>

CRITICAL_INPUTS == {"vix", "hy_oas", "ig_oas"}
Z_CLIP == 4
NoOpinion == [state |-> "none", conf |-> 0]
Days == [vix : Readings, hy_oas : Readings, ig_oas : {0}, dxy : {0}, spread : {0},
         momentum : Momentum, lost : Losses, hmm : Opinions \union {NoOpinion}]

-----------------------------------------------------------------------------
missing_critical_inputs(lost) == lost \intersect CRITICAL_INPUTS

\* A critical input that is missing is neutral.  Any other is read as 0: the
\* dollar index falls off its scale, the yield spread becomes one of its ends.
standardize(d, f) ==
    CASE f \in missing_critical_inputs(d.lost) -> 0
      [] f = "dxy" /\ "dxy" \in d.lost -> 0 - Z_CLIP
      [] f = "spread" /\ "y2" \in d.lost /\ "y10" \notin d.lost -> Z_CLIP
      [] f = "spread" /\ "y10" \in d.lost -> 0 - Z_CLIP
      [] OTHER -> d[f]

\* The sum of the weights, in tenths.  No three-month VIX is fetched: the term
\* ratio repeats the VIX.
Contributions(d) ==
    d.momentum - 28 * standardize(d, "vix") - 18 * standardize(d, "hy_oas")
      - 12 * standardize(d, "ig_oas") - 5 * standardize(d, "dxy") + 6 * standardize(d, "spread")

\* The bucket of the score, here in tenths; clamping it moves it past no threshold.
classify(d) ==
    LET score == 500 + 6 * Contributions(d)
    IN  CASE score >= 700 -> "RISK_ON"
          [] score >= 500 /\ score < 700 -> "NEUTRAL"
          [] score >= 300 /\ score < 500 -> "RISK_OFF"
          [] OTHER -> "PANIC"

_RULE_TO_LABEL ==
    [RISK_ON |-> "BULL", NEUTRAL |-> "NEUTRAL", RISK_OFF |-> "BEAR", PANIC |-> "CRISIS"]

decide(rule_bucket, h) ==
    IF rule_bucket = "PANIC" THEN "CRISIS"
    ELSE IF rule_bucket = "RISK_ON" /\ h.state = "BULL" THEN "BULL"
    ELSE IF rule_bucket = "RISK_ON" /\ h.state = "CHOP" THEN IF h.conf > 70 THEN "CHOP" ELSE "NEUTRAL"
    ELSE IF rule_bucket = "RISK_OFF" /\ h.state \in {"BEAR", "CHOP", "CRISIS"} THEN "BEAR"
    ELSE IF h.conf > 80 /\ h.state = "BULL" THEN "BULL"
    ELSE IF h.conf > 80 /\ h.state \in {"BEAR", "CRISIS"} THEN "BEAR"
    ELSE _RULE_TO_LABEL[rule_bucket]

compute_observation(d) ==
    [label |-> decide(classify(d), d.hmm),
     model_degraded |-> d.hmm = NoOpinion \/ missing_critical_inputs(d.lost) # {}]

-----------------------------------------------------------------------------
QuietDay == [vix |-> 0, hy_oas |-> 0, ig_oas |-> 0, dxy |-> 0, spread |-> 0,
             momentum |-> 0, lost |-> {}, hmm |-> NoOpinion]
RegimeInit == day = QuietDay /\ seen = compute_observation(day)

\* compute_features_daily; the observation is the latest one from then on, however
\* old it grows.
run_daily_feature_pipeline == \E d \in Days : day' = d /\ seen' = compute_observation(d)

=============================================================================
