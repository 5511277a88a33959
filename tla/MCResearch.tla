----------------------------- MODULE MCResearch -----------------------------
(* Screens with their vendor, backtests, the replay of one window, the regime  *)
(* with the sizing of an order, the news, and the computations they rest on,   *)
(* side by side: a behaviour runs one part.                                    *)
EXTENDS Screens, ScreenBlock, Shortlist, Backtests, Replay, WalkForward, Sizing, News

CONSTANTS c1, c2, MCParts

VARIABLE part

restVars == <<backVars, replayVars, blockVars, listVars, walkVars, sizingVars, newsVars>>
researchVars == <<part, vendorVars, screenVars, restVars>>

AllParts == {"screens", "backtests", "replay", "block", "list", "windows", "coverage", "signals",
             "days", "sizing", "news"}
OnlyDays == {"days"}

MCCallers == {c1, c2}
MCPrices  == {1, 3}
MCVolumes == {0, 1, 2}
MCWanted  == {0, 3}

Line(k, o, a, b) == [key |-> k, op |-> o, a |-> a, b |-> b]
MCLines == {Line(k, "bare", 0, 0) : k \in {"comment", "junk", "near_52w_high"}}
    \union {Line("price", "..", 2, b) : b \in {1, 5}} \union {Line("volume", o, 3, 0) : o \in {">=", "<=", ">"}}
    \union {Line("above_sma", "bare", a, 0) : a \in {2, 3, 4}} \union {Line("country", "bare", Junk, 0)}
    \union {Line("limit", "bare", a, 0) : a \in {0, 2, 99}} \union {Line("limit", "empty", 0, 0)}
    \union {Line("min_history", o, 4, 0) : o \in {"bare", ">="}} \union {Line("etf", "bare", 1, 0)}
MCSma == {2, 3}

MCNames == 1..3
MCCaps == 0..2
Flat(c, h) == [close |-> c, high |-> h]
MCHistories == {<<>>, <<Flat(1, 2), Flat(2, 2)>>, <<Flat(1, 3), Flat(1, 1), Flat(2, 2), Flat(2, 3)>>,
                <<Flat(1, 2), Flat(2, 2), Flat(1, 4), Flat(3, 3)>>}
MCAsked == {[above |-> {}, rising |-> {}, near |-> 5], [above |-> {2}, rising |-> {3}, near |-> 0]}

MCConfigs == [start : {1}, end : {8, 11}, train : {2, 4}, test : {2, 3}, anchored : BOOLEAN]
MCWeekdays == {1, 2, 3, 6, 7}
MCDeclared == [fast |-> {1, 2}, slow |-> {3, 4}]
MCRefinements == {<<>>, [fast |-> {2}], [slow |-> {3, 9}], [other |-> {1}]}

MCProfile == [here |-> TRUE, strict_mode |-> FALSE, risk_per_trade_pct |-> 1, max_position_pct |-> 10,
              max_concurrent |-> 2, leverage_cap |-> 1, soft_stop_pct |-> 5, hard_stop_pct |-> 10,
              permitted |-> {}]
MCProfiles == {MCProfile, [MCProfile EXCEPT !.strict_mode = TRUE, !.permitted = {"STOCK", "FUTURE"}],
               [MCProfile EXCEPT !.risk_per_trade_pct = 5, !.max_position_pct = 30, !.soft_stop_pct = 0],
               [MCProfile EXCEPT !.risk_per_trade_pct = 5, !.max_position_pct = 50, !.leverage_cap = 0,
                                 !.soft_stop_pct = -1, !.hard_stop_pct = 0]}
MCAsk == [asset |-> "STOCK", live |-> FALSE, requested |-> 7, long |-> TRUE, held |-> FALSE, open |-> 1,
          equity |-> 10300, last_equity |-> 10000, price |-> 50, stop |-> 5, sentiment |-> 80]
MCAsks == {[MCAsk EXCEPT !.asset = a, !.equity = e] : a \in {"STOCK", "MES"}, e \in {9500, 10300}}
    \union {[MCAsk EXCEPT !.sentiment = 0], [MCAsk EXCEPT !.sentiment = -60, !.requested = 0],
            [MCAsk EXCEPT !.equity = 8900], [MCAsk EXCEPT !.equity = 0], [MCAsk EXCEPT !.price = 0],
            [MCAsk EXCEPT !.long = FALSE, !.requested = 0], [MCAsk EXCEPT !.open = 2, !.live = TRUE],
            [MCAsk EXCEPT !.open = 2, !.held = TRUE], [MCAsk EXCEPT !.stop = 1, !.requested = 0],
            [MCAsk EXCEPT !.asset = "OPTION", !.equity = 500000], [MCAsk EXCEPT !.asset = "UNKNOWN_ROOT"]}
MCReadings == {0, 1, 2}
MCMomentum == {0, 40}
MCWarming == {20}
MCLosses == {{}, {"vix"}, {"hy_oas", "y2"}, {"y10", "dxy"}}
MCDollar == {{}, {"dxy"}}
MCOpinions == {[state |-> "BULL", conf |-> 90], [state |-> "CHOP", conf |-> 75],
               [state |-> "CRISIS", conf |-> 90]}

Story(k, names, searched, material, poison, pol) ==
    [key |-> k, symbols |-> names, symbols_text |-> searched, material |-> material, poison |-> poison,
     sure |-> TRUE, pol |-> pol]
MCStories == {Story(1, {"A", "B"}, {"A"}, TRUE, FALSE, 8), Story(2, {"A", "B"}, {"A", "B"}, FALSE, TRUE, 0)}
MCImpacts == {-10}
MCSweepers == {c1}

ResearchInit ==
    /\ part \in MCParts
    /\ ScreensInit /\ BackInit /\ ReplayInit /\ BlockInit /\ ListInit /\ WalkInit /\ SizingInit /\ NewsInit
    /\ part # "sizing" => ask = MCAsk /\ profile = NoProfile
    /\ part # "block" => block = [opens |-> 1, closed |-> TRUE, small |-> TRUE]
    /\ part # "list" => derived.near = 0
    /\ part # "windows" => wf = [start |-> 1, end |-> 8, train |-> 2, test |-> 2, anchored |-> FALSE]
                           /\ user_grid = <<>>

\* Bound: the key is deleted before the second run is made, if at all.
KeyGoesEarly == keys.stored /\ ~keys'.stored => Len(screens) <= 1

Still(vars) == UNCHANGED <<part, vars>>
ResearchNext ==
    \/ part = "screens" /\ ScreensNext /\ KeyGoesEarly /\ Still(restVars)
    \/ /\ Still(<<vendorVars, screenVars>>)
       /\ \/ part = "backtests" /\ BackNext /\ UNCHANGED <<replayVars, blockVars, listVars, walkVars, sizingVars, newsVars>>
          \/ part = "replay" /\ ReplayNext /\ UNCHANGED <<backVars, blockVars, listVars, walkVars, sizingVars, newsVars>>
          \/ part = "block" /\ BlockNext /\ UNCHANGED <<backVars, replayVars, listVars, walkVars, sizingVars, newsVars>>
          \/ part = "list" /\ ListNext /\ UNCHANGED <<backVars, replayVars, blockVars, walkVars, sizingVars, newsVars>>
          \/ /\ UNCHANGED <<backVars, replayVars, blockVars, listVars, sizingVars, newsVars>>
             /\ \/ part = "windows" /\ compute_windows
                \/ part = "coverage" /\ \E p \in BOOLEAN : _largest_gaps(p)
                \/ part = "signals" /\ \E c \in Closes : NextBar(c)
          \/ /\ UNCHANGED <<backVars, replayVars, blockVars, listVars, walkVars, newsVars>>
             /\ \/ part = "days" /\ run_daily_feature_pipeline /\ UNCHANGED <<ask, profile, decided>>
                \/ part = "sizing" /\ SizingNext /\ (day = QuietDay \/ decided' # decided)
                   /\ day'.lost \subseteq {"vix"}
          \/ part = "news" /\ NewsNext
                /\ UNCHANGED <<backVars, replayVars, blockVars, listVars, walkVars, sizingVars>>

\* Celery keeps a live worker working and time passes; users keep posting.
ResearchSpec ==
    /\ ResearchInit /\ [][ResearchNext]_researchVars
    /\ WF_screenVars(part = "screens" /\ PostStep)
    /\ WF_screenVars(part = "screens" /\ RunAges)
    /\ \A i \in 1..MaxRuns : WF_backVars(i \in Ids /\ Works(i))
    /\ \A w \in Sweepers : WF_newsVars(part = "news" /\ Sweeping(w))

-----------------------------------------------------------------------------
\* A finished backtest has all its segments and its report, a finished screen has
\* accounted for every candidate; the rows are what the tables allow.
FinishedIsWhole == ScreensTypeOK /\ BackTypeOK /\ CompletedIsWhole /\ CountsAddUp

\* The parser keeps what the lines say, the table and the signals do not depend on
\* the order or the length of what was fetched, windows tile their history.
ComputationsAgree == BlockMeansItsLines /\ TableIsReproducible /\ WalkIsSound /\ SignalsStand

\* The slot of a screen comes free again and a backtest at work comes to an end.
ResearchEnds == ScreenSlotFreed /\ BacktestEnds
=============================================================================
