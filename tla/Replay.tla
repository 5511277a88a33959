-------------------------------- MODULE Replay -------------------------------
(* apps/backtest/replay_engine.py: the bar-by-bar replay of one symbol over one *)
(* test window.  Money is counted in whole units; a bar is an open, a close,    *)
(* the shares its volume allows, the exit its range triggers (the stop first)   *)
(* and the two signals at its close.                                            *)
EXTENDS Integers, FiniteSets

CONSTANTS
    Prices,       \* opens, closes, stop and target levels
    Volumes,      \* shares vpp * volume allows in one bar
    Wanted,       \* quantities _size_entry returns for an entry
    Bars,         \* bars of the window
    MaxFillBars,  \* _MAX_FILL_BARS
    Slip,         \* slippage per share
    PerOrder      \* per_order_usd; per_share_usd is 1

ASSUME ReplayAssumption ==
    /\ Prices \subseteq Nat /\ Volumes \subseteq Nat /\ Wanted \subseteq Nat
    /\ {Bars, MaxFillBars, Slip, PerOrder} \subseteq Nat

VARIABLES
    bar,       \* index of the next bar
    cash,
    pos,       \* the open position; target 0 = none
    pending,   \* quantity of the entry signalled at the last close; 0 = none
    leaving,   \* pending_exit
    pnl        \* sum of the trades' pnl

replayVars == <<bar, cash, pos, pending, leaving, pnl>>

_Position == [target : Nat, qty : Nat, cost : Nat, filling : Nat, complete : BOOLEAN, comm : Nat]
NoPosition == [target |-> 0, qty |-> 0, cost |-> 0, filling |-> 0, complete |-> FALSE, comm |-> 0]
Bar == [open : Prices, close : Prices, room : Volumes, hit : {"none", "stop", "target"},
        level : Prices, entry : BOOLEAN, exit : BOOLEAN]

ReplayInit ==
    /\ bar = 1 /\ cash = 0 /\ pos = NoPosition
    /\ pending = 0 /\ leaving = FALSE
    /\ pnl = 0

_commission(qty) == PerOrder + qty
Open(p) == p.target > 0
Lesser(a, b) == IF a < b THEN a ELSE b

\* The state the steps of one bar hand on.
State == [cash |-> cash, pos |-> pos, pending |-> pending, leaving |-> leaving, pnl |-> pnl]

\* Mutant: the exit commission is taken from the cash and not from the pnl.
_close_unpaid(s, price) ==
    LET proceeds == s.pos.qty * price
        comm == _commission(s.pos.qty)
    IN  [s EXCEPT !.cash = @ + proceeds - comm,
                  !.pnl = @ + proceeds - s.pos.cost - s.pos.comm,
                  !.pos = NoPosition]

\* One exit of the whole position: cash gets the proceeds, the trade its pnl.
_close(s, price) ==
    LET proceeds == s.pos.qty * price
        comm == _commission(s.pos.qty)
    IN  [s EXCEPT !.cash = @ + proceeds - comm,
                  !.pnl = @ + proceeds - s.pos.cost - s.pos.comm - comm,
                  !.pos = NoPosition]

\* (1) the exit signalled before is filled at the open.
ExitAtOpen(s, b) ==
    IF s.leaving /\ s.pos.complete /\ s.pos.qty > 0
    THEN [_close(s, b.open - Slip) EXCEPT !.leaving = FALSE] ELSE s

\* (2) an entry begins, or goes on, with what the bar's volume allows; after
\* MaxFillBars the rest is cancelled.  The commission is due when it is complete.
Begun(s) == IF s.pending > 0 /\ ~Open(s.pos)
            THEN [s EXCEPT !.pos = [NoPosition EXCEPT !.target = s.pending], !.pending = 0] ELSE s
Filled(s, b) ==
    LET fill == Lesser(s.pos.target - s.pos.qty, b.room)
    IN  [s EXCEPT !.pos.qty = @ + fill, !.pos.cost = @ + fill * (b.open + Slip),
                  !.pos.filling = @ + 1, !.cash = @ - fill * (b.open + Slip)]
Charged(s) == [s EXCEPT !.pos.complete = TRUE, !.pos.comm = _commission(s.pos.qty),
                        !.cash = @ - _commission(s.pos.qty)]
Completed(s) ==
    IF s.pos.qty < s.pos.target /\ s.pos.filling < MaxFillBars THEN s
    ELSE IF s.pos.qty = 0 THEN [s EXCEPT !.pos = NoPosition]
    ELSE Charged(s)
EnterAtOpen(s, b) ==
    LET t == Begun(s) IN IF Open(t.pos) /\ ~t.pos.complete THEN Completed(Filled(t, b)) ELSE t

\* (3) stop or target on what is held; a gap through the level fills at the open.
_check_exit(b) == IF b.hit = "stop" THEN Lesser(b.open, b.level)
                  ELSE IF b.open > b.level THEN b.open ELSE b.level
ExitInBar(s, b) ==
    IF s.pos.qty > 0 /\ b.hit # "none" THEN _close(s, _check_exit(b) - Slip) ELSE s

\* The last bar closes what is open; an entry still filling pays its commission.
ForceClose(s, b) ==
    IF bar = Bars /\ s.pos.qty > 0
    THEN _close(IF s.pos.complete THEN s ELSE Charged(s), b.close - Slip) ELSE s

\* (5) the signals at the close; both at once are none.
Signals(s, b, qty) ==
    IF b.entry = b.exit THEN s
    ELSE IF b.entry
      THEN IF ~Open(s.pos) /\ s.pending = 0 /\ bar < Bars THEN [s EXCEPT !.pending = qty] ELSE s
      ELSE IF s.pos.complete THEN [s EXCEPT !.leaving = TRUE] ELSE s

ReplayBar(b, qty) ==
    LET t == Signals(ForceClose(ExitInBar(EnterAtOpen(ExitAtOpen(State, b), b), b), b), b, qty)
    IN  /\ bar <= Bars
        /\ bar' = bar + 1
        /\ cash' = t.cash /\ pos' = t.pos /\ pending' = t.pending
        /\ leaving' = t.leaving /\ pnl' = t.pnl

ReplayNext == \E b \in Bar, qty \in Wanted : ReplayBar(b, qty)

ReplaySpec == ReplayInit /\ [][ReplayNext]_replayVars

-----------------------------------------------------------------------------
ReplayTypeOK == pos \in _Position /\ pending \in Nat /\ {cash, pnl} \subseteq Int

\* When nothing is held the cash made is the sum of the trades' pnl: no fill,
\* slippage or commission is in one and not in the other, partial fills, gaps,
\* stops in mid-fill and the forced close included.
BooksBalance == pos.qty = 0 => cash = pnl

\* Nothing is held after the last bar, and an exit signal never outlives the
\* position it was for.
ClosedOut == /\ bar > Bars => pos.qty = 0 /\ pending = 0
             /\ leaving => pos.complete /\ pos.qty > 0

\* The books balance all along and are closed at the end.
BooksClose == ReplayTypeOK /\ BooksBalance /\ ClosedOut
=============================================================================
