-------------------------------- MODULE Desk --------------------------------
(* apps/brokers/views.py: the broker accounts of one user.                     *)
(*                                                                             *)
(* A connect and a removal are several statements, each committed on its own:  *)
(* the views open no transaction, and requests of the user run beside each     *)
(* other.  Every account is a paper one: the connect form takes nothing else,  *)
(* the callback writes nothing else, and the mode switch asks for              *)
(* live_trading_enabled, which no user has.  What the accounts' status and the *)
(* streams do is in Streams.                                                   *)
EXTENDS Naturals, FiniteSets

CONSTANTS
    DeskReqs,   \* requests that can be under way at once
    Numbers,    \* account numbers at Alpaca
    TsNumbers,  \* account numbers at TradeStation
    MaxIds      \* bound: accounts created

ASSUME DeskAssumption == MaxIds \in Nat /\ IsFiniteSet(DeskReqs) /\ DeskReqs # {}

VARIABLES
    desk,  \* brokers_account: [id -> row]
    made,  \* accounts created so far: account n is the n-th, so the least id is the oldest
    asks   \* [DeskReqs -> the connect or removal it is running]

deskVars == <<desk, made, asks>>
AccountIds == 1..MaxIds
NoAsk == [pc |-> "idle", number |-> 0, default |-> FALSE, target |-> 0, next |-> 0]
DeskInit == desk = [n \in {} |-> 0] /\ made = 0 /\ asks = [c \in DeskReqs |-> NoAsk]

-----------------------------------------------------------------------------
Rows == DOMAIN desk
Has(broker, number) == \E n \in Rows : desk[n].broker = broker /\ desk[n].number = number
Oldest == {n \in Rows : \A m \in Rows : n <= m}
Creates(broker, number, default) ==
    /\ made < MaxIds /\ made' = made + 1
    /\ desk' = [n \in Rows \union {made + 1} |->
                  IF n = made + 1 THEN [broker |-> broker, number |-> number, is_default |-> default]
                                  ELSE desk[n]]

AtAsk(c, pc) == asks[c].pc = pc
AskGoes(c, r) == asks' = [asks EXCEPT ![c] = r]

\* POST: the keys were tried, the account is not connected yet.
ConnectStarts(c, number, wants) ==
    /\ AtAsk(c, "idle") /\ ~Has("ALPACA", number)
    /\ AskGoes(c, [NoAsk EXCEPT !.pc = "count", !.number = number, !.default = wants])
    /\ UNCHANGED <<desk, made>>

\* The first account becomes the default unasked.
ConnectCounts(c) ==
    LET make_default == asks[c].default \/ Rows = {}
    IN  /\ AtAsk(c, "count")
        /\ AskGoes(c, [asks[c] EXCEPT !.pc = IF make_default THEN "clear" ELSE "create",
                                      !.default = make_default])
        /\ UNCHANGED <<desk, made>>

ConnectKeeps(c) ==  \* mutant: the accounts that were the default stay it
    /\ AtAsk(c, "clear")
    /\ AskGoes(c, [asks[c] EXCEPT !.pc = "create"])
    /\ UNCHANGED <<desk, made>>
ConnectClears(c) ==
    /\ AtAsk(c, "clear")
    /\ AskGoes(c, [asks[c] EXCEPT !.pc = "create"])
    /\ desk' = [n \in Rows |-> [desk[n] EXCEPT !.is_default = FALSE]] /\ UNCHANGED made

\* Another request may have connected the same account: the constraint refuses the row.
ConnectCreates(c) ==
    /\ AtAsk(c, "create") /\ AskGoes(c, NoAsk)
    /\ IF Has("ALPACA", asks[c].number)
       THEN UNCHANGED <<desk, made>>
       ELSE Creates("ALPACA", asks[c].number, asks[c].default)

\* The callback of TradeStation saves the accounts of the login one by one; of these
\* columns it writes none in an account it knows, and it makes no new one the default.
CallbackSaves(number) ==
    /\ ~Has("TRADESTATION", number) /\ Creates("TRADESTATION", number, FALSE)
    /\ UNCHANGED asks

\* DELETE: whether the account is the default is what it was when it was loaded.
RemoveLoads(c, n) ==
    /\ AtAsk(c, "idle") /\ n \in Rows
    /\ AskGoes(c, [NoAsk EXCEPT !.pc = "delete", !.target = n, !.default = desk[n].is_default])
    /\ UNCHANGED <<desk, made>>

RemoveDeletes(c) ==
    /\ AtAsk(c, "delete")
    /\ AskGoes(c, IF asks[c].default THEN [asks[c] EXCEPT !.pc = "pick"] ELSE NoAsk)
    /\ desk' = [n \in Rows \ {asks[c].target} |-> desk[n]] /\ UNCHANGED made

RemovePicks(c) ==
    /\ AtAsk(c, "pick")
    /\ \/ \E n \in Oldest : AskGoes(c, [asks[c] EXCEPT !.pc = "save", !.next = n])
       \/ Rows = {} /\ AskGoes(c, NoAsk)
    /\ UNCHANGED <<desk, made>>

\* The picked account becomes the default; saving one that is gone by now raises.
RemovePromotes(c) ==
    /\ AtAsk(c, "save") /\ AskGoes(c, NoAsk)
    /\ desk' = [n \in Rows |-> IF n = asks[c].next THEN [desk[n] EXCEPT !.is_default = TRUE] ELSE desk[n]]
    /\ UNCHANGED made

DeskNext ==
    \/ \E number \in TsNumbers : CallbackSaves(number)
    \/ \E c \in DeskReqs :
         \/ \E number \in Numbers, wants \in BOOLEAN : ConnectStarts(c, number, wants)
         \/ ConnectCounts(c) \/ ConnectClears(c) \/ ConnectCreates(c)
         \/ \E n \in AccountIds : RemoveLoads(c, n)
         \/ RemoveDeletes(c) \/ RemovePicks(c) \/ RemovePromotes(c)

-----------------------------------------------------------------------------
\* A user never has more default accounts than requests that run at once, so one
\* as long as they come one by one: what connects, removals and promotions leave
\* when their statements mix does not add up, whichever account a removal had
\* loaded as the default and whichever others came or went since.
DefaultsBounded ==
    Cardinality({n \in Rows : desk[n].is_default}) <= Cardinality(DeskReqs)

=============================================================================
