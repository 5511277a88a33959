------------------------------- MODULE Vendor -------------------------------
(* apps/marketdata: the market-data vendor behind the FMP client (per-minute   *)
(* cap, circuit breaker, cache fallback) and the instance's key for it.        *)
EXTENDS Integers, Sequences, FiniteSets

CONSTANTS
    Trip,     \* cb_threshold
    EnvKey    \* whether the environment has a key

ASSUME VendorAssumption == Trip \in Nat \ {0} /\ EnvKey \in BOOLEAN

VARIABLES
    breaker,   \* fmp:cb:*: failures counted, and whether it is open
    keys       \* the stored key, and the one of the environment

vendorVars == <<breaker, keys>>

DataProviderKey == [stored : BOOLEAN, env : BOOLEAN]

VendorInit ==
    /\ breaker = [fails |-> 0, open |-> FALSE]
    /\ keys = [stored |-> FALSE, env |-> EnvKey]

\* The key stored through the UI, then the environment's.
ResolvedKey == keys.stored \/ keys.env

\* A 429 counts as an accepted key; only then is the row written.
KeyVerdicts == [ok |-> TRUE, limited |-> TRUE, refused |-> FALSE, down |-> FALSE]
KeyPut(answer) ==
    /\ KeyVerdicts[answer]
    /\ keys' = [keys EXCEPT !.stored = TRUE]
    /\ UNCHANGED breaker

KeyDelete ==
    /\ keys.stored
    /\ keys' = [keys EXCEPT !.stored = FALSE]
    /\ UNCHANGED breaker

-----------------------------------------------------------------------------
\* What a call can run into, in the order the client looks: an open breaker, its
\* own cap per minute (every process of the system spends it, so it can be used up
\* at any time), then the vendor's answer after three attempts ("client": 4xx).
Possible == IF breaker.open THEN {"circuit"}
            ELSE {"throttle", "ok", "limited", "server", "client"}

\* Neither the caps nor an open breaker; a 4xx counts like an outage.
CountsAsFailure(o) == o \in {"server", "client"}

Counted == [fails |-> IF breaker.fails < Trip THEN breaker.fails + 1 ELSE Trip,
            open  |-> breaker.fails + 1 >= Trip]

\* A failure falls back on the last cached answer, if one is still held.
Answer(o, held) == IF o = "ok" \/ held THEN "data"
                   ELSE IF o \in {"circuit", "throttle"} THEN "limited" ELSE o

VendorGet(o) ==
    /\ o \in Possible
    /\ breaker' = IF o = "ok" THEN [breaker EXCEPT !.fails = 0]
                  ELSE IF CountsAsFailure(o) THEN Counted ELSE breaker
    /\ UNCHANGED keys

\* The breaker's keys run out.
CooldownPasses == /\ breaker.open \/ breaker.fails > 0
                  /\ breaker' = [fails |-> 0, open |-> FALSE]
                  /\ UNCHANGED keys

VendorStep ==
    \/ KeyDelete \/ CooldownPasses
    \/ \E a \in DOMAIN KeyVerdicts : KeyPut(a)

VendorTypeOK ==
    /\ breaker \in [fails : 0..Trip, open : BOOLEAN]
    /\ keys \in DataProviderKey
=============================================================================
