------------------------------- MODULE TsLink -------------------------------
(* apps/brokers/tradestation: the OAuth links of a user's accounts.  A login   *)
(* covers one account or several; the callback stores its tokens in the row of *)
(* each, and from then on every row refreshes its own copy, while other calls  *)
(* and other logins run.                                                       *)
(*                                                                             *)
(* The broker is external: it issues tokens per login, accepts an access token *)
(* until it expires, and either keeps the refresh token of a login or replaces *)
(* it at every use.                                                            *)
EXTENDS Naturals

CONSTANTS
    TsCalls,     \* calls and callbacks that can be under way at once
    TsAccounts,  \* accounts at the broker, a row each
    MaxLogins,   \* bound: logins at the broker
    MaxTokens    \* bound: access tokens issued

ASSUME TsLinkAssumption == {MaxLogins, MaxTokens} \subseteq Nat

VARIABLES
    link,     \* [TsAccounts -> the tokens in the row]; login 0: not linked
    rotates,  \* whether the broker replaces a refresh token at every use
    issued,   \* access tokens issued so far: token n is the n-th
    valid,    \* the access tokens the broker accepts
    latest,   \* [login -> the number of its refresh token; 0: no such login]
    pending,  \* states issued by the start view, one per login; their verifiers
    ts,       \* [TsCalls -> what the call is doing]
    covers,   \* [login -> the accounts the broker listed for it]
    strayed   \* logins a refreshed token of which was never stored

tsVars == <<link, rotates, issued, valid, latest, pending, ts, covers, strayed>>

Unlinked == [access |-> 0, login |-> 0, refresh |-> 0]
NoTsCall == [pc |-> "idle", tokens |-> Unlinked, state |-> 0, verifier |-> FALSE, left |-> {}, row |-> 0]
Logins == 1..MaxLogins

TsInit ==
    /\ link = [n \in TsAccounts |-> Unlinked] /\ rotates \in BOOLEAN
    /\ issued = 0 /\ valid = {}
    /\ latest = [g \in Logins |-> 0]
    /\ pending = [states |-> {}, verifiers |-> {}, started |-> 0]
    /\ ts = [c \in TsCalls |-> NoTsCall]
    /\ covers = [g \in Logins |-> {}] /\ strayed = {}

-----------------------------------------------------------------------------
AtTs(c, pc) == ts[c].pc = pc
TsGoes(c, r) == ts' = [ts EXCEPT ![c] = r]
BrokerSame == UNCHANGED <<issued, valid, latest>>
RestSame == UNCHANGED <<rotates, covers, strayed>>
Accepts(t) == t.login # 0 /\ latest[t.login] = t.refresh

\* The broker issues an access token and the refresh token of login g.
Issues(g, refresh) ==
    /\ issued < MaxTokens /\ issued' = issued + 1
    /\ valid' = valid \union {issued + 1}
    /\ latest' = [latest EXCEPT ![g] = refresh]

\* The start view: issue_state, store_verifier.
OAuthStart ==
    /\ pending.started < MaxLogins
    /\ LET s == pending.started + 1
       IN  pending' = [states |-> pending.states \union {s},
                       verifiers |-> pending.verifiers \union {s}, started |-> s]
    /\ BrokerSame /\ RestSame /\ UNCHANGED <<link, ts>>

\* The callback: the state is read, then deleted; so is the verifier.
consume_state(c, s) ==
    /\ AtTs(c, "idle") /\ s \in pending.states
    /\ TsGoes(c, [NoTsCall EXCEPT !.pc = "took", !.state = s])
    /\ BrokerSame /\ RestSame /\ UNCHANGED <<link, pending>>

consume_verifier(c) ==
    /\ AtTs(c, "took")
    /\ TsGoes(c, [ts[c] EXCEPT !.pc = "exchange", !.verifier = ts[c].state \in pending.verifiers])
    /\ pending' = [pending EXCEPT !.states = @ \ {ts[c].state}, !.verifiers = @ \ {ts[c].state}]
    /\ BrokerSame /\ RestSame /\ UNCHANGED link

\* The code is good once, and with its verifier only; the broker may refuse.
exchange_code_for_tokens(c) ==
    LET g == ts[c].state
    IN  /\ AtTs(c, "exchange")
        /\ \/ /\ ts[c].verifier /\ latest[g] = 0 /\ Issues(g, 1)
              /\ TsGoes(c, [NoTsCall EXCEPT !.pc = "accounts",
                                !.tokens = [access |-> issued + 1, login |-> g, refresh |-> 1]])
           \/ TsGoes(c, NoTsCall) /\ BrokerSame
        /\ RestSame /\ UNCHANGED <<link, pending>>

\* The accounts of the login, or none that can be read.
get_accounts(c) ==
    /\ \/ AtTs(c, "accounts") /\ ts[c].tokens.access \in valid
       \/ AtTs(c, "retry")
    /\ \/ \E ns \in (SUBSET TsAccounts) \ {{}} :
              /\ TsGoes(c, [ts[c] EXCEPT !.pc = "link", !.left = ns])
              /\ covers' = [covers EXCEPT ![ts[c].tokens.login] = ns]
       \/ TsGoes(c, NoTsCall) /\ UNCHANGED covers
    /\ BrokerSame /\ UNCHANGED <<link, rotates, pending, strayed>>

\* A 401: the refresh token is tried once; the answer carries a new one or not.
Refreshed(t) == IF rotates THEN t.refresh + 1 ELSE t.refresh

\* The client of the callback refreshes too, but the callback keeps what it had.
CallbackRefreshes(c) ==
    /\ AtTs(c, "accounts") /\ ts[c].tokens.access \notin valid
    /\ \/ /\ Accepts(ts[c].tokens) /\ Issues(ts[c].tokens.login, Refreshed(ts[c].tokens))
          /\ TsGoes(c, [ts[c] EXCEPT !.pc = "retry"])
          /\ strayed' = strayed \union {ts[c].tokens.login}
       \/ TsGoes(c, NoTsCall) /\ BrokerSame /\ UNCHANGED strayed
    /\ UNCHANGED <<link, rotates, pending, covers>>

\* One row of the login after the other.
LinkAccount(c) ==
    /\ AtTs(c, "link")
    /\ \E n \in ts[c].left :
         /\ link' = [link EXCEPT ![n] = ts[c].tokens]
         /\ TsGoes(c, IF ts[c].left = {n} THEN NoTsCall ELSE [ts[c] EXCEPT !.left = @ \ {n}])
    /\ BrokerSame /\ RestSame /\ UNCHANGED pending

-----------------------------------------------------------------------------
\* A call takes the tokens from the row it loaded.
TsCall(c, n) ==
    /\ AtTs(c, "idle") /\ link[n].login # 0
    /\ TsGoes(c, [NoTsCall EXCEPT !.pc = "request", !.tokens = link[n], !.row = n])
    /\ BrokerSame /\ RestSame /\ UNCHANGED <<link, pending>>

\* Answered, or refused for another reason than a dead token.
_request(c) ==
    /\ AtTs(c, "request") /\ ts[c].tokens.access \in valid
    /\ TsGoes(c, NoTsCall)
    /\ BrokerSame /\ RestSame /\ UNCHANGED <<link, pending>>

refresh(c) ==
    LET t == ts[c].tokens
    IN  /\ AtTs(c, "request") /\ t.access \notin valid
        /\ \/ /\ Accepts(t) /\ Issues(t.login, Refreshed(t))
              /\ TsGoes(c, [ts[c] EXCEPT !.pc = "save", !.tokens =
                               [access |-> issued + 1, login |-> t.login, refresh |-> Refreshed(t)]])
           \/ TsGoes(c, NoTsCall) /\ BrokerSame
        /\ RestSame /\ UNCHANGED <<link, pending>>

\* _persist_tokens; then the request once more, whatever its answer.
SaveAccessOnly(c) ==  \* mutant: the new refresh token is not stored
    /\ AtTs(c, "save")
    /\ link' = [link EXCEPT ![ts[c].row].access = ts[c].tokens.access] /\ TsGoes(c, NoTsCall)
    /\ BrokerSame /\ RestSame /\ UNCHANGED pending
_persist_tokens(c) ==
    /\ AtTs(c, "save")
    /\ link' = [link EXCEPT ![ts[c].row] = ts[c].tokens] /\ TsGoes(c, NoTsCall)
    /\ BrokerSame /\ RestSame /\ UNCHANGED pending

\* The process dies before it stored what it got.
ProcessDies(c) ==
    /\ ts[c].pc \in {"link", "save"}
    /\ strayed' = IF AtTs(c, "save") THEN strayed \union {ts[c].tokens.login} ELSE strayed
    /\ TsGoes(c, NoTsCall)
    /\ BrokerSame /\ UNCHANGED <<link, rotates, pending, covers>>

AccessExpires ==
    /\ valid # {} /\ valid' = {}
    /\ RestSame /\ UNCHANGED <<link, issued, latest, pending, ts>>

TsNext ==
    \/ OAuthStart \/ AccessExpires
    \/ \E c \in TsCalls :
         \/ \E s \in Logins : consume_state(c, s)
         \/ consume_verifier(c) \/ exchange_code_for_tokens(c)
         \/ get_accounts(c) \/ CallbackRefreshes(c) \/ LinkAccount(c)
         \/ \E n \in TsAccounts : TsCall(c, n)
         \/ _request(c) \/ refresh(c) \/ _persist_tokens(c) \/ ProcessDies(c)

-----------------------------------------------------------------------------
\* A row's refresh token is one the broker accepts, whichever of its calls
\* refreshed and saved last and whatever login came between.  Where the broker
\* replaces refresh tokens this takes a login of one account, no call that has
\* yet to save, and no refreshed token that was dropped: rows that share a login
\* make each other's token a dead one, and so does a process that dies before it
\* saves, or a callback that has to refresh and stores what it had.
RowStaysUsable ==
    \A n \in TsAccounts :
        LET g    == link[n].login
            safe == /\ covers[g] = {n} /\ g \notin strayed
                    /\ ~\E c \in TsCalls : AtTs(c, "save") /\ ts[c].tokens.login = g
        IN  g # 0 /\ (rotates => safe) => Accepts(link[n])

=============================================================================
