------------------------------ MODULE MCAccess ------------------------------
(* Who may do what, and through what: the account with its sessions and second *)
(* factor, the strategies with their secrets, the gate of live trading, the    *)
(* desk of broker accounts, their streams, the TradeStation links and the      *)
(* admin who looks on, side by side: a behaviour runs one part, and mixes      *)
(* operations that meet on the same rows.                                      *)
EXTENDS Erasure, Strategies, LiveGate, Desk, Streams, TsLink, Deputies

CONSTANTS r1, r2, MCParts

VARIABLE part

accessVars == <<part, allVars, stratVars, gateVars, deskVars, streamVars, tsVars, deputyVars>>

AllParts == {"identity", "strategies", "gate", "desk", "streams", "tradestation", "deputies"}
OnlyIdentity == {"identity"}
OnlyStrategies == {"strategies"}

MCReqs == {r1, r2}
MCMixes == {{"register", "oauth", "reset"},
            {"logout", "refresh", "reset"}, {"login", "refresh", "reset"},
            {"login", "revokeall", "refresh", "change"}, {"login", "refresh", "admin"},
            {"login", "enroll", "confirm"},
            {"enroll", "confirm", "disable", "regenerate", "stepup"},
            {"oauth", "enroll", "confirm", "mfa"},
            {"erase", "export"},
            {"register", "erase", "reset"}}
\* Exports beside the nightly anonymisation only.
MCErase == {{"erase", "export"}}

MCCallMixes == {{"upload", "seed"}, {"patch", "delete"}, {"put", "rotate"},
                {"show", "rotate"}, {"show", "dryrun"}, {"delete", "rotate"}}
MCBundle == [stem |-> 1, parts |-> Kind, named |-> TRUE, big |-> FALSE, pine |-> <<6>>,
             script |-> FALSE, object |-> TRUE, keys |-> REQUIRED]
MCBundles == {MCBundle, [MCBundle EXCEPT !.stem = 2, !.pine = <<5, 4>>],
              [MCBundle EXCEPT !.pine = <<4, 5>>], [MCBundle EXCEPT !.keys = {"action"}]}
MCFolder == [slug |-> <<1, 1>>, pine |-> TRUE, description |-> TRUE, webhook |-> "here"]
MCFolders == {MCFolder, [MCFolder EXCEPT !.slug = <<3, 1>>, !.webhook = "none"],
              [MCFolder EXCEPT !.webhook = "broken"]}
MCSchema == [id |-> 1, object |-> TRUE, valid |-> TRUE, depth |-> 3, patternProperties |-> FALSE,
             pattern |-> 0, fits |-> TRUE]
MCSchemas == {MCSchema, [MCSchema EXCEPT !.id = 2, !.depth = 13]}
MCNumbers == {1, 2, 3}
MCTsNumbers == {1}
MCTsAccounts == {1, 2}

AccessInit ==
    /\ part \in MCParts
    /\ IdentityInit /\ StratInit /\ GateInit /\ DeskInit /\ StreamsInit /\ TsInit /\ DeputyInit
    /\ part # "identity" => mix = {"erase", "export"}
    /\ part # "strategies" => callMix = {"upload", "seed"}
    /\ part # "gate" => env
    /\ part # "tradestation" => rotates

AccessNext ==
    \/ /\ part = "identity" /\ IdentityNext
       /\ UNCHANGED <<part, stratVars, gateVars, deskVars, streamVars, tsVars, deputyVars>>
    \/ /\ part = "strategies" /\ CallNext
       /\ UNCHANGED <<part, allVars, gateVars, deskVars, streamVars, tsVars, deputyVars>>
    \/ /\ part = "gate" /\ GateNext
       /\ UNCHANGED <<part, allVars, stratVars, deskVars, streamVars, tsVars, deputyVars>>
    \/ /\ part = "desk" /\ DeskNext
       /\ UNCHANGED <<part, allVars, stratVars, gateVars, streamVars, tsVars, deputyVars>>
    \/ /\ part = "streams" /\ StreamsNext
       /\ UNCHANGED <<part, allVars, stratVars, gateVars, deskVars, tsVars, deputyVars>>
    \/ /\ part = "tradestation" /\ TsNext
       /\ UNCHANGED <<part, allVars, stratVars, gateVars, deskVars, streamVars, deputyVars>>
    \/ /\ part = "deputies" /\ DeputyNext
       /\ UNCHANGED <<part, allVars, stratVars, gateVars, deskVars, streamVars, tsVars>>

\* The nightly task runs every night, a look-up under way ends, the supervisor
\* comes round, and time passes for what is cached.
AccessSpec ==
    /\ AccessInit /\ [][AccessNext]_accessVars
    /\ WF_allVars(NightStep)
    /\ WF_gateVars(RedisExpires)
    /\ \A p \in Procs : WF_gateVars(GateStep(p)) /\ WF_gateVars(MemoryExpires(p))
    /\ WF_streamVars(run_forever)

-----------------------------------------------------------------------------
\* No session survives the reset, change or disable that answered, and the rows
\* are what the tables allow.
SessionsEnd == AllTyped /\ StratTypeOK /\ GateTypeOK /\ DeputyTypeOK /\ OldSessionsEnded

\* What was revoked or erased does not come back by a request that read it before.
NothingComesBack == RevokedStaysRevoked /\ OnlyResetRevives /\ StoppedForGood

\* The password and the second factor are guessed at only so often.
GuessingIsBounded == LockoutHolds /\ GuessesBounded

\* What a request changes, a stale copy does not change back: a secret that was
\* rotated away, a catalogue that was only read.
CopiesAreHarmless == SecretsStayDead /\ ReadsChangeNothing

\* The caches and the streams come to follow the rows.
AccessConverges == FlagConverges /\ FollowsAccounts

\* One stream per account, and its failures are seen but for the supervisor's refresh.
StreamsHonest == OneStreamPerAccount /\ DownIsShown
=============================================================================
