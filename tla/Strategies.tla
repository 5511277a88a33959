----------------------------- MODULE Strategies -----------------------------
(* apps/strategies: the catalogue of one user (their uploads and the system    *)
(* strategies), the webhook config that holds the secret of each, and the      *)
(* requests that change them.                                                  *)
(*                                                                             *)
(* A request reads its rows, works on the copies and saves them; nothing locks *)
(* a row or spans the statements of a view with a transaction.                 *)
EXTENDS Integers, Sequences, FiniteSets

CONSTANTS
    Calls,        \* request slots
    CallMixes,    \* sets of operations; a behaviour keeps to one of them
    Bundles,      \* uploaded bundles
    Folders,      \* directories given to load_strategies
    Schemas,      \* JSON schemas put in a config
    MaxStrats,    \* bound: rows created
    MaxSecrets    \* bound: secrets minted

ASSUME StrategiesAssumption ==
    /\ MaxStrats \in Nat \ {0} /\ MaxSecrets \in Nat
    /\ \A b \in Bundles : b.stem \in Nat
    /\ \A f \in Folders : f.slug \in Seq(Nat)

VARIABLES
    strats,   \* strategies_strategy with its files, in order of creation
    hooks,    \* [row -> the user's webhook config of it]
    minted,   \* secrets generated so far: secret n is the n-th
    calls,    \* [Calls -> what the request is doing]
    callMix

stratVars == <<strats, hooks, minted, calls, callMix>>

Kind == {"PINE", "DESC", "WEBHOOK_TEMPLATE"}
Strategy == [system : BOOLEAN, slug : Seq(Nat), is_enabled : BOOLEAN, deleted : BOOLEAN,
             files : SUBSET Kind, cut : BOOLEAN]
NoConfig == [here |-> FALSE, secret |-> 0, version |-> 0, json_schema |-> 0]
NoRow == [system |-> FALSE, slug |-> <<>>, is_enabled |-> FALSE, deleted |-> FALSE,
          files |-> {}, cut |-> FALSE]
Quiet == [op |-> "", pc |-> "idle", id |-> 0, row |-> NoRow, cfg |-> NoConfig, imp |-> FALSE]

StratInit ==
    /\ callMix \in CallMixes
    /\ strats = <<[NoRow EXCEPT !.slug = <<1, 1>>, !.is_enabled = TRUE, !.files = Kind]>>
    /\ hooks = [i \in 1..MaxStrats |-> NoConfig]
    /\ minted = 0
    /\ calls = [c \in Calls |-> Quiet]

-----------------------------------------------------------------------------
(* Checks of what is uploaded or put: what each refuses first *)

REQUIRED == {"strategy", "action", "symbol", "qty", "order_type"}
SUPPORTED_PINE_VERSIONS == {5, 6}

\* The annotation is looked for on every line; the first one found decides.
_validate_pine_version(declared) == declared # <<>> /\ Head(declared) \in SUPPORTED_PINE_VERSIONS

\* b.named: the three names follow the stem; b.keys: the template's top-level
\* keys, or "text" when it does not parse to an object.
validate_uploaded_bundle(b) ==
    LET fails ==
          << <<"STRATEGY_FILE_MISMATCH", b.parts # Kind \/ ~b.named>>,
             <<"STRATEGY_FILE_TOO_LARGE", b.big>>,
             <<"STRATEGY_FILE_MISMATCH", ~_validate_pine_version(b.pine)>>,
             <<"STRATEGY_WEBHOOK_INVALID", b.script \/ ~b.object>>,
             <<"STRATEGY_WEBHOOK_INVALID", ~(REQUIRED \subseteq b.keys)>> >>
        bad == {i \in DOMAIN fails : fails[i][2]}
    IN  IF bad = {} THEN "ok" ELSE fails[CHOOSE i \in bad : \A j \in bad : i <= j][1]

\* A schema of a config: an object, valid for the draft, shallow, and without
\* expressions that cost too much to match; the template must satisfy it.
validate_json_schema(s) == s.object /\ s.valid /\ s.depth <= 12 /\ ~s.patternProperties /\ s.pattern <= 200
Acceptable(s) == validate_json_schema(s) /\ s.fits

\* The slug of the stem, or that slug with the first free suffix; deleted rows
\* keep theirs.
_make_unique_slug(base) ==
    LET taken == {strats[i].slug : i \in {j \in DOMAIN strats : ~strats[j].system}}
        free  == {n \in 1..(MaxStrats + 1) : <<base, n>> \notin taken}
    IN  <<base, CHOOSE n \in free : \A m \in free : n <= m>>

-----------------------------------------------------------------------------
AtCall(c, op, pc) == calls[c].op = op /\ calls[c].pc = pc
CallEnds(c) == calls' = [calls EXCEPT ![c] = Quiet]
Visible(i) == i \in DOMAIN strats /\ ~strats[i].deleted

\* can_user_view holds of every visible row; a plain user changes own rows only.
Allowed(op, i) == op \in {"patch", "delete"} => ~strats[i].system

\* The view loads the strategy; a GET may come from an impersonating admin.
OpenCall(c, op, i, imp) ==
    /\ op \in callMix \intersect {"patch", "delete", "show", "put", "rotate", "dryrun"}
    /\ calls[c].pc = "idle" /\ Visible(i) /\ Allowed(op, i)
    /\ imp => op = "show"
    /\ calls' = [calls EXCEPT ![c] = [Quiet EXCEPT
         !.op = op, !.id = i, !.row = strats[i], !.imp = imp,
         !.pc = IF op \in {"patch", "delete"} THEN "save" ELSE "config"]]
    /\ UNCHANGED <<strats, hooks, minted, callMix>>

\* Every column of the copy is saved; the files are rows of their own, and `cut`
\* only tells the property which uploads failed.
Patch(c, on) ==
    /\ AtCall(c, "patch", "save")
    /\ strats' = [strats EXCEPT ![calls[c].id] =
         [@ EXCEPT !.is_enabled = on, !.deleted = calls[c].row.deleted]]
    /\ CallEnds(c)
    /\ UNCHANGED <<hooks, minted, callMix>>

Delete(c) ==
    /\ AtCall(c, "delete", "save")
    /\ strats' = [strats EXCEPT ![calls[c].id].is_enabled = FALSE, ![calls[c].id].deleted = TRUE]
    /\ CallEnds(c)
    /\ UNCHANGED <<hooks, minted, callMix>>

-----------------------------------------------------------------------------
(* get_or_create_webhook_config, and what each view does with the config *)

Fresh == /\ minted < MaxSecrets
         /\ minted' = minted + 1

\* What remains to be done once the config is there.
Rest(op) == IF op \in {"show", "dryrun"} THEN "answer" ELSE "write"

FindConfig(c) ==
    LET i == calls[c].id IN
    /\ calls[c].pc = "config"
    /\ calls' = [calls EXCEPT ![c].cfg = hooks[i],
         ![c].pc = CASE hooks[i].here -> Rest(calls[c].op)
                     [] ~hooks[i].here /\ calls[c].imp -> "answer"
                     [] OTHER -> "mint"]
    /\ UNCHANGED <<strats, hooks, minted, callMix>>

\* The unique index refuses the row of the slower of two first accesses: 500.
Mint(c) ==
    LET i == calls[c].id
        new == [here |-> TRUE, secret |-> minted', version |-> 1, json_schema |-> 0]
    IN  /\ calls[c].pc = "mint"
        /\ \/ /\ hooks[i].here
              /\ CallEnds(c)
              /\ UNCHANGED <<hooks, minted>>
           \/ /\ ~hooks[i].here /\ Fresh
              /\ hooks' = [hooks EXCEPT ![i] = new]
              /\ calls' = [calls EXCEPT ![c].cfg = new, ![c].pc = Rest(calls[c].op)]
        /\ UNCHANGED <<strats, callMix>>

AnswerCall(c) == calls[c].pc = "answer" /\ CallEnds(c) /\ UNCHANGED <<strats, hooks, minted, callMix>>

PutSavesAll(c, s) ==  \* mutant: saves the whole copy
    /\ AtCall(c, "put", "write")
    /\ hooks' = [hooks EXCEPT ![calls[c].id] = [calls[c].cfg EXCEPT !.json_schema = s.id]]
    /\ CallEnds(c)
    /\ UNCHANGED <<strats, minted, callMix>>
\* Only the schema and the template are saved; a body that fails the checks was
\* refused before the config was touched.
Put(c, s) ==
    /\ AtCall(c, "put", "write")
    /\ Acceptable(s)
    /\ hooks' = [hooks EXCEPT ![calls[c].id].json_schema = s.id]
    /\ CallEnds(c)
    /\ UNCHANGED <<strats, minted, callMix>>

\* The version counts from the copy.
rotate_secret(c) ==
    /\ AtCall(c, "rotate", "write") /\ Fresh
    /\ hooks' = [hooks EXCEPT ![calls[c].id].secret = minted',
                              ![calls[c].id].version = calls[c].cfg.version + 1]
    /\ CallEnds(c)
    /\ UNCHANGED <<strats, callMix>>

-----------------------------------------------------------------------------
(* Uploads and load_strategies *)

Upload(c, b) ==
    /\ "upload" \in callMix /\ calls[c].pc = "idle"
    /\ validate_uploaded_bundle(b) = "ok"
    /\ calls' = [calls EXCEPT ![c] = [Quiet EXCEPT !.op = "upload", !.pc = "create",
         !.row = [NoRow EXCEPT !.slug = _make_unique_slug(b.stem), !.is_enabled = TRUE]]]
    /\ UNCHANGED <<strats, hooks, minted, callMix>>

UploadRefused(c, b) ==
    /\ "upload" \in callMix /\ calls[c].pc = "idle"
    /\ validate_uploaded_bundle(b) # "ok"
    /\ UNCHANGED stratVars

\* The unique index on (owner, slug) turns the slower of two uploads into a 500.
CreateRow(c) ==
    /\ AtCall(c, "upload", "create")
    /\ IF \E i \in DOMAIN strats : ~strats[i].system /\ strats[i].slug = calls[c].row.slug
       THEN CallEnds(c) /\ UNCHANGED strats
       ELSE /\ Len(strats) < MaxStrats
            /\ strats' = Append(strats, calls[c].row)
            /\ calls' = [calls EXCEPT ![c].id = Len(strats'), ![c].pc = "files"]
    /\ UNCHANGED <<hooks, minted, callMix>>

NextFile(files) == CASE "PINE" \notin files -> "PINE"
                     [] "PINE" \in files /\ "DESC" \notin files -> "DESC"
                     [] OTHER -> "WEBHOOK_TEMPLATE"
AddFile(c) ==
    LET i == calls[c].id  more == strats[i].files \union {NextFile(strats[i].files)} IN
    /\ AtCall(c, "upload", "files")
    /\ strats' = [strats EXCEPT ![i].files = more]
    /\ IF more = Kind THEN CallEnds(c) ELSE UNCHANGED calls
    /\ UNCHANGED <<hooks, minted, callMix>>

\* The insert of a file fails, or the worker dies: what is there stays there.
UploadCut(c) ==
    /\ AtCall(c, "upload", "files")
    /\ strats' = [strats EXCEPT ![calls[c].id].cut = TRUE]
    /\ CallEnds(c)
    /\ UNCHANGED <<hooks, minted, callMix>>

\* _seed_one: no script or no description, not a strategy folder; a template
\* that does not parse, an error; one that is absent is synthesised.
_seed_one(f) ==
    IF ~f.pine \/ ~f.description THEN "skip"
    ELSE IF f.webhook = "broken" THEN "error" ELSE "ok"

SeedAsIs(f) ==  \* mutant: an absent template stays absent
    /\ "seed" \in callMix /\ _seed_one(f) = "ok"
    /\ ~(\E i \in DOMAIN strats : strats[i].system /\ strats[i].slug = f.slug)
    /\ Len(strats) < MaxStrats
    /\ strats' = Append(strats, [NoRow EXCEPT !.system = TRUE, !.slug = f.slug, !.is_enabled = TRUE,
         !.files = {"PINE", "DESC"} \union (IF f.webhook = "here" THEN {"WEBHOOK_TEMPLATE"} ELSE {})])
    /\ UNCHANGED <<hooks, minted, calls, callMix>>
\* upsert_system_strategy, one transaction: an existing row gets its files
\* again and keeps the rest.
Seed(f) ==
    LET same == {i \in DOMAIN strats : strats[i].system /\ strats[i].slug = f.slug} IN
    /\ "seed" \in callMix /\ _seed_one(f) = "ok"
    /\ \/ /\ same = {} /\ Len(strats) < MaxStrats
          /\ strats' = Append(strats, [NoRow EXCEPT
               !.system = TRUE, !.slug = f.slug, !.is_enabled = TRUE, !.files = Kind])
       \/ /\ same # {}
          /\ strats' = [i \in DOMAIN strats |->
               IF i \in same THEN [strats[i] EXCEPT !.files = Kind] ELSE strats[i]]
    /\ UNCHANGED <<hooks, minted, calls, callMix>>

CallNext ==
    \/ \E c \in Calls :
         \/ \E op \in callMix, i \in DOMAIN strats, imp \in BOOLEAN : OpenCall(c, op, i, imp)
         \/ \E on \in BOOLEAN : Patch(c, on)
         \/ Delete(c) \/ FindConfig(c) \/ Mint(c) \/ AnswerCall(c) \/ rotate_secret(c)
         \/ \E s \in Schemas : Put(c, s)
         \/ \E b \in Bundles : Upload(c, b) \/ UploadRefused(c, b)
         \/ CreateRow(c) \/ AddFile(c) \/ UploadCut(c)
    \/ \E f \in Folders : Seed(f)

-----------------------------------------------------------------------------
(* What a caller may count on *)

StratTypeOK ==
    /\ strats \in Seq(Strategy)
    /\ DOMAIN hooks = 1..MaxStrats /\ minted \in Nat
    /\ \A i \in DOMAIN hooks : hooks[i].secret \in 0..minted

\* A strategy that was deleted stays deleted: a deleted row is not brought back
\* by a PATCH, whatever the PATCH read before.
DeletedStaysDeleted ==
    [][\A i \in DOMAIN strats : strats[i].deleted => strats'[i].deleted]_stratVars

\* The secret of a config changes to one just minted and to nothing else: once
\* rotated away, a secret never signs an alert again, even when a schema was
\* being saved meanwhile from a copy that still held it.
SecretsStayDead ==
    [][\A i \in 1..MaxStrats :
         hooks'[i].secret # hooks[i].secret => minted' > minted /\ hooks'[i].secret = minted']_stratVars

\* What an impersonating admin reads leaves no trace in the catalogue: no step of
\* such a request creates a config or mints the owner's secret.
ReadsChangeNothing ==
    [][\A c \in Calls : calls[c].imp /\ calls'[c] # calls[c] => UNCHANGED <<strats, hooks, minted>>]_stratVars

\* Every strategy that is not in the middle of its upload, or left there by one
\* that failed, has its script, its description and its template.
UploadsWhole ==
    \A i \in DOMAIN strats :
      \/ strats[i].files = Kind \/ strats[i].cut
      \/ \E c \in Calls : AtCall(c, "upload", "files") /\ calls[c].id = i

=============================================================================
