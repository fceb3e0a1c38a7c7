---------------------------- MODULE MCInstallCheck ----------------------------
(***************************************************************************)
(* One wallet account whose owner holds a passkey, an agent with a classic *)
(* key, a second classic account and a stranger.  Three setups: every      *)
(* shape of a second rule, once; the account changing during approval,     *)
(* signing and monitoring; and the registry's own history.                 *)
(***************************************************************************)
EXTENDS InstallCheck

CONSTANTS AccountCode, PasskeyCode, Ed25519Code, LimitWasm, PolicyWasm, StrangeWasm

data(head, len, tail, point) == [hex |-> TRUE, len |-> len, head |-> head, tail |-> tail, point |-> point]

NoData == data("none", 0, "none", FALSE)

Delegated(a) == [kind |-> "Delegated", at |-> a, data |-> NoData]
External(v, d) == [kind |-> "External", at |-> v, data |-> d]

Passkey == data("owner", 70, "credential", TRUE)

MCAddressKind ==
    [a \in {"account", "policy", "other_policy", "strange_policy", "asset", "other", "passkeys",
            "ed25519s", "unreviewed", "nested"} |-> "contract"]
    @@ [a \in {"agent", "friend"} |-> "classic"] @@ ("muxed" :> "other")

MCPublicKey == [a \in {"agent", "friend"} |-> data(a, 32, "none", FALSE)]

MCWallet == [account |-> "account", verifier |-> "passkeys", data |-> Passkey]

MCKeyHeads == {"owner", "agent", "friend", "stranger"}

Owner == External("passkeys", Passkey)
Agent == Delegated("agent")
AgentBehindVerifier == External("ed25519s", data("agent", 32, "none", FALSE))
AgentPasskey == External("passkeys", data("agent", 65, "none", TRUE))
AgentOtherCredential == External("passkeys", data("agent", 80, "second", TRUE))
Friend == Delegated("friend")

-----------------------------------------------------------------------------
(* The registry *)

none == [x \in {} |-> x]

Version1 ==
    [ schema |-> "v1", version |-> 1, log_index |-> 1, previous |-> {}, network |-> Testnet,
      from |-> 1, until |-> 2, keys_ok |-> TRUE, revocations |-> none, adapters |-> none,
      policies |-> (LimitWasm :> "spending_limit"),
      accounts |-> (AccountCode :>
        [ enumeration |-> "bounded_next_id", agree |-> TRUE, methods |-> {"reviewed"},
          scan |-> {[schema |-> 1, max_ids |-> 100, max_batches |-> 10, max_entries |-> 100,
                     max_attempts |-> 2]} ]),
      verifiers |-> (PasskeyCode :> [immutable |-> TRUE, stateless |-> {TRUE}, scheme |-> {"webauthn"}])
                 @@ (Ed25519Code :> [immutable |-> TRUE, stateless |-> {TRUE}, scheme |-> {"ed25519"}]),
      templates |-> ("family" :> [schema |-> 1, declares |-> {"eq"}]) ]

after(s, revoked) ==
    [s EXCEPT !.version = @ + 1, !.log_index = @ + 1, !.previous = {s}, !.until = 3,
              !.revocations = [r \in revoked |-> [effective |-> 2, reason |-> "broken"]]]

Revoked == {<<"policy", LimitWasm>>}
Version2 == after(Version1, Revoked)
Fork2 == after(Version1, {})
Version3 == after(Version2, Revoked)
Forgets3 == after(Version2, {})

signedBy(keys, s) == [snapshot |-> s, signatures |-> [k \in keys |-> s]]

MCPublished ==
    {signedBy({"r1"}, s) : s \in {Version1, Version2, Fork2, Version3, Forgets3}}
    \cup {signedBy({}, Version2), signedBy({"r9"}, Version2)}

MCFirstTrust == [checkpoint |-> {}, minimum |-> 1, was |-> {}]

MCReviewedSchemes == (PasskeyCode :> "webauthn") @@ (Ed25519Code :> "ed25519")

MCImplemented == none

-----------------------------------------------------------------------------
(* Requests *)

generated == [of |-> "generated", kind |-> "generated", family |-> "family", schema |-> 1,
              capability |-> PolicyWasm, params |-> 0]

ruleFor(signers, target, stateful, until) ==
    [ target |-> target, signers |-> signers, stateful |-> stateful, until |-> until, name |-> "grant",
      policies |-> <<generated>>, uses |-> {"eq"},
      artifact |-> [wasm |-> PolicyWasm, manifest |-> "built", family |-> "family"] ]

request(snapshot, rule) ==
    LET spec == [ valid |-> TRUE, account |-> "account", network |-> Testnet, code |-> AccountCode,
                  registry |-> snapshot, rules |-> <<rule>> ]
    IN  [ spec |-> spec, rule |-> 1, account |-> "account", network |-> Testnet,
          snapshot |-> signedBy({"r1"}, snapshot),
          bindings |-> [ spec |-> spec, network |-> Testnet,
                         list |-> <<[ rule |-> 1, policy |-> 1, address |-> "policy",
                                      code |-> PolicyWasm, recognition |-> "generated",
                                      manifest |-> "built", reference |-> TRUE,
                                      canonical |-> TRUE ]>> ] ]

Counted == request(Version1, ruleFor(<<Agent>>, "asset", TRUE, {4}))

(* The same grant with a reviewed spending limit beside the generated one. *)
reviewed(snapshot) ==
    LET limit == [of |-> "reviewed", kind |-> "spending_limit", family |-> "none", schema |-> 0,
                  capability |-> LimitWasm, params |-> 1]
        plain == request(snapshot, [ruleFor(<<Agent>>, "asset", FALSE, {}) EXCEPT !.policies = @ \o <<limit>>])
    IN  [plain EXCEPT !.bindings.list = @ \o
            <<[ rule |-> 1, policy |-> 2, address |-> "other_policy", code |-> LimitWasm,
                recognition |-> "reviewed_registry", manifest |-> "none", reference |-> TRUE,
                canonical |-> TRUE ]>>]

-----------------------------------------------------------------------------
(* Accounts *)

entry(master, medium, others) == [found |-> TRUE, master |-> master, medium |-> medium, others |-> others]

Empty ==
    [ ledger |-> 1, code |-> AccountCode, next_signer |-> 0, next_policy |-> 0, marker |-> {},
      state |-> [ next_id |-> 0, active_count |-> 0, rules |-> none, signers |-> none,
                  policies |-> none ],
      codes |-> ("policy" :> PolicyWasm) @@ ("other_policy" :> LimitWasm)
             @@ ("strange_policy" :> StrangeWasm) @@ ("passkeys" :> PasskeyCode)
             @@ ("ed25519s" :> Ed25519Code) @@ ("unreviewed" :> StrangeWasm),
      classics |-> ("agent" :> entry(1, 1, none)) @@ ("friend" :> entry(1, 0, none)) ]

rule(context, at, keys, policies, until) ==
    [name |-> "rule", context |-> [kind |-> context, at |-> at], keys |-> keys,
     policies |-> policies, until |-> until]

Owned == AddedRule(Empty, rule("Default", "none", <<Owner>>, <<>>, {}))

Contexts ==
    {<<"Default", "none">>, <<"CreateContract", "none">>}
    \cup {<<"CallContract", a>> : a \in {"account", "policy", "asset", "other"}}

SignerLists ==
    {<<>>}
    \cup {<<k>> : k \in {Owner, Agent, AgentBehindVerifier, AgentPasskey, Friend,
                         External("unreviewed", data("friend", 32, "none", FALSE)),
                         External("ed25519s", data("friend", 33, "none", FALSE)),
                         Delegated("nested"), Delegated("muxed")}}
    \cup {<<Agent, k>> : k \in {Owner, AgentBehindVerifier, Friend}}
    \cup {<<Owner, Friend>>, <<AgentPasskey, Owner>>}

SecondRules ==
    {rule(c[1], c[2], keys, policies, until) :
        c \in Contexts, keys \in SignerLists,
        policies \in {<<>>, <<"other_policy">>, <<"strange_policy">>}, until \in {{}, {2}}}

Shared(ch) == [ch EXCEPT !.classics["friend"] = entry(1, 1, "agent" :> 1)]

Shapes ==
    {AddedRule(Owned, r) : r \in SecondRules}
    \cup {AddedRule(Shared(Owned), rule(c[1], c[2], <<Friend>>, <<>>, {})) : c \in Contexts}

Quiet == [accounts |-> {}, requests |-> {}, changes |-> {}, batches |-> {}, registry |-> FALSE,
          events |-> 0, ledgers |-> 3, times |-> 1]

(* A second rule of every shape: what the check lets through. *)
ShapeSetup ==
    [Quiet EXCEPT !.accounts = Shapes,
                  !.requests = {Counted, request(Version1, ruleFor(<<Agent>>, "asset", FALSE, {})),
                                request(Version1, ruleFor(<<AgentOtherCredential>>, "asset", TRUE, {}))},
                  !.ledgers = 2]

Changes ==
    {[do |-> "add", rule |-> rule("Default", "none", <<Friend>>, <<>>, {})],
     [do |-> "add", rule |-> rule("CallContract", "asset", <<Agent>>, <<>>, {})],
     [do |-> "remove", id |-> 1], [do |-> "remove", id |-> 2],
     [do |-> "extend", id |-> 1, until |-> {3}],
     [do |-> "extend", id |-> 2, until |-> {4}],
     [do |-> "rename", id |-> 2, name |-> "renamed"],
     [do |-> "classic", at |-> "friend", entry |-> entry(1, 1, "stranger" :> 1)],
     [do |-> "upgrade", at |-> "policy", code |-> StrangeWasm],
     [do |-> "upgrade", at |-> "ed25519s", code |-> StrangeWasm]}

Watched ==
    {AddedRule(Owned, r) : r \in {
        rule("CallContract", "account", <<Owner, Friend>>, <<>>, {2}),
        rule("CallContract", "asset", <<Agent, Friend>>, <<>>, {}),
        rule("CallContract", "policy", <<Owner, External("ed25519s", data("stranger", 32, "none", FALSE))>>,
             <<>>, {})}}

(* The account, the classic accounts and the code change at any moment. *)
ChangeSetup ==
    [Quiet EXCEPT !.accounts = Watched, !.requests = {Counted}, !.changes = Changes,
                  !.batches = {{"account_code", "policy_code", "verifier_code", "target"},
                               {"owner_rule"}, {"rule", "marker"}},
                  !.events = 1, !.ledgers = 4]

(* What may not even be planned, and a registry that moves on. *)
RegistrySetup ==
    [Quiet EXCEPT !.accounts = {Owned}, !.registry = TRUE, !.times = 3, !.ledgers = 1,
                  !.requests = {reviewed(Version1), reviewed(Version3), Counted,
                                request(Version1, ruleFor(<<Agent>>, "account", TRUE, {})),
                                request(Version1, ruleFor(<<Agent>>, "policy", TRUE, {})),
                                [Counted EXCEPT !.rule = 2]}]

MCSetups == ("shapes" :> ShapeSetup) @@ ("changes" :> ChangeSetup) @@ ("registry" :> RegistrySetup)

=============================================================================
