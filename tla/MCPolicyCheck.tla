---------------------------- MODULE MCPolicyCheck ----------------------------
(* Requests and ledger states for model checking PolicyCheck. *)
EXTENDS PolicyCheck

Identity(kind, address, scheme) == [kind |-> kind, address |-> address, scheme |-> scheme]
Owner == Identity("delegated", "G1", "none")
Second == Identity("delegated", "G2", "none")
Device == Identity("external", "verifier", "ed")
OddKey == Identity("external", "verifier", "web")
Module == Identity("contract", "C9", "none")

MCSigners == {Owner, Second, Device, OddKey, Module}

MCSchemes == "hVerifier" :> "ed" @@ "hVerifier2" :> "web"

Address(x) == [t |-> "address", v |-> x]
I128(n) == [t |-> "i128", v |-> n]

Transfer(amount) == [contract |-> "token", fn |-> "transfer",
                     args |-> << Address("self"), Address("shop"), I128(amount) >>]

Pay == [fn |-> "transfer", args |-> << [c |-> "eq_self", v |-> 0], [c |-> "eq_address", v |-> "shop"],
                                       [c |-> "le_i128", v |-> 4] >>]

PolicyFor(kind, signers, until, max) ==
    [contract |-> "token", kind |-> kind, n |-> 1, signers |-> signers,
     strict |-> kind # "any_of_current_rule_signers", calls |-> << Pay >>,
     valid_until |-> until, max_calls |-> max]

Capped == PolicyFor("any_of", <<Owner>>, {2}, {2})
Passkey == PolicyFor("all_of", <<Owner, Device>>, {}, {})
Dynamic == PolicyFor("any_of_current_rule_signers", <<>>, {}, {1})

MCRules == {Capped, Passkey, Dynamic}

GeneratedPolicy == [ref |-> "generated", address |-> "policy", hash |-> "hPolicy",
                    limit |-> 0, period |-> 0]
SpendingPolicy == [ref |-> "spending", address |-> "limit", hash |-> "hLimit",
                   limit |-> 4, period |-> 2]

-----------------------------------------------------------------------------
(* A ledger state from its parts. *)

Entry(val, ttl) == [val |-> val, ttl |-> ttl]
Life == 9

History(limit, period, history, cached) ==
    [limit |-> limit, period |-> period, history |-> history, cached |-> cached]

Spends(amount, l) == [amount |-> amount, ledger |-> l]

BaseHistory == History(4, 2, << Spends(2, 1) >>, 2)

RuleEntry(until, signers, policies) ==
    Entry([context |-> "token", name |-> "shop rule", until |-> until,
           signer_ids |-> signers, policy_ids |-> policies], Life)

Code1(h) == Code(h) :> Entry(h, Life)
Instance1(c, h) == InstanceKey(c) :> Entry(h, Life)
Signer1(id, who) == SignerKey(id) :> Entry([signer |-> who, count |-> 1], Life)
Policy1(id, c) == PolicyKey(id) :> Entry([address |-> c, count |-> 1], Life)

(* Everything any of the requests may ask for; a rule decides what is its. *)
Common ==
    Instance1("self", "hAccount") @@ Instance1("token", "hToken") @@ Instance1("policy", "hPolicy")
    @@ Instance1("limit", "hLimit") @@ Instance1("verifier", "hVerifier")
    @@ Instance1("other", "hOther")
    @@ Code1("hAccount") @@ Code1("hAccount2") @@ Code1("hToken") @@ Code1("hToken2")
    @@ Code1("hPolicy") @@ Code1("hLimit") @@ Code1("hVerifier") @@ Code1("hVerifier2")
    @@ Code1("hOther")
    @@ Signer1("1", Owner) @@ Signer1("2", Second) @@ Signer1("3", Device)
    @@ Signer1("4", Owner) @@ Signer1("5", Module) @@ Signer1("6", OddKey)
    @@ Policy1("1", "policy") @@ Policy1("2", "limit") @@ Policy1("3", "other")
    @@ Policy1("4", "policy")
    @@ Classic("G1") :> Entry("single", Life) @@ Classic("G2") :> Entry("single", Life)
    @@ policy_key("Installed", "policy") :> Entry(TRUE, Life)
    @@ policy_key("CallCount", "policy") :> Entry(1, Life)
    @@ policy_key("AccountContext", "limit") :> Entry(BaseHistory, Life)

State(rule, changes) == changes @@ (RuleKey :> rule) @@ Common

Without(s, k) == [x \in DOMAIN s \ {k} |-> s[x]]

-----------------------------------------------------------------------------
Job(rule, policies, candidates, call, stores) ==
    [rule |-> rule, policies |-> policies, target |-> {}, account_hash |-> "hAccount",
     verifiers |-> <<>>, name |-> "shop rule", candidates |-> candidates, call |-> call,
     flaw |-> "none", stores |-> stores, ledgers |-> 2, gaps |-> {}]

(* A state that does not change, read from an endpoint that may leave      *)
(* out what it is asked for.                                               *)
AtRest(j, gaps) == [j EXCEPT !.ledgers = 1, !.gaps = gaps]

CappedRule(signers) == RuleEntry({2}, signers, <<"1">>)
CappedState(changes) == State(CappedRule(<<"1">>), changes)

CountIs(n) == policy_key("CallCount", "policy") :> Entry(n, Life)
Expiring(k) == k :> Entry(Common[k].val, 1)

(* Another call is spent, the signers change, the rule goes, state expires. *)
CappedJobs ==
    {Job(Capped, <<GeneratedPolicy>>, c, Transfer(3), stores) :
        c \in {<<>>, <<Owner>>, <<Owner, Second>>},
        stores \in {{CappedState(CountIs(1)), CappedState(CountIs(2)),
                     State(CappedRule(<<"1", "2">>), CountIs(1))},
                    {CappedState(CountIs(1)), Without(CappedState(CountIs(1)), RuleKey),
                     CappedState(Expiring(policy_key("Installed", "policy")))},
                    {CappedState(CountIs(1)), CappedState(Instance1("policy", "hOther")),
                     State(RuleEntry({2}, <<"1">>, <<"3">>), CountIs(1)),
                     CappedState(Instance1("self", "hAccount2"))}}}

PasskeyRule == RuleEntry({}, <<"1", "3">>, <<"1", "2">>)
PasskeyState(changes) == State(PasskeyRule, changes)
HistoryIs(h) == policy_key("AccountContext", "limit") :> Entry(h, Life)

Pinned(refuse) == {[hash |-> "hToken", refuse |-> refuse]}

PasskeyJob(candidates, call, target, stores) ==
    [Job(Passkey, <<GeneratedPolicy, SpendingPolicy>>, candidates, call, stores)
        EXCEPT !.target = target, !.verifiers = "verifier" :> "hVerifier"]

(* Code changes under a rule with a spending limit and an external signer. *)
PasskeyJobs ==
    {PasskeyJob(c, Transfer(2), target, stores) :
        c \in {<<Owner, Device>>, <<Device>>}, target \in {{}, Pinned(TRUE), Pinned(FALSE)},
        stores \in {{PasskeyState(Instance1("token", "hToken2")), PasskeyState(<<>>)},
                    {PasskeyState(Instance1("verifier", "hVerifier2")), PasskeyState(<<>>),
                     PasskeyState(HistoryIs(History(4, 2, << Spends(2, 1), Spends(1, 2) >>, 3)))},
                    {PasskeyState(Instance1("token", Native)),
                     PasskeyState(Instance1("limit", Native)),
                     PasskeyState(Instance1("verifier", Native)),
                     State(RuleEntry({}, <<"1", "3">>, <<"1", "2", "3">>), <<>>)}}}

(* Any current signer may use the rule: the set moves under the check. *)
DynamicStates ==
    {State(RuleEntry({}, ids, <<"1">>), CountIs(0)) :
        ids \in {<<"1">>, <<"2">>, <<"3", "1">>}}

Growing ==
    {State(RuleEntry({}, ids, <<"1">>), CountIs(0)) : ids \in {<<"1">>, <<"3", "1">>}}

OddDynamicStates ==
    {State(RuleEntry({}, ids, <<"1">>), CountIs(0)) :
        ids \in {<<"1", "5">>, <<"6">>, <<"4", "1">>, <<"1", "1">>, <<>>, <<"1", "2", "3">>}}
    \cup {State(RuleEntry({}, <<"1">>, ps), CountIs(0)) : ps \in {<<"1", "4">>, <<"1", "2">>, <<>>}}
    \cup {State(RuleEntry({}, <<"1">>, <<"1">>), c @@ CountIs(0)) :
            c \in {Classic("G1") :> Entry("multi", Life),
                   SignerKey("1") :> Entry([signer |-> Owner, count |-> 0], Life),
                   PolicyKey("1") :> Entry([address |-> "policy", count |-> 0], Life)}}

(* A signer record the account contract would not write. *)
Uncounted == State(RuleEntry({}, <<"2">>, <<"1">>),
                   SignerKey("2") :> Entry([signer |-> Second, count |-> 0], Life) @@ CountIs(0))

DynamicJobs ==
    {Job(Dynamic, <<GeneratedPolicy>>, c, Transfer(3), DynamicStates \cup {Uncounted}) :
        c \in {<<Second>>, <<Device>>}}
    \cup {[Job(Dynamic, <<GeneratedPolicy>>, <<Owner>>, Transfer(3), Growing) EXCEPT !.ledgers = 3]}
    \cup {AtRest(Job(Dynamic, <<GeneratedPolicy>>, c, Transfer(3), OddDynamicStates), {}) :
            c \in {<<Owner>>, <<Second>>}}
    \cup {[Job(Dynamic, <<GeneratedPolicy>>, <<Owner>>, Transfer(3), Growing)
             EXCEPT !.gaps = {RuleKey, SignerKey("1"), InstanceKey("verifier"), Code("hPolicy"),
                              Classic("G1"), policy_key("CallCount", "policy")}]}

(* Spending histories at their edges, and calls the limit does not cover. *)
Amounts == {-1, 0, 1, 2}
Ages == {0, 1}
Histories ==
    {History(4, p, h, c) :
        p \in {1, 2}, c \in {0, 1, 2, 3},
        h \in {<<>>} \cup {<<Spends(a, l)>> : a \in Amounts, l \in Ages \cup {2}}
              \cup {<<Spends(a, l), Spends(b, m)>> : a \in {1}, b \in {1, 2}, l \in Ages, m \in Ages}}
    \cup {History(4, 2, <<Spends(0, 1), Spends(0, 1), Spends(0, 1)>>, 0),
          History(4, 2, <<Spends(0, 0), Spends(0, 1), Spends(0, 1), Spends(0, 1)>>, 0),
          History(4, 2, <<Spends(5, 1), Spends(5, 1)>>, 10), History(3, 2, <<>>, 0)}

SpendingJobs ==
    {[PasskeyJob(<<Owner, Device>>, call, {}, {PasskeyState(HistoryIs(h))})
        EXCEPT !.ledgers = 1, !.policies = << GeneratedPolicy, [SpendingPolicy EXCEPT !.period = p] >>] :
        h \in Histories, p \in {1, 2}, call \in {Transfer(n) : n \in {-1, 2, 3, 4}}}

OtherCalls ==
    {Job(Capped, <<GeneratedPolicy>>, <<Owner>>, call, {CappedState(CountIs(0))}) :
        call \in {Transfer(5), [Transfer(3) EXCEPT !.contract = "other"],
                  [Transfer(3) EXCEPT !.fn = "burn"], [Transfer(3) EXCEPT !.args = <<>>]}}

FlawedJobs ==
    {[Job(Capped, <<GeneratedPolicy>>, <<Owner>>, Transfer(3), {CappedState(CountIs(0))})
        EXCEPT !.flaw = f] :
        f \in {"spec", "account", "network", "rule_index", "candidate", "invocation", "argument",
               "large_argument", "snapshot", "root", "account_code", "bindings", "template", "build"}}
    \cup {Job(Capped, <<GeneratedPolicy>>, c, Transfer(3), {CappedState(CountIs(0))}) :
            c \in {<<Owner, Owner>>, <<Owner, Second, Device, Module>>}}
    \cup {[Job(Capped, p, <<Owner>>, Transfer(3), {CappedState(CountIs(0))})
             EXCEPT !.account_hash = h] :
            p \in {<<GeneratedPolicy>>, <<GeneratedPolicy, [SpendingPolicy EXCEPT !.ref = "weighted"]>>},
            h \in {"hAccount", "hOld"}}

MCJobs == CappedJobs \cup PasskeyJobs \cup DynamicJobs \cup SpendingJobs \cup OtherCalls
          \cup FlawedJobs

=============================================================================
