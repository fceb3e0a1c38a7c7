----------------------------- MODULE MCAuthoring -----------------------------
(***************************************************************************)
(* Authoring on a token (the built-in asset contract) and a router with a  *)
(* reviewed adapter: transfers and swaps of one account, recorded from RPC *)
(* transactions, simulations and imports with matching, missing and        *)
(* contradicting results.                                                  *)
(***************************************************************************)
EXTENDS Authoring

CONSTANTS Acct, Bob, Carol, Token, Router, AccountCode, RouterCode, OtherCode

-----------------------------------------------------------------------------
(* Calls and envelopes *)

address(a) == [t |-> "address", v |-> a]

transfer(to, n) ==
    [k |-> "call", contract |-> Token, fn |-> "transfer",
     args |-> <<address(Acct), address(to), I128(n)>>]

swap(n, deadline) ==
    [k |-> "call", contract |-> Router, fn |-> "swap",
     args |-> <<I128(n), [t |-> "u64", v |-> deadline]>>]

flag == [k |-> "call", contract |-> Router, fn |-> "flag", args |-> <<[t |-> "bool", v |-> True]>>]

create == [k |-> "create", contract |-> Token, fn |-> "none", args |-> <<>>]

entry(who, nodes) ==
    [arm |-> "address", address |-> who, nonce |-> 1, nodes |-> nodes, bytes |-> 1, xdr |-> "ok"]

op(auth) == [kind |-> "invoke", calls |-> Token, auth |-> auth]

payment == [kind |-> "payment", calls |-> Token, auth |-> <<>>]

envelope(form, ops) ==
    [form |-> form, source |-> Bob, hash |-> "h1", bytes |-> 1, xdr |-> "ok", ops |-> ops]

byAcct(nodes) == envelope("tx", <<op(<<entry(Acct, nodes)>>)>>)

Pay5 == byAcct(<<transfer(Bob, 5)>>)
Pay6 == byAcct(<<transfer(Carol, 6)>>)
PayTwice == byAcct(<<transfer(Bob, 5), transfer(Carol, 5)>>)
SwapPay == byAcct(<<swap(5, 9), transfer(Bob, 5)>>)
Flagged == byAcct(<<flag>>)
Creates == byAcct(<<transfer(Bob, 5), create>>)
Bumped == [Pay5 EXCEPT !.form = "feebump"]
TwoOps == envelope("tx", <<payment, op(<<entry(Acct, <<transfer(Bob, 5)>>)>>)>>)
TwoCalls == envelope("tx", <<op(<<entry(Acct, <<swap(5, 9)>>)>>),
                             op(<<entry(Acct, <<transfer(Bob, 5)>>)>>)>>)

-----------------------------------------------------------------------------
(* Results, metas and observations *)

ran(ops, status) == [k \in DOMAIN ops |-> [kind |-> ops[k].kind, status |-> status]]

result(arm, inner, ops) ==
    [arm |-> arm, inner |-> inner, inner_hash |-> "h1", ops |-> ops, bytes |-> 1, xdr |-> "ok"]

Good(e) ==
    IF IsFeeBump(e) THEN result("bump_success", "success", ran(e.ops, "ok"))
    ELSE result("success", "none", ran(e.ops, "ok"))

Failing(e) == result("failed", "none", ran(e.ops, "err"))

Short(e) == result("success", "none", SubSeq(ran(e.ops, "ok"), 1, Len(e.ops) - 1))

ChangeOf(source, contract) ==
    LET key == [entry |-> "data", contract |-> contract]
    IN  [kind |-> "created", key |-> {key}, before |-> {}, after |-> {key}, source |-> source,
         entry |-> "data", contract |-> contract, bytes |-> 1]

event(kind, amount) ==
    [from_contract |-> TRUE, kind |-> kind, addresses |-> <<Acct, Bob>>, amount |-> amount]

Meta(version) ==
    [version |-> version, before |-> <<>>, after |-> <<ChangeOf("meta", Token)>>,
     ops |-> <<[changes |-> <<ChangeOf("meta", Token)>>, events |-> <<event("transfer", {5})>>]>>,
     events |-> <<event("memo", {})>>, bytes |-> 1, xdr |-> "ok"]

sighting(wasm) == [wasm |-> wasm, observed |-> 10, modified |-> {9}, live_until |-> {20}]

Seen(router) ==
    [x \in {Acct, Token} \cup (IF router = {} THEN {} ELSE {Router}) |->
        sighting(CASE x = Acct -> {AccountCode} [] x = Token -> {} [] x = Router -> router)]

-----------------------------------------------------------------------------
(* Acquisitions *)

options(failed, index) == [allow_failed |-> failed, operation_index |-> index]

plain == options(FALSE, {})

take(snapshot, opts) == [snapshot |-> snapshot, options |-> opts]

rpc(e, meta, successful, router) ==
    with_acquisition_protocol(
        with_contract_executables(from_rpc_transaction("testnet", e, meta, 10, successful),
                                  Seen(router)), 23)

simulated(e, router) ==
    with_simulated_state_changes(
        with_contract_executables(
            from_rpc_simulation("testnet", e, <<entry(Acct, <<transfer(Bob, 5)>>)>>, {10}),
            Seen(router)),
        <<ChangeOf("simulation", Token)>>)

imported(e, meta, results, successful) ==
    with_contract_executables(from_import("testnet", e, meta, results, {10}, successful),
                              Seen({RouterCode}))

GoodAcquisitions ==
    {take(with_rpc_result(rpc(e, {Meta(4)}, TRUE, {RouterCode}), Good(e)), plain) :
        e \in {Pay5, Pay6, PayTwice, SwapPay, Flagged, Bumped}}
    \cup {take(with_rpc_result(rpc(SwapPay, {}, TRUE, {OtherCode}), Good(SwapPay)), plain),
          take(simulated(Pay5, {RouterCode}), plain),
          take(imported(Creates, {Meta(3)}, {Good(Creates)}, TRUE), plain)}

OddAcquisitions ==
    {take(rpc(Pay5, {Meta(4)}, TRUE, {RouterCode}), plain),
     take(with_rpc_result(rpc(Pay5, {}, FALSE, {RouterCode}), Failing(Pay5)), plain),
     take(with_rpc_result(rpc(Pay5, {}, FALSE, {RouterCode}), Failing(Pay5)), options(TRUE, {})),
     take(with_rpc_result(rpc(Pay5, {}, TRUE, {RouterCode}), Failing(Pay5)), plain),
     take(with_rpc_result(rpc(TwoOps, {}, TRUE, {RouterCode}), Short(TwoOps)), plain),
     take(with_rpc_result(rpc(TwoCalls, {}, TRUE, {RouterCode}), Good(TwoCalls)), plain),
     take(with_rpc_result(rpc(TwoCalls, {}, TRUE, {RouterCode}), Good(TwoCalls)), options(FALSE, {2})),
     take(with_rpc_result(rpc(Pay5, {Meta(2)}, TRUE, {RouterCode}), Good(Pay5)), plain),
     take(with_acquisition_protocol(simulated(Pay5, {}), MaxProtocol + 1), plain),
     take(imported(Pay5, {}, {}, TRUE), plain),
     take(imported(Pay5, {}, {[Good(Pay5) EXCEPT !.xdr = "garbage"]}, TRUE), plain),
     take(imported([Pay5 EXCEPT !.bytes = MaxXdr + 1], {}, {Good(Pay5)}, TRUE), plain),
     take(imported([Pay5 EXCEPT !.form = "v0"], {}, {Good(Pay5)}, TRUE), plain)}

SecondAcquisitions ==
    {take(with_rpc_result(rpc(e, {}, TRUE, {RouterCode}), Good(e)), plain) : e \in {Pay5, Pay6}}
    \cup {take(with_rpc_result(rpc(SwapPay, {}, TRUE, {OtherCode}), Good(SwapPay)), plain)}

MCAcquisitions == <<GoodAcquisitions \cup OddAcquisitions, SecondAcquisitions>>

-----------------------------------------------------------------------------
(* Edits of a recording in the caller's hands *)

MCBundleEdits ==
    {"trust", "succeeded", "no_result", "amount", "index", "no_changes", "code", "no_code"}

Forged(b) ==
    [b EXCEPT !.authorizations =
        [k \in DOMAIN b.authorizations |-> [b.authorizations[k] EXCEPT !.nodes = <<transfer(Bob, 7)>>]]]

MCEditBundle(edit, b) ==
    CASE edit = "trust"      -> [b EXCEPT !.trust = "rpc_reported"]
      [] edit = "succeeded"  -> [b EXCEPT !.execution = "success"]
      [] edit = "no_result"  -> [b EXCEPT !.raw.result = {}, !.trust = "incomplete"]
      [] edit = "amount"     -> Forged(b)
      [] edit = "index"      -> [b EXCEPT !.index = 3 - @]
      [] edit = "no_changes" -> [b EXCEPT !.changes = <<>>]
      [] edit = "code"       -> [b EXCEPT !.executables = Seen({OtherCode})]
      [] edit = "no_code"    -> [b EXCEPT !.executables = <<>>]

-----------------------------------------------------------------------------
(* Decisions *)

Plain ==
    [signers |-> <<"s1">>, kind |-> "any_of", n |-> 0, valid_until |-> {50}, no_expiry |-> FALSE,
     max_calls |-> {3}, unlimited |-> FALSE, widenings |-> <<>>, spending |-> {}]

widen(contract, fn, k, c, v) ==
    [contract |-> contract, fn |-> fn, index |-> k, c |-> c, v |-> v, xdr |-> <<>>, canon |-> TRUE,
     blast |-> "high"]

amountTo(c, v) == <<widen(Token, "transfer", 3, c, v)>>

BaseDecisions ==
    {Plain,
     [Plain EXCEPT !.signers = <<"s1", "s2">>, !.kind = "all_of"],
     [Plain EXCEPT !.signers = <<"s1", "s2">>, !.kind = "threshold", !.n = 2,
                   !.valid_until = {}, !.no_expiry = TRUE],
     [Plain EXCEPT !.kind = "threshold", !.n = 2],
     [Plain EXCEPT !.max_calls = {}, !.unlimited = TRUE],
     [Plain EXCEPT !.max_calls = {1}],
     [Plain EXCEPT !.valid_until = {8}],
     [Plain EXCEPT !.unlimited = TRUE],
     [Plain EXCEPT !.signers = <<"x1">>],
     [Plain EXCEPT !.widenings = amountTo("le_i128", 6)],
     [Plain EXCEPT !.widenings = amountTo("ge_i128", 6)],
     [Plain EXCEPT !.widenings = amountTo("le_i128", 4)],
     [Plain EXCEPT !.widenings = amountTo("any_value", 0)],
     [Plain EXCEPT !.widenings = amountTo("le_i128", 6), !.widenings[1].canon = FALSE],
     [Plain EXCEPT !.widenings = amountTo("any_value", 0), !.widenings[1].blast = "low"],
     [Plain EXCEPT !.widenings = <<widen(Token, "transfer", 2, "le_i128", 5)>>],
     [Plain EXCEPT !.widenings = <<widen(Router, "swap", 1, "ge_i128", 4)>>],
     [Plain EXCEPT !.spending = {[limit |-> 10, period |-> 5, canon |-> TRUE]}],
     [Plain EXCEPT !.spending = {[limit |-> 5, period |-> 5, canon |-> TRUE]}]}

request(d) ==
    [authorizer |-> {}, account |-> {}, decisions |-> d, family |-> "scope",
     spending |-> IF d.spending = {} THEN {} ELSE {"limit_policy"}, snapshot |-> {}]

MCSynthRequests ==
    {request(d) : d \in BaseDecisions}
    \cup {[request(Plain) EXCEPT !.authorizer = {Bob}],
          [request(Plain) EXCEPT !.account = {[address |-> Acct, hash |-> OtherCode]}],
          [request(Plain) EXCEPT !.family = "unheard"],
          [request(CHOOSE d \in BaseDecisions : d.spending # {}) EXCEPT !.spending = {}]}

-----------------------------------------------------------------------------
(* The operator's registry *)

swapRoles == [types |-> <<"i128", "u64">>, roles |-> <<"max_input", "caller_chosen">>]

MCImplemented == [r \in {"router_v1"} |-> [fn \in {"swap"} |-> swapRoles]]

Snapshot ==
    [schema |-> "v1", version |-> 5, log_index |-> 5, previous |-> {}, network |-> "testnet",
     from |-> 0, until |-> 100, keys_ok |-> TRUE,
     policies |-> [h \in {"limit_policy"} |-> "spending_limit"],
     accounts |-> [h \in {AccountCode} |-> [enumeration |-> "bounded_next_id", scan |-> {},
                                            methods |-> {"reviewed"}]],
     verifiers |-> <<>>,
     adapters |-> [h \in {RouterCode} |->
                    [implementation |-> "router_v1", digest |-> "router_v1", review |-> "r"]],
     templates |-> [f \in {"scope"} |->
                    [predicates |-> {"any_of", "all_of", "threshold"},
                     kinds |-> {"any_value", "eq_address", "eq_i128", "eq_scval", "le_i128"}]],
     revocations |-> <<>>]

MCRegistryTrust ==
    [checkpoint |-> {}, minimum |-> 5,
     configured |-> {[snapshot |-> Snapshot, signatures |-> [r \in {"root"} |-> Snapshot]]}]

-----------------------------------------------------------------------------
(* Edits of a specification in the caller's hands *)

MCSpecEdits ==
    {"any_recipient", "amount_exact", "duplicate", "gap", "dynamic", "label", "two_tuples"}

FirstRule(s, f(_)) == [s EXCEPT !.rules[1] = f(s.rules[1])]

MCEditSpec(edit, s) ==
    CASE edit = "any_recipient" ->
            FirstRule(s, LAMBDA r : [r EXCEPT !.calls[1].args[1].c = "any_value"])
      [] edit = "amount_exact" ->
            FirstRule(s, LAMBDA r : [r EXCEPT !.calls[1].args[1].c = "le_i128", !.calls[1].args[1].v = 6,
                                     !.calls[1].args[1].prov = "user_widened"])
      [] edit = "duplicate" ->
            FirstRule(s, LAMBDA r : [r EXCEPT !.calls = Append(@, @[1])])
      [] edit = "gap" ->
            FirstRule(s, LAMBDA r : [r EXCEPT !.calls[1].args = Tail(@)])
      [] edit = "dynamic" ->
            FirstRule(s, LAMBDA r : [r EXCEPT !.kind = "any_of_current_rule_signers",
                                     !.strict = FALSE, !.signers = <<>>])
      [] edit = "label" -> [s EXCEPT !.evidence[1].trust = "rpc_reported"]
      [] edit = "two_tuples" ->
            FirstRule(s, LAMBDA r : [r EXCEPT !.calls = Append(@, [@[1] EXCEPT !.fn = "other"])])

MinI128 == -100

NoSchemes == <<>>

MCArgValues ==
    {address(Acct), address(Bob), address(Carol), I128(4), I128(5), I128(6), I128(7),
     [t |-> "u64", v |-> 9]}
=============================================================================
