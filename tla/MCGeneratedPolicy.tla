-------------------------- MODULE MCGeneratedPolicy --------------------------
(* Rules and requests for model checking GeneratedPolicy. *)
EXTENDS GeneratedPolicy

Address(x) == [t |-> "address", v |-> x]
I128(n) == [t |-> "i128", v |-> n]
Other(x) == [t |-> "other", v |-> x]
Must(c, v) == [c |-> c, v |-> v]
Encoded(value) == [c |-> "eq_scval", v |-> 0, xdr |-> Encode(value)]

(* transfer(SELF, merchant, amount) as the golden policy fixes it, with its *)
(* amount relaxed to a bound and a note left open in the second shape.      *)
ExactTransfer == [fn |-> "transfer", args |-> << Must("eq_self", 0), Must("eq_address", "m"),
                                                 Must("eq_i128", 5) >>]
BoundedSwap == [fn |-> "swap", args |-> << Must("le_i128", 5), Must("ge_i128", 2),
                                           Encoded(Other("path")),
                                           Must("any_value", 0) >>]

Rule(kind, n, signers, until, max) ==
    [contract |-> "token", kind |-> kind, n |-> n, signers |-> signers,
     strict |-> kind # "any_of_current_rule_signers",
     calls |-> << ExactTransfer, BoundedSwap >>, valid_until |-> until, max_calls |-> max]

Request(contract, fn, args, auth, live) ==
    [kind |-> "contract", contract |-> contract, fn |-> fn, args |-> args,
     auth |-> auth, live |-> live]

-----------------------------------------------------------------------------
(* A rule with window and cap, one with neither and two signers needed. *)

LifecycleRules == { Rule("any_of", 0, <<"s1", "s2">>, {5}, {2}),
                    Rule("threshold", 2, <<"s1", "s2">>, {}, {}) }

Transfer(a, amount) == << Address(a), Address("m"), I128(amount) >>

(* Transfers of either account by both signers, which the other's           *)
(* installation refuses; by one signer listed twice; a swap inside its      *)
(* bounds while the rule's signers have changed.                            *)
LifecycleRequests ==
    { Request("token", "transfer", Transfer(a, 5), <<"s1", "s2">>, <<"s1", "s2">>) :
        a \in Accounts }
    \cup { Request("token", "transfer", Transfer("a1", 5), <<"s1", "s1">>, <<"s1", "s2">>),
           Request("token", "swap", << I128(5), I128(2), Other("path"), Other("x") >>,
                   <<"s1">>, <<"s1", "s3">>) }

=============================================================================
