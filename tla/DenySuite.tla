------------------------------ MODULE DenySuite ------------------------------
(***************************************************************************)
(* The dry-run harness (crates/harness/src/lib.rs, accepted_tuple.rs):     *)
(* from each rule of a validated specification it derives calls the policy *)
(* must permit and calls it must refuse, labels them with a matcher of its *)
(* own, and counts where the evaluator disagrees and which classes of      *)
(* boundary the rule has but no case exercises.                            *)
(***************************************************************************)
EXTENDS PolicyRule, SequencesExt

CONSTANTS
    I128Min, I128Max,   \* the ends of the i128 range
    U32Max, U64Max,     \* the largest u32 and u64
    Unknown, Unknown2,  \* signers no rule names
    Stranger,           \* an address no rule names
    True, False         \* the two values of an ScVal of type bool

(* A signer that is not among the known ones. *)
fresh_signer(known) == IF Unknown \in ToSet(known) THEN Unknown2 ELSE Unknown

InRange(n) == n \in I128Min .. I128Max

Case(class, request, ledger, count, permit) ==
    [class |-> class, r |-> request, ledger |-> ledger, count |-> count, permit |-> permit]

ArgClasses == {"ArgEquality", "NumericBoundary", "DifferentAddressArg", "ArgArity",
               "TypeConfusion", "TupleCrossProduct"}

Strict(rule) == rule.strict /\ ~IsDynamic(rule)

-----------------------------------------------------------------------------
(* accepted_tuple: the labels come from this matcher, not the evaluator *)

matches_constraint(a, value, account) ==
    \/ a.c = "any_value"
    \/ value.t = "address" /\ a.c = "eq_self" /\ value.v = account
    \/ value.t = "address" /\ a.c = "eq_address" /\ value.v = a.v
    \/ a.c = "eq_scval" /\ value.t \notin {"address", "i128"} /\ <<value.t, value.v>> = a.xdr
    \/ value.t = "i128" /\ a.c = "eq_i128" /\ value.v = a.v
    \/ value.t = "i128" /\ a.c = "le_i128" /\ value.v <= a.v
    \/ value.t = "i128" /\ a.c = "ge_i128" /\ value.v >= a.v

(* Mutant: the label forgets that an argument may be missing. *)
accepts_AnyArity(rule, account, fn, args) ==
    \E call \in ToSet(rule.calls) :
        /\ call.fn = fn
        /\ \A k \in DOMAIN call.args \cap DOMAIN args :
            matches_constraint(call.args[k], args[k], account)

accepts(rule, account, fn, args) ==
    \E call \in ToSet(rule.calls) :
        /\ call.fn = fn
        /\ Len(call.args) = Len(args)
        /\ \A k \in DOMAIN args : matches_constraint(call.args[k], args[k], account)

-----------------------------------------------------------------------------
(* A concrete call for each allowed tuple, in a context that satisfies the rule *)

concrete_for(a, account) ==
    CASE a.c = "eq_self"    -> [t |-> "address", v |-> account]
      [] a.c = "eq_address" -> [t |-> "address", v |-> a.v]
      [] a.c = "eq_scval"   -> [t |-> a.xdr[1], v |-> a.xdr[2]]
      [] a.c = "any_value"  -> [t |-> "i128", v |-> 0]
      [] OTHER              -> [t |-> "i128", v |-> a.v]

concrete_args(call, account) == [k \in DOMAIN call.args |-> concrete_for(call.args[k], account)]

baseline_signers(rule) ==
    IF rule.signers = <<>> /\ IsDynamic(rule) THEN <<fresh_signer(<<>>)>> ELSE rule.signers

baseline_ledger(rule) ==
    IF rule.valid_until = {} THEN 1000
    ELSE LET until == CHOOSE u \in rule.valid_until : TRUE
         IN  IF until = 0 THEN 0 ELSE until - 1

baseline_count(rule) == IF HasState(rule) THEN {0} ELSE {}

Request(rule, fn, args) ==
    [ kind |-> "contract", contract |-> rule.contract, fn |-> fn, args |-> args,
      auth |-> baseline_signers(rule), live |-> baseline_signers(rule) ]

(* A case in the rule's baseline context. *)
Baseline(rule, class, request, permit) ==
    Case(class, request, baseline_ledger(rule), baseline_count(rule), permit)

original_invocation(rule, account) ==
    Request(rule, rule.calls[1].fn, concrete_args(rule.calls[1], account))

-----------------------------------------------------------------------------
(* Mutations of one argument *)

I128(n) == [t |-> "i128", v |-> n]

StrangerAddress == [t |-> "address", v |-> Stranger]

(* Checked arithmetic: what would overflow yields no case. *)
Around(class, numbers) == {<<I128(n), class>> : n \in {x \in numbers : InRange(x)}}

(* Mutant: the value just past an upper bound is not tried. *)
UpperProbes_NotAbove(max) == {max - 1, max, I128Min}

UpperProbes(max) == {max - 1, max, max + 1, I128Min}

U64Probes(n) == (IF n < U64Max THEN {n + 1} ELSE {}) \cup (IF n < U64Max - 1 THEN {U64Max} ELSE {})

arg_mutations(a, value) ==
    CASE a.c = "eq_i128" ->
            Around("ArgEquality", {value.v + 1, value.v - 1, value.v * 10} \ {value.v})
            \cup Around("NumericBoundary", {0, I128Max} \ {value.v})
            \cup {<<StrangerAddress, "TypeConfusion">>}
      [] a.c = "le_i128" ->
            Around("NumericBoundary", UpperProbes(a.v))
            \cup {<<StrangerAddress, "TypeConfusion">>}
      [] a.c = "ge_i128" ->
            Around("NumericBoundary", {a.v - 1, a.v, a.v + 1, I128Max})
            \cup {<<StrangerAddress, "TypeConfusion">>}
      [] a.c \in {"eq_self", "eq_address"} ->
            {<<StrangerAddress, "DifferentAddressArg">>, <<I128(42), "TypeConfusion">>}
      [] a.c = "eq_scval" ->
            {<<[t |-> "bool", v |-> IF value = [t |-> "bool", v |-> False] THEN True ELSE False],
               "ArgEquality">>}
            \cup (IF value.t = "u64"
                  THEN {<<[t |-> "u64", v |-> n], "ArgEquality">> : n \in U64Probes(value.v)} ELSE {})
      [] a.c = "any_value" ->
            {<<I128(I128Max), "NumericBoundary">>, <<StrangerAddress, "TypeConfusion">>}

arg_cases(rule, call, account) ==
    LET base == concrete_args(call, account)
        one(k) == {Baseline(rule, m[2], Request(rule, call.fn, [base EXCEPT ![k] = m[1]]), FALSE) :
                    m \in arg_mutations(call.args[k], base[k])}
    IN  UNION {one(k) : k \in DOMAIN base}

call_cases(rule, call, account) ==
    LET base == concrete_args(call, account)
        shorter == IF base = <<>> THEN {} ELSE {Front(base)}
    IN  {Baseline(rule, "Original", Request(rule, call.fn, base), TRUE),
         Baseline(rule, "DifferentContract",
                  [Request(rule, call.fn, base) EXCEPT !.contract = "elsewhere"], FALSE),
         Baseline(rule, "DifferentFunction", Request(rule, "absent", base), FALSE)}
        \cup arg_cases(rule, call, account)
        \cup {Baseline(rule, "ArgArity", Request(rule, call.fn, args), FALSE) :
                args \in {Append(base, I128(1))} \cup shorter}

-----------------------------------------------------------------------------
(* Signers *)

required_signers(rule) ==
    CASE rule.kind = "all_of"    -> Len(rule.signers)
      [] rule.kind = "threshold" -> rule.n
      [] OTHER                   -> 1

signer_cases(rule, account) ==
    LET base == original_invocation(rule, account)
        need == required_signers(rule)
        with(class, auth, permit) == Baseline(rule, class, [base EXCEPT !.auth = auth], permit)
        live(signers) == Baseline(rule, "StrictSetMutation", [base EXCEPT !.live = signers], FALSE)
        times == IF need > 2 THEN need ELSE 2
    IN  {with("ZeroSigners", <<>>, FALSE),
         with("WrongSigner", <<fresh_signer(base.live)>>, FALSE),
         with("SignerBoundary", [k \in 1 .. times |-> base.auth[1]], need = 1),
         with("SignerBoundary", Append(base.auth, fresh_signer(base.live)), FALSE)}
        \cup (IF need > 1 THEN {with("SignerBoundary", SubSeq(base.auth, 1, need - 1), FALSE)}
              ELSE {})
        \cup (IF Strict(rule) THEN {live(Append(base.live, fresh_signer(base.live))), live(<<fresh_signer(base.live)>>)}
              ELSE {})

-----------------------------------------------------------------------------
(* The window, the call count, and mixtures of two tuples *)

time_cases(rule, account) ==
    LET at(ledger, permit) == Case("TimeBoundary", original_invocation(rule, account), ledger,
                                   baseline_count(rule), permit)
    IN  UNION {(IF until < U32Max THEN {at(until + 1, FALSE)} ELSE {})
               \cup {at(until, TRUE), at(IF until = 0 THEN 0 ELSE until - 1, TRUE)} :
               until \in rule.valid_until}

count_cases(rule, account) ==
    LET with(class, count, permit) ==
            Case(class, original_invocation(rule, account), baseline_ledger(rule), count, permit)
    IN  UNION {{with("CallCountBoundary", {0}, TRUE),
                with("CallCountBoundary", {max}, FALSE),
                with("CallCountBoundary", {max - 1}, TRUE),
                with("CallCountBoundary", {U32Max}, FALSE),
                with("MissingState", {}, FALSE)}
               \cup (IF max < U32Max THEN {with("CallCountBoundary", {max + 1}, FALSE)} ELSE {}) :
               max \in rule.max_calls}

(* One argument of a tuple replaced by that of another, unless some tuple   *)
(* already is that mixture.                                                 *)
cross_cases(rule, account) ==
    LET tuple(k) == concrete_args(rule.calls[k], account)
        observed(fn) == {tuple(k) : k \in {j \in DOMAIN rule.calls : rule.calls[j].fn = fn}}
        mixtures(i, j) ==
            IF i < j /\ rule.calls[i].fn = rule.calls[j].fn /\ Len(tuple(i)) = Len(tuple(j))
            THEN {[tuple(i) EXCEPT ![k] = tuple(j)[k]] : k \in DOMAIN tuple(i)}
                 \ observed(rule.calls[i].fn)
            ELSE {}
    IN  UNION {{Baseline(rule, "TupleCrossProduct", Request(rule, rule.calls[i].fn, args), FALSE) :
                    args \in mixtures(i, j)} : i, j \in DOMAIN rule.calls}

(* Every case about arguments is labelled by the matcher. *)
relabel(rule, case, account) ==
    IF case.class \in ArgClasses
    THEN [case EXCEPT !.permit = accepts(rule, account, case.r.fn, case.r.args)]
    ELSE case

build_rule_suite(rule, account) ==
    {relabel(rule, case, account) : case \in
        UNION {call_cases(rule, call, account) : call \in ToSet(rule.calls)}
        \cup signer_cases(rule, account) \cup time_cases(rule, account)
        \cup count_cases(rule, account) \cup cross_cases(rule, account)}

-----------------------------------------------------------------------------
(* What the report says *)

Constraint(a) == <<a.c, a.v, a.xdr>>

(* Whether two tuples differ in two constraints. *)
rule_can_produce_cross_products(rule) ==
    \E i, j \in DOMAIN rule.calls :
        /\ i < j
        /\ rule.calls[i].fn = rule.calls[j].fn
        /\ Len(rule.calls[i].args) = Len(rule.calls[j].args)
        /\ \E k, h \in DOMAIN rule.calls[i].args :
            /\ k # h
            /\ \A x \in {k, h} : Constraint(rule.calls[i].args[x])
                                  # Constraint(rule.calls[j].args[x])

expected_classes_for_rule(rule) ==
    LET kinds == UNION {{a.c : a \in ToSet(call.args)} : call \in ToSet(rule.calls)}
        when(holds, classes) == IF holds THEN classes ELSE {}
    IN  {"Original", "DifferentContract", "DifferentFunction", "ArgArity", "ZeroSigners",
         "WrongSigner", "SignerBoundary"}
        \cup when(rule.valid_until # {}, {"TimeBoundary"})
        \cup when(HasState(rule), {"CallCountBoundary", "MissingState"})
        \cup when(Strict(rule), {"StrictSetMutation"})
        \cup when(kinds \cap {"eq_self", "eq_address"} # {},
                  {"DifferentAddressArg", "TypeConfusion"})
        \cup when("eq_i128" \in kinds, {"ArgEquality", "NumericBoundary", "TypeConfusion"})
        \cup when(kinds \cap {"le_i128", "ge_i128", "any_value"} # {},
                  {"NumericBoundary", "TypeConfusion"})
        \cup when("eq_scval" \in kinds, {"ArgEquality"})
        \cup when(rule_can_produce_cross_products(rule), {"TupleCrossProduct"})

missing_classes(rule, account) ==
    expected_classes_for_rule(rule) \ {case.class : case \in build_rule_suite(rule, account)}

permit_only_classes(rule, account) ==
    LET suite == build_rule_suite(rule, account)
    IN  {case.class : case \in suite} \ ({case.class : case \in {c \in suite : ~c.permit}}
                                         \cup {"Original"})

(* run_layer1: where the evaluator does not answer as labelled. *)
Disagreements(rule, account) ==
    {case \in build_rule_suite(rule, account) :
        (evaluate_generated_rule(rule, case.count, case.ledger, case.r, account) = "Permit")
            # case.permit}

=============================================================================
