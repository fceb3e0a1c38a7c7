------------------------------ MODULE Synthesis ------------------------------
(***************************************************************************)
(* The synthesizer (crates/synthesizer/src/lib.rs, adapters.rs): verified  *)
(* recordings and the user's decisions become the rules of a policy        *)
(* specification, each argument of each observed call fixed to what was    *)
(* observed unless a decision or a reviewed adapter widens it.  Errors are *)
(* collected; the rationale, text for the reader, is left out.             *)
(***************************************************************************)
EXTENDS Recorder

CONSTANT ExternalSigners  \* signers of kind External: a verifier contract and a key

-----------------------------------------------------------------------------
(* Gates on the evidence and on the decisions *)

allows_synthesis(trust) == trust # "incomplete"

HasAuthorizer(bundle, authorizer) ==
    \E k \in DOMAIN bundle.authorizations : bundle.authorizations[k].authorizer = authorizer

(* The account must have been observed with the code the registry resolved  *)
(* in every recording it authorizes.                                        *)
AccountUnobserved(input) ==
    \E k \in DOMAIN input.bundles :
        LET b == input.bundles[k]
        IN  /\ HasAuthorizer(b, input.authorizer)
            /\ \/ input.authorizer \notin DOMAIN b.executables
               \/ b.executables[input.authorizer].wasm # {input.account.hash}

evidence_gates(input) ==
    LET bundles == ToSet(input.bundles)
    IN  << Check(\E b \in bundles : ~allows_synthesis(b.trust), "EvidenceTrust"),
           Check(\E b \in bundles : b.execution = "failed", "FailedExecution"),
           Check(\E b, c \in bundles : b.network # c.network, "NetworkMismatch"),
           Check(input.account.address # input.authorizer \/ AccountUnobserved(input),
                 "IncompatibleAccount") >>

(* A lifetime and a cap are each either given or waived, never both. *)
decision_gates(d) ==
    << Check(d.signers = <<>>, "NeedsDecision"),
       Check(ToSet(d.signers) \cap ExternalSigners # {}, "UnsupportedPattern"),
       Check(d.valid_until = {} /\ ~d.no_expiry, "NeedsDecision"),
       Check(d.valid_until # {} /\ d.no_expiry, "InvalidDecision"),
       Check(d.max_calls = {} /\ ~d.unlimited, "NeedsDecision"),
       Check(d.max_calls # {} /\ d.unlimited, "InvalidDecision"),
       Check(d.kind = "threshold" /\ d.n \notin 1 .. Len(d.signers), "NeedsDecision") >>

-----------------------------------------------------------------------------
(* What the selected authorizer authorized: every node of its trees *)

(* Recordings with one hash are one recording; their order is the hashes'. *)
Recordings(input) == SetToSeq({recording_hash(b) : b \in ToSet(input.bundles)})

NodesOf(bundle, rec, authorizer) ==
    LET of(a) == bundle.authorizations[a]
        walk(a) == [n \in DOMAIN of(a).nodes |->
                        [call |-> of(a).nodes[n], path |-> <<rec, a, n>>, rec |-> rec]]
    IN  FoldLeft(LAMBDA all, a : IF of(a).authorizer = authorizer THEN all \o walk(a) ELSE all,
                 <<>>, [a \in DOMAIN bundle.authorizations |-> a])

AuthorizedNodes(input) ==
    LET recs == Recordings(input)
    IN  FoldLeft(LAMBDA all, r : all \o NodesOf(recs[r], r, input.authorizer), <<>>,
                 [r \in DOMAIN recs |-> r])

Observed(input) == SelectSeq(AuthorizedNodes(input), LAMBDA o : o.call.k = "call")

observation_gates(input) ==
    LET found == \E k \in DOMAIN input.bundles : HasAuthorizer(input.bundles[k], input.authorizer)
    IN  << Check(\E o \in ToSet(AuthorizedNodes(input)) : o.call.k = "create",
                 "UnsupportedPattern"),
           Check(~found, "AuthorizerNotFound"),
           Check(found /\ Observed(input) = <<>>, "UnsupportedPattern") >>

-----------------------------------------------------------------------------
(* Reviewed adapters *)

(* ArgRole::widening: only the safe direction, from what was observed. *)
role_widening(role, value) ==
    CASE role = "max_input" /\ value.t = "i128" -> {[c |-> "le_i128", v |-> value.v, xdr |-> <<>>]}
      [] role = "caller_chosen"                 -> {[c |-> "any_value", v |-> 0, xdr |-> <<>>]}
      [] OTHER                                  -> {}

(* An adapter applies to a call only when its whole signature is the one    *)
(* that was reviewed.                                                       *)
matches_call(adapter, call) ==
    /\ call.fn \in DOMAIN adapter.functions
    /\ LET f == adapter.functions[call.fn]
       IN  /\ Len(call.args) = Len(f.roles) /\ Len(call.args) = Len(f.types)
           /\ \A k \in DOMAIN call.args : call.args[k].t = f.types[k]

AdapterFor(input, code) == {a \in input.adapters : \E t \in code : t.hash = a.hash}

-----------------------------------------------------------------------------
(* Constraints *)

(* SELF is resolved by the policy at run time. *)
exact_for(value, authorizer) ==
    CASE value.t = "address" /\ value.v = authorizer -> [c |-> "eq_self", v |-> 0, xdr |-> <<>>]
      [] value.t = "address" /\ value.v # authorizer ->
            [c |-> "eq_address", v |-> value.v, xdr |-> <<>>]
      [] value.t = "i128"  -> [c |-> "eq_i128", v |-> value.v, xdr |-> <<>>]
      [] value.t = "other" -> [c |-> "eq_scval", v |-> 0, xdr |-> value.xdr]
      [] OTHER             -> [c |-> "eq_scval", v |-> 0, xdr |-> <<value.t, value.v>>]

(* The first decision about an argument is the one that counts. *)
WideningFor(d, call, k) ==
    LET about == {j \in DOMAIN d.widenings :
                    /\ d.widenings[j].contract = call.contract
                    /\ d.widenings[j].fn = call.fn
                    /\ d.widenings[j].index = k}
    IN  {d.widenings[j] : j \in {i \in about : \A h \in about : i <= h}}

ArgConstraint(k, bound, canon, prov, by) ==
    [ index |-> k, c |-> bound.c, v |-> bound.v, xdr |-> bound.xdr, canon |-> canon,
      prov |-> prov, by |-> by ]

(* exact_constraints, one argument: a decision, else what the reviewed      *)
(* adapter derives, else exactly what was observed.                         *)
constraint_for(call, k, input, d, adapters) ==
    LET value == call.args[k]
        decided == {w \in WideningFor(d, call, k) : w.c = "any_value" \/ value.t = "i128"}
        derived == UNION {role_widening(a.functions[call.fn].roles[k], value) :
                            a \in {x \in adapters : matches_call(x, call)}}
    IN  IF decided # {}
        THEN LET w == CHOOSE x \in decided : TRUE
             IN  ArgConstraint(k, w, w.canon, "user_widened", w.blast)
        ELSE IF WideningFor(d, call, k) = {} /\ derived # {}
        THEN ArgConstraint(k, CHOOSE b \in derived : TRUE, TRUE, "adapter_derived",
                           CHOOSE h \in {a.hash : a \in adapters} : TRUE)
        ELSE ArgConstraint(k, exact_for(value, input.authorizer), TRUE, "observed_exact", {})

(* A numeric bound on an argument that is no i128 has no meaning. *)
Ambiguous(call, d) ==
    \E k \in DOMAIN call.args :
        \E w \in WideningFor(d, call, k) : w.c # "any_value" /\ call.args[k].t # "i128"

exact_constraints(call, input, d, adapters) ==
    [k \in DOMAIN call.args |-> constraint_for(call, k, input, d, adapters)]

(* resolve_target_code_hash over all recordings of a target: one Wasm hash  *)
(* or none, never two and never a Wasm contract that is also an asset.      *)
Sightings(input, contract) ==
    {b.executables[contract] : b \in {x \in ToSet(input.bundles) : contract \in DOMAIN x.executables}}

CodeConflict(input, contract) ==
    Cardinality({o.wasm : o \in Sightings(input, contract)}) > 1

resolve_target_code_hash(input, contract) ==
    LET seen == {o \in Sightings(input, contract) : o.wasm # {}}
    IN  IF CodeConflict(input, contract) THEN {}
        ELSE {[ hash |-> CHOOSE h \in o.wasm : TRUE, role |-> "evidence_only", drift |-> "warn",
                observed |-> o.observed ] :
                o \in {x \in seen : \A y \in seen : y.observed <= x.observed}}

-----------------------------------------------------------------------------
(* One rule per target contract *)

CallsOn(input, contract) == SelectSeq(Observed(input), LAMBDA o : o.call.contract = contract)

(* Equal tuples are one allowed call, justified by every path they were     *)
(* observed on.                                                             *)
allowed_calls(input, d, contract, adapters) ==
    LET calls == CallsOn(input, contract)
        tuple(o) == [fn |-> o.call.fn, args |-> exact_constraints(o.call, input, d, adapters)]
        add(acc, t, path) ==
            IF \E k \in DOMAIN acc : acc[k].fn = t.fn /\ acc[k].args = t.args
            THEN [k \in DOMAIN acc |->
                    IF acc[k].fn = t.fn /\ acc[k].args = t.args
                    THEN [acc[k] EXCEPT !.justified = @ \cup {path}] ELSE acc[k]]
            ELSE Append(acc, [fn |-> t.fn, args |-> t.args, justified |-> {path}])
    IN  FoldLeft(LAMBDA acc, o : add(acc, tuple(o), o.path), <<>>, calls)

AdapterDerived(calls) ==
    \E c \in ToSet(calls) : \E a \in ToSet(c.args) : a.prov = "adapter_derived"

PerRecording(calls, rec) == SelectSeq(calls, LAMBDA o : o.rec = rec)

TotalAmount(calls) == FoldLeft(LAMBDA total, o : total + o.call.args[3].v, 0, calls)

(* validate_spending_limit_shape: argument 2 of every transfer is a bounded *)
(* amount the limit leaves room for, and so is each recording's total.      *)
SpendingLimitFits(choice, allowed, calls) ==
    /\ choice.canon /\ choice.limit > 0 /\ choice.period > 0
    /\ \A c \in ToSet(allowed) :
        /\ Len(c.args) >= 3
        /\ LET amount == c.args[3]
           IN  \/ amount.c = "eq_i128" /\ amount.v \in 0 .. choice.limit
               \/ amount.c = "le_i128" /\ amount.v >= 0
               \/ amount.c = "ge_i128" /\ amount.v <= choice.limit
    /\ \A o \in ToSet(calls) :
        /\ Len(o.call.args) >= 3
        /\ o.call.args[3].t = "i128" /\ o.call.args[3].v \in 0 .. choice.limit
    /\ \A o \in ToSet(calls) : TotalAmount(PerRecording(calls, o.rec)) <= choice.limit

(* A reviewed spending limit goes only on a rule that grants transfers.     *)
SpendingErrors(input, d, allowed, calls) ==
    UNION {LET transfers == {k \in DOMAIN allowed : allowed[k].fn = "transfer"}
           IN  IF Cardinality(transfers) # Len(allowed) THEN {"UnsupportedPattern"}
               ELSE IF input.spending_cap = {} THEN {"UnregisteredPolicy"}
               ELSE IF SpendingLimitFits(choice, allowed, calls) THEN {}
               ELSE {"InvalidDecision"} : choice \in d.spending}

(* What an adapter derived holds only for the code it was reviewed for, so  *)
(* the rule refuses drift.                                                  *)
rule_for(input, d, contract) ==
    LET rule(code, allowed) ==
            [ contract |-> contract,
              code |-> IF AdapterDerived(allowed)
                       THEN {[t EXCEPT !.role = "adapter_required", !.drift = "refuse"] : t \in code}
                       ELSE code,
              valid_until |-> d.valid_until, kind |-> d.kind, n |-> d.n, strict |-> TRUE,
              signers |-> d.signers, calls |-> allowed, max_calls |-> d.max_calls,
              limits |-> d.spending, generated |-> 1 ]
        of(code) == rule(code, allowed_calls(input, d, contract, AdapterFor(input, code)))
    IN  of(resolve_target_code_hash(input, contract))

Targets(input) == {o.call.contract : o \in ToSet(Observed(input))}

rule_errors(input, d, rule, calls) ==
    AllRefusals(
            << Check(CodeConflict(input, rule.contract), "UnsupportedPattern"),
               Check(\E o \in ToSet(calls) : Ambiguous(o.call, d), "AmbiguousArgSemantics"),
               Check(\E max \in d.max_calls : \E o \in ToSet(calls) :
                        max < Len(PerRecording(calls, o.rec)), "InvalidDecision") >>)
        \cup SpendingErrors(input, d, rule.calls, calls)

(* A decision that widened nothing is reported. *)
IsWidening(a) == a.c \in {"le_i128", "ge_i128", "any_value"}

UnusedWidening(rules, d) ==
    \E w \in ToSet(d.widenings) :
        ~ \E r \in rules : \E c \in ToSet(r.calls) :
            /\ r.contract = w.contract /\ c.fn = w.fn
            /\ \E a \in ToSet(c.args) : a.index = w.index /\ IsWidening(a)

-----------------------------------------------------------------------------
(* synthesize: the errors it collects, and the specification when none *)

gate_errors(input, d) ==
    IF input.bundles = <<>> THEN {"NoEvidence"}
    ELSE AllRefusals(evidence_gates(input) \o decision_gates(d) \o observation_gates(input))

synth_errors(input, d) ==
    LET over(rules) ==
            UNION {rule_errors(input, d, rule, CallsOn(input, rule.contract)) : rule \in rules}
            \cup (IF UnusedWidening(rules, d) THEN {"AmbiguousArgSemantics"} ELSE {})
        unless(errors) == IF errors # {} THEN errors
                          ELSE over({rule_for(input, d, c) : c \in Targets(input)})
    IN  unless(gate_errors(input, d))

synthesized(input, d) ==
    LET over(targets, recs) ==
            [ schema |-> "v1", network |-> input.bundles[1].network, account |-> input.account,
              rules |-> [k \in DOMAIN targets |-> rule_for(input, d, targets[k])],
              evidence |-> [k \in DOMAIN recs |-> [hash |-> recs[k], trust |-> recs[k].trust]] ]
    IN  over(SetToSeq(Targets(input)), Recordings(input))

=============================================================================
