---------------------------- MODULE SpecValidation ----------------------------
(***************************************************************************)
(* PolicySpec::validate (crates/policy-spec/src/lib.rs): every artifact    *)
(* downstream is made from a specification that passed it, whether the     *)
(* synthesizer wrote the specification or a person edited it.  Errors are  *)
(* collected.  Text is abstracted to "well formed" or not.  Left out are   *)
(* the order of the listed evidence, the spelling of signer addresses and  *)
(* the bytes of all values together: each only refuses more.               *)
(***************************************************************************)
EXTENDS Synthesis

CONSTANTS
    MaxRules, MaxRecordings, MaxCalls, MaxPolicies, MaxSigners, MaxArgs, MaxJustifications

Numeric == {"eq_i128", "le_i128", "ge_i128"}

(* Text in the grammar of a symbol; a number and a value in their one      *)
(* spelling.                                                               *)
symbol_is_valid(text) == text # BadText

is_canonical_i128(bound) == bound.canon

validate_canonical_scval(bound) == bound.canon

validate_address(address) == address # BadText

(* Argument indexes are exactly those of a complete tuple.  The model       *)
(* counts positions from one.                                               *)
CompleteTuple(call) == {a.index : a \in ToSet(call.args)} = 1 .. Len(call.args)

SameGrant(left, right) ==
    /\ left.fn = right.fn
    /\ Len(left.args) = Len(right.args)
    /\ {<<a.index, a.c, a.v, a.xdr>> : a \in ToSet(left.args)}
        = {<<a.index, a.c, a.v, a.xdr>> : a \in ToSet(right.args)}

(* evidence_reference_is_valid: a node of an authorization of a recording   *)
(* the specification lists.                                                 *)
ReferenceValid(path, recordings) == path[1] \in 1 .. recordings /\ path[2] >= 1

(* A composed spending limit must leave some nonnegative amount to permit.  *)
SpendingLimitSound(limit, call) ==
    /\ call.fn = "transfer"
    /\ \E a \in ToSet(call.args) :
        /\ a.index = 3
        /\ \/ a.c = "eq_i128" /\ a.v \in 0 .. limit.limit
           \/ a.c = "le_i128" /\ a.v >= 0
           \/ a.c = "ge_i128" /\ a.v <= limit.limit

limit_errors(rule) ==
    UNION {AllRefusals(
        << Check(~is_canonical_i128(limit) \/ limit.limit <= 0 \/ limit.period = 0, "ReviewedPolicy"),
           Check(\E c \in ToSet(rule.calls) : ~SpendingLimitSound(limit, c), "ReviewedPolicy") >>)
        : limit \in rule.limits}

(* The parameters of a composed policy once more, with the other policies. *)
policy_errors(rule) ==
    UNION {AllRefusals(<< Check(~is_canonical_i128(limit), "I128"),
                          Check(limit.period = 0, "Limits") >>) : limit \in rule.limits}

signer_errors(rule) ==
    LET dynamic == rule.kind = "any_of_current_rule_signers"
    IN  AllRefusals(
        << Check(Len(rule.signers) > MaxSigners, "Limits"),
           Check(ToSet(rule.signers) \cap ExternalSigners # {}, "ExternalSignerUnsupported"),
           Check(Cardinality(ToSet(rule.signers)) # Len(rule.signers), "DuplicateSigner"),
           Check(dynamic /\ rule.strict, "DynamicStrict"),
           Check(~dynamic /\ rule.signers = <<>>, "NoSigners"),
           Check(~dynamic /\ ~rule.strict, "StrictRequired"),
           Check(rule.kind = "threshold" /\ rule.n \notin 1 .. Len(rule.signers), "Threshold") >>)

(* What an adapter derived must be bound to the code it was reviewed for.   *)
AdapterUnbound(rule, arg) ==
    /\ arg.prov = "adapter_derived"
    /\ ~ \E t \in rule.code :
            t.hash = arg.by /\ t.role = "adapter_required" /\ t.drift = "refuse"

arg_errors(rule, arg) ==
    AllRefusals(
        << Check(arg.c \in Numeric /\ ~is_canonical_i128(arg), "I128"),
           Check(arg.c = "eq_address" /\ ~validate_address(arg.v), "Address"),
           Check(arg.c = "eq_scval" /\ ~validate_canonical_scval(arg), "Scval"),
           Check(IsWidening(arg) /\ arg.prov = "observed_exact", "WideningProvenance"),
           Check(arg.c = "any_value" /\ arg.prov = "user_widened" /\ arg.by # "high",
                 "AnyValueBlastRadius"),
           Check(AdapterUnbound(rule, arg), "AdapterBinding") >>)

(* A call rests on nodes of recordings the specification lists.  The model  *)
(* keeps them as a set, so a repeated one (DuplicateJustification) does not *)
(* occur.                                                                   *)
justification_errors(spec, call) ==
    AllRefusals(
        << Check(call.justified = {}, "Unjustified"),
           Check(Cardinality(call.justified) > MaxJustifications, "Limits"),
           Check(\E path \in call.justified : ~ReferenceValid(path, Len(spec.evidence)),
                 "EvidenceReference") >>)

call_errors(spec, rule, call) ==
    AllRefusals(
        << Check(~symbol_is_valid(call.fn), "Symbol"),
           Check(Len(call.args) > MaxArgs, "Limits"),
           Check(~CompleteTuple(call), "ArgIndexes") >>)
    \cup UNION {arg_errors(rule, arg) : arg \in ToSet(call.args)}
    \cup justification_errors(spec, call)

DuplicateCalls(rule) ==
    \E j, k \in DOMAIN rule.calls : j < k /\ SameGrant(rule.calls[j], rule.calls[k])

rule_checks(rule) ==
    << Check(rule.contract \notin Contracts, "Address"),
       Check(\E until \in rule.valid_until, t \in rule.code : until <= t.observed,
             "ExpiryNotAfterEvidence"),
       Check(rule.calls = <<>>, "NoCalls"),
       Check(Len(rule.calls) > MaxCalls, "Limits"),
       Check(Cardinality(rule.limits) + rule.generated > MaxPolicies, "Limits"),
       Check(rule.generated # 1, "SignerPolicy"),
       Check(0 \in rule.max_calls \/ Cardinality(rule.max_calls) > 1, "State"),
       Check(DuplicateCalls(rule), "DuplicateCall") >>

rule_validation(spec, rule) ==
    AllRefusals(rule_checks(rule)) \cup limit_errors(rule) \cup signer_errors(rule)
    \cup policy_errors(rule)
    \cup UNION {call_errors(spec, rule, call) : call \in ToSet(rule.calls)}

spec_errors(spec) ==
    AllRefusals(
        << Check(spec.schema # "v1", "Schema"),
           Check(spec.rules = <<>>, "NoRules"),
           Check(Len(spec.rules) > MaxRules, "GlobalLimits"),
           Check(spec.evidence = <<>>, "NoEvidence"),
           Check(Len(spec.evidence) > MaxRecordings, "GlobalLimits"),
           Check(\E j, k \in DOMAIN spec.evidence :
                    j # k /\ spec.evidence[j].hash = spec.evidence[k].hash, "DuplicateEvidence"),
           Check(spec.account.address \notin Contracts, "Address") >>)
    \cup UNION {rule_validation(spec, rule) : rule \in ToSet(spec.rules)}

(* synthesize returns no specification that its own validation refuses. *)
synthesize(input, d) ==
    LET validated(s) == IF spec_errors(s) # {} THEN [errors |-> {"InvalidDecision"}, spec |-> {}]
                        ELSE [errors |-> {}, spec |-> {s}]
        unless(errors) == IF errors # {} THEN [errors |-> errors, spec |-> {}]
                          ELSE validated(synthesized(input, d))
    IN  unless(synth_errors(input, d))

=============================================================================
