------------------------------ MODULE PolicyRule ------------------------------
(***************************************************************************)
(* One rule of a policy specification, and the two programs that decide    *)
(* whether it admits a call: the policy contract compiled from the rule    *)
(* (crates/codegen/src/lib.rs emits it, contracts/golden-transfer-policy   *)
(* is one emitted instance) and the reference evaluator written            *)
(* independently of it (crates/evaluator/src/lib.rs).                      *)
(*                                                                         *)
(* An optional value of the code (a window, a call cap, a stored count) is *)
(* a set of at most one element.  A decision is the first refusal, in the  *)
(* program's own order of checks, whose condition holds.                   *)
(***************************************************************************)
EXTENDS Verdicts, Integers, Sequences, FiniteSets

CONSTANTS
    Accounts,   \* smart accounts
    RuleIds,    \* context rule ids of an account
    Signers,    \* signer identities (address, or verifier and key)
    Rules,      \* the rules policies are compiled from
    Requests    \* authorization attempts the smart account passes on

Kinds == {"any_of", "all_of", "threshold", "any_of_current_rule_signers"}

Distinct(s) == \A j, k \in DOMAIN s : s[j] = s[k] => j = k

ConstraintKinds == {"any_value", "eq_self", "eq_address", "eq_scval"}
                   \cup {"eq_i128", "le_i128", "ge_i128"}

ValidCall(call) ==
    /\ DOMAIN call.args = 1 .. Len(call.args)
    /\ \A k \in DOMAIN call.args :
        /\ call.args[k].c \in ConstraintKinds
        /\ call.args[k].c \in {"eq_i128", "le_i128", "ge_i128"} => call.args[k].v \in Int

(***************************************************************************)
(* What the specification's validation lets through: distinct signers, a   *)
(* named predicate is strict and names someone, a threshold is reachable,  *)
(* a dynamic predicate is not strict, at most one cap and never zero, one  *)
(* constraint per argument and integer bounds on integer arguments.        *)
(***************************************************************************)
Validated(rule) ==
    /\ rule.kind \in Kinds
    /\ rule.signers \in Seq(Signers)
    /\ Distinct(rule.signers)
    /\ rule.strict = (rule.kind # "any_of_current_rule_signers")
    /\ rule.strict => rule.signers # <<>>
    /\ rule.kind = "threshold" => rule.n \in 1 .. Len(rule.signers)
    /\ rule.valid_until \subseteq Nat /\ IsOption(rule.valid_until)
    /\ rule.max_calls \subseteq Nat \ {0} /\ IsOption(rule.max_calls)
    /\ \A k \in DOMAIN rule.calls : ValidCall(rule.calls[k])

ASSUME RulesValidated == \A rule \in Rules : Validated(rule)

(***************************************************************************)
(* What a call's authorization carries: a context rule of the account      *)
(* lists no signer twice, and an argument of integer type is an integer.   *)
(***************************************************************************)
IsArguments(args) ==
    /\ Len(args) \in Nat /\ DOMAIN args = 1 .. Len(args)
    /\ \A k \in DOMAIN args : args[k].t = "i128" => args[k].v \in Int

FromAccount(r) ==
    /\ r.auth \in Seq(Signers)
    /\ r.live \in Seq(Signers)
    /\ Distinct(r.live)
    /\ IsArguments(r.args)

ASSUME RequestsFromAccount == \A r \in Requests : FromAccount(r)

-----------------------------------------------------------------------------
(* Decisions *)

Expired(rule, ledger) == \E until \in rule.valid_until : ledger > until

HasState(rule) == rule.max_calls # {}

SaturatingSub(a, b) == IF a >= b THEN a - b ELSE 0

IsDynamic(rule) == rule.kind = "any_of_current_rule_signers"

-----------------------------------------------------------------------------
(* Arguments.  A value has a type and content; its encoding shows both, so *)
(* equal encodings are equal values.                                       *)

Encode(value) == <<value.t, value.v>>

(* Constraint of the compiled check_call_N on one argument. *)
ArgOk(constraint, value, account) ==
    CASE constraint.c = "any_value"  -> TRUE
      [] constraint.c = "eq_self"    -> value.t = "address" /\ value.v = account
      [] constraint.c = "eq_address" -> value.t = "address" /\ value.v = constraint.v
      [] constraint.c = "eq_i128"    -> value.t = "i128" /\ ~(value.v # constraint.v)
      [] constraint.c = "le_i128"    -> value.t = "i128" /\ ~(value.v > constraint.v)
      [] constraint.c = "ge_i128"    -> value.t = "i128" /\ ~(value.v < constraint.v)
      [] constraint.c = "eq_scval"   -> Encode(value) = constraint.xdr

check_call(call, args, account) ==
    /\ Len(args) = Len(call.args)
    /\ \A k \in DOMAIN call.args : ArgOk(call.args[k], args[k], account)

(* The evaluator's own reading of a constraint. *)
exact_xdr_matches(expected, value) == expected = Encode(value)

constraint_satisfied(constraint, value, account) ==
    \/ constraint.c = "any_value"
    \/ /\ constraint.c = "eq_scval"
       /\ exact_xdr_matches(constraint.xdr, value)
    \/ /\ value.t = "address"
       /\ \/ constraint.c = "eq_self" /\ value.v = account
          \/ constraint.c = "eq_address" /\ value.v = constraint.v
    \/ /\ value.t = "i128"
       /\ \/ constraint.c = "eq_i128" /\ value.v = constraint.v
          \/ constraint.c = "le_i128" /\ value.v <= constraint.v
          \/ constraint.c = "ge_i128" /\ value.v >= constraint.v

tuple_matches(call, args, account) ==
    /\ Len(call.args) = Len(args)
    /\ \A k \in DOMAIN call.args : constraint_satisfied(call.args[k], args[k], account)

-----------------------------------------------------------------------------
(* The compiled contract *)

(* Mutant: counts how often an expected signer authenticated. *)
matched_count_Repeats(authenticated, expected) ==
    Cardinality({j \in DOMAIN authenticated :
                    \E k \in DOMAIN expected : authenticated[j] = expected[k]})

(* matched_count walks the expected signers, so a signer that              *)
(* authenticated twice still counts once.                                  *)
matched_count(authenticated, expected) ==
    Cardinality({k \in DOMAIN expected :
                    \E j \in DOMAIN authenticated : authenticated[j] = expected[k]})

PredicateFails(rule, r) ==
    CASE IsDynamic(rule)         -> matched_count(r.auth, r.live) < 1
      [] rule.kind = "any_of"    -> matched_count(r.auth, rule.signers) < 1
      [] rule.kind = "all_of"    -> matched_count(r.auth, rule.signers) # Len(rule.signers)
      [] rule.kind = "threshold" -> matched_count(r.auth, rule.signers) < rule.n

SetDiverged(rule, r) ==
    /\ rule.strict /\ ~IsDynamic(rule)
    /\ \/ Len(r.live) # Len(rule.signers)
       \/ \E k \in DOMAIN rule.signers :
            ~ \E j \in DOMAIN r.live : r.live[j] = rule.signers[k]

FnOk(rule, r) == \E k \in DOMAIN rule.calls : rule.calls[k].fn = r.fn

TupleOk(rule, r, account) ==
    \E k \in DOMAIN rule.calls :
        /\ rule.calls[k].fn = r.fn
        /\ check_call(rule.calls[k], r.args, account)

(* The checks of enforce after require_auth, in the order it makes them, on *)
(* the installation's marker and stored count.                              *)
enforce_checks(rule, marker, count, ledger, r, account) ==
    << Check(~marker, "MissingState"),
       Check(Expired(rule, ledger), "RuleExpired"),
       Check(r.auth = <<>>, "ZeroSigners"),
       Check(PredicateFails(rule, r), "PredicateUnsatisfied"),
       Check(SetDiverged(rule, r), "SignerSetDiverged"),
       Check(r.kind # "contract", "FunctionNotAllowed"),
       Check(r.contract # rule.contract, "TargetMismatch"),
       Check(~FnOk(rule, r), "FunctionNotAllowed"),
       Check(~TupleOk(rule, r, account), "NoTupleMatched"),
       Check(HasState(rule) /\ count = {}, "MissingState"),
       Check(\E max \in rule.max_calls, used \in count : used >= max,
             "CallCountExceeded") >>

enforce_verdict(rule, marker, count, ledger, r, account) ==
    FirstRefusal(enforce_checks(rule, marker, count, ledger, r, account))

-----------------------------------------------------------------------------
(* The reference evaluator *)

(* count_matched walks the authenticated signers and remembers those it has *)
(* seen: the first occurrence of each expected signer counts.               *)
count_matched(authenticated, expected) ==
    Cardinality({j \in DOMAIN authenticated :
                    /\ \E k \in DOMAIN expected : expected[k] = authenticated[j]
                    /\ \A i \in 1 .. j - 1 : authenticated[i] # authenticated[j]})

(* The sorted encoding that signer_set_hash hashes: how often each signer   *)
(* is listed.                                                               *)
signer_set_hash(s) == [x \in Signers |-> Cardinality({k \in DOMAIN s : s[k] = x})]

EvalPredicateFails(rule, r) ==
    \/ rule.kind = "any_of" /\ count_matched(r.auth, rule.signers) < 1
    \/ rule.kind = "all_of" /\ count_matched(r.auth, rule.signers) < Len(rule.signers)
    \/ rule.kind = "threshold" /\ count_matched(r.auth, rule.signers) < rule.n
    \/ IsDynamic(rule) /\ count_matched(r.auth, r.live) < 1

OutsideLiveSet(r) ==
    \E j \in DOMAIN r.auth : ~ \E k \in DOMAIN r.live : r.live[k] = r.auth[j]

evaluate_checks(rule, count, ledger, r, account) ==
    << Check(r.contract # rule.contract, "NoMatchingRule"),
       Check(Expired(rule, ledger), "RuleExpired"),
       Check(r.auth = <<>>, "ZeroSigners"),
       Check(EvalPredicateFails(rule, r), "PredicateUnsatisfied"),
       Check(rule.strict /\ signer_set_hash(r.live) # signer_set_hash(rule.signers),
             "SignerSetDiverged"),
       Check(OutsideLiveSet(r), "PredicateUnsatisfied"),
       Check(~ \E k \in DOMAIN rule.calls : rule.calls[k].fn = r.fn,
             "FunctionNotAllowed"),
       Check(~ \E k \in DOMAIN rule.calls :
                   /\ rule.calls[k].fn = r.fn
                   /\ tuple_matches(rule.calls[k], r.args, account),
             "NoTupleMatched"),
       Check(HasState(rule) /\ count = {}, "MissingState"),
       Check(\E max \in rule.max_calls, used \in count : used >= max,
             "CallCountExceeded") >>

evaluate_generated_rule(rule, count, ledger, r, account) ==
    FirstRefusal(evaluate_checks(rule, count, ledger, r, account))

(* The code of the contract that stands for a reason of the evaluator. *)
expected_code(reason) ==
    IF reason = "NoMatchingRule" THEN "TargetMismatch" ELSE reason

(* The smart account passes on only signatures of the rule's live signers. *)
AccountAdmits(r) == ~OutsideLiveSet(r)

=============================================================================
