------------------------------ MODULE Authoring ------------------------------
(***************************************************************************)
(* Authoring a policy through the toolkit facade (crates/toolkit/src/      *)
(* lib.rs, verification.rs): evidence is acquired and recorded, recordings *)
(* and specifications travel as documents the caller can edit between two  *)
(* calls, a specification is synthesized from recordings and decisions,    *)
(* and a rule of it is generated and verified.                             *)
(*                                                                         *)
(* Every tool call is one action; what travels between two calls is in the *)
(* caller's hands.                                                         *)
(***************************************************************************)
EXTENDS SpecValidation, DenySuite, Registry

CONSTANTS
    Acquisitions,    \* what the first, second... acquisition can be: [snapshot, options]
    BundleEdits,     \* edits of a recording in the caller's hands
    EditBundle(_, _),
    SynthRequests,   \* requests to synthesize_policy
    SpecEdits,       \* edits of a specification in the caller's hands
    EditSpec(_, _),
    RegistryTrust,   \* the operator's registry configuration
    Now,             \* the time of the calls
    ArgValues        \* argument values the properties try

VARIABLES
    shelf,    \* recordings the caller holds, each with whether it was edited
    draft,    \* the last synthesis: its input, decisions and specification
    spec,     \* the specification document the caller holds
    built,    \* what was last generated, and the report of its verification
    answer    \* the last refusal, or "ok"

vars == <<shelf, draft, spec, built, answer>>

-----------------------------------------------------------------------------
(* Recording *)

(* record_snapshot; import_recording is the same for an imported snapshot. *)
record_snapshot(a) ==
    LET verdict == FirstRefusal(record_checks(a.snapshot, a.options))
    IN  /\ spec = {}
        /\ IF verdict = "Permit"
           THEN /\ shelf' = Append(shelf, [bundle |-> record(a.snapshot, a.options),
                                           edited |-> FALSE])
                /\ answer' = "ok"
           ELSE answer' = verdict /\ UNCHANGED shelf
        /\ UNCHANGED <<draft, spec, built>>

(* The caller edits a recording, any field of the document.  Bound: one     *)
(* edit in all.                                                             *)
TamperRecording(k, edit) ==
    /\ k \in DOMAIN shelf /\ spec = {}
    /\ \A j \in DOMAIN shelf : ~shelf[j].edited
    /\ EditBundle(edit, shelf[k].bundle) # shelf[k].bundle
    /\ shelf' = [shelf EXCEPT ![k] = [bundle |-> EditBundle(edit, @.bundle), edited |-> TRUE]]
    /\ UNCHANGED <<draft, spec, built, answer>>

-----------------------------------------------------------------------------
(* Synthesis *)

(* A label that crossed the wire is worth at most self_supplied. *)
downgraded_to_self_supplied(trust) == IF trust = "incomplete" THEN trust ELSE "self_supplied"

(* Authorizers observed to run Wasm code, and the code last observed. *)
smart_account_candidates(bundles) ==
    {x \in UNION {{b.authorizations[a].authorizer : a \in DOMAIN b.authorizations}
                    : b \in ToSet(bundles)} :
        \E b \in ToSet(bundles) : /\ HasAuthorizer(b, x)
                                  /\ x \in DOMAIN b.executables
                                  /\ b.executables[x].wasm # {}}

CodeLastObserved(bundles, x) ==
    LET seen == {k \in DOMAIN bundles : /\ HasAuthorizer(bundles[k], x)
                                        /\ x \in DOMAIN bundles[k].executables
                                        /\ bundles[k].executables[x].wasm # {}}
    IN  CHOOSE h \in bundles[CHOOSE k \in seen : \A j \in seen : j <= k].executables[x].wasm : TRUE

derive_selected_authorizer(bundles, named) ==
    IF named # {} THEN named ELSE smart_account_candidates(bundles)

derive_account_record(bundles, authorizer, given) ==
    IF given # {} THEN given
    ELSE {[address |-> x, hash |-> CodeLastObserved(bundles, x)] :
            x \in {authorizer} \cap smart_account_candidates(bundles)}

(* The registry an operator pinned: a checkpoint, or only a version floor. *)
PinnedRegistry ==
    IF RegistryTrust.checkpoint # {}
    THEN with_pinned_roots_for_network_at_checkpoint(CHOOSE c \in RegistryTrust.checkpoint : TRUE)
    ELSE with_pinned_roots_for_network_at_version(RegistryTrust.minimum)

(* The targets whose observed code may have a reviewed adapter. *)
AdapterCodes(bundles, authorizer) ==
    UNION {UNION {UNION {IF n.k = "call" /\ n.contract \in DOMAIN b.executables
                         THEN b.executables[n.contract].wasm ELSE {} :
                             n \in ToSet(b.authorizations[a].nodes)} :
                         a \in {x \in DOMAIN b.authorizations :
                                    b.authorizations[x].authorizer = authorizer}} :
                     b \in ToSet(bundles)}

resolution_checks(reg, account, request, codes) ==
    resolve_account(reg, account.hash) \o resolve_template(reg, request.family)
    \o FoldLeft(LAMBDA all, h :
                    all \o resolve_policy(reg, h)
                        \o << Check(\E c \in reg.current : h \in DOMAIN c.policies /\ c.policies[h] # "spending_limit",
                                    "UnregisteredPolicy") >>,
                <<>>, SetToSeq(request.spending))
    \o FoldLeft(LAMBDA all, h : all \o resolve_target_adapter(reg, h), <<>>, SetToSeq(codes))

within_declared_capabilities(rules, template) ==
    \A rule \in ToSet(rules) :
        /\ rule.kind \in template.predicates
        /\ \A call \in ToSet(rule.calls) :
            \A arg \in ToSet(call.args) :
                (IF arg.c = "eq_self" THEN "eq_address" ELSE arg.c) \in template.kinds

Refused(code) == [error |-> code, draft |-> {}]

(* What the synthesizer returned, against the template and once more whole. *)
draft_of(docs, request, input, template, out) ==
    IF out.errors # {} THEN Refused(CHOOSE e \in out.errors : TRUE)
    ELSE IF \E s \in out.spec : ~within_declared_capabilities(s.rules, template)
    THEN Refused("UnsupportedPattern")
    ELSE IF \E s \in out.spec : spec_errors(s) # {} THEN Refused("SpecInvalid")
    ELSE [error |-> "ok", draft |-> {[spec |-> s, input |-> input, docs |-> docs,
                                      decisions |-> request.decisions] : s \in out.spec}]

(* The account, the family, the limits and the targets' adapters are looked *)
(* up in the registry before anything is synthesized.                       *)
resolve_and_synthesize(docs, request, bundles, authorizer, account, reg) ==
    LET drafted(input) == draft_of(docs, request, input, Of(reg).templates[request.family],
                                   synthesize(input, request.decisions))
        with(codes) == drafted([ bundles |-> bundles, authorizer |-> authorizer, account |-> account,
                                 spending_cap |-> request.spending,
                                 adapters |-> UNION {adapter_of(reg, h) : h \in codes} ])
        unless(resolved, codes) == IF Passes(resolved) THEN with(codes)
                                   ELSE Refused(FirstRefusal(resolved))
        looking(codes) == unless(resolution_checks(reg, account, request, codes), codes)
    IN  looking(AdapterCodes(bundles, authorizer))

(* synthesize_policy, stage by stage, on the documents as they arrive. *)
synthesize_policy(docs, request) ==
    LET verified == FoldLeft(LAMBDA all, b : all \o verify_checks(b), <<>>, docs)
        bundles == [k \in DOMAIN docs |->
                        [docs[k] EXCEPT !.trust = downgraded_to_self_supplied(@)]]
        authorizers == derive_selected_authorizer(bundles, request.authorizer)
        authorizer == CHOOSE x \in authorizers : TRUE
        accounts == derive_account_record(bundles, authorizer, request.account)
        account == CHOOSE x \in accounts : TRUE
        snapshots == IF request.snapshot # {} THEN request.snapshot ELSE RegistryTrust.configured
        snapshot == CHOOSE s \in snapshots : TRUE
        loading == load_checks(PinnedRegistry, snapshot, bundles[1].network, Now)
    IN  IF docs = <<>> THEN Refused("NoEvidence")
        ELSE IF ~Passes(verified) THEN Refused(FirstRefusal(verified))
        ELSE IF Cardinality(authorizers) # 1 THEN Refused("AuthorizerNotFound")
        ELSE IF accounts = {} THEN Refused("IncompatibleAccount")
        ELSE IF snapshots = {} THEN Refused("RegistryEmpty")
        ELSE IF ~Passes(loading) THEN Refused(FirstRefusal(loading))
        ELSE resolve_and_synthesize(docs, request, bundles, authorizer, account,
                                    load_at(PinnedRegistry, snapshot))

Synthesize(request) ==
    /\ spec = {}
    /\ \E out \in {synthesize_policy([k \in DOMAIN shelf |-> shelf[k].bundle], request)} :
        /\ answer' = out.error
        /\ draft' = out.draft
        /\ spec' = {x.spec : x \in out.draft}
    /\ UNCHANGED <<shelf, built>>

-----------------------------------------------------------------------------
(* From a specification to an artifact *)

(* The caller edits the specification once. *)
TamperSpec(edit) ==
    /\ \E x \in draft : spec = {x.spec}
    /\ \E s \in spec : EditSpec(edit, s) # s /\ spec' = {EditSpec(edit, s)}
    /\ \A b \in built : b.report = {}
    /\ UNCHANGED <<shelf, draft, built, answer>>

(* Only self_supplied evidence can be sealed into a build: a stronger label *)
(* cannot be authenticated, an incomplete one was ruled out.                *)
generate_checks(s, rule) ==
    << Check(\E r \in ToSet(s.evidence) : r.trust # "self_supplied", "SpecInvalid"),
       Check(spec_errors(s) # {}, "SpecInvalid"),
       Check(rule \notin DOMAIN s.rules, "Codegen") >>

(* behavior_ok: the harness's suite for the rule that was built. *)
rule_behavior(s, rule) ==
    /\ Disagreements(s.rules[rule], s.account.address) = {}
    /\ missing_classes(s.rules[rule], s.account.address) = {}

generate_code(rule) ==
    /\ built = {}
    /\ \E s \in spec :
        LET verdict == FirstRefusal(generate_checks(s, rule))
        IN  IF verdict = "Permit"
            THEN /\ built' = {[spec |-> s, rule |-> rule, report |-> {}]}
                 /\ answer' = "ok"
            ELSE answer' = verdict /\ UNCHANGED built
    /\ UNCHANGED <<shelf, draft, spec>>

(* What a caller claims of an artifact: everything it was given, or one     *)
(* part missing or replaced.                                                *)
Given == [files |-> "same", wasm |-> "same", manifest |-> "same"]

Claims ==
    {Given, [Given EXCEPT !.files = "edited"]}
    \cup {[Given EXCEPT !.wasm = w] : w \in {"none", "garbage", "other"}}
    \cup {[Given EXCEPT !.manifest = m] : m \in {"none", "other"}}

(* The reproduced Wasm and manifest against the claimed ones. *)
wasm_reproduction(reproduced, claim) ==
    CASE claim.wasm = "none" -> "not_verified"
      [] claim.wasm = "garbage" -> "invalid"
      [] claim.wasm = "other" \/ ~reproduced -> "mismatch"
      [] claim.manifest = "none" -> "not_verified"
      [] claim.manifest = "other" -> "mismatch"
      [] OTHER -> "reproduced"

MatchesClaim(reproduced, claim) ==
    /\ reproduced /\ claim.files = "same"
    /\ wasm_reproduction(reproduced, claim) = "reproduced"

(* The rule is generated again from the specification the caller holds now; *)
(* files and Wasm are functions of the specification and the rule, whose    *)
(* hash and number the generated source states.  Bound: a claim departs     *)
(* from what was given only where the specification and the rule are those  *)
(* that were built.                                                         *)
verify_with_build_config(rule, claim) ==
    /\ \E s \in spec, b \in built :
        LET verdict == FirstRefusal(generate_checks(s, rule))
            matches == MatchesClaim(<<s, rule>> = <<b.spec, b.rule>>, claim) /\ rule_behavior(s, rule)
        IN  /\ b.report = {}
            /\ claim = Given \/ <<s, rule>> = <<b.spec, b.rule>>
            /\ IF verdict = "Permit"
               THEN /\ built' = {[b EXCEPT !.report = {[spec |-> s, rule |-> rule, claim |-> claim,
                                                       matches |-> matches]}]}
                    /\ answer' = "ok"
               ELSE answer' = verdict /\ UNCHANGED built
    /\ UNCHANGED <<shelf, draft, spec>>

Init ==
    /\ shelf = <<>> /\ draft = {} /\ spec = {} /\ built = {} /\ answer = "ok"

Next ==
    \/ /\ Len(shelf) < Len(Acquisitions)
       /\ \E a \in Acquisitions[Len(shelf) + 1] : record_snapshot(a)
    \/ \E k \in DOMAIN Acquisitions, edit \in BundleEdits : TamperRecording(k, edit)
    \/ \E request \in SynthRequests : Synthesize(request)
    \/ \E edit \in SpecEdits : TamperSpec(edit)
    \/ \E rule \in 1 .. MaxRules : generate_code(rule)
    \/ \E rule \in 1 .. MaxRules, claim \in Claims : verify_with_build_config(rule, claim)

Spec == Init /\ [][Next]_vars

-----------------------------------------------------------------------------
(* Properties *)

(* What x authorized according to the raw evidence of a recording, in order *)
RawCalls(doc, x) ==
    LET raw == doc.raw
        entries == IF doc.execution = "simulated" THEN raw.simAuth
                   ELSE raw.envelope.ops[doc.index].auth
        by(e) == IF e.arm = "source" THEN raw.envelope.source ELSE e.address
    IN  FoldLeft(LAMBDA all, e : IF by(e) = x
                                 THEN all \o SelectSeq(e.nodes, LAMBDA n : n.k = "call")
                                 ELSE all, <<>>, entries)

(* Only evidence of something that succeeded drives synthesis, whatever the *)
(* caller edited: an executed recording behind a specification holds a      *)
(* result that reports every operation of its envelope successful, and no   *)
(* label is stronger than self_supplied.                                    *)
GroundedEvidence ==
    \A x \in draft :
        /\ \A doc \in ToSet(x.docs) :
            \/ doc.execution = "simulated"
            \/ \E r \in doc.raw.result :
                /\ SaysSuccess(r)
                /\ Len(r.ops) = Len(doc.raw.envelope.ops)
                /\ \A k \in DOMAIN r.ops : /\ Succeeded(r.ops[k])
                                            /\ r.ops[k].kind = doc.raw.envelope.ops[k].kind
        /\ \A e \in ToSet(x.spec.evidence) : e.trust = "self_supplied"

Covers(bound, value) ==
    \/ bound.c = "any_value"
    \/ bound.c = "le_i128" /\ value.t = "i128" /\ value.v <= bound.v
    \/ bound.c = "ge_i128" /\ value.t = "i128" /\ value.v >= bound.v

DecidedFor(x, call, k) ==
    {w \in ToSet(x.decisions.widenings) :
        w.contract = call.contract /\ w.fn = call.fn /\ w.index = k}

(* What a reviewed adapter of the code observed for the target derives. *)
DerivedFor(x, call, k) ==
    UNION {UNION {UNION {role_widening(a.functions[call.fn].roles[k], call.args[k]) :
                            a \in {y \in x.input.adapters : y.hash = h /\ matches_call(y, call)}} :
                        h \in doc.executables[call.contract].wasm} :
                    doc \in {d \in ToSet(x.docs) : call.contract \in DOMAIN d.executables}}

Justified(x, contract, fn, args) ==
    \E doc \in ToSet(x.docs) :
        \E call \in ToSet(RawCalls(doc, x.input.authorizer)) :
            /\ call.contract = contract /\ call.fn = fn /\ Len(call.args) = Len(args)
            /\ \A k \in DOMAIN args :
                \/ args[k] = call.args[k]
                \/ \E w \in DecidedFor(x, call, k) \cup DerivedFor(x, call, k) : Covers(w, args[k])

Tuples(n) == [1 .. n -> ArgValues]

(* A synthesized grant is no broader than what the raw evidence shows the   *)
(* account authorized, argument by argument, together with what the user    *)
(* decided or a reviewed adapter of the target's own code derives.  It is   *)
(* judged when the draft is new: nothing changes a draft afterwards.        *)
NoWiderThanDecided ==
    \A x \in {d \in draft : spec = {d.spec} /\ built = {}} :
        \A rule \in ToSet(x.spec.rules) :
            \A fn \in {call.fn : call \in ToSet(rule.calls)} :
                \A n \in {Len(call.args) : call \in ToSet(rule.calls)} :
                    \A args \in Tuples(n) :
                        TupleOk(rule, [fn |-> fn, args |-> args], x.spec.account.address)
                            => Justified(x, rule.contract, fn, args)

(* The suite is right about every specification that validates, edited or   *)
(* not: the compiled policy behind the account's own check answers each     *)
(* case as labelled; and a specification that was synthesized and not       *)
(* edited always generates and verifies.                                    *)
SuiteSound ==
    /\ \A x \in {b \in built : b.report = {}} :
        LET rule == x.spec.rules[x.rule]
            account == x.spec.account.address
        IN  \A case \in build_rule_suite(rule, account) :
                case.permit = /\ AccountAdmits(case.r)
                              /\ enforce_verdict(rule, TRUE, case.count, case.ledger, case.r,
                                                 account) = "Permit"
    /\ \A x \in draft : spec = {x.spec} =>
            /\ \A k \in DOMAIN x.spec.rules : Passes(generate_checks(x.spec, k))
            /\ \A b \in built : \A r \in b.report :
                    (b.spec = r.spec /\ b.rule = r.rule /\ r.claim = Given) => r.matches

(* One constraint, bound, cap, window or predicate of a rule relaxed. *)
Relaxed(rule) ==
    LET with(i, k, arg) == [rule EXCEPT !.calls[i].args[k] = arg]
        looser(a) == {[a EXCEPT !.c = "any_value"]}
                     \cup (IF a.c \in Numeric THEN {[a EXCEPT !.c = "le_i128"], [a EXCEPT !.c = "ge_i128"]}
                           ELSE {})
                     \cup (IF a.c = "le_i128" THEN {[a EXCEPT !.v = @ + 1]} ELSE {})
                     \cup (IF a.c = "ge_i128" THEN {[a EXCEPT !.v = @ - 1]} ELSE {})
        args == UNION {UNION {{with(i, k, a) : a \in looser(rule.calls[i].args[k])} :
                    k \in DOMAIN rule.calls[i].args} : i \in DOMAIN rule.calls}
    IN  args
        \cup {[rule EXCEPT !.max_calls = {}]} \cup {[rule EXCEPT !.max_calls = {m + 1}] : m \in rule.max_calls}
        \cup {[rule EXCEPT !.valid_until = {}]} \cup {[rule EXCEPT !.valid_until = {u + 1}] : u \in rule.valid_until}
        \cup {[rule EXCEPT !.strict = FALSE]}
        \cup (IF required_signers(rule) > 1
              THEN {[rule EXCEPT !.kind = "threshold", !.n = required_signers(rule) - 1]} ELSE {})

GrantsMore(weak, rule, account) ==
    \/ <<weak.max_calls, weak.valid_until, weak.strict, weak.kind, weak.n>>
        # <<rule.max_calls, rule.valid_until, rule.strict, rule.kind, rule.n>>
    \/ \E n \in {Len(call.args) : call \in ToSet(rule.calls)} :
        \E args \in Tuples(n), fn \in {call.fn : call \in ToSet(rule.calls)} :
            LET r == [fn |-> fn, args |-> args]
            IN  TupleOk(weak, r, account) /\ ~TupleOk(rule, r, account)

(* A report that matches is about the Wasm that was claimed: it was built   *)
(* from the very rule that was verified, although the specification can be  *)
(* edited between the two calls; and the rule's suite refutes every policy  *)
(* that relaxes the rule in one place and thereby permits more: some case   *)
(* is answered against its label.                                           *)
SuiteRefutesWeaker ==
    \A x \in built : \A r \in {y \in x.report : y.matches} :
        LET rule == r.spec.rules[r.rule]
            account == r.spec.account.address
            suite == build_rule_suite(rule, account)
        IN  /\ r.claim.wasm = "same" /\ x.spec.rules[x.rule] = rule
            /\ \A weak \in Relaxed(rule) \ {rule} :
                GrantsMore(weak, rule, account) =>
                    \E case \in suite :
                        case.permit # (evaluate_generated_rule(weak, case.count, case.ledger,
                                                               case.r, account) = "Permit")
=============================================================================
