----------------------------- MODULE DryRunReport -----------------------------
(***************************************************************************)
(* The coordinator's side of a dry run (toolkit/src/dry_run.rs and         *)
(* dry_run_report.rs): what it prepares from a request, what it derives it *)
(* must see before a worker starts, and how it turns what a worker wrote   *)
(* into a report.  It holds its own copies of the worker's scope, of the   *)
(* offline network and of the refusals each class predicts.  With it, the  *)
(* delegate's signer and its key file (cli/src/dry_run/signer.rs, key.rs). *)
(***************************************************************************)
EXTENDS CapturedExecution

CONSTANT RequiredDenials   \* reverted denials an accepted report must show

-----------------------------------------------------------------------------
(* The preparation: the reference evaluator over the rule's derived suite *)

Reference(job, cases) ==
    LET rule == TheRule(job)
        answer(case) == evaluate_generated_rule(rule, case.count, case.ledger, case.r, job.account)
    IN  Listed([k \in DOMAIN cases |->
            [ class |-> cases[k].class, permit |-> cases[k].permit,
              agree |-> (answer(cases[k]) = "Permit") = cases[k].permit ]])

reference_status(job, outcomes) ==
    LET entry == job.spec.rules[job.index]
    IN  IF \/ outcomes = <<>>
           \/ \E k \in DOMAIN outcomes : ~outcomes[k].agree
           \/ missing_classes(entry.rule, job.account) # {}
        THEN "Failed"
        ELSE IF \E k \in DOMAIN entry.policies : entry.policies[k] = "composed" THEN "Unsupported"
        ELSE "Passed"

(* The registry must still be valid when the artifact's build has ended. *)
prepare_dry_run_checks(job) ==
    << Check(job.spec # job.artifact_spec \/ job.index # job.artifact_index,
             "candidate and artifact must describe exactly the same spec and rule"),
       Check(~job.canonical, "run_nonce must be canonical lowercase 32-byte hex"),
       Check(Selected(job) = {} \/ \E k \in DOMAIN job.spec.rules : ~Validated(job.spec.rules[k].rule),
             "candidate refused"),
       Check(~job.registry_valid, "registry expired") >>

prepare_dry_run(job) ==
    LET prep(cases, outcomes) ==
            [ run |-> RunHash(job), account |-> job.account, network |-> job.network,
              account_code |-> job.spec.account_code, context_rule |-> job.context_rule,
              policy_codes |-> {<<job.bindings[k].contract, job.bindings[k].code>> :
                                    k \in DOMAIN job.bindings},
              suite |-> <<"suite", RunHash(job)>>, status |-> reference_status(job, outcomes),
              outcomes |-> outcomes, required |-> expected_classes_for_rule(TheRule(job)),
              ledgers |-> Listed([k \in DOMAIN cases |-> cases[k].ledger]) ]
        over(cases) == prep(cases, Reference(job, cases))
    IN  over(suite(TheRule(job), job.account))

reference_passed(prep) ==
    /\ prep.status = "Passed"
    /\ prep.outcomes # <<>>
    /\ \A k \in DOMAIN prep.outcomes : prep.outcomes[k].agree
    /\ \A class \in prep.required : \E k \in DOMAIN prep.outcomes : prep.outcomes[k].class = class

-----------------------------------------------------------------------------
(* Scope, network and ledger: the coordinator's own checks *)

scoped_checks(job) ==
    LET chosen(P(_)) == \E entry \in Selected(job) : P(entry)
        rule(P(_)) == \E entry \in Selected(job) : P(entry.rule)
    IN  << Check(Selected(job) = {}, "the selected rule index is outside the spec"),
           Check(\E k \in DOMAIN job.spec.rules : TooLarge(job.spec.rules[k].rule),
                 "the spec exceeds the native worker's size bounds"),
           Check(\E k \in DOMAIN job.spec.rules : ~Validated(job.spec.rules[k].rule),
                 "the candidate spec does not validate"),
           Check(rule(LAMBDA r : ~OneDelegate(r)),
                 "the selected rule does not have exactly one delegated signer"),
           Check(rule(LAMBDA r : ~PredicateSupported(r)),
                 "the selected rule's signer predicate is outside the native scope"),
           Check(chosen(LAMBDA e : e.policies # <<"generated">>),
                 "the selected rule is composed with another policy"),
           Check(Cardinality(BindingsOf(job)) # 1,
                 "the selected rule does not have exactly one policy binding"),
           Check(\E k \in BindingsOf(job) : job.bindings[k].policy_index # 0,
                 "the selected rule's binding is not its generated policy"),
           Check(rule(LAMBDA r : \E max \in r.max_calls : max > MaxStateful),
                 "the selected rule's call cap exceeds the native worker's sequence"),
           Check(rule(LAMBDA r : \/ Len(suite(r, job.account)) \notin 1 .. MaxSuite
                                 \/ missing_classes(r, job.account) # {}),
                 "the selected rule's derived suite is outside the native worker's bounds") >>

native_scope(job) ==
    [ delegate |-> TheRule(job).signers[1], policy |-> TheBinding(job).contract,
      code |-> TheBinding(job).code, target |-> TheRule(job).contract,
      max_calls |-> TheRule(job).max_calls ]

live_network_ids(source) == LiveNetworks \cup {source}

(* Derived from the binding, and never a network that exists. *)
offline_execution_network_refuses(binding) ==
    \/ binding.protocol # ProtocolVersion \/ binding.ledger = 0
    \/ Derived(binding) \in live_network_ids(binding.network)

check_source_ledger(ledger) ==
    ledger.protocol = ProtocolVersion /\ ledger.sequence # 0 /\ ledger.ttl_bounds /\ ledger.reserve # 0

-----------------------------------------------------------------------------
(* What one account run must show *)

(* Every case the delegate authenticates, every control and, for a capped   *)
(* rule, the whole call-cap sequence.                                       *)
native_signing_cases(cases, scope) ==
    {CaseId("case", k) : k \in {j \in DOMAIN cases : scope.delegate \in ToSet(cases[j].r.auth)}}
    \cup {CaseId(name, 0) : name \in ToSet(ControlNames) \cup {"nonce_replay"}}
    \cup UNION {{CaseId("sequence", k) : k \in 0 .. max - 1}
                \cup {CaseId("partial_rollback", 0), CaseId("overflow", 0)} : max \in scope.max_calls}

bound_to_preparation(prep, binding, scope, context_rule) ==
    /\ binding.run = prep.run /\ binding.account = prep.account
    /\ binding.network = Live(prep.network) /\ binding.delegate = scope.delegate
    /\ prep.account_code = AccountPin
    /\ <<scope.policy, scope.code>> \in prep.policy_codes
    /\ prep.context_rule = context_rule

native_expectation(prep, job) ==
    LET scope == native_scope(job)
        over(cases, ids) ==
            LET original == CHOOSE k \in DOMAIN cases : cases[k].class = "Original"
                ledger(id) == IF id[1] = "case" THEN cases[id[2]].ledger ELSE cases[original].ledger
            IN  [ binding |-> OfflineBinding(job), network |-> Derived(OfflineBinding(job)),
                  scope |-> scope, context_rule |-> job.context_rule, cases |-> Len(cases),
                  ledgers |-> Listed([k \in DOMAIN cases |-> cases[k].ledger]),
                  expirations |-> [id \in ids |-> ledger(id) + ExpiryLedgers],
                  expiry_ledgers |-> {Expiry(cases[k]) : k \in DOMAIN cases}, signing |-> ids ]
        asking(cases) == over(cases, native_signing_cases(cases, scope))
    IN  asking(suite(TheRule(job), job.account))

native_expectation_checks(prep, job, e) ==
    LET delegate_is_owner == e.scope.delegate = Bootstrap
    IN  << Check(~check_source_ledger(job.ledger), "source ledger"),
           Check(RunHash(job) # prep.run, "the job's request is not the prepared request"),
           Check(e.binding.suite # prep.suite, "the derived suite is not the prepared suite"),
           Check(\E x \in e.expiry_ledgers : x > U32Max, "signature expiry overflow"),
           Check(e.ledgers # prep.ledgers, "reference case ledgers differ from the derived suite"),
           Check(delegate_is_owner, "the bootstrap owner and the delegate overlap"),
           Check(offline_execution_network_refuses(e.binding), "offline network"),
           Check(~bound_to_preparation(prep, e.binding, e.scope, e.context_rule),
                 "the offline binding is not bound to the preparation") >>

check_native_prepared(frame, e) ==
    frame = [ type |-> "prepared", schema |-> 1, binding |-> e.binding, network |-> e.network,
              account_code |-> AccountPin, policy |-> e.scope.policy, code |-> e.scope.code,
              local_rule_id |-> LOCAL_RULE_ID, context_rule |-> e.context_rule,
              cases |-> e.cases, expirations |-> e.expiry_ledgers ]

-----------------------------------------------------------------------------
(* What one captured run must show.  The suite and the initial state can    *)
(* only be computed by installing the candidate over the capture, so they   *)
(* are taken from the retained preparation.                                 *)

captured_job_checks(job, capture) ==
    << Check(capture.network # job.network, "the capture is from another network"),
       Check(capture.header.sequence # capture.observed, "capture header is not the observed ledger"),
       Check(~check_source_ledger(capture.ledger), "source ledger") >>

captured_job(job, capture) ==
    [schema |-> 1, native |-> [job EXCEPT !.ledger = capture.ledger], capture |-> capture]

CapturedIds == << CaseId("target:original", 0), CaseId("target:argument-denial", 0),
                  CaseId("target:empty-signers", 0) >>

captured_expectation(prep, cjob, frame) ==
    LET scope == native_scope(cjob.native)
        binding == [CapturedBinding(cjob) EXCEPT !.suite = frame.binding.suite,
                                                 !.state = frame.binding.state]
        expiry == cjob.capture.observed + ExpiryLedgers
    IN  [ binding |-> binding, network |-> Derived(binding), scope |-> scope,
          capture |-> cjob.capture.id, observed |-> cjob.capture.observed,
          amount |-> cjob.capture.call.amount, seed |-> {0 : max \in scope.max_calls},
          context_rule |-> cjob.native.context_rule, signing |-> {CapturedIds[1], CapturedIds[2]},
          expirations |-> [id \in {CapturedIds[1], CapturedIds[2]} |-> expiry] ]

(* The scope is that of the same request. *)
captured_prepared_agrees(prep, cjob, frame, in_scope) ==
    LET e == captured_expectation(prep, cjob, frame)
    IN  /\ in_scope
        /\ RunHash(cjob.native) = prep.run
        /\ e.observed + ExpiryLedgers <= U32Max
        /\ ~offline_execution_network_refuses(e.binding)
        /\ frame = [ type |-> "prepared", schema |-> 1, binding |-> e.binding, network |-> e.network,
                     account_code |-> AccountPin, policy |-> e.scope.policy, code |-> e.scope.code,
                     local_rule_id |-> LOCAL_RULE_ID, context_rule |-> e.context_rule,
                     capture |-> e.capture, target |-> e.scope.target, observed |-> e.observed,
                     cases |-> CapturedIds, signing |-> SubSeq(CapturedIds, 1, 2),
                     expirations |-> {e.observed + ExpiryLedgers} ]
        /\ cjob.capture.provenance = "rpc_reported"
        /\ cjob.capture.account_code = AccountPin
        /\ bound_to_preparation(prep, e.binding, e.scope, e.context_rule)

-----------------------------------------------------------------------------
(* Runs of a layer *)

Layer(id, status, reason, cases) ==
    [id |-> id, status |-> status, reason |-> reason, cases |-> cases, executed |-> cases # <<>>]

exit_reason(exit) == IF exit < 0 THEN "worker_ended_by_signal" ELSE "worker_exit_nonzero"

not_executed(id, run) ==
    IF run.k = "refused" THEN Layer(id, "Failed", run.reason, <<>>)
    ELSE Layer(id, IF run.unsupported THEN "Unsupported" ELSE "Unavailable", run.reason, <<>>)

(* The generated policy's published refusals and the pinned account's own. *)
predicted_refusal(class, by, code) ==
    \/ by = "policy" /\ PolicyError(class, code)
    \/ by = "account" /\ AccountError(class, code)

CounterAdvanced(case) == case.after = {c + 1 : c \in case.before}

-----------------------------------------------------------------------------
(* The account layer *)

NativeFields ==
    {"type", "schema", "binding", "network", "account_code", "policy", "code", "local_rule_id",
     "context_rule", "cases", "controls", "stateful", "required", "passed", "complete"}

CasesFollowReference(prep, e, frame) ==
    /\ Len(frame.cases) = Len(prep.outcomes) /\ Len(frame.cases) = e.cases
    /\ frame.required = prep.required
    /\ \A k \in DOMAIN frame.cases :
        /\ frame.cases[k].id = CaseId("case", k)
        /\ frame.cases[k].ledger = e.ledgers[k]
        /\ frame.cases[k].class = prep.outcomes[k].class
        /\ frame.cases[k].expected = prep.outcomes[k].permit

(* Mutant: the coordinator takes the worker's own word for each case. *)
native_case_agrees_AsReported(case, outcome) == case.agree

native_case_agrees(case, outcome) ==
    /\ case.agree
    /\ case.before = case.seed
    /\ case.permitted = outcome.permit
    /\ IF case.permitted THEN case.by = "none" /\ case.code = 0 /\ CounterAdvanced(case)
       ELSE /\ ~case.changed
            /\ case.after = case.before
            /\ predicted_refusal(case.class, case.by, case.code)

ControlsHold(frame) ==
    LET names == Append(ControlNames, "nonce_replay")
    IN  /\ Len(frame.controls) = Len(names)
        /\ \A k \in DOMAIN names :
            /\ frame.controls[k].name = names[k]
            /\ frame.controls[k].passed
            /\ frame.controls[k].stage = ControlStage[names[k]]
            /\ ~frame.controls[k].changed

StatefulHolds(e, frame) ==
    /\ Cardinality(frame.stateful) = Cardinality(e.scope.max_calls)
    /\ \A max \in e.scope.max_calls, s \in frame.stateful :
        /\ s.result.successful = max /\ s.result.before = {0} /\ s.result.after = {max}
        /\ s.result.overflow_refused /\ s.result.overflow_rolled_back
        /\ s.result.partial_refused /\ s.result.partial_preserved
        /\ s.passed

native_layer(prep, e, run) ==
    LET frame == The(run.result)
        exited == run.exit # 0
        results == [k \in DOMAIN frame.cases |->
                        [ class |-> frame.cases[k].class, expected |-> prep.outcomes[k].permit,
                          permitted |-> frame.cases[k].permitted,
                          agree |-> native_case_agrees(frame.cases[k], prep.outcomes[k]) ]]
        fail(reason) == Layer("AccountWasm", "Failed", reason, <<>>)
        bound == /\ bound_to_preparation(prep, e.binding, e.scope, e.context_rule)
                 /\ prep.ledgers = e.ledgers /\ e.binding.suite = prep.suite
                 /\ ~offline_execution_network_refuses(e.binding) /\ Derived(e.binding) = e.network
        about_this_run ==
            /\ frame.type = "result" /\ frame.schema = 1 /\ frame.binding = e.binding
            /\ frame.network = e.network /\ frame.account_code = AccountPin
            /\ frame.policy = e.scope.policy /\ frame.code = e.scope.code
            /\ frame.local_rule_id = LOCAL_RULE_ID /\ frame.context_rule = e.context_rule
            /\ ~frame.complete
        agree == \A k \in DOMAIN results : results[k].agree
        holds == agree /\ ControlsHold(frame) /\ StatefulHolds(e, frame) /\ frame.passed
        reason == CASE exited -> exit_reason(run.exit)
                    [] ~agree -> "case_disagreement"
                    [] ~ControlsHold(frame) -> "control_failed"
                    [] ~StatefulHolds(e, frame) -> "stateful_sequence_failed"
                    [] ~frame.passed -> "worker_reported_failure"
                    [] OTHER -> "executed_offline"
    IN  CASE run.k # "ran" -> not_executed("AccountWasm", run)
          [] ~bound -> fail("expectation_not_bound_to_preparation")
          [] run.result = {} ->
                fail(IF exited THEN exit_reason(run.exit) ELSE "worker_result_missing")
          [] DOMAIN frame # NativeFields -> fail("worker_result_malformed")
          [] ~about_this_run -> fail("worker_binding_mismatch")
          [] run.signed # e.signing -> fail("signatures_differ_from_expectation")
          [] ~CasesFollowReference(prep, e, frame) -> fail("worker_cases_differ_from_preparation")
          [] OTHER -> Layer("AccountWasm", IF exited \/ ~holds THEN "Failed" ELSE "Passed", reason,
                            results)

-----------------------------------------------------------------------------
(* The captured layer *)

CapturedFields ==
    {"type", "schema", "binding", "network", "capture", "provenance", "observed", "target",
     "account_code", "policy", "code", "local_rule_id", "context_rule", "cases", "passed", "complete"}

Planned == << [class |-> "Original", permit |-> TRUE, code |-> 0],
              [class |-> "ArgEquality", permit |-> FALSE, code |-> 6],
              [class |-> "ZeroSigners", permit |-> FALSE, code |-> 1] >>

captured_case_agrees(case, planned, e) ==
    /\ case.agree
    /\ case.unexpected = {} /\ case.undeclared = {}
    /\ case.seed = e.seed /\ case.before = case.seed
    /\ case.permitted = planned.permit
    /\ IF planned.permit
       THEN /\ case.by = "none" /\ case.code = 0 /\ CounterAdvanced(case)
            /\ case.sender = -e.amount /\ case.recipient = e.amount
       ELSE /\ case.by = "policy" /\ case.code = planned.code
            /\ case.same /\ case.after = case.before
            /\ case.sender = 0 /\ case.recipient = 0

captured_layer(prep, expectation, run) ==
    LET e == The(expectation)
        frame == The(run.result)
        exited == run.exit # 0
        fail(reason) == Layer("CapturedTarget", "Failed", reason, <<>>)
        bound == /\ e.binding.run = prep.run /\ e.binding.account = prep.account
                 /\ e.binding.network = Live(prep.network)
                 /\ <<e.scope.policy, e.scope.code>> \in prep.policy_codes
                 /\ prep.context_rule = e.context_rule
                 /\ ~offline_execution_network_refuses(e.binding) /\ Derived(e.binding) = e.network
        about_this_run ==
            /\ frame.type = "result" /\ frame.schema = 1 /\ frame.binding = e.binding
            /\ frame.network = e.network /\ frame.capture = e.capture
            /\ frame.provenance = "rpc_reported" /\ frame.observed = e.observed
            /\ frame.target = e.scope.target /\ frame.account_code = AccountPin
            /\ frame.policy = e.scope.policy /\ frame.code = e.scope.code
            /\ frame.local_rule_id = LOCAL_RULE_ID /\ frame.context_rule = e.context_rule
            /\ ~frame.complete
        planned_run == /\ Len(frame.cases) = Len(Planned)
                       /\ \A k \in DOMAIN frame.cases :
                            /\ frame.cases[k].id = CapturedIds[k]
                            /\ frame.cases[k].class = Planned[k].class
                            /\ frame.cases[k].expected = Planned[k].permit
        results == [k \in DOMAIN frame.cases |->
                        [ class |-> frame.cases[k].class, expected |-> Planned[k].permit,
                          permitted |-> frame.cases[k].permitted,
                          agree |-> captured_case_agrees(frame.cases[k], Planned[k], e) ]]
        agree == \A k \in DOMAIN results : results[k].agree
        reason == CASE exited -> exit_reason(run.exit)
                    [] ~agree -> "case_disagreement"
                    [] ~frame.passed -> "worker_reported_failure"
                    [] OTHER -> "captured_target_executed_offline"
    IN  CASE run.k # "ran" -> not_executed("CapturedTarget", run)
          [] expectation = {} -> fail("preparation_expectations_unavailable")
          [] ~bound -> fail("expectation_not_bound_to_preparation")
          [] run.result = {} ->
                fail(IF exited THEN exit_reason(run.exit) ELSE "worker_result_missing")
          [] DOMAIN frame # CapturedFields -> fail("worker_result_malformed")
          [] ~about_this_run -> fail("worker_binding_mismatch")
          [] run.signed # e.signing -> fail("signatures_differ_from_expectation")
          [] ~planned_run -> fail("worker_cases_differ_from_preparation")
          [] OTHER -> Layer("CapturedTarget",
                            IF exited \/ ~agree \/ ~frame.passed THEN "Failed" ELSE "Passed",
                            reason, results)

-----------------------------------------------------------------------------
(* The report *)

OriginalPermitted(layer) ==
    /\ layer.status = "Passed"
    /\ \E k \in DOMAIN layer.cases :
        LET case == layer.cases[k]
        IN  case.class = "Original" /\ case.expected /\ case.permitted /\ case.agree

(* A denial counts only in a layer that passed. *)
reverted_denials(layer) ==
    IF layer.status = "Passed"
    THEN Cardinality({k \in DOMAIN layer.cases :
                        ~layer.cases[k].expected /\ ~layer.cases[k].permitted /\ layer.cases[k].agree})
    ELSE 0

(* A requested layer that did not run has failed, and counts. *)
ExecutedLayers(layers) == {l \in layers : l.executed \/ l.status = "Failed"}

meets_minimum(prep, layers) ==
    LET ran == ExecutedLayers(layers)
    IN  /\ reference_passed(prep)
        /\ ran # {}
        /\ \A l \in ran : OriginalPermitted(l)
        /\ \E l \in ran : reverted_denials(l) >= RequiredDenials

(* The live layer needs the wallet owner's consent and is never run here. *)
assemble_dry_run_report(prep, account, captured) ==
    [ layers |-> <<account, captured, Layer("LiveEnforcement", "Unavailable", "consent required", <<>>)>>,
      meets_minimum |-> meets_minimum(prep, {account, captured}) ]

-----------------------------------------------------------------------------
(* The delegate's signing capability for one worker run: it answers exactly *)
(* the requests the run may make, in order and once each, only on the       *)
(* network derived from the run's binding, and nothing after a refusal.     *)

(* A key file is used only if it is a private regular file of the caller's, *)
(* the one that was looked at, and holds the delegate's key.                *)
DelegateKeyRead(file, delegate) ==
    file.regular /\ file.private /\ ~file.replaced /\ file.key = delegate

OfflineSigner_refuses(key, e) ==
    \/ offline_execution_network_refuses(e.binding)
    \/ Derived(e.binding) # e.network
    \/ key # e.binding.delegate
    \/ e.signing = {}
    \/ e.signing # DOMAIN e.expirations

NewSigner(key, e) ==
    [ key |-> key, binding |-> e.binding, network |-> Derived(e.binding), allowed |-> e.signing,
      expirations |-> e.expirations, used |-> {}, signed |-> 0, failed |-> FALSE ]

(* The network first, then the run's next request, its nonce, and that the  *)
(* preimage is the account's own check of the digest and nothing else.      *)
request_checks(s, request) ==
    << Check(request.preimage.network # s.network,
             "the preimage is not for the derived offline execution network"),
       Check(request.preimage.network \in live_network_ids(s.binding.network),
             "the preimage names a live network"),
       Check(\/ request.type # "sign_request"
             \/ s.signed >= MaxRequests
             \/ request.id # s.signed + 1
             \/ request.run # s.binding.run
             \/ request.delegate # s.binding.delegate \/ request.delegate # s.key
             \/ request.network # request.preimage.network
             \/ request.case \notin s.allowed \ s.used
             \/ (request.case \in s.allowed /\ s.expirations[request.case] # request.expiration),
             "the request is not the next one this run may ask for"),
       Check(request.nonce # RequestNonce(s.signed + 1), "the request's nonce is not the next one"),
       Check(request.preimage # [ network |-> s.network, nonce |-> request.nonce,
                                  expiration |-> request.expiration,
                                  invocation |-> request.invocation ],
             "the request is not the account's own check of that digest") >>

Signs(s, request) == ~s.failed /\ Passes(request_checks(s, request))

sign(s, request) ==
    IF Signs(s, request) THEN [s EXCEPT !.signed = @ + 1, !.used = @ \cup {request.case}]
    ELSE [s EXCEPT !.failed = TRUE]

=============================================================================
