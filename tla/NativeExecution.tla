--------------------------- MODULE NativeExecution ---------------------------
(***************************************************************************)
(* The execution worker's account layer (execution-runtime/src/execution.rs *)
(* and protocol.rs): it derives the boundary suite of one rule, installs   *)
(* the candidate policy into a fresh local account once per case, runs the *)
(* case through the account's __check_auth and reports what happened.      *)
(*                                                                         *)
(* Delegate signatures come from outside, one request at a time; each is   *)
(* made on a network that exists nowhere: its id is derived from the run.  *)
(*                                                                         *)
(* The Soroban host and the smart account are not the repository's code.   *)
(***************************************************************************)
EXTENDS DenySuite

CONSTANTS
    ExternalSigners,  \* signers behind a verifier contract
    Bootstrap,        \* the key derived from the run that owns the local account
    AccountPin,       \* the smart account's reviewed code
    MaxRuleCalls, MaxRuleArgs, MaxSuite, MaxStateful, MaxRequests

LOCAL_RULE_ID == 1

ProtocolVersion == 30

ExpiryLedgers == 64

InOrder(set) == FoldSet(LAMBDA x, s : Append(s, x), <<>>, set)

(* A list given by a function on 1 .. n. *)
Listed(f) == SubSeq(f, 1, Len(f))

-----------------------------------------------------------------------------
(* Networks: the ones that exist, and one for each run.  A hash stands for  *)
(* what was hashed.                                                         *)

Live(name) == [live |-> {name}, run |-> {}]

Derived(binding) == [live |-> {}, run |-> {binding}]

LiveNetworks == {Live("test"), Live("public"), Live("future")}

offline_network_refuses(binding) ==
    \/ binding.protocol # ProtocolVersion
    \/ binding.ledger = 0
    \/ Derived(binding) \in LiveNetworks \cup {binding.network}

-----------------------------------------------------------------------------
(* Preparation *)

suite(rule, account) == InOrder(build_rule_suite(rule, account))

(* The selected entry of the specification, if the index is in range. *)
Selected(job) == {job.spec.rules[k] : k \in DOMAIN job.spec.rules \cap {job.index}}

BindingsOf(job) == {k \in DOMAIN job.bindings : job.bindings[k].rule_index = job.index}

(* The suite is derived for every rule, so the size bounds hold for all. *)
TooLarge(rule) ==
    \/ Len(rule.calls) > MaxRuleCalls
    \/ \E k \in DOMAIN rule.calls : Len(rule.calls[k].args) > MaxRuleArgs

OneDelegate(rule) == Len(rule.signers) = 1 /\ rule.signers[1] \notin ExternalSigners

PredicateSupported(rule) == rule.kind \in {"any_of", "all_of"} \/ (rule.kind = "threshold" /\ rule.n = 1)

prepare_checks(job) ==
    LET chosen(P(_)) == \E entry \in Selected(job) : P(entry)
        rule(P(_)) == \E entry \in Selected(job) : P(entry.rule)
        bound(P(_)) == \E k \in BindingsOf(job) : P(job.bindings[k])
    IN  << Check(job.schema # 1 \/ job.ledger.protocol # ProtocolVersion \/ job.ledger.sequence = 0,
                 "unsupported job schema or source protocol"),
           Check(~job.canonical, "noncanonical encoding"),
           Check(~job.ledger.ttl_bounds, "invalid source ledger parameters"),
           Check(job.spec # job.artifact_spec \/ job.index # job.artifact_index,
                 "candidate and artifact differ"),
           Check(Selected(job) = {}, "selected rule index is outside the specification"),
           Check(\E k \in DOMAIN job.spec.rules : TooLarge(job.spec.rules[k].rule),
                 "unsupported native scope"),
           Check(\E k \in DOMAIN job.spec.rules : ~Validated(job.spec.rules[k].rule),
                 "invalid specification"),
           Check(job.spec.account # job.account \/ job.spec.network # job.network
                    \/ job.spec # job.bound_spec \/ job.bound_network # job.network
                    \/ job.spec.account_code # AccountPin,
                 "candidate identity or account pin mismatch"),
           Check(rule(LAMBDA r : ~OneDelegate(r)), "unsupported signer configuration"),
           Check(rule(LAMBDA r : ~PredicateSupported(r)), "unsupported signer predicate"),
           Check(chosen(LAMBDA e : e.policies # <<"generated">>), "unsupported policy composition"),
           Check(Cardinality(BindingsOf(job)) # 1 \/ bound(LAMBDA b : b.policy_index # 0),
                 "selected policy binding mismatch"),
           Check(bound(LAMBDA b : b.contract = job.account), "account/policy address overlap"),
           Check(job.account_code # AccountPin \/ job.policy_code = {}
                    \/ bound(LAMBDA b : {b.code} # job.policy_code),
                 "account/policy Wasm byte hash mismatch"),
           Check(rule(LAMBDA r : Len(suite(r, job.account)) \notin 1 .. MaxSuite),
                 "unsupported native scope: derived cases"),
           Check(rule(LAMBDA r : \E max \in r.max_calls : max > MaxStateful),
                 "unsupported stateful sequence"),
           Check(rule(LAMBDA r : missing_classes(r, job.account) # {}),
                 "derived suite misses required boundary classes"),
           Check(rule(LAMBDA r : OneDelegate(r) /\ r.signers[1] = Bootstrap),
                 "bootstrap owner and delegate overlap") >>

TheRule(job) == job.spec.rules[job.index].rule

TheBinding(job) == job.bindings[CHOOSE k \in BindingsOf(job) : TRUE]

RunHash(job) == job.request

JobHash(job) == <<job.request, job.ledger.sequence>>

OfflineBinding(job) ==
    [ run |-> RunHash(job), job |-> JobHash(job), suite |-> <<"suite", RunHash(job)>>,
      state |-> <<"initial", JobHash(job)>>, network |-> Live(job.network),
      protocol |-> job.ledger.protocol, ledger |-> job.ledger.sequence,
      account |-> job.account, delegate |-> TheRule(job).signers[1] ]

prepare(job) ==
    [ binding |-> OfflineBinding(job), network |-> Derived(OfflineBinding(job)),
      policy |-> TheBinding(job).contract, code |-> TheBinding(job).code,
      account_code |-> AccountPin, context_rule |-> job.context_rule,
      rule |-> TheRule(job), suite |-> suite(TheRule(job), job.account) ]

Prepares(job) ==
    Passes(prepare_checks(job)) /\ ~offline_network_refuses(OfflineBinding(job))

Expiry(case) == case.ledger + ExpiryLedgers

ExpiryOverflows(input) == \E k \in DOMAIN input.suite : Expiry(input.suite[k]) > U32Max

PreparedFrame(input) ==
    [ type |-> "prepared", schema |-> 1, binding |-> input.binding, network |-> input.network,
      account_code |-> input.account_code, policy |-> input.policy, code |-> input.code,
      local_rule_id |-> LOCAL_RULE_ID, context_rule |-> input.context_rule,
      cases |-> Len(input.suite),
      expirations |-> {Expiry(input.suite[k]) : k \in DOMAIN input.suite} ]

-----------------------------------------------------------------------------
(* The local account.  A policy's code is what it does differently from     *)
(* the contract compiled from the rule: checks it leaves out, calls it      *)
(* grants beyond the cap, what it adds to the counter, and what it reads    *)
(* besides its own state once its checks pass.                              *)

RightCode == [ignores |-> {}, slack |-> 0, adds |-> 1, reads |-> {}]

error_code ==
    [ ZeroSigners |-> 1, PredicateUnsatisfied |-> 2, SignerSetDiverged |-> 3, TargetMismatch |-> 4,
      FunctionNotAllowed |-> 5, NoTupleMatched |-> 6, CallCountExceeded |-> 7, MissingState |-> 8,
      RuleExpired |-> 9 ]

PolicyVerdict(code, rule, count, ledger, r, account) ==
    LET capped == [rule EXCEPT !.max_calls = {max + code.slack : max \in rule.max_calls}]
        checks == enforce_checks(capped, TRUE, count, ledger, r, account)
    IN  FirstRefusal(SelectSeq(checks, LAMBDA c : c.code \notin code.ignores))

(* Mutant: the rule is installed at the ledger of the case. *)
setup_ledger_AtCase(rule, case) == case.ledger

(* The rule is installed no later than its last ledger: the account refuses *)
(* one that has already expired.                                            *)
setup_ledger(rule, case) ==
    IF \E until \in rule.valid_until : until < case.ledger
    THEN CHOOSE until \in rule.valid_until : TRUE
    ELSE case.ledger

AccountInstalls(rule, ledger) == ~Expired(rule, ledger)

(* A capped policy's counter is seeded, or removed, for the case. *)
setup_in(rule, case) ==
    [ live |-> ToSet(case.r.live), count |-> IF HasState(rule) THEN case.count ELSE {},
      ledger |-> case.ledger, nonces |-> {} ]

(* A delegate's authorization entry, valid when it names this digest and    *)
(* its signature covers what it says.                                       *)
Entry(digest, nonce, signed) == [digest |-> digest, nonce |-> nonce, signed |-> signed]

AuthStage(entries, env, digest) ==
    CASE ~ \E e \in entries : e.digest = digest -> "Unauthorized function call"
      [] \E e \in entries : e.signed # <<e.digest, e.nonce>> -> "failed account authentication"
      [] \E e \in entries : e.nonce \in env.nonces -> "nonce already exists for address"
      [] OTHER -> "none"

Refused(kind, code, by, stage, env) ==
    [ok |-> FALSE, kind |-> kind, code |-> code, by |-> by, stage |-> stage, env |-> env]

(***************************************************************************)
(* __check_auth: the rule must exist for the called contract and not have  *)
(* expired, the payload's signers must be among its live ones, each of     *)
(* them must authenticate the digest, and then the rule's policy enforces  *)
(* every context in turn.  A refusal rolls everything back.                *)
(***************************************************************************)
Counted(input, count, times) == {c + times * input.code.adds : c \in count}

(* The policy's refusals of the contexts, each counted before the next. *)
PolicyRefusals(input, env, r, times) ==
    LET seen == [r EXCEPT !.auth = InOrder(ToSet(r.auth)), !.live = InOrder(env.live)]
    IN  {PolicyVerdict(input.code, input.rule, Counted(input, env.count, n), env.ledger, seen,
                       input.binding.account) : n \in 0 .. times - 1} \ {"Permit"}

SignerStage(input, env, r, entries, digest) ==
    CASE r.auth = <<>> -> "none"
      [] ToSet(r.auth) \ {input.binding.delegate} # {} -> "Unauthorized function call"
      [] OTHER -> AuthStage(entries, env, digest)

Judged(input, env, r, entries, times, stage, refusals) ==
    CASE r.contract # input.rule.contract \/ Expired(input.rule, env.ledger)
            -> Refused("contract", 3002, "account", "none", env)
      [] ~(ToSet(r.auth) \subseteq env.live) -> Refused("contract", 3016, "account", "none", env)
      [] stage # "none" -> Refused("auth", 0, "host", stage, env)
      [] refusals # {} ->
            Refused("contract", error_code[CHOOSE v \in refusals : TRUE], "policy", "none", env)
      [] OTHER -> [ok |-> TRUE, kind |-> "ok", code |-> 0, by |-> "none", stage |-> "none",
                   env |-> [env EXCEPT !.count = Counted(input, @, times),
                                       !.nonces = @ \cup (IF r.auth = <<>> THEN {}
                                                          ELSE {e.nonce : e \in entries})]]

check_auth(input, env, r, entries, digest, times) ==
    Judged(input, env, r, entries, times, SignerStage(input, env, r, entries, digest),
           PolicyRefusals(input, env, r, times))

-----------------------------------------------------------------------------
(* One attempt *)

CaseId(name, n) == <<name, n>>

Payload(input, id) == <<input.binding.run, id>>

auth_digest(payload, rule_ids) == <<payload, rule_ids>>

(* Only a case in which the delegate takes part needs its signature. *)
Asks(input, case) == input.binding.delegate \in ToSet(case.r.auth)

RequestNonce(number) == 1000 + number

SignedIds(mutation) ==
    CASE mutation = "RuleId"        -> <<0>>
      [] mutation = "DoubleContext" -> <<LOCAL_RULE_ID, LOCAL_RULE_ID>>
      [] OTHER                      -> <<LOCAL_RULE_ID>>

(* The entry of a signed request, with the control's mutation applied after *)
(* the signature was made.                                                  *)
delegate_entry(input, id, number, mutation) ==
    LET digest == auth_digest(Payload(input, id), SignedIds(mutation))
        nonce == RequestNonce(number)
        signed == IF mutation = "SignatureBit" THEN <<digest, 0>> ELSE <<digest, nonce>>
    IN  Entry(digest, IF mutation = "Nonce" THEN nonce + 1 ELSE nonce, signed)

attempt(input, env, case, id, number, mutation) ==
    LET entries == IF Asks(input, case) THEN {delegate_entry(input, id, number, mutation)} ELSE {}
        payload == IF mutation = "Payload" THEN <<"flipped", id>> ELSE Payload(input, id)
        ids == IF mutation = "RuleId" THEN <<LOCAL_RULE_ID>> ELSE SignedIds(mutation)
        times == IF mutation = "DoubleContext" THEN 2 ELSE 1
    IN  check_auth(input, env, case.r, entries, auth_digest(payload, ids), times)

make_sign_request(binding, number, id, ids, ledger) ==
    [ type |-> "sign_request", id |-> number, run |-> binding.run, case |-> id,
      delegate |-> binding.delegate, network |-> Derived(binding), nonce |-> RequestNonce(number),
      expiration |-> ledger + ExpiryLedgers,
      invocation |-> auth_digest(<<binding.run, id>>, ids),
      preimage |-> [ network |-> Derived(binding), nonce |-> RequestNonce(number),
                     expiration |-> ledger + ExpiryLedgers,
                     invocation |-> auth_digest(<<binding.run, id>>, ids) ] ]

-----------------------------------------------------------------------------
(* Labels and results *)

PolicyError(class, code) ==
    \/ class = "ZeroSigners" /\ code = 1
    \/ class \in {"WrongSigner", "SignerBoundary"} /\ code \in 1 .. 3
    \/ class = "StrictSetMutation" /\ code = 3
    \/ class = "DifferentFunction" /\ code = 5
    \/ class \in ArgClasses /\ code = 6
    \/ class = "CallCountBoundary" /\ code = 7
    \/ class = "MissingState" /\ code = 8
    \/ class = "TimeBoundary" /\ code = 9

AccountError(class, code) ==
    \/ class \in {"DifferentContract", "TimeBoundary"} /\ code = 3002
    \/ class \in {"WrongSigner", "SignerBoundary", "StrictSetMutation"} /\ code = 3016

(* Who refused, when the refusal is the one the class calls for. *)
expected_error(class, outcome) ==
    \/ outcome.by = "policy" /\ PolicyError(class, outcome.code)
    \/ outcome.by = "account" /\ AccountError(class, outcome.code)

(* A permitted call of a counting policy adds exactly one. *)
counter_agrees(before, after) == after.count = {c + 1 : c \in before.count}

Reported(k, case, env, out, attributed) ==
    [ id |-> CaseId("case", k), class |-> case.class, expected |-> case.permit,
      permitted |-> out.ok,
      agree |-> /\ out.ok = case.permit
                /\ out.ok \/ (attributed /\ out.env = env)
                /\ out.ok => counter_agrees(env, out.env),
      by |-> IF attributed THEN out.by ELSE "none",
      code |-> IF out.kind = "contract" THEN out.code ELSE 0,
      changed |-> out.env # env, ledger |-> case.ledger,
      seed |-> case.count, before |-> env.count, after |-> out.env.count ]

Attributed(k, case, env, out) ==
    Reported(k, case, env, out, out.kind = "contract" /\ expected_error(case.class, out))

Attempted(input, k, case, env) ==
    Attributed(k, case, env,
               attempt(input, env, case, CaseId("case", k),
                       Cardinality({j \in 1 .. k : Asks(input, input.suite[j])}), "None"))

CaseResult(input, k) ==
    Attempted(input, k, input.suite[k], setup_in(input.rule, input.suite[k]))

-----------------------------------------------------------------------------
(* Controls and the stateful sequence *)

(* Both work on the permitted original, its counter at zero. *)
Original(input) ==
    LET k == CHOOSE j \in DOMAIN input.suite :
                input.suite[j].class = "Original" /\ input.suite[j].permit
    IN  [input.suite[k] EXCEPT !.count = {0}]

AskingCases(input) == Cardinality({k \in DOMAIN input.suite : Asks(input, input.suite[k])})

ControlNames == <<"signature_bit", "nonce_binding", "payload_binding", "context_rule_binding">>

ControlMutation == [ signature_bit |-> "SignatureBit", nonce_binding |-> "Nonce",
                     payload_binding |-> "Payload", context_rule_binding |-> "RuleId" ]

ControlStage ==
    [ signature_bit |-> "failed account authentication",
      nonce_binding |-> "failed account authentication",
      payload_binding |-> "Unauthorized function call",
      context_rule_binding |-> "Unauthorized function call",
      nonce_replay |-> "nonce already exists for address" ]

auth_refused(out, env, stage) == out.kind = "auth" /\ out.stage = stage /\ out.env = env

ControlResult(name, env, out) ==
    [ name |-> name, passed |-> auth_refused(out, env, ControlStage[name]),
      stage |-> out.stage, changed |-> out.env # env ]

Control(input, k, case, env) ==
    ControlResult(ControlNames[k], env,
                  attempt(input, env, case, CaseId(ControlNames[k], 0), AskingCases(input) + k,
                          ControlMutation[ControlNames[k]]))

(* The same entry is presented twice. *)
ReplayAttempt(input, case, env) ==
    attempt(input, env, case, CaseId("nonce_replay", 0), AskingCases(input) + Len(ControlNames) + 1,
            "None")

ReplayResult(first, result) == [result EXCEPT !.passed = @ /\ first.ok]

Replayed(input, case, first) ==
    ReplayResult(first, ControlResult("nonce_replay", first.env, ReplayAttempt(input, case, first.env)))

ControlsFrom(input, case, env) ==
    Append([k \in DOMAIN ControlNames |-> Control(input, k, case, env)],
           Replayed(input, case, ReplayAttempt(input, case, env)))

controls(input) == ControlsFrom(input, Original(input), setup_in(input.rule, Original(input)))

FirstSequenceNumber(input) == AskingCases(input) + Len(ControlNames) + 2

(* The requests of the sequence: one before the last call presents the      *)
(* context twice, one after it goes past the cap.                           *)
SequenceIds(max) ==
    [k \in 1 .. max - 1 |-> CaseId("sequence", k - 1)]
    \o << CaseId("partial_rollback", 0), CaseId("sequence", max - 1), CaseId("overflow", 0) >>

(***************************************************************************)
(* Each step of the sequence starts from what the one before it left.  The *)
(* double context must be refused as a whole, the cap reached exactly, and *)
(* the call past it refused without a trace.                               *)
(***************************************************************************)
SequenceStep(input, case, max, before, k, id) ==
    [before |-> before,
     out |-> attempt(input, before, case, id, FirstSequenceNumber(input) + k - 1,
                     IF k = max THEN "DoubleContext" ELSE "None")]

SequenceSteps(input, case, max) ==
    LET start == setup_in(input.rule, case)
        next(done, id) ==
            Append(done, SequenceStep(input, case, max,
                                      IF done = <<>> THEN start ELSE Last(done).out.env,
                                      Len(done) + 1, id))
    IN  FoldLeft(next, <<>>, SequenceIds(max))

CapRefused(step) == step.out.kind = "contract" /\ step.out.code = 7 /\ step.out.by = "policy"

SequenceCounted(steps, max, k) ==
    LET index == IF k < max THEN k - 1 ELSE max - 1
    IN  steps[k].before.count = {index} /\ steps[k].out.env.count = {index + 1}

SequenceCalls(max) == (1 .. max + 1) \ {max}

SequenceResult(steps, max) ==
    LET partial == steps[max]
        overflow == steps[max + 2]
    IN  [ successful |-> Cardinality({k \in SequenceCalls(max) : steps[k].out.ok}),
          before |-> steps[1].before.count, after |-> overflow.out.env.count,
          overflow_refused |-> CapRefused(overflow),
          overflow_rolled_back |-> overflow.out.env = overflow.before,
          partial_refused |-> CapRefused(partial),
          partial_preserved |-> partial.out.env = partial.before
                                   /\ partial.before.count = {max - 1} ]

SequencePassed(steps, max, r) ==
    [ result |-> r,
      passed |-> /\ r.before = {0} /\ r.after = {max} /\ r.successful = max
                 /\ \A k \in SequenceCalls(max) : SequenceCounted(steps, max, k)
                 /\ r.overflow_refused /\ r.overflow_rolled_back
                 /\ r.partial_refused /\ r.partial_preserved ]

SequenceOver(steps, max) == SequencePassed(steps, max, SequenceResult(steps, max))

stateful(input, max) == SequenceOver(SequenceSteps(input, Original(input), max), max)

ExecutionReport(input, cases, checked, held) ==
    [ type |-> "result", schema |-> 1, binding |-> input.binding, network |-> input.network,
      account_code |-> input.account_code, policy |-> input.policy, code |-> input.code,
      local_rule_id |-> LOCAL_RULE_ID, context_rule |-> input.context_rule,
      cases |-> cases, controls |-> checked, stateful |-> held,
      required |-> expected_classes_for_rule(input.rule),
      passed |-> /\ \A k \in DOMAIN cases : cases[k].agree
                 /\ \A k \in DOMAIN checked : checked[k].passed
                 /\ \A s \in held : s.passed,
      complete |-> FALSE ]

execute(input) ==
    ExecutionReport(input, Listed([k \in DOMAIN input.suite |-> CaseResult(input, k)]),
                    controls(input), {stateful(input, max) : max \in input.rule.max_calls})

-----------------------------------------------------------------------------
(* What the worker writes, in order *)

SignRequests(input) ==
    LET asking == SelectSeq([k \in DOMAIN input.suite |-> k],
                            LAMBDA k : Asks(input, input.suite[k]))
        tail == [k \in DOMAIN ControlNames |->
                    [id |-> CaseId(ControlNames[k], 0),
                     ids |-> SignedIds(ControlMutation[ControlNames[k]])]]
                \o <<[id |-> CaseId("nonce_replay", 0), ids |-> SignedIds("None")]>>
        sequence(max) == [k \in DOMAIN SequenceIds(max) |->
                            [id |-> SequenceIds(max)[k],
                             ids |-> SignedIds(IF k = max THEN "DoubleContext" ELSE "None")]]
        after == IF HasState(input.rule)
                 THEN tail \o sequence(CHOOSE max \in input.rule.max_calls : TRUE) ELSE tail
        ledger == Original(input).ledger
    IN  [k \in DOMAIN asking |->
            make_sign_request(input.binding, k, CaseId("case", asking[k]), SignedIds("None"),
                              input.suite[asking[k]].ledger)]
        \o [k \in DOMAIN after |->
              make_sign_request(input.binding, Len(asking) + k, after[k].id, after[k].ids, ledger)]

(* A job that cannot be prepared, set up or signed ends without a frame, or *)
(* without a result, and exits with 1.                                      *)
NoScript == [frames |-> <<>>, exit |-> 1]

Opened(frame) == [frames |-> <<frame>>, exit |-> 0]

Finished(frames, result) ==
    [frames |-> Append(frames, result), exit |-> IF result.passed THEN 0 ELSE 1]

Installs(input) ==
    \A k \in DOMAIN input.suite :
        AccountInstalls(input.rule, setup_ledger(input.rule, input.suite[k]))

Executed(input, frame, requests) ==
    IF ~Installs(input) \/ Len(requests) > MaxRequests THEN [frames |-> <<frame>>, exit |-> 1]
    ELSE Finished(<<frame>> \o requests, execute(input))

NativeScripts(input, frame) ==
    IF ExpiryOverflows(input) THEN [Prepare |-> NoScript, Execute |-> NoScript]
    ELSE [Prepare |-> Opened(frame), Execute |-> Executed(input, frame, SignRequests(input))]

Scripted(input) == NativeScripts(input, PreparedFrame(input))

(* In each of the two modes. *)
native_scripts(job) ==
    IF Prepares(job) THEN Scripted(prepare(job)) ELSE [Prepare |-> NoScript, Execute |-> NoScript]

=============================================================================
