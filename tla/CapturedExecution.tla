-------------------------- MODULE CapturedExecution --------------------------
(***************************************************************************)
(* The execution worker's captured layer (execution-runtime/src/captured.rs):*)
(* a native asset transfer from the candidate account, run against ledger  *)
(* entries an RPC endpoint reported at one ledger, with the candidate      *)
(* freshly installed beside them.  What the capture does not hold may not  *)
(* be read, and what the transfer does not own may not change.             *)
(*                                                                         *)
(* A ledger state is a function from keys to a value and, where the entry  *)
(* has one, the last ledger it lives.                                      *)
(***************************************************************************)
EXTENDS NativeExecution

CONSTANTS
    Sac,         \* the source network's native asset contract
    MaxAmount    \* the first amount a classic balance cannot hold

InstanceKey == <<"instance", Sac>>

BalanceKey(owner) == <<"balance", owner>>

AccountKey(owner) == <<"account", owner>>

NonceKey(owner, nonce) == <<"nonce", owner, nonce>>

The(option) == CHOOSE x \in option : TRUE

-----------------------------------------------------------------------------
(* Preparation *)

ReadOnlyKeys == {InstanceKey}

ReadWriteKeys(job) == {BalanceKey(job.native.account), AccountKey(job.capture.call.to)}

transfer_args(account, to, amount) ==
    << [t |-> "address", v |-> account], [t |-> "address", v |-> to], I128(amount) >>

(* A submission made from the capture lands one ledger later at best. *)
EntryRefused(key, entry, observed) ==
    \/ ~entry.matches
    \/ entry.modified > observed
    \/ (key[1] # "account") # (entry.until # {})
    \/ \E until \in entry.until : until <= observed

PermittedOriginals(input) ==
    {k \in DOMAIN input.suite : input.suite[k].class = "Original" /\ input.suite[k].permit}

(* What the installation itself stores: the owner's and the delegate's      *)
(* accounts, the two contracts and the counter.                             *)
CandidateKeys(input) ==
    {AccountKey(Bootstrap), AccountKey(input.binding.delegate), <<"instance", input.binding.account>>,
     <<"instance", input.policy>>}
    \cup (IF HasState(input.rule) THEN {<<"count", input.policy>>} ELSE {})

captured_checks(job, input) ==
    LET c == job.capture
        observed == c.observed
        rule == input.rule
        sought == transfer_args(job.native.account, c.call.to, c.call.amount)
        original(k) == input.suite[k].r
    IN  << Check(c.network # job.native.network \/ observed # job.native.ledger.sequence,
                 "capture network or ledger differs from the native job"),
           Check(c.account_code # AccountPin,
                 "captured account does not execute the pinned account Wasm"),
           Check(~c.header.hashes \/ c.header.sequence # observed
                    \/ c.header.protocol # job.native.ledger.protocol,
                 "ledger header does not hash to or describe the job ledger"),
           Check(~c.archival.matches \/ c.archival.modified > observed,
                 "state-archival configuration differs from the job ledger"),
           Check(c.call.contract # Sac \/ c.call.fn # "transfer" \/ c.call.from # job.native.account
                    \/ c.call.amount <= 0 \/ c.call.amount >= MaxAmount,
                 "invocation is not a positive native transfer from the candidate account"),
           Check(Len(rule.calls) # 1, "exactly one allowed call tuple is supported"),
           Check(rule.contract # Sac \/ rule.calls[1].fn # "transfer"
                    \/ Len(rule.calls[1].args) < 3
                    \/ ~ \A k \in DOMAIN rule.calls[1].args : k = 3 =>
                            /\ rule.calls[1].args[k].c = "eq_i128"
                            /\ rule.calls[1].args[k].v = c.call.amount,
                 "selected rule is not an exact-amount transfer"),
           Check(Cardinality(PermittedOriginals(input)) # 1,
                 "exactly one permitted original case is supported"),
           Check(\E k \in PermittedOriginals(input) :
                    original(k).contract # Sac \/ original(k).args # sought,
                 "captured invocation differs from the candidate's original call"),
           Check(c.recorded # c.call, "recorded authorization root is not the account's transfer"),
           Check(c.read_only # ReadOnlyKeys \/ c.read_write # ReadWriteKeys(job)
                    \/ DOMAIN c.entries # ReadOnlyKeys \cup ReadWriteKeys(job),
                 "footprint is not exactly the native transfer closure"),
           Check(\E key \in DOMAIN c.entries : EntryRefused(key, c.entries[key], observed),
                 "captured entry is mismatched, from a later ledger, or not live"),
           Check(DOMAIN c.entries \cap CandidateKeys(input) # {},
                 "captured target state overlaps candidate account or policy state") >>

CapturedBinding(job) ==
    LET hash == <<"captured", job.native.request, job.capture.observed>>
    IN  [OfflineBinding(job.native) EXCEPT !.job = hash, !.suite = <<"suite", hash>>,
                                           !.state = <<"initial", hash>>,
                                           !.ledger = job.capture.observed]

PreparesCaptured(job) ==
    /\ job.schema = 1 /\ job.capture.schema = 1 /\ job.capture.provenance = "rpc_reported"
    /\ Prepares(job.native)
    /\ Passes(captured_checks(job, prepare(job.native)))
    /\ ~offline_network_refuses(CapturedBinding(job))

(* The call as captured, with one unit more, and without a signer: each at  *)
(* the observed ledger and from the same initial state.                     *)
planned_cases(job, input) ==
    LET seen == input.suite[CHOOSE k \in PermittedOriginals(input) : TRUE]
        base == [seen EXCEPT !.ledger = job.capture.observed, !.count = baseline_count(input.rule)]
        amount == job.capture.call.amount
        planned(id, case, n, code) == [id |-> CaseId(id, 0), case |-> case, amount |-> n, code |-> code]
    IN  << planned("target:original", base, amount, {}),
           planned("target:argument-denial",
                   [base EXCEPT !.class = "ArgEquality", !.permit = FALSE,
                                !.r.args[3] = I128(amount + 1)], amount + 1, {6}),
           planned("target:empty-signers",
                   [base EXCEPT !.class = "ZeroSigners", !.permit = FALSE, !.r.auth = <<>>],
                   amount, {1}) >>

CapturedInput(job, native, binding) ==
    [ execution |-> [native EXCEPT !.binding = binding, !.network = Derived(binding)],
      entries |-> job.capture.entries, capture |-> job.capture.id,
      to |-> job.capture.call.to, amount |-> job.capture.call.amount,
      observed |-> job.capture.observed, max_ttl |-> job.native.ledger.max_ttl,
      writable |-> ReadWriteKeys(job), cases |-> planned_cases(job, native) ]

prepare_captured(job) == CapturedInput(job, prepare(job.native), CapturedBinding(job))

Signing(planned) == planned.case.r.auth # <<>>

CapturedPreparedFrame(input) ==
    [ type |-> "prepared", schema |-> 1, binding |-> input.execution.binding,
      network |-> input.execution.network, account_code |-> AccountPin,
      policy |-> input.execution.policy, code |-> input.execution.code,
      local_rule_id |-> LOCAL_RULE_ID, context_rule |-> input.execution.context_rule,
      capture |-> input.capture, target |-> Sac, observed |-> input.observed,
      cases |-> [k \in DOMAIN input.cases |-> input.cases[k].id],
      signing |-> LET s == SelectSeq(input.cases, Signing) IN [k \in DOMAIN s |-> s[k].id],
      expirations |-> {input.observed + ExpiryLedgers} ]

-----------------------------------------------------------------------------
(* The strict source and the classification of changes *)

(* Before the candidate is installed no captured key may be touched; after  *)
(* it, only captured keys and the nonces the call will use are answered.    *)
get_answers(captured, expected_absent, strict, key) ==
    IF strict THEN key \in captured \cup expected_absent ELSE key \notin captured

Value(v, until) == [value |-> v, until |-> until]

(* Captured entries, overridden by what the host stored. *)
effective_state(input, count, extra) ==
    LET keys == DOMAIN input.entries \cup CandidateKeys(input.execution) \cup DOMAIN extra
        held(key) == IF key[1] = "count" THEN The(count) ELSE 1
    IN  [key \in keys |->
            IF key \in DOMAIN extra THEN extra[key]
            ELSE IF key \in DOMAIN input.entries
            THEN Value(input.entries[key].value, input.entries[key].until)
            ELSE Value(held(key), {})]

ClassifyKeys(before, after, writable, expected_new, max_live_until, both, wrote) ==
    [ written |-> wrote \cap writable,
      unexpected |-> (DOMAIN after \ (DOMAIN before \cup expected_new))
                     \cup (DOMAIN before \ DOMAIN after)
                     \cup (wrote \ writable)
                     \cup {k \in both : before[k].until # after[k].until
                              /\ ~ \E b \in before[k].until, a \in after[k].until :
                                    a > b /\ a <= max_live_until}
                     \cup (expected_new \ DOMAIN after) ]

classify(before, after, writable, expected_new, max_live_until) ==
    ClassifyKeys(before, after, writable, expected_new, max_live_until,
                 DOMAIN before \cap DOMAIN after,
                 {k \in DOMAIN before \cap DOMAIN after : before[k].value # after[k].value})

-----------------------------------------------------------------------------
(* Execution *)

AccountNonce(k) == 100 + k - 1

(* The signing cases before this one have used a request each. *)
RequestNumber(input, k) == Cardinality({j \in 1 .. k : Signing(input.cases[j])})

CapturedRequest(input, k) ==
    make_sign_request(input.execution.binding, RequestNumber(input, k), input.cases[k].id,
                      <<LOCAL_RULE_ID>>, input.observed)

(***************************************************************************)
(* The asset contract's transfer (external): the sender authorizes first,  *)
(* then the balances move, their entries' lives are extended, and the      *)
(* nonces are used.  A failure leaves no trace.                            *)
(***************************************************************************)
TransferRuns(input, k, out) ==
    LET planned == input.cases[k]
        reads_answered == \A key \in input.execution.code.reads :
                            get_answers(DOMAIN input.entries, {}, TRUE, key)
    IN  /\ out.ok
        /\ reads_answered
        /\ input.entries[BalanceKey(input.execution.binding.account)].value >= planned.amount

TransferState(input, k, out) ==
    LET planned == input.cases[k]
        b == input.execution.binding
        sender == BalanceKey(b.account)
        to == AccountKey(input.to)
        entry(key) == input.entries[key]
        nonces == {NonceKey(b.account, AccountNonce(k)),
                   NonceKey(b.delegate, RequestNonce(RequestNumber(input, k)))}
    IN  [ key \in {sender, to} \cup nonces |->
            IF key = sender THEN Value(entry(sender).value - planned.amount,
                                       {input.observed + input.max_ttl - 1})
            ELSE IF key = to THEN Value(entry(to).value + planned.amount, entry(to).until)
            ELSE Value(1, {input.observed + ExpiryLedgers}) ]

NoChange == [key \in {} |-> Value(1, {})]

Undeclared(input, out) ==
    IF out.ok THEN {key \in input.execution.code.reads :
                      ~get_answers(DOMAIN input.entries, {}, TRUE, key)} ELSE {}

ExpectedNew(input, k) ==
    {NonceKey(input.execution.binding.account, AccountNonce(k))} \cup
    (IF Signing(input.cases[k])
     THEN {NonceKey(input.execution.binding.delegate, RequestNonce(RequestNumber(input, k)))} ELSE {})

(* What the transfer may write. *)
Writable(input) ==
    input.writable \cup (IF HasState(input.execution.rule) THEN {<<"count", input.execution.policy>>}
                         ELSE {})

Delta(before, after, key) == after[key].value - before[key].value

(* The measured outcome of one case: moved is [runs, before, after, count,  *)
(* written, unexpected].                                                    *)
CapturedResult(input, planned, env, out, attributed, moved, sender, to) ==
    [ id |-> planned.id, class |-> planned.case.class, expected |-> planned.case.permit,
      permitted |-> moved.runs,
      by |-> IF attributed THEN "policy" ELSE "none",
      code |-> IF attributed THEN out.code ELSE 0,
      same |-> moved.before = moved.after,
      sender |-> Delta(moved.before, moved.after, sender),
      recipient |-> Delta(moved.before, moved.after, to),
      seed |-> planned.case.count, before |-> env.count, after |-> moved.count,
      undeclared |-> Undeclared(input, out), unexpected |-> moved.unexpected,
      agree |-> IF planned.code = {}
                THEN /\ moved.runs
                     /\ Delta(moved.before, moved.after, sender) = -input.amount
                     /\ Delta(moved.before, moved.after, to) = input.amount
                     /\ moved.count = {c + 1 : c \in env.count}
                     /\ moved.unexpected = {} /\ {sender, to} \subseteq moved.written
                ELSE /\ ~moved.runs /\ attributed /\ moved.before = moved.after
                     /\ moved.count = env.count /\ moved.unexpected = {} ]

Compared(runs, before, after, count, changes, undeclared) ==
    [ runs |-> runs, before |-> before, after |-> after, count |-> count,
      written |-> changes.written, unexpected |-> changes.unexpected \cup undeclared ]

MovedBetween(input, k, env, out, runs, before, after) ==
    Compared(runs, before, after, IF runs THEN out.env.count ELSE env.count,
             classify(before, after, Writable(input),
                      IF input.cases[k].code = {} THEN ExpectedNew(input, k) ELSE {},
                      input.observed + input.max_ttl - 1),
             Undeclared(input, out))

MovedFrom(input, k, env, out, runs, before) ==
    MovedBetween(input, k, env, out, runs, before,
                 IF runs THEN effective_state(input, out.env.count, TransferState(input, k, out))
                 ELSE before)

Moved(input, k, env, out) ==
    MovedFrom(input, k, env, out, TransferRuns(input, k, out),
              effective_state(input, env.count, NoChange))

CapturedOutcome(input, k, planned, env, out) ==
    CapturedResult(input, planned, env, out, out.by = "policy" /\ out.code \in planned.code,
                   Moved(input, k, env, out),
                   BalanceKey(input.execution.binding.account), AccountKey(input.to))

CapturedAttempt(input, k, planned, env) ==
    check_auth(input.execution, env, planned.case.r,
               IF Signing(planned)
               THEN {delegate_entry(input.execution, planned.id, RequestNumber(input, k), "None")} ELSE {},
               auth_digest(Payload(input.execution, planned.id), <<LOCAL_RULE_ID>>), 1)

CapturedPlanned(input, k, planned, env) ==
    CapturedOutcome(input, k, planned, env, CapturedAttempt(input, k, planned, env))

CapturedCase(input, k) ==
    CapturedPlanned(input, k, input.cases[k], setup_in(input.execution.rule, input.cases[k].case))

CapturedReport(input, cases) ==
    [ type |-> "result", schema |-> 1, binding |-> input.execution.binding,
      network |-> input.execution.network, capture |-> input.capture,
      provenance |-> "rpc_reported", observed |-> input.observed, target |-> Sac,
      account_code |-> AccountPin, policy |-> input.execution.policy,
      code |-> input.execution.code, local_rule_id |-> LOCAL_RULE_ID,
      context_rule |-> input.execution.context_rule, cases |-> cases,
      passed |-> \A k \in DOMAIN cases : cases[k].agree, complete |-> FALSE ]

execute_captured(input) ==
    CapturedReport(input, Listed([k \in DOMAIN input.cases |-> CapturedCase(input, k)]))

CapturedRequests(input) ==
    LET signing == SelectSeq([k \in DOMAIN input.cases |-> k], LAMBDA k : Signing(input.cases[k]))
    IN  [k \in DOMAIN signing |-> CapturedRequest(input, signing[k])]

CapturedScripts(input, frame) ==
    [ PrepareCaptured |-> Opened(frame),
      ExecuteCaptured |-> Finished(<<frame>> \o CapturedRequests(input), execute_captured(input)) ]

CapturedScripted(input) == CapturedScripts(input, CapturedPreparedFrame(input))

NoCapturedScripts == [PrepareCaptured |-> NoScript, ExecuteCaptured |-> NoScript]

captured_scripts(job) ==
    IF PreparesCaptured(job) THEN CapturedScripted(prepare_captured(job)) ELSE NoCapturedScripts

=============================================================================
