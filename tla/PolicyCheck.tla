----------------------------- MODULE PolicyCheck -----------------------------
(***************************************************************************)
(* check_against_policy: predict what one installed context rule does with *)
(* one call (crates/toolkit/src/policy_check.rs), from state acquired over *)
(* RPC while the account, its policies and their code may change           *)
(* (crates/source-rpc/src/policy_state_capture.rs).                        *)
(*                                                                         *)
(* A ledger state is a function from the keys that exist to [val, ttl].    *)
(* The endpoint answers every request from a node that may lag, and may    *)
(* leave entries out.  External: the account contract and the reviewed     *)
(* spending-limit policy, which appear only in what the network would do.  *)
(***************************************************************************)
EXTENDS PolicyRule, Functions, TLC

CONSTANTS
    Jobs,            \* the requests, each with the states its ledgers may have, how many
                     \* ledgers close and which entries the endpoint may leave out
    Self,            \* the smart account
    KnownAccounts,   \* pinned account code
    Schemes,         \* function from registered verifier code to its key scheme
    KeyLimit,        \* MAX_LEDGER_ENTRY_KEYS
    MAX_SIGNERS, MAX_POLICIES,
    MaxCandidates,   \* 15 in the code
    MaxHistory,      \* 1000 in the code
    MAX_I128,
    Lag,             \* how many ledgers a node may be behind
    MaxOmit          \* bound: answers that lack an entry

ASSUME CheckAssumption ==
    {KeyLimit, MAX_SIGNERS, MAX_POLICIES, MaxCandidates, MaxHistory, MAX_I128, Lag, MaxOmit}
        \subseteq Nat

VARIABLES
    job,       \* the request; fixed
    chain,     \* the ledger states so far
    expired,   \* the registry snapshot's validity has ended
    pc,        \* the next request to the endpoint, "finish" or "done"
    attempt, round,
    keys,      \* the key set of the next read
    before,    \* the header read before the values, as its ledger
    read,      \* the values read: [ledger, found]
    omitted,   \* answers so far that lacked an entry
    failed,    \* a request failed
    answer

check == <<attempt, round, keys, before, read>>
checkVars == <<job, chain, expired, pc, check, omitted, failed, answer>>

-----------------------------------------------------------------------------
(* Ledger keys *)

InstanceKey(c) == <<"instance", c>>
Code(h) == <<"code", h>>
RuleKey == <<"ContextRuleData", "selected">>
SignerKey(id) == <<"SignerData", id>>
PolicyKey(id) == <<"PolicyData", id>>
Classic(a) == <<"account", a>>
policy_key(tag, c) == <<tag, c>>

Native == "native"

(* The kinds of value the account's and the policies' own storage has; an   *)
(* amount is an i128 and a ledger a u32.                                    *)
IsList(x) == x \in Seq(Range(x))

IsSpendingState(v) ==
    /\ v.limit \in Int /\ v.limit <= MAX_I128 /\ v.period \in Nat /\ v.cached \in Int
    /\ IsList(v.history)
    /\ \A k \in DOMAIN v.history : v.history[k].amount \in Int /\ v.history[k].ledger \in Nat

(* A valid specification's rule has a generated policy. *)
ASSUME JobsAssumption ==
    \A j \in Jobs :
        /\ IsList(j.policies)
        /\ j.flaw # "spec" => j.rule \in Rules /\ \E p \in Range(j.policies) : p.ref = "generated"
        /\ IsArguments(j.call.args)
        /\ \A s \in j.stores : \A k \in DOMAIN s :
            /\ k = RuleKey => IsList(s[k].val.signer_ids) /\ IsList(s[k].val.policy_ids)
            /\ k[1] = "SignerData" => /\ s[k].val.signer \in Signers
                                      /\ s[k].val.signer.kind \in {"delegated", "contract", "external"}
            /\ k[1] = "AccountContext" => IsSpendingState(s[k].val)
            /\ k[1] # "account" => s[k].ttl \in Nat

-----------------------------------------------------------------------------
(* Planning: what must hold before anything is read.  A defect of the       *)
(* request that is not in the data below is job.flaw.                       *)

StateTags(j, p) ==
    IF p.ref = "generated"
    THEN {"Installed"} \cup (IF j.rule.max_calls = {} THEN {} ELSE {"CallCount"})
    ELSE {"AccountContext"}

additional_keys(j) ==
    UNION {{policy_key(tag, p.address) : tag \in StateTags(j, p)} : p \in Range(j.policies)}

plan_checks(j) ==
    << Check(j.flaw = "spec", "E_SPEC_INVALID"),
       Check(j.flaw \in {"account", "network"}, "E_POLICY_BINDING_INVALID"),
       Check(j.flaw = "rule_index", "E_SPEC_INVALID"),
       Check(Len(j.candidates) > MaxCandidates, "E_RESOURCE_LIMIT"),
       Check(j.flaw = "candidate" \/ ~IsInjective(j.candidates), "E_SPEC_INVALID"),
       Check(j.flaw = "invocation", "E_SPEC_INVALID"),
       Check(j.flaw = "argument", "E_SPEC_INVALID"),
       Check(j.flaw = "large_argument", "E_RESOURCE_LIMIT"),
       Check(j.flaw = "snapshot", "E_REGISTRY_SIGNATURE"),
       Check(expired, "E_REGISTRY_EXPIRED"),
       Check(j.flaw = "root", "E_POLICY_BINDING_INVALID"),
       Check(j.flaw = "account_code", "E_INCOMPATIBLE_ACCOUNT"),
       Check(j.account_hash \notin KnownAccounts, "E_UNSUPPORTED_PATTERN"),
       Check(j.flaw = "bindings", "E_POLICY_BINDING_INVALID"),
       Check(j.flaw = "template", "E_UNREGISTERED_TEMPLATE"),
       Check(j.flaw = "build", "E_BUILD"),
       Check(\E p \in Range(j.policies) : p.ref \notin {"generated", "spending"},
             "E_UNSUPPORTED_PATTERN") >>

Unrecognized ==
    {"E_UNSUPPORTED_PATTERN", "E_UNREGISTERED_POLICY", "E_UNREGISTERED_VERIFIER",
     "E_UNREGISTERED_TEMPLATE", "E_INCOMPATIBLE_ACCOUNT", "E_POLICY_BINDING_INVALID"}

Result(out, why, ledger, hash, restoration) ==
    [out |-> out, why |-> why, ledger |-> ledger, hash |-> hash, restoration |-> restoration]

NoAnswer == Result("none", "none", 0, 0, "none")
Failure(code) == Result("error", code, 0, 0, "none")

(* What is not recognized is an answer; what is malformed is an error. *)
policy_check_unavailable(code) ==
    IF code \in Unrecognized THEN Result("unsupported", code, 0, 0, "none") ELSE Failure(code)

(* A rule has at most a handful of policies: these keys fit one request. *)
InitialKeys(j) ==
    {InstanceKey(Self), RuleKey, InstanceKey(j.rule.contract)}
    \cup {InstanceKey(p.address) : p \in Range(j.policies)} \cup additional_keys(j)

CheckInit ==
    /\ job \in Jobs
    /\ \E s \in job.stores : chain = <<s>>
    /\ expired = FALSE
    /\ pc = "plan" /\ attempt = 1 /\ round = 1 /\ keys = {} /\ before = 0
    /\ read = [ledger |-> 0, found |-> <<>>]
    /\ omitted = 0 /\ failed = FALSE /\ answer = NoAnswer

Answered(a) == pc' = "done" /\ answer' = a /\ UNCHANGED check

plan_policy_check_read ==
    /\ pc = "plan"
    /\ \E refusal \in {FirstRefusal(plan_checks(job))} :
        \/ /\ refusal # "Permit"
           /\ Answered(policy_check_unavailable(refusal))
        \/ /\ refusal = "Permit"
           /\ pc' = "network"
           /\ UNCHANGED <<check, answer>>
    /\ UNCHANGED <<job, chain, expired, omitted, failed>>

-----------------------------------------------------------------------------
(* The account's storage, as decode_account_storage reads it *)

decode_rule(v) ==
    /\ IsInjective(v.signer_ids) /\ Len(v.signer_ids) <= MAX_SIGNERS
    /\ IsInjective(v.policy_ids) /\ Len(v.policy_ids) <= MAX_POLICIES
    /\ v.signer_ids # <<>> \/ v.policy_ids # <<>>

decode_signer(v) == v.count # 0

decode_policy(v) == v.count # 0

decode_account_storage(key, v) ==
    CASE key[1] = "ContextRuleData" -> decode_rule(v)
      [] key[1] = "SignerData" -> decode_signer(v)
      [] key[1] = "PolicyData" -> decode_policy(v)
      [] OTHER -> TRUE

CodeKeys(found) ==
    {Code(found[k].val) : k \in {k \in DOMAIN found : k[1] = "instance" /\ found[k].val # Native}}

RuleNames(found) ==
    IF RuleKey \in DOMAIN found
    THEN {SignerKey(id) : id \in Range(found[RuleKey].val.signer_ids)}
         \cup {PolicyKey(id) : id \in Range(found[RuleKey].val.policy_ids)}
    ELSE {}

(* What a delegated or external signer's authentication rests on; for a    *)
(* delegated contract nothing is read.                                     *)
SignerNames(signer) ==
    CASE signer.kind = "delegated" -> {Classic(signer.address)}
      [] signer.kind = "contract" -> {}
      [] signer.kind = "external" -> {InstanceKey(signer.address)}

(* closure: every returned entry names keys, whoever asked for it. *)
closure(initial, found) ==
    initial \cup CodeKeys(found) \cup RuleNames(found)
    \cup (UNION {SignerNames(found[k].val.signer) : k \in {k \in DOMAIN found : k[1] = "SignerData"}})
    \cup {InstanceKey(found[k].val.address) : k \in {k \in DOMAIN found : k[1] = "PolicyData"}}

Decodes(found) == \A k \in DOMAIN found : decode_account_storage(k, found[k].val)

-----------------------------------------------------------------------------
(* The ledger and the endpoint *)

CloseLedger ==
    /\ pc \notin {"plan", "done"}
    /\ Len(chain) < job.ledgers
    /\ \E s \in job.stores : chain' = Append(chain, s)
    /\ UNCHANGED <<job, expired, pc, check, omitted, failed, answer>>

(* The clock is read by the plan and at the end. *)
SnapshotExpires ==
    /\ pc \in {"plan", "finish"} /\ ~expired
    /\ expired' = TRUE
    /\ UNCHANGED <<job, chain, pc, check, omitted, failed, answer>>

Nodes == {l \in 1 .. Len(chain) : l + Lag >= Len(chain)}

Existing(asked, l) == asked \cap DOMAIN chain[l]

(* What an answer leaves out: nothing, or one entry. *)
Losses(asked, l) ==
    {{}} \cup (IF omitted < MaxOmit THEN {{k} : k \in Existing(asked, l) \cap job.gaps} ELSE {})

Reply(asked, l, lost) ==
    [ledger |-> l, found |-> Restrict(chain[l], Existing(asked, l) \ lost)]

Note(lost) == omitted' = IF lost = {} THEN omitted ELSE omitted + 1

(* A transport failure, a malformed, unrequested, duplicate or              *)
(* non-canonical entry, or a header that contradicts itself.                *)
RequestFails ==
    /\ pc \in {"network", "discover", "before", "read", "after"}
    /\ Answered(Failure("E_RPC"))
    /\ failed' = TRUE
    /\ UNCHANGED <<job, chain, expired, omitted>>

-----------------------------------------------------------------------------
(* capture_policy_state *)

Rounds == 5

Attempts == 2

NextAttempt_Uncounted == attempt
NextAttempt == attempt + 1

verify_network ==
    /\ pc = "network"
    /\ pc' = "discover"
    /\ keys' = InitialKeys(job)
    /\ UNCHANGED <<job, chain, expired, attempt, round, before, read, omitted, failed, answer>>

(* The values of a discovery are dropped; only the keys they name are kept. *)
Discovered(named) ==
    /\ keys' = named
    /\ \/ /\ named = keys \/ round = Rounds
          /\ pc' = "before" /\ round' = 1
       \/ /\ named # keys /\ round # Rounds
          /\ pc' = "discover" /\ round' = round + 1
    /\ UNCHANGED <<attempt, before, read, answer>>

Discover ==
    /\ pc = "discover"
    /\ \E l \in Nodes : \E lost \in Losses(keys, l) :
        /\ Note(lost)
        /\ \E r \in {Reply(keys, l, lost)} : \E named \in {closure(InitialKeys(job), r.found)} :
            \/ /\ Decodes(r.found) /\ Cardinality(named) <= KeyLimit
               /\ Discovered(named)
            \/ /\ ~Decodes(r.found) \/ Cardinality(named) > KeyLimit
               /\ Answered(Failure("E_RPC"))
    /\ UNCHANGED <<job, chain, expired, failed>>

header ==
    /\ pc = "before"
    /\ pc' = "read"
    /\ \E l \in Nodes : before' = l
    /\ UNCHANGED <<job, chain, expired, attempt, round, keys, read, omitted, failed, answer>>

read_entries ==
    /\ pc = "read"
    /\ pc' = "after"
    /\ \E l \in Nodes : \E lost \in Losses(keys, l) : Note(lost) /\ read' = Reply(keys, l, lost)
    /\ UNCHANGED <<job, chain, expired, attempt, round, keys, before, failed, answer>>

Anchored(after) == before = after /\ read.ledger = before

ClosureHolds_Assumed(named) == TRUE
ClosureHolds(named) == named = keys

Changed ==
    \/ /\ attempt < Attempts
       /\ attempt' = NextAttempt /\ pc' = "discover" /\ round' = 1 /\ keys' = InitialKeys(job)
       /\ UNCHANGED <<before, read, answer>>
    \/ /\ attempt >= Attempts
       /\ Answered(Failure("E_RPC"))

(* The header again, then the keys the values themselves name. *)
Confirm ==
    /\ pc = "after"
    /\ \E after \in Nodes : \E named \in {closure(InitialKeys(job), read.found)} :
        \/ ~Anchored(after) /\ Changed
        \/ /\ Anchored(after)
           /\ ~Decodes(read.found) \/ Cardinality(named) > KeyLimit
           /\ Answered(Failure("E_RPC"))
        \/ /\ Anchored(after)
           /\ Decodes(read.found) /\ Cardinality(named) <= KeyLimit
           /\ \/ ~ClosureHolds(named) /\ Changed
              \/ ClosureHolds(named) /\ pc' = "finish" /\ UNCHANGED <<check, answer>>
    /\ UNCHANGED <<job, chain, expired, omitted, failed>>

-----------------------------------------------------------------------------
(* The reviewed spending limit.  A state is [limit, period, history,       *)
(* cached]; a history entry [amount, ledger].                              *)

(* The amounts of the entries in S, added up as the loop over the history  *)
(* does.                                                                   *)
Spent(history, S) ==
    LET sum[n \in 0 .. Len(history)] ==
            IF n = 0 THEN 0 ELSE sum[n - 1] + (IF n \in S THEN history[n].amount ELSE 0)
    IN  sum[Len(history)]

UnusableHistory(s, current) ==
    \/ s.limit <= 0 \/ s.period = 0 \/ Len(s.history) > MaxHistory \/ current = 0
    \/ \E k \in DOMAIN s.history :
        \/ s.history[k].amount < 0
        \/ s.history[k].ledger > current
        \/ k > 1 /\ s.history[k].ledger < s.history[k - 1].ledger
    \/ Spent(s.history, DOMAIN s.history) > MAX_I128
    \/ Spent(s.history, DOMAIN s.history) # s.cached

(* Mutant: an entry exactly one period old still counts. *)
InWindow_Inclusive(s, current) ==
    {k \in DOMAIN s.history : s.history[k].ledger >= SaturatingSub(current, s.period)}

InWindow(s, current) ==
    {k \in DOMAIN s.history : s.history[k].ledger > SaturatingSub(current, s.period)}

evaluate_spending_limit(s, current, amount) ==
    CASE UnusableHistory(s, current) -> "unsupported"
      [] OTHER ->
            IF \/ amount < 0
               \/ Cardinality(InWindow(s, current)) >= MaxHistory
               \/ Spent(s.history, InWindow(s, current)) + amount > MAX_I128
               \/ Spent(s.history, InWindow(s, current)) + amount > s.limit
            THEN "deny" ELSE "permit"

-----------------------------------------------------------------------------
(* evaluate_observed: the checks on a capture, in four groups, each of them *)
(* reading what the groups before it found to be there.                     *)

code_hash(found, c) == found[InstanceKey(c)].val

CodeRefusal(found, c, code) == IF code_hash(found, c) = Native
                               THEN "native_executable_unsupported" ELSE code

availability_checks(asked, l, found) ==
    << Check(\E k \in DOMAIN found : k[1] # "account" /\ found[k].ttl < l,
             "archived_state_requires_restoration"),
       Check(DOMAIN found # asked, "required_state_unavailable") >>

live_signers(found) ==
    LET ids == found[RuleKey].val.signer_ids
    IN  [k \in DOMAIN ids |-> found[SignerKey(ids[k])].val.signer]

live_policies(found) ==
    LET ids == found[RuleKey].val.policy_ids
    IN  [k \in DOMAIN ids |-> found[PolicyKey(ids[k])].val.address]

configuration_checks(j, found) ==
    << Check(code_hash(found, Self) # j.account_hash,
             CodeRefusal(found, Self, "account_code_changed")),
       Check(\/ found[RuleKey].val.context # j.rule.contract
             \/ found[RuleKey].val.name # j.name
             \/ found[RuleKey].val.until # j.rule.valid_until,
             "installed_rule_configuration_differs_from_spec"),
       Check(~IsInjective(live_policies(found)), "duplicate_live_policy"),
       Check(Range(live_policies(found)) # {p.address : p \in Range(j.policies)},
             "installed_policy_set_differs_from_bindings") >>
    \o [k \in DOMAIN j.policies |->
            Check(code_hash(found, j.policies[k].address) # j.policies[k].hash,
                  CodeRefusal(found, j.policies[k].address, "policy_code_changed"))]

candidates_belong_to_rule(candidates, live) == Range(candidates) \subseteq Range(live)

resolve_signer(found, signer) ==
    CASE signer.kind = "contract" -> "delegated_contract_signer_unsupported"
      [] signer.kind = "delegated" ->
            IF Classic(signer.address) \notin DOMAIN found THEN "required_state_unavailable"
            ELSE IF found[Classic(signer.address)].val # "single" THEN "classic_multisig_unsupported"
            ELSE "Permit"
      [] signer.kind = "external" ->
            IF InstanceKey(signer.address) \notin DOMAIN found THEN "required_state_unavailable"
            ELSE IF code_hash(found, signer.address) \notin DOMAIN Schemes
            THEN CodeRefusal(found, signer.address, "verifier_model_unsupported")
            ELSE IF signer.scheme # Schemes[code_hash(found, signer.address)]
            THEN "invalid_external_signer_key"
            ELSE "Permit"

(* The signers are all resolved before any of them is compared. *)
signer_checks(j, found) ==
    LET live == live_signers(found)
    IN  << Check(~candidates_belong_to_rule(j.candidates, live), "unauthorized_signer") >>
        \o [k \in DOMAIN live |->
                Check(resolve_signer(found, live[k]) # "Permit", resolve_signer(found, live[k]))]
        \o << Check(~IsInjective(live), "duplicate_live_signer"),
              Check(/\ ~IsDynamic(j.rule)
                    /\ signer_set_hash(live) # signer_set_hash(j.rule.signers),
                    "installed_signer_set_differs_from_spec") >>

(* Code the specification pins: of the verifiers, and of the target. *)
Drifted(j, found) == \E t \in j.target : code_hash(found, j.rule.contract) # t.hash

pinned_code_checks(j, found) ==
    << Check(\E v \in DOMAIN j.verifiers : code_hash(found, v) # j.verifiers[v],
             "verifier_code_changed"),
       Check(j.target # {} /\ code_hash(found, j.rule.contract) = Native,
             "native_executable_unsupported"),
       Check(Drifted(j, found) /\ \A t \in j.target : t.refuse, "required_target_code_changed") >>

Argument(call) == IF Len(call.args) >= 3 /\ call.args[3].t = "i128" THEN {call.args[3].v} ELSE {}

Amount(call) == IF Argument(call) = {} THEN 0 ELSE CHOOSE n \in Argument(call) : TRUE

SpendingState(found, p) == found[policy_key("AccountContext", p.address)].val

Limits(j) == {p \in Range(j.policies) : p.ref = "spending"}

(* The code goes binding by binding; with several limits at fault another   *)
(* of these reasons may be named first, and all of them are unsupported.    *)
spending_checks(j, l, found) ==
    << Check(\E p \in Limits(j) : \/ SpendingState(found, p).limit # p.limit
                                  \/ SpendingState(found, p).period # p.period,
             "installed_spending_configuration_differs_from_spec"),
       Check(\E p \in Limits(j) :
                evaluate_spending_limit(SpendingState(found, p), l, Amount(j.call)) = "unsupported",
             "invalid_spending_history") >>

(* The candidates the rule's signers are matched with, in the rule's order. *)
authenticated_signers(j, found) ==
    LET live == live_signers(found)
        taken[n \in 0 .. Len(live)] ==
            IF n = 0 THEN <<>>
            ELSE IF live[n] \in Range(j.candidates) THEN Append(taken[n - 1], live[n])
            ELSE taken[n - 1]
    IN  taken[Len(live)]

Attempted(j, found) ==
    [kind |-> "contract", contract |-> j.call.contract, fn |-> j.call.fn, args |-> j.call.args,
     auth |-> authenticated_signers(j, found), live |-> live_signers(found)]

Generated(j) == CHOOSE p \in Range(j.policies) : p.ref = "generated"

CallCount(j, found) ==
    IF HasState(j.rule) THEN {found[policy_key("CallCount", Generated(j).address)].val} ELSE {}

SpendingDenied(j, l, found) ==
    /\ Limits(j) # {}
    /\ \/ j.call.fn # "transfer" \/ Argument(j.call) = {}
       \/ \E p \in Limits(j) :
            evaluate_spending_limit(SpendingState(found, p), l, Amount(j.call)) = "deny"

Prediction(j, l, found) ==
    LET rule == evaluate_generated_rule(j.rule, CallCount(j, found), l, Attempted(j, found), Self)
    IN  CASE rule # "Permit" -> rule
          [] rule = "Permit" /\ SpendingDenied(j, l, found) -> "spending_limit_denied"
          [] OTHER -> "Permit"

evaluate_observed(j, asked, l, found) ==
    CASE ~Passes(availability_checks(asked, l, found)) ->
            FirstRefusal(availability_checks(asked, l, found))
      [] OTHER ->
    CASE ~Passes(configuration_checks(j, found)) -> FirstRefusal(configuration_checks(j, found))
      [] OTHER ->
    CASE ~Passes(signer_checks(j, found)) -> FirstRefusal(signer_checks(j, found))
      [] OTHER ->
    CASE ~Passes(pinned_code_checks(j, found) \o spending_checks(j, l, found)) ->
            FirstRefusal(pinned_code_checks(j, found) \o spending_checks(j, l, found))
      [] OTHER -> Prediction(j, l, found)

Inconclusive ==
    {"archived_state_requires_restoration", "required_state_unavailable",
     "native_executable_unsupported", "account_code_changed",
     "installed_rule_configuration_differs_from_spec", "duplicate_live_policy",
     "installed_policy_set_differs_from_bindings", "policy_code_changed",
     "delegated_contract_signer_unsupported", "classic_multisig_unsupported",
     "verifier_model_unsupported", "invalid_external_signer_key", "duplicate_live_signer",
     "installed_signer_set_differs_from_spec", "verifier_code_changed",
     "required_target_code_changed", "installed_spending_configuration_differs_from_spec",
     "invalid_spending_history"}

Kind(reason) ==
    CASE reason = "Permit" -> "permit"
      [] reason \in Inconclusive -> "unsupported"
      [] OTHER -> "deny"

(* evidence: the observations, and whether something must be restored. *)
Restoration(asked, l, found) ==
    IF \E k \in DOMAIN found : k[1] # "account" /\ found[k].ttl < l THEN "required"
    ELSE IF \E k \in asked \ DOMAIN found : k[1] # "account" THEN "unknown"
    ELSE "not_required"

(* A code entry is attributed to an instance that refers to it. *)
UnreferencedCode(asked, found) == {k \in asked : k[1] = "code"} \ CodeKeys(found)

Finished(j, asked, hash, l, found) ==
    IF UnreferencedCode(asked, found) # {} THEN Failure("E_INCOMPLETE_ACCOUNT_STATE")
    ELSE LET reason == evaluate_observed(j, asked, l, found)
         IN  Result(Kind(reason), reason, l, hash, Restoration(asked, l, found))

finish_policy_check ==
    /\ pc = "finish"
    /\ \/ expired /\ Answered(Failure("E_REGISTRY_EXPIRED"))
       \/ ~expired /\ Answered(Finished(job, keys, before, read.ledger, read.found))
    /\ UNCHANGED <<job, chain, expired, omitted, failed>>

Step == plan_policy_check_read \/ verify_network \/ Discover \/ header \/ read_entries
        \/ Confirm \/ finish_policy_check

Done == pc = "done" /\ UNCHANGED checkVars

CheckNext == CloseLedger \/ SnapshotExpires \/ RequestFails \/ Step \/ Done

(* The request's own thread goes on; nothing else has to. *)
CheckSpec == CheckInit /\ [][CheckNext]_checkVars /\ WF_checkVars(Step)

-----------------------------------------------------------------------------
(* What the network would do in one ledger, if exactly the candidates      *)
(* authenticate.  The account and the spending limit are external; the     *)
(* generated policy is the compiled contract of PolicyRule.                *)

(* The spending limit drops what has left the window from the front of its *)
(* history, takes it off the cached total, and compares.                   *)
SpendingEnforces(s, current, call) ==
    LET cutoff == SaturatingSub(current, s.period)
        gone == {k \in DOMAIN s.history : \A j \in 1 .. k : s.history[j].ledger <= cutoff}
    IN  /\ call.fn = "transfer"
        /\ \E amount \in Argument(call) :
            /\ amount >= 0
            /\ Len(s.history) - Cardinality(gone) < MaxHistory
            /\ s.cached - Spent(s.history, gone) + amount <= s.limit

(* The keys the execution of the rule touches in a state: from the rule to  *)
(* its signers and policies, their contracts and those contracts' code.     *)
Follow(j, s, ks) == closure(InitialKeys(j), Restrict(s, ks \cap DOMAIN s))

Touched(j, s) == Follow(j, s, Follow(j, s, Follow(j, s, Follow(j, s, InitialKeys(j)))))

(* Every key the execution of the rule touches exists and is live. *)
Executable(j, s, l) ==
    /\ RuleKey \in DOMAIN s
    /\ \A k \in Touched(j, s) :
        k \in DOMAIN s /\ (k[1] # "account" => s[k].ttl >= l)

PolicyEnforces(j, s, l, p) ==
    IF p.ref = "generated"
    THEN enforce_verdict(j.rule, policy_key("Installed", p.address) \in DOMAIN s, CallCount(j, s), l,
                         Attempted(j, s), Self) = "Permit"
    ELSE SpendingEnforces(SpendingState(s, p), l, j.call)

(* What of the ledger's own code is known: the account, the rule's policies *)
(* and its signers' verifiers run the code the request recognized.          *)
Recognized(j, s) ==
    /\ code_hash(s, Self) = j.account_hash
    /\ Range(live_policies(s)) = {p.address : p \in Range(j.policies)}
    /\ \A p \in Range(j.policies) : code_hash(s, p.address) = p.hash
    /\ \A x \in Range(live_signers(s)) : resolve_signer(s, x) = "Permit"

Admits(j, s, l) ==
    /\ s[RuleKey].val.context = j.call.contract
    /\ \A until \in s[RuleKey].val.until : l <= until
    /\ Range(j.candidates) \subseteq Range(live_signers(s))
    /\ \A p \in Range(j.policies) : PolicyEnforces(j, s, l, p)

-----------------------------------------------------------------------------
(* Properties *)

(* A permit or a denial names one ledger of the chain: its sequence and     *)
(* hash belong together, everything the call touches there exists and is    *)
(* live, and what runs there is what the request recognized.  A foreign     *)
(* candidate is refused by the account whatever its signers run.            *)
AnswerIsOfItsLedger ==
    answer.out \in {"permit", "deny"} =>
        LET s == chain[answer.ledger]
        IN  /\ answer.hash = answer.ledger
            /\ answer.restoration = "not_required"
            /\ Executable(job, s, answer.ledger)
            /\ answer.why # "unauthorized_signer" => Recognized(job, s)

(***************************************************************************)
(* A permit or a denial is what the account and the policies it runs would *)
(* do at the ledger whose sequence and hash the answer names, although the *)
(* rule, its signers, counters and code changed between the reads and the  *)
(* nodes lagged; nothing of that ledger needs restoring                    *)
(* (capture_policy_state, evaluate_observed, evaluate_spending_limit).     *)
(***************************************************************************)
PredictionIsOfItsLedger ==
    /\ AnswerIsOfItsLedger
    /\ answer.out \in {"permit", "deny"} =>
        (answer.out = "permit" <=> Admits(job, chain[answer.ledger], answer.ledger))

(***************************************************************************)
(* What the capture hands over is the rule's whole closure at one ledger:  *)
(* the keys are those that ledger's own entries name, unless the endpoint  *)
(* left an entry out, so the evidence can always be attributed             *)
(* (capture_policy_state, evidence).                                       *)
(***************************************************************************)
CaptureIsWhole ==
    /\ pc = "finish" =>
        LET s == chain[read.ledger]
        IN  /\ before = read.ledger
            /\ \A k \in DOMAIN read.found : read.found[k] = s[k]
            /\ omitted = 0 => keys = closure(InitialKeys(job), Restrict(s, keys \cap DOMAIN s))
            /\ \A k \in keys \cap DOMAIN s : k \in DOMAIN read.found \/ omitted > 0
    /\ answer # Failure("E_INCOMPLETE_ACCOUNT_STATE")

(***************************************************************************)
(* The check ends, even where every header differs from the last one       *)
(* (the attempt loop of capture_policy_state).                             *)
(***************************************************************************)
CheckEnds == <>(pc = "done")

=============================================================================
