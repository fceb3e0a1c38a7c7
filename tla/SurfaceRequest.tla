---------------------------- MODULE SurfaceRequest ----------------------------
(***************************************************************************)
(* The authority check as the toolkit makes it (crates/toolkit/src/        *)
(* call_surface.rs, call_surface_live.rs, install_intent.rs,               *)
(* installed_grant.rs): a request is validated under the operator's        *)
(* registry trust and planned, the account is read, and the same plan is   *)
(* answered over the read.                                                 *)
(*                                                                         *)
(* A request is [spec, rule, bindings, snapshot, account, network]; a spec *)
(* says, per rule, its target, signers, expiry and policies and what       *)
(* building the rule yields.  A scan is [network, account, ledger, code,   *)
(* state, codes, classics]: one capture (AccountScan).                     *)
(***************************************************************************)
EXTENDS CallSurface, Registry

CONSTANTS
    Testnet,        \* the network on which the public development root is accepted
    DevelopmentRoot \* that root

(* A function on some of its entries. *)
Kept(f, ids) == [x \in ids |-> f[x]]

(* A function with the entries of another beside its own. *)
Extended(f, g) == [x \in DOMAIN f \cup DOMAIN g |-> IF x \in DOMAIN f THEN f[x] ELSE g[x]]

-----------------------------------------------------------------------------
(* The registry of one request *)

RegistryFor(trust) ==
    IF trust.checkpoint # {}
    THEN with_pinned_roots_for_network_at_checkpoint(CHOOSE c \in trust.checkpoint : TRUE)
    ELSE with_pinned_roots_for_network_at_version(trust.minimum)

registry_for_checks(network) ==
    << Check(network # Testnet /\ DevelopmentRoot \in RootKeys, "RootPolicy") >>

(* Only the spending limit's treatment of signers was established. *)
signer_semantics(kind) == IF kind = "spending_limit" THEN "AtLeastOneRuleSigner" ELSE "Unknown"

-----------------------------------------------------------------------------
(* Bindings *)

Positions(spec) ==
    UNION {{<<r, p>> : p \in DOMAIN spec.rules[r].policies} : r \in DOMAIN spec.rules}

(* A reviewed policy is recognized by code the registry lists. *)
reviewed_checks(reg, policy, b) ==
    << Check(policy.capability # b.code, "PolicyBindingInvalid") >>
    \o resolve_policy(reg, b.code)
    \o << Check(\E c \in reg.current : b.code \in DOMAIN c.policies /\ c.policies[b.code] # policy.kind,
                "PolicyBindingInvalid") >>

(* A generated one by building it again. *)
generated_checks(reg, rule, policy, b) ==
    resolve_template(reg, policy.family)
    \o << Check(\E c \in reg.current : /\ policy.family \in DOMAIN c.templates
                                       /\ c.templates[policy.family].schema # policy.schema,
                "PolicyBindingInvalid"),
          Check(\E c \in reg.current : /\ policy.family \in DOMAIN c.templates
                                       /\ ~(rule.uses \subseteq c.templates[policy.family].declares),
                "UnsupportedPattern"),
          Check(\/ rule.artifact.manifest # b.manifest \/ rule.artifact.wasm # b.code
                \/ rule.artifact.family # policy.family, "PolicyBindingInvalid") >>

binding_checks(reg, spec, b) ==
    LET rule == spec.rules[b.rule]
        policy == rule.policies[b.policy]
    IN  << Check(AddressKind[b.address] # "contract", "PolicyBindingInvalid"),
           Check(b.address = spec.account, "PolicyBindingInvalid"),
           Check(~b.reference \/ ~b.canonical, "PolicyBindingInvalid"),
           Check((policy.of = "reviewed") # (b.recognition = "reviewed_registry"),
                 "PolicyBindingInvalid") >>
        \o (IF policy.of = "reviewed" THEN reviewed_checks(reg, policy, b)
            ELSE generated_checks(reg, rule, policy, b))

BindingSetWellFormed(request) ==
    LET bs == request.bindings.list
        at == [k \in DOMAIN bs |-> <<bs[k].rule, bs[k].policy>>]
    IN  /\ request.bindings.spec = request.spec /\ request.bindings.network = request.spec.network
        /\ Len(bs) = Cardinality(Positions(request.spec))
        /\ ToSet(at) \subseteq Positions(request.spec)
        /\ NoRepeats(at)
        /\ NoRepeats([k \in DOMAIN bs |-> bs[k].address])

validate_bindings(reg, request) ==
    << Check(~BindingSetWellFormed(request), "PolicyBindingInvalid") >>
    \o (IF BindingSetWellFormed(request)
        THEN [k \in DOMAIN request.bindings.list |->
                LET refusal == FirstRefusal(binding_checks(reg, request.spec, request.bindings.list[k]))
                IN  Check(refusal # "Permit", refusal)]
        ELSE <<>>)

BoundRecognition(reg, request) ==
    LET bs == request.bindings.list
        of(a) == bs[CHOOSE k \in DOMAIN bs : bs[k].address = a]
        kind(b) == request.spec.rules[b.rule].policies[b.policy].kind
    IN  [a \in {b.address : b \in ToSet(bs)} |->
            [ code |-> of(a).code,
              signers |-> IF of(a).recognition = "reviewed_registry"
                          THEN signer_semantics(kind(of(a))) ELSE "Unknown" ]]

grant_for(request) ==
    LET rule == request.spec.rules[request.rule]
        address(p) == LET bs == request.bindings.list
                      IN  bs[CHOOSE k \in DOMAIN bs :
                                bs[k].rule = request.rule /\ bs[k].policy = p].address
    IN  [ rule |-> request.rule, target |-> rule.target, signers |-> rule.signers,
          until |-> rule.until, name |-> rule.name,
          stateful |-> rule.stateful \/ \E p \in ToSet(rule.policies) : p.of = "reviewed",
          policies |-> [p \in DOMAIN rule.policies |->
                            [address |-> address(p), params |-> rule.policies[p].params]] ]

-----------------------------------------------------------------------------
(* Planning: everything that does not depend on the read *)

prepare_call_surface_check(request, trust, now) ==
    LET spec == request.spec
        empty == RegistryFor(trust)
        loading == registry_for_checks(spec.network)
                   \o load_checks(empty, request.snapshot, spec.network, now)
        reg == load_at(empty, request.snapshot)
    IN  << Check(~spec.valid, "SpecInvalid"),
           Check(request.account # spec.account \/ request.network # spec.network,
                 "PolicyBindingInvalid"),
           Check(request.rule \notin DOMAIN spec.rules, "SpecInvalid") >>
        \o loading
        \o << Check(snapshot_root(request.snapshot.snapshot) # spec.registry, "PolicyBindingInvalid") >>
        \o resolve_account(reg, spec.code)
        \o << Check(\E c \in reg.current : spec.code \in DOMAIN c.accounts /\ ~c.accounts[spec.code].agree,
                    "IncompatibleAccount"),
              Check(\E c \in reg.current : spec.code \in DOMAIN c.accounts
                        /\ c.accounts[spec.code].enumeration # "bounded_next_id",
                    "AccountRuleEnumerationUnsupported") >>
        \o validate_bindings(reg, request)

(* The new rule must not target the account or a policy bound for it:      *)
(* said before anything is built or read.                                  *)
guard_target(request) ==
    LET target == request.spec.rules[request.rule].target
    IN  << Check(target = request.account, "UnsafeManagementSurface"),
           Check(\E b \in ToSet(request.bindings.list) : b.address = target, "UnsafeCallSurface") >>

plan_install_intent_read(request, trust, now) ==
    (IF request.rule \in DOMAIN request.spec.rules THEN guard_target(request) ELSE <<>>)
    \o prepare_call_surface_check(request, trust, now)
    \o resolve_account_authority(load_at(RegistryFor(trust), request.snapshot), request.spec.code)

(* What the capture must hold besides the account. *)
PlannedContracts(request) ==
    {b.address : b \in ToSet(request.bindings.list)}
    \cup {k.at : k \in {x \in ToSet(grant_for(request).signers) :
                            x.kind = "External" /\ AddressKind[x.at] = "contract"}}

PlannedClassics(request) ==
    {k.at : k \in {x \in ToSet(grant_for(request).signers) : IsClassic(x)}}

-----------------------------------------------------------------------------
(* Answering over one capture *)

Referenced(st, field) == UNION {ToSet(st.rules[r][field]) : r \in DOMAIN st.rules}

(* The capture is reconciled once more before it is read: what it lists is  *)
(* what its counters and its rules say, and every installed policy has code. *)
ProjectionRefused(scan, st) ==
    LET rules == {st.rules[r] : r \in DOMAIN st.rules}
    IN  \/ scan.ledger = 0
        \/ scan.account \in DOMAIN scan.codes /\ scan.codes[scan.account] # scan.code
        \/ st.active_count > st.next_id
        \/ \E r \in DOMAIN st.rules : r >= st.next_id \/ st.rules[r].id # r
        \/ Cardinality(DOMAIN st.rules) # st.active_count
        \/ \E r \in rules : ~NoRepeats(r.signers) \/ ~NoRepeats(r.policies)
        \/ DOMAIN st.signers # Referenced(st, "signers")
        \/ DOMAIN st.policies # Referenced(st, "policies")
        \/ \E p \in DOMAIN st.policies : st.policies[p].address \notin DOMAIN scan.codes

(* The entries as the check reads them: a policy with the code observed. *)
project_account_state(scan, st) ==
    [st EXCEPT !.policies =
        [p \in DOMAIN st.policies |->
            [ id |-> st.policies[p].id, address |-> st.policies[p].address,
              code |-> scan.codes[st.policies[p].address] ]]]

(* Codes seen at one address agree, wherever the capture saw them. *)
CodeConflict(request, scan, state) ==
    LET policies == {<<state.policies[p].address, state.policies[p].code>> : p \in DOMAIN state.policies}
        verifiers == {<<a, scan.codes[a]>> : a \in DOMAIN scan.codes}
        all == {<<request.account, scan.code>>} \cup policies \cup verifiers
    IN  \E x, y \in all : x[1] = y[1] /\ x[2] # y[2]

(* An installed policy is readable only through its observed code. *)
Recognized(reg, request, state) ==
    LET bound == BoundRecognition(reg, request)
        listed == {p \in {state.policies[k] : k \in DOMAIN state.policies} :
                        /\ p.address \notin DOMAIN bound
                        /\ Passes(resolve_policy(reg, p.code))}
        of(a) == CHOOSE p \in listed : p.address = a
    IN  Extended([a \in {p.address : p \in listed} |->
                    [ code |-> of(a).code,
                      signers |-> signer_semantics(Of(reg).policies[of(a).code]) ]], bound)

VerifiersSeen(reg, request, scan, state) ==
    LET named == {k.at : k \in {x \in {state.signers[s].key : s \in DOMAIN state.signers}
                                        \cup ToSet(grant_for(request).signers) : x.kind = "External"}}
    IN  [v \in named \cap DOMAIN scan.codes |->
            [ code |-> scan.codes[v],
              scheme |-> IF Passes(resolve_signature_verifier(reg, scan.codes[v]))
                         THEN {ReviewedSchemes[scan.codes[v]]} ELSE {} ]]

CheckInput(reg, request, scan, state) ==
    [ network |-> request.network, account |-> request.account, code |-> scan.code,
      spec |-> request.spec, bindings |-> request.bindings, registry |-> request.spec.registry,
      enumeration |-> "BoundedNextId", account_recognized |-> TRUE,
      bound |-> [k \in DOMAIN request.bindings.list |->
                    [address |-> request.bindings.list[k].address,
                     code |-> request.bindings.list[k].code]],
      recognized |-> Recognized(reg, request, state),
      classics |-> scan.classics, verifiers |-> VerifiersSeen(reg, request, scan, state),
      grant |-> grant_for(request), ledger |-> scan.ledger, state |-> state ]

(* The snapshot is still valid and the capture is the planned one           *)
(* (finish_call_surface_with_state); what it observed is of this account    *)
(* and of the bound code (check_prepared).                                  *)
capture_checks(reg, request, scan, state, now) ==
    ensure_valid_at(reg, now)
    \o << Check(scan.account # request.account \/ scan.network # request.network,
                "IncompleteAccountState"),
          Check(~(PlannedClassics(request) \subseteq DOMAIN scan.classics),
                "IncompleteAccountState"),
          Check(ProjectionRefused(scan, scan.state), "IncompleteAccountState"),
          Check(~({b.address : b \in ToSet(request.bindings.list)} \subseteq DOMAIN scan.codes),
                "IncompleteAccountState"),
          Check(scan.code # request.spec.code, "IncompleteAccountState"),
          Check(\E b \in ToSet(request.bindings.list) : b.address \in DOMAIN scan.codes
                    /\ scan.codes[b.address] # b.code, "PolicyBindingInvalid"),
          Check(CodeConflict(request, scan, state), "IncompleteAccountState") >>

Output(in, v) ==
    [error |-> "ok", output |-> {[verdict |-> v, commitment |-> authority_commitment(in, v)]}]

Answered(refusal, in) ==
    IF refusal # "Permit" THEN [error |-> refusal, output |-> {}] ELSE Output(in, verdict(in))

(* Then the core answers, if it does not refuse the input itself. *)
CoreAnswer(in) == Answered(FirstRefusal(check_gates(in)), in)

CaptureAnswer(refusal, in) ==
    IF refusal # "Permit" THEN [error |-> refusal, output |-> {}] ELSE CoreAnswer(in)

finish_call_surface_with_state(reg, request, scan, state, now) ==
    CaptureAnswer(FirstRefusal(capture_checks(reg, request, scan, state, now)),
                  CheckInput(reg, request, scan, state))

finish_call_surface_check(reg, request, scan, now) ==
    finish_call_surface_with_state(reg, request, scan, project_account_state(scan, scan.state), now)

(* The code of a refusal is fixed by priority, not by the order of findings. *)
refusal_code(refusals) ==
    LET priority == << "DelegateHasAuthority", "UnsafeManagementSurface", "UnsafeCallSurface",
                       "DelegateGrantOverlap", "UnsupportedAuthority" >>
        named == {k \in DOMAIN priority : \E f \in refusals : f.code = priority[k]}
    IN  IF named = {} THEN "IncompleteAccountState"
        ELSE priority[CHOOSE k \in named : \A j \in named : k <= j]

(* The install arguments exist only when nothing is refused or open; they  *)
(* are the checked grant's own.                                            *)
Intent(result, v) ==
    IF v.refusals # {} \/ v.unresolved # {} THEN [error |-> refusal_code(v.refusals), output |-> {}]
    ELSE IF \E u \in v.grant.until : u <= v.ledger THEN [error |-> "SpecInvalid", output |-> {}]
    ELSE result

IntentOf(result) ==
    IF result.error # "ok" THEN result
    ELSE Intent(result, (CHOOSE o \in result.output : TRUE).verdict)

prepare_install_intent_from_scan(reg, request, scan, now) ==
    IntentOf(finish_call_surface_check(reg, request, scan, now))

-----------------------------------------------------------------------------
(* A retained installation *)

(* The state without its last rule: entries only that rule named go too. *)
WithoutRule(st, id) ==
    LET rules == Kept(st.rules, DOMAIN st.rules \ {id})
        rest == [st EXCEPT !.rules = rules]
        gone == st.rules[id]
        dropped(field) == ToSet(gone[field]) \ Referenced(rest, field)
    IN  [ next_id |-> id, active_count |-> st.active_count - 1, rules |-> rules,
          signers |-> Kept(st.signers, DOMAIN st.signers \ dropped("signers")),
          policies |-> Kept(st.policies, DOMAIN st.policies \ dropped("policies")) ]

(* Whether the recorded rule is still the last one, exactly as installed. *)
without_recorded_grant(request, st, expected) ==
    LET grant == grant_for(request)
        found == {st.rules[r] : r \in DOMAIN st.rules \cap {expected.id}}
        known(seq, map) == ToSet(seq) \subseteq DOMAIN map
    IN  << Check(expected.id = 0 \/ st.next_id # expected.id + 1, "later_rule_allocation_or_changed_next_id"),
           Check(found = {}, "installed_rule_missing"),
           Check(\E r \in found :
                    \/ r.name # expected.name \/ r.signers # expected.signers
                    \/ r.policies # expected.policies \/ r.until # expected.until
                    \/ expected.name # grant.name \/ expected.until # grant.until
                    \/ r.context # [kind |-> "CallContract", at |-> grant.target]
                    \/ Len(r.signers) # Len(grant.signers) \/ Len(r.policies) # Len(grant.policies),
                 "installed_rule_changed"),
           Check(\E r \in found :
                    \/ ~known(r.signers, st.signers)
                    \/ \E k \in DOMAIN r.signers \cap DOMAIN grant.signers :
                        r.signers[k] \in DOMAIN st.signers
                        /\ st.signers[r.signers[k]].key # grant.signers[k],
                 "installed_signer_changed"),
           Check(\E r \in found :
                    \/ ~known(r.policies, st.policies)
                    \/ {st.policies[p].address : p \in ToSet(r.policies) \cap DOMAIN st.policies}
                        # {p.address : p \in ToSet(grant.policies)},
                 "installed_policy_changed") >>

(* The whole real observation is answered first; only then the projection. *)
InstalledGrant(actual, changed, projected, reason) ==
    IF actual.error # "ok" THEN [status |-> "error", reason |-> actual.error, output |-> {}]
    ELSE IF changed # "Permit" THEN [status |-> "changed", reason |-> changed, output |-> {}]
    ELSE IF projected.error # "ok" THEN [status |-> "error", reason |-> projected.error, output |-> {}]
    ELSE [status |-> "observed", reason |-> reason, output |-> projected.output]

check_installed_grant_from_scan(reg, request, scan, expected, now) ==
    InstalledGrant(
        finish_call_surface_check(reg, request, scan, now),
        FirstRefusal(without_recorded_grant(request, scan.state, expected)),
        finish_call_surface_with_state(reg, request, scan,
            WithoutRule(project_account_state(scan, scan.state), expected.id), now),
        IF is_expired(expected, scan.ledger) THEN "installed_rule_expired" ELSE "none")

=============================================================================
