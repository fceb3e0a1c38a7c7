----------------------------- MODULE CallSurface -----------------------------
(***************************************************************************)
(* The authority check (crates/call-surface-core/src/lib.rs): from one     *)
(* observation of a smart account it lists who can change the account,     *)
(* reset the policies about to be installed or call the new rule's target, *)
(* refuses what it can rule out by itself, and commits to the answer.      *)
(*                                                                         *)
(* An account state is [next_id, active_count, rules, signers, policies],  *)
(* the last three functions from identifiers.  A signer key is             *)
(* [kind, at, data]: a delegated address, or a verifier and key data.  Key *)
(* data is [hex, len, head, tail, point]: whether it is hex, its length,   *)
(* its first 32 bytes, the rest, and whether it starts an uncompressed     *)
(* point.  Findings carry their code, rule and refused shape, not words.   *)
(***************************************************************************)
EXTENDS Verdicts, SequencesExt

CONSTANTS
    AddressKind,   \* function from an address to "classic", "contract" or "other"
    PublicKey      \* function from a classic address to its key data

(* A classic address is an Ed25519 key. *)
ASSUME AddressAssumption ==
    /\ DOMAIN PublicKey = {a \in DOMAIN AddressKind : AddressKind[a] = "classic"}
    /\ \A a \in DOMAIN PublicKey : PublicKey[a].len = 32

-----------------------------------------------------------------------------
(* Keys *)

IsClassic(key) == key.kind = "Delegated" /\ key.at \in DOMAIN PublicKey

(* The bytes a signer authenticates with, where they can be told. *)
key_material(key) ==
    IF key.kind = "External" THEN {d \in {key.data} : d.hex}
    ELSE IF key.at \in DOMAIN PublicKey THEN {PublicKey[key.at]} ELSE {}

(* Mutant: only equal bytes are the same key. *)
aliases_Equal(a, b) ==
    a = b \/ key_material(a) \cap key_material(b) # {}

(* Two signers may be the same key: equal, or the first 32 bytes shared. *)
aliases(a, b) ==
    \/ a = b
    \/ \E x \in key_material(a), y \in key_material(b) :
        x = y \/ (x.len >= 32 /\ y.len >= 32 /\ x.head = y.head)

is_restricted(in, key) == \E s \in ToSet(in.grant.signers) : aliases(key, s)

WellFormedKey(scheme, data) ==
    /\ data.hex /\ data.len \in Nat
    /\ IF scheme = "ed25519" THEN data.len = 32 ELSE data.len >= 65 /\ data.point

(* The verifiers read their key and ignore what follows it. *)
CanonicalKey(scheme, data) ==
    IF scheme = "ed25519" THEN data ELSE [data EXCEPT !.len = 65, !.tail = "none"]

ObservedVerifier(in, at) == {in.verifiers[v] : v \in {at} \cap DOMAIN in.verifiers}

(* Why an external signer cannot be an identity, or "Permit". *)
external_key(in, key) ==
    LET seen == ObservedVerifier(in, key.at)
    IN  FirstRefusal(
        << Check(AddressKind[key.at] # "contract", "ExternalSigner"),
           Check(seen = {}, "IncompleteAccountState"),
           Check(\E v \in seen : v.scheme = {}, "ExternalSigner"),
           Check(\E v \in seen : \E s \in v.scheme : ~WellFormedKey(s, key.data),
                 "MalformedKey") >>)

(* A classic account is one identity when its master key alone decides. *)
classic_account(in, at) ==
    LET seen == {in.classics[a] : a \in {at} \cap DOMAIN in.classics}
    IN  FirstRefusal(
        << Check(seen = {}, "IncompleteAccountState"),
           Check(\E a \in seen : ~a.found, "ClassicAccountMissing"),
           Check(\E a \in seen : DOMAIN a.others # {} \/ a.master = 0 \/ a.master < a.medium,
                 "ClassicMultisig") >>)

IdentityProblem(in, key) ==
    CASE key.kind = "External" -> external_key(in, key)
      [] IsClassic(key) -> classic_account(in, key.at)
      [] OTHER -> IF AddressKind[key.at] = "contract" THEN "ContractSigner" ELSE "UnrecognizedSigner"

identity(in, key) ==
    IF key.kind = "External"
    THEN LET v == in.verifiers[key.at]
             scheme == CHOOSE s \in v.scheme : TRUE
         IN  [ kind |-> "external", at |-> key.at, code |-> v.code, scheme |-> scheme,
               key |-> CanonicalKey(scheme, key.data), restricted |-> is_restricted(in, key) ]
    ELSE [ kind |-> "classic_account", at |-> key.at, code |-> "none", scheme |-> "ed25519",
           key |-> PublicKey[key.at], restricted |-> is_restricted(in, key) ]

-----------------------------------------------------------------------------
(* Findings *)

Finding(code, rule, shape) == [code |-> code, rule |-> rule, unsupported |-> shape]

into_finding(problem, rule) ==
    IF problem = "IncompleteAccountState" THEN Finding(problem, rule, "none")
    ELSE Finding("UnsupportedAuthority", rule, problem)

(* Why the new rule itself is refused, or not answered: its signers. *)
GrantSignerProblem(in, key) ==
    IF key.kind = "External" THEN external_key(in, key)
    ELSE IF IsClassic(key) THEN classic_account(in, key.at)
    ELSE "ContractSigner"

(* Contracts whose methods accept the account's own authorization. *)
TrustedContracts(st) ==
    {st.policies[p].address : p \in DOMAIN st.policies}
    \cup {st.signers[s].key.at : s \in {x \in DOMAIN st.signers : ~IsClassic(st.signers[x].key)}}

BoundAddresses(in) == {p.address : p \in ToSet(in.bound)}

grant_findings(in) ==
    LET target == in.grant.target
        surface == FirstRefusal(
            << Check(target = in.account, "UnsafeManagementSurface"),
               Check(target \in BoundAddresses(in), "UnsafeCallSurface"),
               Check(target \in TrustedContracts(in.state), "UnsafeCallSurface") >>)
        problems == {GrantSignerProblem(in, k) : k \in ToSet(in.grant.signers)} \ {"Permit"}
    IN  {into_finding(p, {}) : p \in problems}
        \cup {Finding(code, {}, "none") : code \in {surface} \ {"Permit"}}

-----------------------------------------------------------------------------
(* One stored rule *)

reach(in, context) ==
    IF context.kind = "Default" THEN "AnyCall"
    ELSE IF context.kind # "CallContract" THEN "none"
    ELSE IF context.at = in.account THEN "AccountCalls"
    ELSE IF context.at \in BoundAddresses(in) THEN "Policy"
    ELSE IF context.at = in.grant.target THEN "Target"
    ELSE "none"

(* Mutant: a rule is over at its last ledger already. *)
is_expired_Early(rule, ledger) == \E v \in rule.until : ledger >= v

is_expired(rule, ledger) == \E v \in rule.until : ledger > v

policy_semantics(in, policy) ==
    IF /\ policy.address \in DOMAIN in.recognized
       /\ in.recognized[policy.address].code = policy.code
    THEN in.recognized[policy.address].signers
    ELSE "Unknown"

(* What the check reads of one stored rule. *)
RuleView(in, rule) ==
    LET keys == [k \in DOMAIN rule.signers |-> in.state.signers[rule.signers[k]].key]
        policies == [k \in DOMAIN rule.policies |-> in.state.policies[rule.policies[k]]]
        names == \E k \in ToSet(keys) : is_restricted(in, k)
    IN  [ id |-> rule.id, context |-> rule.context, until |-> rule.until,
          reach |-> reach(in, rule.context),
          expired |-> is_expired(rule, in.ledger),
          keys |-> keys,
          policies |-> [k \in DOMAIN policies |-> policies[k].address],
          readable |-> \A p \in ToSet(policies) : policy_semantics(in, p) = "AtLeastOneRuleSigner",
          names |-> names,
          alone |-> IF policies = <<>> THEN names /\ \A k \in ToSet(keys) : is_restricted(in, k)
                    ELSE names ]

OnTarget(v) == v.reach = "Target"

(* On the target such a rule is settled before it is described. *)
SettledOnTarget(v) == OnTarget(v) /\ (v.alone \/ (v.policies # <<>> /\ ~v.readable))

(* The new limit would not be the only way to the target.  An unlimited     *)
(* rule beside a stateless grant is shown, not refused.                     *)
Overlaps(in, v) ==
    SettledOnTarget(v) /\ ~(v.alone /\ v.policies = <<>> /\ ~in.grant.stateful)

DelegateHasAuthority(v) == ~OnTarget(v) /\ v.alone

(* Why a rule cannot be described, or "Permit". *)
DescribeProblem(in, v) ==
    FirstRefusal(
        << Check(v.policies # <<>> /\ (~OnTarget(v) \/ ~v.readable), "PolicyGuarded"),
           Check(v.keys = <<>> /\ v.policies = <<>>, "EmptyRule") >>
        \o [k \in DOMAIN v.keys |->
                LET p == IdentityProblem(in, v.keys[k]) IN Check(p # "Permit", p)])

describe(in, v) ==
    [ kind |-> IF v.policies = <<>> THEN "all_of" ELSE "any_of",
      signers |-> [k \in DOMAIN v.keys |-> identity(in, v.keys[k])],
      policies |-> v.policies ]

-----------------------------------------------------------------------------
(* The check *)

NoRepeats(seq) == Cardinality(ToSet(seq)) = Len(seq)

(* The enumeration agrees with its counters and is closed. *)
reconcile(st) ==
    LET rules == {st.rules[r] : r \in DOMAIN st.rules}
    IN  << Check(\E r \in DOMAIN st.rules : r >= st.next_id \/ st.rules[r].id # r,
                 "SnapshotMismatch"),
           Check(Cardinality(DOMAIN st.rules) < st.active_count, "UnresolvedRule"),
           Check(Cardinality(DOMAIN st.rules) > st.active_count, "SnapshotMismatch"),
           Check(\E r \in rules : ~NoRepeats(r.signers) \/ ~NoRepeats(r.policies),
                 "SnapshotMismatch"),
           Check(\E r \in rules : \/ ~(ToSet(r.signers) \subseteq DOMAIN st.signers)
                                  \/ ~(ToSet(r.policies) \subseteq DOMAIN st.policies),
                 "Missing"),
           Check(\E r \in rules : \/ \E s \in ToSet(r.signers) \cap DOMAIN st.signers :
                                        st.signers[s].id # s
                                  \/ \E p \in ToSet(r.policies) \cap DOMAIN st.policies :
                                        st.policies[p].id # p,
                 "SnapshotMismatch") >>

check_gates(in) ==
    << Check(in.enumeration # "BoundedNextId", "EnumerationUnsupported"),
       Check(~in.account_recognized, "IncompatibleAccount"),
       Check(in.bound = <<>>, "InvalidBindingSet"),
       Check(Cardinality(BoundAddresses(in)) # Len(in.bound), "InvalidBindingSet"),
       Check(in.grant.signers = <<>>, "InvalidBindingSet"),
       Check(\E p \in ToSet(in.bound) :
                \/ p.address \notin DOMAIN in.recognized
                \/ in.recognized[p.address].code # p.code, "UnrecognizedBoundPolicy"),
       Check(~Passes(reconcile(in.state)), "IncompleteAccountState") >>

(* The classic accounts and verifiers that decide the answer. *)
ConsultedKeys(in, live) ==
    UNION {ToSet(v.keys) : v \in {x \in live : x.reach # "none"}} \cup ToSet(in.grant.signers)

(* The enumerated state as the check stores it, without the rules' names. *)
state_digest(st) ==
    [st EXCEPT !.rules = [r \in DOMAIN st.rules |-> [st.rules[r] EXCEPT !.name = "none"]]]

AuthorityState(in, live) ==
    LET used(kind) == {k.at : k \in {x \in ConsultedKeys(in, live) : x.kind = kind}}
    IN  [ digest |-> state_digest(in.state),
          classics |-> {<<a, in.classics[a]>> : a \in DOMAIN in.classics \cap used("Delegated")},
          verifiers |-> {<<v, in.verifiers[v]>> : v \in DOMAIN in.verifiers \cap used("External")} ]

Entry(in, v) ==
    [rule |-> v.id, reach |-> v.reach, at |-> v.context.at, until |-> v.until,
     requirement |-> describe(in, v)]

Reached(live) == {v \in live : v.reach # "none"}

Described(reached) == {v \in reached : ~SettledOnTarget(v)}

(* The rules with why each cannot be described; SettledOnTarget ones never  *)
(* get that far.                                                            *)
Problems(in, described) == {[view |-> v, problem |-> DescribeProblem(in, v)] : v \in described}

findings(in, reached, problems) ==
    grant_findings(in)
    \cup {Finding("DelegateGrantOverlap", {v.id}, "none") : v \in {x \in reached : Overlaps(in, x)}}
    \cup {Finding("DelegateHasAuthority", {p.view.id}, "none") :
            p \in {x \in problems : DelegateHasAuthority(x.view)}}
    \cup {into_finding(p.problem, {p.view.id}) :
            p \in {x \in problems : x.problem # "Permit" /\ ~x.view.alone}}

Entries(in, problems) ==
    {[target |-> OnTarget(p.view), entry |-> Entry(in, p.view)] :
        p \in {x \in problems : x.problem = "Permit"}}

AnswerWith(in, views, live, found, entries) ==
    [ ledger |-> in.ledger, account |-> in.account, network |-> in.network,
      grant |-> in.grant,
      bound |-> [k \in DOMAIN in.bound |-> in.bound[k].address],
      authority_list |-> {e.entry : e \in {x \in entries : ~x.target}},
      refusals |-> {f \in found : f.code # "IncompleteAccountState"},
      unresolved |-> {f \in found : f.code = "IncompleteAccountState"},
      exclusions |-> {[rule |-> v.id, context |-> v.context, policies |-> v.policies] :
                        v \in {x \in live : x.reach = "none"}},
      restricted_key_rules |->
        {[rule |-> v.id, context |-> v.context, until |-> v.until, alone |-> v.alone,
          policies |-> v.policies] : v \in {x \in live : x.names}},
      expired_rules |-> {[rule |-> v.id, context |-> v.context, until |-> v.until] :
                            v \in {x \in views : x.expired /\ x.reach # "none"}},
      target_rules |-> {e.entry : e \in {x \in entries : x.target}},
      authority_state |-> AuthorityState(in, live) ]

AnswerOver(in, views, live, problems) ==
    AnswerWith(in, views, live, findings(in, Reached(live), problems), Entries(in, problems))

AnswerFrom(in, views, live) ==
    AnswerOver(in, views, live, Problems(in, Described(Reached(live))))

AnswerOf(in, views) == AnswerFrom(in, views, {v \in views : ~v.expired})

verdict(in) == AnswerOf(in, {RuleView(in, in.state.rules[r]) : r \in DOMAIN in.state.rules})

(* Everything the answer says and rests on, but not the ledger it was read  *)
(* at.  Equal commitments are equal preimages.                              *)
authority_commitment(in, answer) ==
    [ answer |-> [answer EXCEPT !.ledger = 0], registry |-> in.registry, code |-> in.code,
      spec |-> in.spec, bindings |-> in.bindings, bound |-> in.bound ]

=============================================================================
