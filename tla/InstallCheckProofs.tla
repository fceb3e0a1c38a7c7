-------------------------- MODULE InstallCheckProofs --------------------------
(***************************************************************************)
(* For any accounts, requests, registries and changes that meet the        *)
(* assumptions of InstallCheck, and any order of steps:                    *)
(*                                                                         *)
(*  - what the operator persisted is one history (PersistedIsOneHistory);  *)
(*  - when the wallet goes on to sign, nobody without the owner's key can  *)
(*    manage the account or call a bound policy (ControlIsTrusted);        *)
(*  - an equal commitment is an equal distribution of power                *)
(*    (ApprovalCoversPower), and a report of "unchanged" says so too       *)
(*    (ReportIsTrue);                                                      *)
(*  - a grant that counts is the agent's only way to its target            *)
(*    (LimitIsExclusive).                                                  *)
(*                                                                         *)
(* An answer's checks are lists, so the proofs begin with what a list that *)
(* passes says; then what the verdict says of a live rule, what the check  *)
(* saw of the account, and last the states along which both stay true.     *)
(***************************************************************************)
EXTENDS InstallCheck, WellFoundedInduction, TLAPS

-----------------------------------------------------------------------------
(* Lists of checks *)

Coded(checks, C) == \A k \in DOMAIN checks : checks[k].fails => checks[k].code \in C

LEMMA ListDomain == ASSUME NEW x, IsList(x)
                    PROVE  DOMAIN x \subseteq Nat /\ Len(x) \in Nat /\ DOMAIN x = 1 .. Len(x)
BY DEF IsList

LEMMA IsAList == ASSUME NEW n \in Nat, NEW x, x = [k \in 1 .. n |-> x[k]] PROVE IsList(x)
<1>1. x \in [1 .. n -> ToSet(x)]
    BY DEF ToSet
<1>2. \A T : x \in [1 .. n -> T] => x \in Seq(T)
    OBVIOUS
<1> QED BY <1>1, <1>2 DEF IsList

LEMMA RefusalCoded ==
    ASSUME NEW checks, DOMAIN checks \subseteq Nat, NEW C, Coded(checks, C), ~Passes(checks)
    PROVE  FirstRefusal(checks) \in C
<1> DEFINE failing == {k \in DOMAIN checks : checks[k].fails}
           isFirst(k) == /\ checks[k].fails
                         /\ \A j \in DOMAIN checks : checks[j].fails => k <= j
<1>1. failing \subseteq Nat /\ failing # {} /\ DOMAIN checks \subseteq Nat
    BY DEF Passes
<1>2. PICK x \in failing : \A y \in failing : ~(<<y, x>> \in OpToRel(<, Nat))
    <2> HIDE DEF failing
    <2> QED BY <1>1, WFMin, NatLessThanWellFounded
<1>3. \A y \in failing : ~(y < x)
    <2> HIDE DEF failing
    <2> QED BY <1>1, <1>2 DEF OpToRel
<1>4. \A y \in failing : x <= y
    BY <1>1, <1>3
<1>5. x \in DOMAIN checks /\ isFirst(x)
    BY <1>4
<1> DEFINE n == CHOOSE k \in DOMAIN checks : isFirst(k)
<1>6. n \in DOMAIN checks /\ isFirst(n)
    BY <1>5
<1>7. FirstRefusal(checks) = checks[n].code
    <2>1. \E k \in DOMAIN checks : checks[k].fails
        BY <1>5
    <2> QED BY <2>1 DEF FirstRefusal
<1> HIDE DEF n
<1> QED BY <1>6, <1>7 DEF Coded

LEMMA Joined ==
    ASSUME NEW a, NEW b, IsList(a), IsList(b)
    PROVE  /\ IsList(a \o b)
           /\ Passes(a \o b) <=> Passes(a) /\ Passes(b)
           /\ \A C : Coded(a, C) /\ Coded(b, C) => Coded(a \o b, C)
<1> DEFINE T == ToSet(a) \cup ToSet(b)
           c == a \o b
<1>1. a \in Seq(T) /\ b \in Seq(T)
    BY DEF IsList
<1> HIDE DEF T
<1>2. c \in Seq(T) /\ Len(c) = Len(a) + Len(b)
    BY <1>1
<1>3. \A k \in 1 .. Len(a) : c[k] = a[k] /\ k \in 1 .. Len(c)
    BY <1>1
<1>4. \A k \in 1 .. Len(b) : c[Len(a) + k] = b[k] /\ Len(a) + k \in 1 .. Len(c)
    BY <1>1
<1>5. \A k \in 1 .. Len(c) : \/ k \in 1 .. Len(a) /\ c[k] = a[k]
                             \/ k - Len(a) \in 1 .. Len(b) /\ c[k] = b[k - Len(a)]
    BY <1>1
<1> HIDE DEF c
<1>6. DOMAIN a = 1 .. Len(a) /\ DOMAIN b = 1 .. Len(b) /\ DOMAIN c = 1 .. Len(c)
    BY <1>1, <1>2
<1>7. IsList(c)
    <2>1. c = [k \in 1 .. Len(c) |-> c[k]] /\ Len(c) \in Nat
        BY <1>2
    <2> QED BY <2>1, IsAList
<1>8. ASSUME Passes(c) PROVE Passes(a) /\ Passes(b)
    <2>1. Passes(a)
        BY <1>3, <1>6, <1>8 DEF Passes
    <2>2. ASSUME NEW k \in 1 .. Len(b) PROVE ~b[k].fails
        <3>1. ~c[Len(a) + k].fails
            BY <1>4, <1>6, <1>8 DEF Passes
        <3> QED BY <1>4, <3>1
    <2> QED BY <1>6, <2>1, <2>2 DEF Passes
<1>9. ASSUME NEW C, Coded(a, C), Coded(b, C) PROVE Coded(c, C)
    <2> SUFFICES ASSUME NEW k \in 1 .. Len(c), c[k].fails PROVE c[k].code \in C
        BY <1>6 DEF Coded
    <2>1. CASE k \in 1 .. Len(a) /\ c[k] = a[k]
        BY <1>6, <1>9, <2>1 DEF Coded
    <2>2. CASE k - Len(a) \in 1 .. Len(b) /\ c[k] = b[k - Len(a)]
        <3> DEFINE m == k - Len(a)
        <3> HIDE DEF m
        <3>1. m \in DOMAIN b /\ c[k] = b[m]
            BY <1>6, <2>2 DEF m
        <3> QED BY <1>9, <3>1 DEF Coded
    <2> QED BY <1>5, <2>1, <2>2
<1>10. ASSUME Passes(a), Passes(b) PROVE Passes(c)
    <2> SUFFICES ASSUME NEW k \in 1 .. Len(c) PROVE ~c[k].fails
        BY <1>6 DEF Passes
    <2>1. CASE k \in 1 .. Len(a) /\ c[k] = a[k]
        BY <1>6, <1>10, <2>1 DEF Passes
    <2>2. CASE k - Len(a) \in 1 .. Len(b) /\ c[k] = b[k - Len(a)]
        <3> DEFINE m == k - Len(a)
        <3> HIDE DEF m
        <3>1. m \in DOMAIN b /\ c[k] = b[m]
            BY <1>6, <2>2 DEF m
        <3> QED BY <1>10, <3>1 DEF Passes
    <2> QED BY <1>5, <2>1, <2>2
<1> QED BY <1>7, <1>8, <1>9, <1>10 DEF c

LEMMA Lists ==
    /\ \A a : IsList(<<a>>)
    /\ \A a, b : IsList(<<a, b>>)
    /\ \A a, b, c : IsList(<<a, b, c>>)
    /\ IsList(<<>>)
<1>1. ASSUME NEW a PROVE IsList(<<a>>)
    <2>1. <<a>> = [k \in 1 .. 1 |-> <<a>>[k]]
        OBVIOUS
    <2> QED BY <2>1, IsAList
<1>2. ASSUME NEW a, NEW b PROVE IsList(<<a, b>>)
    <2>1. <<a, b>> = [k \in 1 .. 2 |-> <<a, b>>[k]]
        OBVIOUS
    <2> QED BY <2>1, IsAList
<1>3. ASSUME NEW a, NEW b, NEW c PROVE IsList(<<a, b, c>>)
    <2>1. <<a, b, c>> = [k \in 1 .. 3 |-> <<a, b, c>>[k]]
        OBVIOUS
    <2> QED BY <2>1, IsAList
<1>4. IsList(<<>>)
    <2>1. <<>> = [k \in 1 .. 0 |-> <<>>[k]]
        OBVIOUS
    <2> QED BY <2>1, IsAList
<1> QED BY <1>1, <1>2, <1>3, <1>4

(* A list whose codes are not "Permit" refuses with "Permit" when it passes. *)
LEMMA Permitted ==
    ASSUME NEW checks, DOMAIN checks \subseteq Nat, NEW C, Coded(checks, C), "Permit" \notin C
    PROVE  FirstRefusal(checks) = "Permit" <=> Passes(checks)
<1>1. ASSUME Passes(checks) PROVE FirstRefusal(checks) = "Permit"
    BY <1>1 DEF Passes, FirstRefusal
<1> QED BY <1>1, RefusalCoded

-----------------------------------------------------------------------------
(* One verdict *)

Views(in) == {RuleView(in, in.state.rules[r]) : r \in DOMAIN in.state.rules}
LiveViews(in) == {v \in Views(in) : ~v.expired}
ProblemsOf(in) == Problems(in, Described(Reached(LiveViews(in))))
FoundIn(in) == findings(in, Reached(LiveViews(in)), ProblemsOf(in))

LEMMA VerdictParts ==
    ASSUME NEW in
    PROVE  LET v == verdict(in) IN
           /\ v.ledger = in.ledger /\ v.account = in.account /\ v.network = in.network
           /\ v.grant = in.grant /\ v.bound = [k \in DOMAIN in.bound |-> in.bound[k].address]
           /\ v.authority_list = {e.entry : e \in {x \in Entries(in, ProblemsOf(in)) : ~x.target}}
           /\ v.target_rules = {e.entry : e \in {x \in Entries(in, ProblemsOf(in)) : x.target}}
           /\ v.refusals = {f \in FoundIn(in) : f.code # "IncompleteAccountState"}
           /\ v.unresolved = {f \in FoundIn(in) : f.code = "IncompleteAccountState"}
           /\ v.expired_rules = {[rule |-> x.id, context |-> x.context, until |-> x.until] :
                                    x \in {y \in Views(in) : y.expired /\ y.reach # "none"}}
           /\ v.authority_state = AuthorityState(in, LiveViews(in))
<1> DEFINE vs == Views(in)
           lv == LiveViews(in)
           ps == ProblemsOf(in)
           fs == FoundIn(in)
           es == Entries(in, ps)
<1>1. verdict(in) = AnswerWith(in, vs, lv, fs, es)
    BY DEF verdict, AnswerOf, AnswerFrom, AnswerOver, Views, LiveViews, ProblemsOf, FoundIn
<1> HIDE DEF vs, lv, ps, fs, es
<1>2. LET v == verdict(in) IN
           /\ v.ledger = in.ledger /\ v.account = in.account /\ v.network = in.network
           /\ v.grant = in.grant /\ v.bound = [k \in DOMAIN in.bound |-> in.bound[k].address]
           /\ v.authority_list = {e.entry : e \in {x \in es : ~x.target}}
           /\ v.target_rules = {e.entry : e \in {x \in es : x.target}}
           /\ v.refusals = {f \in fs : f.code # "IncompleteAccountState"}
           /\ v.unresolved = {f \in fs : f.code = "IncompleteAccountState"}
           /\ v.expired_rules = {[rule |-> x.id, context |-> x.context, until |-> x.until] :
                                    x \in {y \in vs : y.expired /\ y.reach # "none"}}
           /\ v.authority_state = AuthorityState(in, lv)
    BY <1>1 DEF AnswerWith
<1> QED BY <1>2 DEF vs, lv, ps, fs, es

LEMMA NothingFound ==
    ASSUME NEW in, verdict(in).refusals = {}, verdict(in).unresolved = {}
    PROVE  FoundIn(in) = {}
<1>1. verdict(in).refusals = {f \in FoundIn(in) : f.code # "IncompleteAccountState"}
    BY VerdictParts
<1>2. verdict(in).unresolved = {f \in FoundIn(in) : f.code = "IncompleteAccountState"}
    BY VerdictParts
<1> QED BY <1>1, <1>2

(* Without findings every live rule that matters is described, but one on  *)
(* the target beside a grant that counts nothing.                          *)
LEMMA Unfound ==
    ASSUME NEW in, FoundIn(in) = {}, NEW v \in LiveViews(in), v.reach # "none"
    PROVE  /\ SettledOnTarget(v) => v.alone /\ v.policies = <<>> /\ ~in.grant.stateful
           /\ ~SettledOnTarget(v) =>
                /\ ~v.alone /\ DescribeProblem(in, v) = "Permit"
                /\ [target |-> OnTarget(v), entry |-> Entry(in, v)] \in Entries(in, ProblemsOf(in))
<1>1. v \in Reached(LiveViews(in))
    BY DEF Reached
<1>2. ~Overlaps(in, v)
    <2>1. Overlaps(in, v) => Finding("DelegateGrantOverlap", {v.id}, "none") \in FoundIn(in)
        BY <1>1 DEF FoundIn, findings
    <2> QED BY <2>1
<1>3. ASSUME ~SettledOnTarget(v)
      PROVE  /\ ~v.alone /\ DescribeProblem(in, v) = "Permit"
             /\ [target |-> OnTarget(v), entry |-> Entry(in, v)] \in Entries(in, ProblemsOf(in))
    <2> DEFINE p == [view |-> v, problem |-> DescribeProblem(in, v)]
    <2>1. p \in ProblemsOf(in) /\ p.view = v /\ p.problem = DescribeProblem(in, v)
        BY <1>1, <1>3 DEF ProblemsOf, Problems, Described
    <2> HIDE DEF p
    <2>2. ~DelegateHasAuthority(v)
        <3>1. DelegateHasAuthority(v) => Finding("DelegateHasAuthority", {p.view.id}, "none") \in FoundIn(in)
            BY <2>1 DEF FoundIn, findings
        <3> QED BY <3>1
    <2>3. ~v.alone
        BY <1>3, <2>2 DEF SettledOnTarget, DelegateHasAuthority
    <2>4. p.problem = "Permit"
        <3>1. p.problem # "Permit" => into_finding(p.problem, {p.view.id}) \in FoundIn(in)
            BY <2>1, <2>3 DEF FoundIn, findings
        <3> QED BY <3>1
    <2>5. [target |-> OnTarget(p.view), entry |-> Entry(in, p.view)] \in Entries(in, ProblemsOf(in))
        BY <2>1, <2>4 DEF Entries
    <2> QED BY <2>1, <2>3, <2>4, <2>5
<1> QED BY <1>2, <1>3 DEF Overlaps, SettledOnTarget

ExternalCodes == {"ExternalSigner", "IncompleteAccountState", "MalformedKey"}
ClassicCodes == {"IncompleteAccountState", "ClassicAccountMissing", "ClassicMultisig"}
IdentityCodes == ExternalCodes \cup ClassicCodes \cup {"ContractSigner", "UnrecognizedSigner"}

LEMMA ExternalKey ==
    ASSUME NEW in, NEW key
    PROVE  /\ external_key(in, key) \in ExternalCodes \cup {"Permit"}
           /\ external_key(in, key) = "Permit" =>
                /\ key.at \in DOMAIN in.verifiers
                /\ in.verifiers[key.at].scheme # {}
                /\ \A s \in in.verifiers[key.at].scheme : WellFormedKey(s, key.data)
<1> DEFINE seen == ObservedVerifier(in, key.at)
           f1 == AddressKind[key.at] # "contract"
           f2 == seen = {}
           f3 == \E v \in seen : v.scheme = {}
           f4 == \E v \in seen : \E s \in v.scheme : ~WellFormedKey(s, key.data)
           c == << Check(f1, "ExternalSigner"), Check(f2, "IncompleteAccountState"),
                   Check(f3, "ExternalSigner"), Check(f4, "MalformedKey") >>
<1>1. external_key(in, key) = FirstRefusal(c)
    BY DEF external_key
<1>2. DOMAIN c = 1 .. 4 /\ (c[2].fails <=> f2) /\ (c[3].fails <=> f3) /\ (c[4].fails <=> f4)
    <2> HIDE DEF seen, f2, f3, f4
    <2> QED BY DEF Check
<1>3. Coded(c, ExternalCodes)
    BY DEF Coded, Check, ExternalCodes
<1> HIDE DEF c
<1>4. FirstRefusal(c) = "Permit" <=> Passes(c)
    BY <1>2, <1>3, Permitted DEF ExternalCodes
<1>5. ~Passes(c) => FirstRefusal(c) \in ExternalCodes
    BY <1>2, <1>3, RefusalCoded
<1>6. Passes(c) => ~f2 /\ ~f3 /\ ~f4
    <2> HIDE DEF f2, f3, f4
    <2> QED BY <1>2 DEF Passes
<1>7. seen # {} => key.at \in DOMAIN in.verifiers /\ seen = {in.verifiers[key.at]}
    BY DEF ObservedVerifier
<1> QED BY <1>1, <1>4, <1>5, <1>6, <1>7

LEMMA ClassicAccount ==
    ASSUME NEW in, NEW at
    PROVE  /\ classic_account(in, at) \in ClassicCodes \cup {"Permit"}
           /\ classic_account(in, at) = "Permit" =>
                at \in DOMAIN in.classics /\ DOMAIN in.classics[at].others = {}
<1> DEFINE seen == {in.classics[a] : a \in {at} \cap DOMAIN in.classics}
           f1 == seen = {}
           f2 == \E a \in seen : ~a.found
           f3 == \E a \in seen : DOMAIN a.others # {} \/ a.master = 0 \/ a.master < a.medium
           c == << Check(f1, "IncompleteAccountState"), Check(f2, "ClassicAccountMissing"),
                   Check(f3, "ClassicMultisig") >>
<1>1. classic_account(in, at) = FirstRefusal(c)
    BY DEF classic_account
<1>2. DOMAIN c = 1 .. 3 /\ (c[1].fails <=> f1) /\ (c[3].fails <=> f3)
    <2> HIDE DEF f1, f2, f3
    <2> QED BY DEF Check
<1>3. Coded(c, ClassicCodes)
    BY DEF Coded, Check, ClassicCodes
<1> HIDE DEF c
<1>4. FirstRefusal(c) = "Permit" <=> Passes(c)
    BY <1>2, <1>3, Permitted DEF ClassicCodes
<1>5. ~Passes(c) => FirstRefusal(c) \in ClassicCodes
    BY <1>2, <1>3, RefusalCoded
<1>6. Passes(c) => ~f1 /\ ~f3
    <2> HIDE DEF f1, f2, f3
    <2> QED BY <1>2 DEF Passes
<1>7. seen # {} => at \in DOMAIN in.classics /\ in.classics[at] \in seen
    OBVIOUS
<1> QED BY <1>1, <1>4, <1>5, <1>6, <1>7

LEMMA IdentityCoded ==
    ASSUME NEW in, NEW key
    PROVE  /\ IdentityProblem(in, key) \in IdentityCodes \cup {"Permit"}
           /\ IdentityProblem(in, key) = "Permit" =>
                \/ key.kind = "External" /\ external_key(in, key) = "Permit"
                \/ IsClassic(key) /\ classic_account(in, key.at) = "Permit"
<1>1. CASE key.kind = "External"
    BY <1>1, ExternalKey DEF IdentityProblem, IdentityCodes, IsClassic
<1>2. CASE key.kind # "External" /\ IsClassic(key)
    BY <1>2, ClassicAccount DEF IdentityProblem, IdentityCodes
<1>3. CASE key.kind # "External" /\ ~IsClassic(key)
    BY <1>3 DEF IdentityProblem, IdentityCodes
<1> QED BY <1>1, <1>2, <1>3

DescribeCodes == IdentityCodes \cup {"PolicyGuarded", "EmptyRule"}

(* A rule that is described has signers, every one of them an identity, and *)
(* only on the target may it have policies.                                 *)
LEMMA DescribedRule ==
    ASSUME NEW in, NEW v, IsList(v.keys), DescribeProblem(in, v) = "Permit"
    PROVE  /\ v.policies # <<>> => OnTarget(v) /\ v.readable
           /\ ~(v.keys = <<>> /\ v.policies = <<>>)
           /\ \A k \in DOMAIN v.keys : IdentityProblem(in, v.keys[k]) = "Permit"
<1> DEFINE f1 == v.policies # <<>> /\ (~OnTarget(v) \/ ~v.readable)
           f2 == v.keys = <<>> /\ v.policies = <<>>
           ks == v.keys
           a == << Check(f1, "PolicyGuarded"), Check(f2, "EmptyRule") >>
           p(k) == IdentityProblem(in, ks[k])
           b == [k \in DOMAIN ks |-> Check(p(k) # "Permit", p(k))]
<1>1. DescribeProblem(in, v) = FirstRefusal(a \o b)
    BY DEF DescribeProblem
<1>2. IsList(a) /\ Coded(a, DescribeCodes) /\ DOMAIN a = 1 .. 2 /\ (a[1].fails <=> f1) /\ (a[2].fails <=> f2)
    <2> HIDE DEF f1, f2
    <2> QED BY Lists DEF Coded, Check, DescribeCodes
<1>3. IsList(b)
    <2>1. Len(ks) \in Nat /\ DOMAIN ks = 1 .. Len(ks)
        BY ListDomain
    <2> HIDE DEF ks, p
    <2>2. b = [k \in 1 .. Len(ks) |-> b[k]]
        BY <2>1
    <2> HIDE DEF b
    <2> QED BY <2>1, <2>2, IsAList
<1>4. \A k \in DOMAIN ks : p(k) \in IdentityCodes \cup {"Permit"}
    BY IdentityCoded
<1>5. \A k \in DOMAIN ks : (b[k].fails <=> p(k) # "Permit") /\ b[k].code = p(k)
    <2> HIDE DEF p
    <2> QED BY DEF Check
<1>6. DOMAIN b = DOMAIN ks
    OBVIOUS
<1> HIDE DEF a, b, p, ks
<1>7. Coded(b, DescribeCodes)
    BY <1>4, <1>5, <1>6 DEF Coded, DescribeCodes
<1>8. IsList(a \o b) /\ (Passes(a \o b) <=> Passes(a) /\ Passes(b)) /\ Coded(a \o b, DescribeCodes)
    BY <1>2, <1>3, <1>7, Joined
<1>9. Passes(a) /\ Passes(b)
    <2> DEFINE c == a \o b
    <2> HIDE DEF c
    <2>1. DOMAIN c \subseteq Nat
        BY <1>8, ListDomain DEF c
    <2>2. "Permit" \notin DescribeCodes
        BY DEF DescribeCodes, IdentityCodes, ExternalCodes, ClassicCodes
    <2>3. Passes(c)
        BY <1>1, <1>8, <2>1, <2>2, Permitted DEF c
    <2> QED BY <1>8, <2>3 DEF c
<1>10. ~f1 /\ ~f2
    <2> HIDE DEF f1, f2
    <2> QED BY <1>2, <1>9 DEF Passes
<1>11. \A k \in DOMAIN ks : p(k) = "Permit"
    BY <1>5, <1>6, <1>9 DEF Passes
<1> QED BY <1>10, <1>11 DEF p, ks

-----------------------------------------------------------------------------
(* Control of the account and of the bound policies *)

(* A rule needs the owner: it has no policies, and one of its signers is a *)
(* recognized verifier over the owner's own key.                           *)
NeedsOwner(in, rule) ==
    /\ DOMAIN rule.policies = {}
    /\ \E k \in DOMAIN rule.signers :
        LET key == in.state.signers[rule.signers[k]].key
        IN  /\ key.kind = "External" /\ key.at \in DOMAIN in.verifiers
            /\ in.verifiers[key.at].scheme # {}
            /\ key.data.head = Wallet.data.head

LEMMA ViewParts ==
    ASSUME NEW in, NEW rule
    PROVE  LET v == RuleView(in, rule) IN
           /\ v.id = rule.id /\ v.context = rule.context /\ v.until = rule.until
           /\ v.reach = reach(in, rule.context) /\ v.expired = is_expired(rule, in.ledger)
           /\ DOMAIN v.keys = DOMAIN rule.signers
           /\ v.keys = [k \in DOMAIN rule.signers |-> in.state.signers[rule.signers[k]].key]
           /\ v.policies = [k \in DOMAIN rule.policies |-> in.state.policies[rule.policies[k]].address]
BY DEF RuleView

LEMMA OwnerNeeded ==
    ASSUME NEW in, verdict(in).refusals = {}, verdict(in).unresolved = {},
           EntriesTrusted(verdict(in), WalletTrust(Wallet)),
           NEW r \in DOMAIN in.state.rules, IsList(in.state.rules[r].signers),
           ~is_expired(in.state.rules[r], in.ledger),
           reach(in, in.state.rules[r].context) \in {"AnyCall", "AccountCalls", "Policy"}
    PROVE  NeedsOwner(in, in.state.rules[r])
<1> DEFINE rule == in.state.rules[r]
           v == RuleView(in, rule)
           answer == verdict(in)
<1>1. FoundIn(in) = {}
    BY NothingFound
<1> HIDE DEF rule
<1>2. /\ v.reach = reach(in, rule.context) /\ v.expired = is_expired(rule, in.ledger)
      /\ v.keys = [k \in DOMAIN rule.signers |-> in.state.signers[rule.signers[k]].key]
      /\ v.policies = [k \in DOMAIN rule.policies |-> in.state.policies[rule.policies[k]].address]
    BY ViewParts
<1>3. v \in LiveViews(in)
    BY <1>2 DEF LiveViews, Views, rule
<1> HIDE DEF v, answer
<1>4. ~OnTarget(v) /\ v.reach # "none"
    BY <1>2 DEF OnTarget, rule
<1>5. /\ DescribeProblem(in, v) = "Permit"
      /\ [target |-> OnTarget(v), entry |-> Entry(in, v)] \in Entries(in, ProblemsOf(in))
    BY <1>1, <1>3, <1>4, Unfound DEF SettledOnTarget
<1>6. IsList(v.keys)
    <2> DEFINE ids == rule.signers
    <2>1. Len(ids) \in Nat /\ DOMAIN ids = 1 .. Len(ids)
        BY ListDomain DEF rule
    <2>2. v.keys = [k \in DOMAIN ids |-> in.state.signers[ids[k]].key]
        BY <1>2
    <2> HIDE DEF ids
    <2> DEFINE ks == v.keys
    <2>3. ks = [k \in 1 .. Len(ids) |-> ks[k]]
        BY <2>1, <2>2
    <2> HIDE DEF ks
    <2>4. IsList(ks)
        BY <2>1, <2>3, IsAList
    <2> QED BY <2>4 DEF ks
<1>7. v.policies = <<>> /\ \A k \in DOMAIN v.keys : IdentityProblem(in, v.keys[k]) = "Permit"
    BY <1>4, <1>5, <1>6, DescribedRule
<1>8. DOMAIN rule.policies = {}
    <2> DEFINE ps == rule.policies
    <2>1. [k \in DOMAIN ps |-> in.state.policies[ps[k]].address] = <<>>
        BY <1>2, <1>7
    <2> HIDE DEF ps
    <2>2. DOMAIN ps = {}
        BY <2>1
    <2> QED BY <2>2 DEF ps
<1>9. Entry(in, v) \in answer.authority_list
    <2> DEFINE e == [target |-> OnTarget(v), entry |-> Entry(in, v)]
    <2>1. e \in Entries(in, ProblemsOf(in)) /\ ~e.target /\ e.entry = Entry(in, v)
        BY <1>4, <1>5
    <2>2. answer.authority_list = {x.entry : x \in {y \in Entries(in, ProblemsOf(in)) : ~y.target}}
        BY VerdictParts DEF answer
    <2> HIDE DEF e
    <2> QED BY <2>1, <2>2
<1>10. PICK i \in ToSet(Entry(in, v).requirement.signers) : TrustedSigner(answer, WalletTrust(Wallet), i)
    BY <1>9 DEF EntriesTrusted, answer
<1>11. PICK k \in DOMAIN v.keys : i = identity(in, v.keys[k])
    BY <1>10 DEF Entry, describe, ToSet
<1> DEFINE key == v.keys[k]
<1>12. i.scheme = "webauthn" /\ i.key = CanonicalKey("webauthn", Wallet.data)
    BY <1>10 DEF TrustedSigner, identityKey, WalletTrust
<1>13. IdentityProblem(in, key) = "Permit"
    BY <1>7
<1> HIDE DEF key
<1>14. i = identity(in, key)
    BY <1>11 DEF key
<1>15. key.kind = "External"
    BY <1>12, <1>14 DEF identity
<1>16. key.at \in DOMAIN in.verifiers /\ in.verifiers[key.at].scheme # {}
    <2>1. external_key(in, key) = "Permit"
        BY <1>13, <1>15, IdentityCoded DEF IsClassic
    <2> QED BY <2>1, ExternalKey
<1>17. i.key = CanonicalKey("webauthn", key.data)
    BY <1>12, <1>14, <1>15 DEF identity
<1>18. key.data.head = Wallet.data.head
    <2>1. CanonicalKey("webauthn", key.data).head = key.data.head
        BY DEF CanonicalKey
    <2>2. CanonicalKey("webauthn", Wallet.data).head = Wallet.data.head
        BY DEF CanonicalKey
    <2> QED BY <1>12, <1>17, <2>1, <2>2
<1>19. k \in DOMAIN rule.signers /\ key = in.state.signers[rule.signers[k]].key
    BY <1>2 DEF key
<1> QED BY <1>8, <1>15, <1>16, <1>18, <1>19 DEF NeedsOwner, rule

LEMMA ReviewedVerifier ==
    ASSUME NEW rg, NEW h, Passes(resolve_signature_verifier(rg, h))
    PROVE  h \in DOMAIN ReviewedSchemes
<1> DEFINE e1 == Check(rg.current = {}, "NotLoaded")
           e2 == Check(\E c \in rg.current : <<"verifier", h>> \in DOMAIN c.revocations, "Revoked")
           f3 == \E c \in rg.current : h \notin DOMAIN c.verifiers
           f4 == \E c \in rg.current :
                    /\ h \in DOMAIN c.verifiers
                    /\ LET v == c.verifiers[h]
                       IN  ~ /\ v.immutable /\ v.stateless = {TRUE}
                             /\ h \in DOMAIN ReviewedSchemes
                             /\ v.scheme = {ReviewedSchemes[h]}
           a == <<e1, e2>>
           b == <<Check(f3, "UnknownVerifier")>>
           d == <<Check(f4, "VerifierCapabilityIncomplete")>>
<1>1. resolve_signature_verifier(rg, h) = (a \o b) \o d
    BY DEF resolve_signature_verifier, resolve_verifier, ensure_active
<1>2. (1 \in DOMAIN a /\ a[1] = e1) /\ (1 \in DOMAIN b /\ b[1] = Check(f3, "UnknownVerifier"))
      /\ (1 \in DOMAIN d /\ d[1] = Check(f4, "VerifierCapabilityIncomplete"))
    OBVIOUS
<1>3. IsList(a) /\ IsList(b) /\ IsList(d)
    BY Lists
<1> HIDE DEF a, b, d
<1>4. Passes(a) /\ Passes(b) /\ Passes(d)
    <2> DEFINE ab == a \o b
    <2>1. IsList(ab) /\ (Passes(ab) <=> Passes(a) /\ Passes(b))
        BY <1>3, Joined
    <2> HIDE DEF ab
    <2>2. Passes(ab \o d) <=> Passes(ab) /\ Passes(d)
        BY <1>3, <2>1, Joined
    <2> QED BY <1>1, <2>1, <2>2 DEF ab
<1>5. ~e1.fails /\ ~b[1].fails /\ ~d[1].fails
    BY <1>2, <1>4 DEF Passes
<1>6. ~f3 /\ ~f4
    <2> HIDE DEF f3, f4
    <2> QED BY <1>2, <1>5 DEF Check
<1>7. rg.current # {}
    BY <1>5 DEF Check
<1> QED BY <1>6, <1>7

-----------------------------------------------------------------------------
(* The check's input over one capture of an account *)

Input(rg, request, ch) ==
    CheckInput(rg, request, Scan(request, ch),
               project_account_state(Scan(request, ch), Scan(request, ch).state))

LEMMA InputParts ==
    ASSUME NEW rg, NEW request, NEW ch
    PROVE  /\ Input(rg, request, ch).state.rules = ch.state.rules
           /\ Input(rg, request, ch).state.signers = ch.state.signers
           /\ Input(rg, request, ch).ledger = ch.ledger
           /\ Input(rg, request, ch).account = request.account
           /\ Input(rg, request, ch).grant = grant_for(request)
           /\ BoundAddresses(Input(rg, request, ch)) = {b.address : b \in ToSet(request.bindings.list)}
<1> DEFINE scan == Scan(request, ch)
           st == project_account_state(scan, scan.state)
           in == CheckInput(rg, request, scan, st)
<1>1. scan.state = ch.state /\ scan.ledger = ch.ledger
    BY DEF Scan
<1>2. st.rules = ch.state.rules /\ st.signers = ch.state.signers
    BY <1>1 DEF project_account_state
<1> HIDE DEF scan, st
<1>3. in.state = st /\ in.ledger = scan.ledger /\ in.account = request.account
      /\ in.grant = grant_for(request)
    BY DEF CheckInput
<1>4. BoundAddresses(in) = {b.address : b \in ToSet(request.bindings.list)}
    <2> DEFINE list == request.bindings.list
    <2>1. in.bound = [k \in DOMAIN list |-> [address |-> list[k].address, code |-> list[k].code]]
        BY DEF CheckInput
    <2> HIDE DEF in, list
    <2>2. {p.address : p \in ToSet(in.bound)} = {b.address : b \in ToSet(list)}
        BY <2>1 DEF ToSet
    <2> QED BY <2>2 DEF BoundAddresses, list
<1>5. Input(rg, request, ch) = in
    BY DEF Input, scan, st
<1> QED BY <1>1, <1>2, <1>3, <1>4, <1>5

LEMMA VerifierSeen ==
    ASSUME NEW rg, NEW request, NEW ch, NEW v \in DOMAIN Input(rg, request, ch).verifiers
    PROVE  LET seen == Input(rg, request, ch).verifiers[v] IN
           /\ v \in DOMAIN Scan(request, ch).codes
           /\ seen.code = ch.codes[v]
           /\ seen.scheme # {} => Passes(resolve_signature_verifier(rg, ch.codes[v]))
<1> DEFINE scan == Scan(request, ch)
           st == project_account_state(scan, scan.state)
           named == {k.at : k \in {x \in {st.signers[s].key : s \in DOMAIN st.signers}
                                        \cup ToSet(grant_for(request).signers) : x.kind = "External"}}
           codes == scan.codes
<1>1. Input(rg, request, ch).verifiers = VerifiersSeen(rg, request, scan, st)
    BY DEF Input, CheckInput
<1>2. VerifiersSeen(rg, request, scan, st) = [x \in named \cap DOMAIN codes |->
            [ code |-> codes[x],
              scheme |-> IF Passes(resolve_signature_verifier(rg, codes[x]))
                         THEN {ReviewedSchemes[codes[x]]} ELSE {} ]]
    BY DEF VerifiersSeen
<1>3. ASSUME NEW x \in DOMAIN codes PROVE codes[x] = ch.codes[x]
    BY <1>3 DEF Scan, Kept
<1> HIDE DEF codes, named
<1>4. v \in named \cap DOMAIN codes
    BY <1>1, <1>2
<1> DEFINE seen == Input(rg, request, ch).verifiers[v]
<1>5. seen = [ code |-> codes[v], scheme |-> IF Passes(resolve_signature_verifier(rg, codes[v]))
                                              THEN {ReviewedSchemes[codes[v]]} ELSE {} ]
    BY <1>1, <1>2, <1>4
<1> HIDE DEF seen
<1>6. /\ v \in DOMAIN codes /\ seen.code = codes[v]
      /\ seen.scheme # {} => Passes(resolve_signature_verifier(rg, codes[v]))
    BY <1>4, <1>5
<1> QED BY <1>3, <1>4, <1>6 DEF seen, codes

(* Without the owner's key a rule that needs the owner lets nobody through. *)
LEMMA OwnerKeeps ==
    ASSUME NEW rg, NEW request, NEW ch, NEW rule, NeedsOwner(Input(rg, request, ch), rule)
    PROVE  ~MayUse(ch, KeyHeads \ {Wallet.data.head}, rule)
<1> DEFINE in == Input(rg, request, ch)
<1>1. in.state.signers = ch.state.signers
    BY InputParts
<1>2. PICK k \in DOMAIN rule.signers :
        LET key == ch.state.signers[rule.signers[k]].key
        IN  /\ key.kind = "External" /\ key.at \in DOMAIN in.verifiers
            /\ in.verifiers[key.at].scheme # {}
            /\ key.data.head = Wallet.data.head
    BY <1>1 DEF NeedsOwner
<1> DEFINE key == ch.state.signers[rule.signers[k]].key
           code == ch.codes[key.at]
<1>3. /\ key.kind = "External" /\ key.at \in DOMAIN in.verifiers
      /\ in.verifiers[key.at].scheme # {} /\ key.data.head = Wallet.data.head
    BY <1>2
<1>4. code \in DOMAIN TrueScheme
    <2> DEFINE at == key.at
    <2>1. at \in DOMAIN in.verifiers /\ in.verifiers[at].scheme # {}
        BY <1>3
    <2> HIDE DEF at, in
    <2>2. Passes(resolve_signature_verifier(rg, ch.codes[at]))
        BY <2>1, VerifierSeen DEF in
    <2> DEFINE h == ch.codes[at]
    <2> HIDE DEF h
    <2>3. h \in DOMAIN ReviewedSchemes
        BY <2>2, ReviewedVerifier DEF h
    <2> QED BY <2>3, ReviewAssumption DEF h, at
<1>5. ~CanProduce(ch, KeyHeads \ {Wallet.data.head}, key)
    <2> HIDE DEF key
    <2> QED BY <1>3, <1>4 DEF CanProduce
<1>6. ToSet(rule.policies) = {}
    BY DEF NeedsOwner, ToSet
<1>7. key \in {ch.state.signers[s].key : s \in ToSet(rule.signers)}
    BY DEF ToSet
<1> QED BY <1>5, <1>6, <1>7 DEF MayUse

(* What a decision rests on: an answer over a capture of the account. *)
Answers(output, rg, request, ch) ==
    /\ output.verdict = verdict(Input(rg, request, ch))
    /\ output.commitment = authority_commitment(Input(rg, request, ch), output.verdict)

LEMMA ControlDecided ==
    ASSUME NEW rg, NEW request, NEW ch, Listed(ch), NEW output, Answers(output, rg, request, ch),
           NEW expect, expect.account = Wallet.account,
           decide(output, WalletTrust(Wallet), expect),
           NEW a \in {Wallet.account} \cup {b.address : b \in ToSet(request.bindings.list)}
    PROVE  ~CanCall(ch, KeyHeads \ {Wallet.data.head}, a, {})
<1> DEFINE in == Input(rg, request, ch)
<1>1. /\ in.state.rules = ch.state.rules /\ in.ledger = ch.ledger /\ in.account = request.account
      /\ BoundAddresses(in) = {b.address : b \in ToSet(request.bindings.list)}
    BY InputParts
<1> HIDE DEF in
<1>2. output.verdict = verdict(in)
    BY DEF Answers, in
<1>3. verdict(in).refusals = {} /\ verdict(in).unresolved = {} /\ verdict(in).account = Wallet.account
      /\ EntriesTrusted(verdict(in), WalletTrust(Wallet))
    BY <1>2 DEF decide
<1>4. in.account = Wallet.account
    BY <1>3, VerdictParts
<1> SUFFICES ASSUME NEW r \in DOMAIN ch.state.rules,
                    \/ ch.state.rules[r].context.kind = "Default"
                    \/ ch.state.rules[r].context = [kind |-> "CallContract", at |-> a],
                    MayUse(ch, KeyHeads \ {Wallet.data.head}, ch.state.rules[r])
             PROVE  FALSE
    BY DEF CanCall
<1> DEFINE rule == in.state.rules[r]
<1>5. r \in DOMAIN in.state.rules /\ rule = ch.state.rules[r] /\ IsList(rule.signers)
    BY <1>1 DEF Listed
<1>6. ~is_expired(rule, in.ledger)
    BY <1>1, <1>5 DEF MayUse, is_expired
<1>7. reach(in, rule.context) \in {"AnyCall", "AccountCalls", "Policy"}
    <2> DEFINE c == rule.context
    <2>1. c.kind = "Default" \/ (c.kind = "CallContract" /\ c.at = a)
        BY <1>5
    <2>2. a = in.account \/ a \in BoundAddresses(in)
        BY <1>1, <1>4
    <2> HIDE DEF c
    <2>3. reach(in, c) \in {"AnyCall", "AccountCalls", "Policy"}
        BY <2>1, <2>2 DEF reach
    <2> QED BY <2>3 DEF c
<1>8. NeedsOwner(in, rule)
    BY <1>3, <1>5, <1>6, <1>7, OwnerNeeded
<1> HIDE DEF rule
<1>9. ~MayUse(ch, KeyHeads \ {Wallet.data.head}, rule)
    BY <1>8, OwnerKeeps DEF in
<1> QED BY <1>5, <1>9

-----------------------------------------------------------------------------
(* The registry's history *)

LEMMA PassesBoth ==
    ASSUME NEW S, NEW a \in Seq(S), NEW b \in Seq(S), Passes(a \o b)
    PROVE  Passes(a) /\ Passes(b)
<1>1. \A k \in 1 .. Len(a) : (a \o b)[k] = a[k] /\ k \in DOMAIN (a \o b)
    OBVIOUS
<1>2. \A k \in 1 .. Len(b) : (a \o b)[Len(a) + k] = b[k] /\ Len(a) + k \in DOMAIN (a \o b)
    OBVIOUS
<1>3. DOMAIN a = 1 .. Len(a) /\ DOMAIN b = 1 .. Len(b)
    OBVIOUS
<1>4. Passes(a)
    BY <1>1, <1>3 DEF Passes
<1>5. Passes(b)
    <2>1. ASSUME NEW k \in 1 .. Len(b) PROVE ~b[k].fails
        <3>1. ~(a \o b)[Len(a) + k].fails
            BY <1>2 DEF Passes
        <3> QED BY <1>2, <3>1
    <2> QED BY <1>3, <2>1 DEF Passes
<1> QED BY <1>4, <1>5

LEMMA ThreeInSeq ==
    ASSUME NEW T, NEW a \in T, NEW b \in T, NEW c \in T
    PROVE  <<a, b, c>> \in Seq(T)
OBVIOUS

LEMMA FiveInSeq ==
    ASSUME NEW T, NEW a \in T, NEW b \in T, NEW c \in T, NEW d \in T, NEW e \in T
    PROVE  <<a, b, c, d, e>> \in Seq(T)
OBVIOUS

(* What a load that is accepted has been held against. *)
Accepts(r, s) ==
    /\ r.current = {} => \A cp \in r.checkpoint : ExtendsCheckpoint(s, cp)
    /\ \A c \in r.current : DirectSuccessor(s, c.log_index, snapshot_root(c), c.revocations)

LEMMA LoadAccepts ==
    ASSUME NEW r, NEW signed, NEW network, NEW time,
           Passes(load_checks(r, signed, network, time))
    PROVE  Accepts(r, signed.snapshot)
<1> DEFINE s == signed.snapshot
           head == << Check(s.schema # "v1", "Schema"),
                      Check(~Signed(signed), "Signature"),
                      Check(s.network # network, "Network") >>
           valid == check_snapshot_validity(s, time)
           roles == validate_capability_keys(s)
           f1 == RevocationMalformed(s)
           f2 == s.version < r.minimum
           f3 == r.current = {} /\ \E cp \in r.checkpoint : ~ExtendsCheckpoint(s, cp)
           f4 == \E c \in r.current : s.version <= c.version
           f5 == \E c \in r.current :
                    ~DirectSuccessor(s, c.log_index, snapshot_root(c), c.revocations)
           chain5 == << Check(f1, "Parse"), Check(f2, "Rollback"), Check(f3, "Transparency"),
                        Check(f4, "Rollback"), Check(f5, "Transparency") >>
<1>1. load_checks(r, signed, network, time) = ((head \o valid) \o roles) \o chain5
    BY DEF load_checks
<1>2. PICK S : head \in Seq(S) /\ valid \in Seq(S) /\ roles \in Seq(S) /\ chain5 \in Seq(S)
    <2>1. PICK h1, h2, h3 : head = <<h1, h2, h3>>
        OBVIOUS
    <2>2. PICK v1, v2, v3 : valid = <<v1, v2, v3>>
        BY DEF check_snapshot_validity
    <2>3. PICK r1, r2, r3 : roles = <<r1, r2, r3>>
        BY DEF validate_capability_keys
    <2>4. PICK c1, c2, c3, c4, c5 : chain5 = <<c1, c2, c3, c4, c5>>
        OBVIOUS
    <2> DEFINE T == {h1, h2, h3, v1, v2, v3, r1, r2, r3, c1, c2, c3, c4, c5}
    <2> HIDE DEF head, valid, roles, chain5
    <2>5. head \in Seq(T) /\ valid \in Seq(T) /\ roles \in Seq(T)
        BY <2>1, <2>2, <2>3, ThreeInSeq
    <2>6. chain5 \in Seq(T)
        BY <2>4, FiveInSeq
    <2> QED BY <2>5, <2>6
<1>3. Passes(chain5)
    <2>1. (head \o valid) \o roles \in Seq(S)
        <3> HIDE DEF head, valid, roles
        <3> QED BY <1>2
    <2> HIDE DEF head, valid, roles, chain5
    <2> QED BY <1>1, <1>2, <2>1, PassesBoth
<1>4. ~chain5[3].fails /\ ~chain5[5].fails
    <2>1. 3 \in DOMAIN chain5 /\ 5 \in DOMAIN chain5
        OBVIOUS
    <2> HIDE DEF chain5
    <2> QED BY <1>3, <2>1 DEF Passes
<1>5. ~f3 /\ ~f5
    <2>1. chain5[3] = Check(f3, "Transparency") /\ chain5[5] = Check(f5, "Transparency")
        OBVIOUS
    <2> HIDE DEF chain5, f3, f5
    <2> QED BY <1>4, <2>1 DEF Check
<1> QED BY <1>5 DEF Accepts

-----------------------------------------------------------------------------
(* Descent *)

LEMMA ExtendsSelf == ASSUME NEW a \in Snapshots PROVE Extends(a, a)
BY DEF Extends, Ancestry, ensure_revocations_extend

LEMMA ExtendsTransitive ==
    ASSUME NEW a \in Snapshots, NEW b \in Snapshots, NEW c \in Snapshots,
           Extends(b, a), Extends(c, b)
    PROVE  Extends(c, a)
<1>1. a \in Ancestry(c)
    BY DEF Extends, Ancestry
<1>2. ensure_revocations_extend(a.revocations, c.revocations)
    BY DEF Extends, ensure_revocations_extend
<1> QED BY <1>1, <1>2 DEF Extends

LEMMA SuccessorExtends ==
    ASSUME NEW a \in Snapshots, NEW b \in Snapshots,
           DirectSuccessor(b, a.log_index, snapshot_root(a), a.revocations)
    PROVE  Extends(b, a)
<1>1. b.previous = {a} /\ ensure_revocations_extend(a.revocations, b.revocations)
    BY DEF DirectSuccessor, snapshot_root
<1> QED BY <1>1 DEF Extends, Ancestry

-----------------------------------------------------------------------------
(***************************************************************************)
(* Inductive because a registry either holds a snapshot that extends all   *)
(* that was persisted, or has just been started from the last checkpoint,  *)
(* which is of a snapshot that extends all that was persisted.             *)
(***************************************************************************)
PersistedInv ==
    /\ DOMAIN trust = {"checkpoint", "minimum", "was"}
    /\ trust.was \subseteq Snapshots
    /\ OneRegistryHistory
    /\ IF trust.checkpoint = {} THEN trust.was = {}
       ELSE \E last \in trust.was : /\ trust.checkpoint = {checkpoint(last)}
                                    /\ \A a \in trust.was : Extends(last, a)

LoadedInv ==
    /\ DOMAIN reg = {"current", "checkpoint", "minimum"}
    /\ \/ reg.current = {} /\ reg.checkpoint = trust.checkpoint
       \/ \E c \in Snapshots : reg.current = {c} /\ \A a \in trust.was : Extends(c, a)

HistoryInv == PersistedInv /\ LoadedInv

LEMMA StartsAtCheckpoint ==
    ASSUME NEW t, IsOption(t.checkpoint)
    PROVE  /\ DOMAIN RegistryFor(t) = {"current", "checkpoint", "minimum"}
           /\ RegistryFor(t).current = {} /\ RegistryFor(t).checkpoint = t.checkpoint
<1>1. CASE t.checkpoint = {}
    BY <1>1 DEF RegistryFor, with_pinned_roots, with_pinned_roots_for_network_at_version
<1>2. CASE t.checkpoint # {}
    <2>1. PICK c \in t.checkpoint : TRUE
        BY <1>2
    <2>2. t.checkpoint = {c}
        BY <2>1 DEF IsOption
    <2> QED BY <1>2, <2>2 DEF RegistryFor, with_pinned_roots,
                              with_pinned_roots_for_network_at_checkpoint
<1> QED BY <1>1, <1>2

LEMMA InitHistory == Init => HistoryInv
<1> SUFFICES ASSUME Init PROVE HistoryInv
    OBVIOUS
<1>1. trust = FirstTrust /\ reg = RegistryFor(FirstTrust)
    BY DEF Init
<1>2. /\ IsOption(FirstTrust.was) /\ FirstTrust.checkpoint = {checkpoint(s) : s \in FirstTrust.was}
      /\ DOMAIN FirstTrust = {"checkpoint", "minimum", "was"}
    BY FirstTrustAssumption
<1>3. FirstTrust.was \subseteq Snapshots
    BY DEF Snapshots
<1>4. \A a, b \in FirstTrust.was : a = b /\ Extends(a, b)
    BY <1>2, <1>3, ExtendsSelf DEF IsOption
<1>5. PersistedInv
    <2>1. CASE FirstTrust.was = {}
        BY <1>1, <1>2, <2>1 DEF PersistedInv, OneRegistryHistory
    <2>2. CASE FirstTrust.was # {}
        <3>1. PICK last \in FirstTrust.was : TRUE
            BY <2>2
        <3>2. FirstTrust.was = {last}
            BY <1>4, <3>1
        <3>3. FirstTrust.checkpoint = {checkpoint(last)}
            BY <1>2, <3>2
        <3> QED BY <1>1, <1>2, <1>3, <1>4, <3>1, <3>3 DEF PersistedInv, OneRegistryHistory
    <2> QED BY <2>1, <2>2
<1>6. IsOption(FirstTrust.checkpoint)
    BY <1>2 DEF IsOption
<1>7. LoadedInv
    BY <1>1, <1>6, StartsAtCheckpoint DEF LoadedInv
<1> QED BY <1>5, <1>7 DEF HistoryInv

LEMMA LoadHistory ==
    ASSUME HistoryInv, NEW signed \in Published, Load(signed)
    PROVE  HistoryInv'
<1> DEFINE s == signed.snapshot
<1>1. s \in Snapshots /\ UNCHANGED trust
    BY DEF Snapshots, Load
<1>2. Accepts(reg, s)
    BY LoadAccepts DEF Load
<1>3. reg'.current = {s} /\ DOMAIN reg' = DOMAIN reg
    <2>1. reg' = [reg EXCEPT !.current = {s}] /\ "current" \in DOMAIN reg
        BY DEF Load, load_at, HistoryInv, LoadedInv
    <2> QED BY <2>1
<1>4. \A a \in trust.was : Extends(s, a)
    <2>1. CASE reg.current = {} /\ reg.checkpoint = trust.checkpoint
        <3>1. CASE trust.checkpoint = {}
            BY <3>1 DEF HistoryInv, PersistedInv
        <3>2. CASE trust.checkpoint # {}
            <4>1. PICK last \in trust.was : /\ trust.checkpoint = {checkpoint(last)}
                                            /\ \A a \in trust.was : Extends(last, a)
                BY <3>2 DEF HistoryInv, PersistedInv
            <4>2. ExtendsCheckpoint(s, checkpoint(last))
                BY <1>2, <2>1, <4>1 DEF Accepts
            <4>3. last \in Snapshots
                BY DEF HistoryInv, PersistedInv
            <4>4. s = last \/ DirectSuccessor(s, last.log_index, snapshot_root(last), last.revocations)
                BY <4>2 DEF ExtendsCheckpoint, checkpoint, snapshot_root
            <4>5. Extends(s, last)
                BY <1>1, <4>3, <4>4, ExtendsSelf, SuccessorExtends
            <4> QED BY <1>1, <4>1, <4>3, <4>5, ExtendsTransitive DEF HistoryInv, PersistedInv
        <3> QED BY <3>1, <3>2
    <2>2. ASSUME NEW c \in Snapshots, reg.current = {c}, \A a \in trust.was : Extends(c, a)
          PROVE  \A a \in trust.was : Extends(s, a)
        <3>1. Extends(s, c)
            BY <1>1, <1>2, <2>2, SuccessorExtends DEF Accepts
        <3> QED BY <1>1, <2>2, <3>1, ExtendsTransitive DEF HistoryInv, PersistedInv
    <2> QED BY <2>1, <2>2 DEF HistoryInv, LoadedInv
<1>5. LoadedInv'
    BY <1>1, <1>3, <1>4 DEF HistoryInv, LoadedInv
<1>6. PersistedInv'
    BY <1>1 DEF HistoryInv, PersistedInv, OneRegistryHistory
<1> QED BY <1>5, <1>6 DEF HistoryInv

LEMMA PersistHistory == ASSUME HistoryInv, Persist PROVE HistoryInv'
<1>1. reg.current # {} /\ UNCHANGED reg
    BY DEF Persist
<1>2. PICK c \in Snapshots : reg.current = {c} /\ \A a \in trust.was : Extends(c, a)
    BY <1>1 DEF HistoryInv, LoadedInv
<1>3. Of(reg) = c
    BY <1>2 DEF Of
<1>4. /\ trust'.checkpoint = {checkpoint(c)} /\ trust'.was = trust.was \cup {c}
      /\ DOMAIN trust' = DOMAIN trust
    <2>1. /\ trust' = [trust EXCEPT !.checkpoint = {checkpoint(c)}, !.was = @ \cup {c}]
          /\ {"checkpoint", "was"} \subseteq DOMAIN trust
        BY <1>3 DEF Persist, HistoryInv, PersistedInv
    <2> QED BY <2>1
<1>5. \A a \in trust'.was : Extends(c, a)
    BY <1>2, <1>4, ExtendsSelf
<1>6. PersistedInv'
    <2>1. trust'.was \subseteq Snapshots
        BY <1>4 DEF HistoryInv, PersistedInv
    <2>2. OneRegistryHistory'
        BY <1>4, <1>5 DEF HistoryInv, PersistedInv, OneRegistryHistory
    <2> QED BY <1>4, <1>5, <2>1, <2>2 DEF HistoryInv, PersistedInv
<1>7. LoadedInv'
    BY <1>1, <1>2, <1>5 DEF HistoryInv, LoadedInv
<1> QED BY <1>6, <1>7 DEF HistoryInv

LEMMA NextHistory == HistoryInv /\ [Next]_vars => HistoryInv'
<1> SUFFICES ASSUME HistoryInv, [Next]_vars PROVE HistoryInv'
    OBVIOUS
<1>1. ASSUME UNCHANGED <<trust, reg>> PROVE HistoryInv'
    BY <1>1 DEF HistoryInv, PersistedInv, LoadedInv, OneRegistryHistory
<1>2. CASE Restart
    <2>1. IsOption(trust.checkpoint)
        BY DEF HistoryInv, PersistedInv, IsOption
    <2>2. /\ reg'.current = {} /\ reg'.checkpoint = trust.checkpoint /\ UNCHANGED trust
          /\ DOMAIN reg' = {"current", "checkpoint", "minimum"}
        BY <1>2, <2>1, StartsAtCheckpoint DEF Restart
    <2> QED BY <2>2 DEF HistoryInv, PersistedInv, LoadedInv, OneRegistryHistory
<1>3. CASE \/ \E c \in Config.changes : AccountChanges(c)
           \/ LedgerCloses \/ TimePasses
           \/ \E r \in Config.requests : Plan(r)
           \/ Review \/ Recheck \/ Install \/ ReadAuthority
           \/ \E names \in Config.batches : Read(names)
           \/ Conclude
           \/ UNCHANGED vars
    BY <1>1, <1>3 DEF AccountChanges, LedgerCloses, TimePasses, Plan, Review, Recheck, Install,
                      ReadAuthority, Read, Conclude, vars
<1> QED BY <1>2, <1>3, LoadHistory, PersistHistory DEF Next

(***************************************************************************)
(* For any published snapshots, forks and forgetful successors among them, *)
(* and any order of loads, persisted checkpoints and restarts: of two      *)
(* snapshots the operator persisted one descends from the other and        *)
(* revokes whatever it revoked.                                            *)
(***************************************************************************)
THEOREM PersistedIsOneHistory == Spec => []OneRegistryHistory
<1>1. HistoryInv => OneRegistryHistory
    BY DEF HistoryInv, PersistedInv
<1> QED BY <1>1, InitHistory, NextHistory, PTL DEF Spec

-----------------------------------------------------------------------------
(* What a successful answer rests on *)

LEMMA SevenListed == ASSUME NEW a, NEW b, NEW c, NEW d, NEW e, NEW f, NEW g
                     PROVE  IsList(<<a, b, c, d, e, f, g>>)
<1>1. <<a, b, c, d, e, f, g>> = [k \in 1 .. 7 |-> <<a, b, c, d, e, f, g>>[k]]
    OBVIOUS
<1> QED BY <1>1, IsAList

CaptureCodes ==
    {"NotLoaded", "Validity", "NotYetValid", "Expired", "IncompleteAccountState",
     "PolicyBindingInvalid"}

GateCodes ==
    {"EnumerationUnsupported", "IncompatibleAccount", "InvalidBindingSet",
     "UnrecognizedBoundPolicy", "IncompleteAccountState"}

LEMMA CaptureCoded ==
    ASSUME NEW rg, NEW request, NEW scan, NEW state, NEW time
    PROVE  LET c == capture_checks(rg, request, scan, state, time) IN
           /\ IsList(c) /\ Coded(c, CaptureCodes)
           /\ Passes(c) => ~ProjectionRefused(scan, scan.state)
<1> DEFINE a == <<Check(rg.current = {}, "NotLoaded")>>
           b == IF rg.current = {} THEN <<>>
                ELSE check_snapshot_validity(CHOOSE c \in rg.current : TRUE, time)
           f1 == scan.account # request.account \/ scan.network # request.network
           f2 == ~(PlannedClassics(request) \subseteq DOMAIN scan.classics)
           f3 == ProjectionRefused(scan, scan.state)
           f4 == ~({x.address : x \in ToSet(request.bindings.list)} \subseteq DOMAIN scan.codes)
           f5 == scan.code # request.spec.code
           f6 == \E x \in ToSet(request.bindings.list) : x.address \in DOMAIN scan.codes
                    /\ scan.codes[x.address] # x.code
           f7 == CodeConflict(request, scan, state)
           d == << Check(f1, "IncompleteAccountState"), Check(f2, "IncompleteAccountState"),
                   Check(f3, "IncompleteAccountState"), Check(f4, "IncompleteAccountState"),
                   Check(f5, "IncompleteAccountState"), Check(f6, "PolicyBindingInvalid"),
                   Check(f7, "IncompleteAccountState") >>
<1>1. capture_checks(rg, request, scan, state, time) = (a \o b) \o d
    BY DEF capture_checks, ensure_valid_at
<1> HIDE DEF f1, f2, f3, f4, f5, f6, f7
<1>2. IsList(a) /\ Coded(a, CaptureCodes)
    BY Lists DEF Coded, Check, CaptureCodes
<1>3. IsList(b) /\ Coded(b, CaptureCodes)
    <2>1. CASE rg.current = {}
        BY <2>1, Lists DEF Coded
    <2>2. CASE rg.current # {}
        <3> DEFINE s == CHOOSE c \in rg.current : TRUE
        <3> HIDE DEF s
        <3>1. b = check_snapshot_validity(s, time)
            BY <2>2 DEF s
        <3> HIDE DEF b
        <3>2. IsList(b)
            BY <3>1, Lists DEF check_snapshot_validity
        <3>3. Coded(b, CaptureCodes)
            BY <3>1 DEF check_snapshot_validity, Coded, Check, CaptureCodes
        <3> QED BY <3>2, <3>3
    <2> QED BY <2>1, <2>2
<1>4. IsList(d)
    BY SevenListed
<1>5. Coded(d, CaptureCodes) /\ 3 \in DOMAIN d /\ (d[3].fails <=> f3)
    BY DEF Coded, Check, CaptureCodes
<1> HIDE DEF a, b, d
<1> DEFINE ab == a \o b
<1>6. IsList(ab) /\ Coded(ab, CaptureCodes)
    BY <1>2, <1>3, Joined
<1> HIDE DEF ab
<1>7. IsList(ab \o d) /\ Coded(ab \o d, CaptureCodes) /\ (Passes(ab \o d) => Passes(d))
    BY <1>4, <1>5, <1>6, Joined
<1>8. Passes(d) => ~f3
    BY <1>5 DEF Passes
<1> QED BY <1>1, <1>7, <1>8 DEF ab, f3

LEMMA GatesCoded ==
    ASSUME NEW in
    PROVE  IsList(check_gates(in)) /\ Coded(check_gates(in), GateCodes)
<1>1. IsList(check_gates(in))
    BY SevenListed DEF check_gates
<1> DEFINE f1 == in.enumeration # "BoundedNextId"
           f2 == ~in.account_recognized
           f3 == in.bound = <<>>
           f4 == Cardinality(BoundAddresses(in)) # Len(in.bound)
           f5 == in.grant.signers = <<>>
           f6 == \E p \in ToSet(in.bound) :
                    \/ p.address \notin DOMAIN in.recognized
                    \/ in.recognized[p.address].code # p.code
           f7 == ~Passes(reconcile(in.state))
           d == << Check(f1, "EnumerationUnsupported"), Check(f2, "IncompatibleAccount"),
                   Check(f3, "InvalidBindingSet"), Check(f4, "InvalidBindingSet"),
                   Check(f5, "InvalidBindingSet"), Check(f6, "UnrecognizedBoundPolicy"),
                   Check(f7, "IncompleteAccountState") >>
<1>2. check_gates(in) = d
    BY DEF check_gates
<1> HIDE DEF f1, f2, f3, f4, f5, f6, f7
<1>3. Coded(d, GateCodes)
    BY DEF Coded, Check, GateCodes
<1> QED BY <1>1, <1>2, <1>3

(* An answer over a capture, with or without a recorded rule projected out. *)
LEMMA FinishedCheck ==
    ASSUME NEW rg, NEW request, NEW scan, NEW state, NEW time,
           finish_call_surface_with_state(rg, request, scan, state, time).error = "ok"
    PROVE  LET result == finish_call_surface_with_state(rg, request, scan, state, time)
               in == CheckInput(rg, request, scan, state)
           IN  /\ result.output = {[verdict |-> verdict(in),
                                    commitment |-> authority_commitment(in, verdict(in))]}
               /\ ~ProjectionRefused(scan, scan.state)
<1> DEFINE c == capture_checks(rg, request, scan, state, time)
           in == CheckInput(rg, request, scan, state)
           g == check_gates(in)
           result == finish_call_surface_with_state(rg, request, scan, state, time)
<1>1. result = CaptureAnswer(FirstRefusal(c), in)
    BY DEF finish_call_surface_with_state
<1>2. IsList(c) /\ Coded(c, CaptureCodes) /\ (Passes(c) => ~ProjectionRefused(scan, scan.state))
    BY CaptureCoded
<1>3. IsList(g) /\ Coded(g, GateCodes)
    BY GatesCoded
<1> HIDE DEF c, g, in, result
<1>4. DOMAIN c \subseteq Nat /\ DOMAIN g \subseteq Nat
    BY <1>2, <1>3, ListDomain
<1>5. Passes(c)
    <2> SUFFICES ASSUME ~Passes(c) PROVE FALSE
        OBVIOUS
    <2>1. FirstRefusal(c) \in CaptureCodes
        BY <1>2, <1>4, RefusalCoded
    <2> DEFINE x == FirstRefusal(c)
    <2>2. x # "Permit" /\ x # "ok"
        BY <2>1 DEF CaptureCodes
    <2> HIDE DEF x
    <2>3. CaptureAnswer(x, in).error = x
        BY <2>2 DEF CaptureAnswer
    <2> QED BY <1>1, <2>2, <2>3 DEF x, result
<1>6. FirstRefusal(c) = "Permit"
    BY <1>5 DEF Passes, FirstRefusal
<1>7. result = Answered(FirstRefusal(g), in)
    BY <1>1, <1>6 DEF CaptureAnswer, CoreAnswer, g
<1>8. Passes(g)
    <2> SUFFICES ASSUME ~Passes(g) PROVE FALSE
        OBVIOUS
    <2>1. FirstRefusal(g) \in GateCodes
        BY <1>3, <1>4, RefusalCoded
    <2> DEFINE x == FirstRefusal(g)
    <2>2. x # "Permit" /\ x # "ok"
        BY <2>1 DEF GateCodes
    <2> HIDE DEF x
    <2>3. Answered(x, in).error = x
        BY <2>2 DEF Answered
    <2> QED BY <1>7, <2>2, <2>3 DEF x, result
<1>9. FirstRefusal(g) = "Permit"
    BY <1>8 DEF Passes, FirstRefusal
<1>10. result = Output(in, verdict(in))
    BY <1>7, <1>9 DEF Answered
<1>11. result.output = {[verdict |-> verdict(in), commitment |-> authority_commitment(in, verdict(in))]}
    BY <1>10 DEF Output
<1> QED BY <1>2, <1>5, <1>11 DEF result, in

LEMMA RefusalNamed == ASSUME NEW refusals PROVE refusal_code(refusals) # "ok"
<1> DEFINE priority == << "DelegateHasAuthority", "UnsafeManagementSurface", "UnsafeCallSurface",
                          "DelegateGrantOverlap", "UnsupportedAuthority" >>
           named == {k \in DOMAIN priority : \E f \in refusals : f.code = priority[k]}
           first == CHOOSE k \in named : \A j \in named : k <= j
<1>1. refusal_code(refusals) = IF named = {} THEN "IncompleteAccountState" ELSE priority[first]
    BY DEF refusal_code
<1>2. \A k \in 1 .. 5 : priority[k] # "ok"
    OBVIOUS
<1>3. named \subseteq 1 .. 5
    OBVIOUS
<1>4. CASE named # {}
    <2> HIDE DEF named
    <2>1. named \subseteq Nat
        BY <1>3
    <2>2. PICK x \in named : \A y \in named : ~(<<y, x>> \in OpToRel(<, Nat))
        BY <1>4, <2>1, WFMin, NatLessThanWellFounded
    <2>3. \A y \in named : ~(y < x)
        BY <2>1, <2>2 DEF OpToRel
    <2>4. \A y \in named : x <= y
        BY <2>1, <2>3
    <2>5. first \in named
        BY <2>4
    <2> HIDE DEF first, priority
    <2> QED BY <1>1, <1>2, <1>3, <1>4, <2>5
<1> QED BY <1>1, <1>4

LEMMA IntentAnswers ==
    ASSUME NEW rg, NEW request, NEW ch, NEW time, NEW result,
           result = prepare_install_intent_from_scan(rg, request, Scan(request, ch), time),
           result.error = "ok"
    PROVE  /\ Answers(The(result.output), rg, request, ch)
           /\ ~ProjectionRefused(Scan(request, ch), ch.state)
<1> DEFINE scan == Scan(request, ch)
           state == project_account_state(scan, scan.state)
           found == finish_call_surface_with_state(rg, request, scan, state, time)
           in == CheckInput(rg, request, scan, state)
<1>1. result = IntentOf(found)
    BY DEF prepare_install_intent_from_scan, finish_call_surface_check
<1>2. scan.state = ch.state
    BY DEF Scan
<1>3. Input(rg, request, ch) = in
    BY DEF Input
<1> HIDE DEF scan, state, found, in
<1>4. found.error = "ok" /\ result = found
    <2>1. CASE found.error # "ok"
        BY <1>1, <2>1 DEF IntentOf
    <2>2. CASE found.error = "ok"
        <3> DEFINE v == (CHOOSE o \in found.output : TRUE).verdict
        <3>1. result = Intent(found, v)
            BY <1>1, <2>2 DEF IntentOf
        <3> HIDE DEF v
        <3> QED BY <2>2, <3>1, RefusalNamed DEF Intent
    <2> QED BY <2>1, <2>2
<1>5. /\ result.output = {[verdict |-> verdict(in), commitment |-> authority_commitment(in, verdict(in))]}
      /\ ~ProjectionRefused(scan, scan.state)
    BY <1>4, FinishedCheck DEF found, in
<1>6. The(result.output) = [verdict |-> verdict(in), commitment |-> authority_commitment(in, verdict(in))]
    BY <1>5 DEF The
<1> QED BY <1>2, <1>3, <1>5, <1>6 DEF Answers, scan

-----------------------------------------------------------------------------
(* Accounts stay accounts *)

LEMMA AllocatedList ==
    ASSUME NEW list, IsList(list), NEW known, NEW next
    PROVE  IsList(Allocate(list, known, next))
<1> DEFINE ids == Allocate(list, known, next)
<1>1. DOMAIN ids = DOMAIN list /\ ids = [k \in DOMAIN list |-> ids[k]]
    BY DEF Allocate
<1>2. DOMAIN list = 1 .. Len(list) /\ Len(list) \in Nat
    BY ListDomain
<1> HIDE DEF ids
<1>3. ids = [k \in 1 .. Len(list) |-> ids[k]]
    BY <1>1, <1>2
<1> QED BY <1>2, <1>3, IsAList DEF ids

(* The new rule beside the ones there were. *)
LEMMA RuleAdded ==
    ASSUME NEW ch, IsAccount(ch), NEW rule
    PROVE  LET new == AddedRule(ch, rule)
               id == ch.state.next_id
           IN  /\ IsAccount(new)
               /\ new.ledger = ch.ledger /\ new.marker = ch.marker
               /\ DOMAIN new.state.rules = DOMAIN ch.state.rules \cup {id}
               /\ \A r \in DOMAIN ch.state.rules : new.state.rules[r] = ch.state.rules[r]
               /\ id \notin DOMAIN ch.state.rules
               /\ new.state.rules[id].id = id /\ new.state.rules[id].name = rule.name
               /\ new.state.rules[id].context = rule.context
               /\ new.state.rules[id].until = rule.until
               /\ IsList(rule.keys) => IsList(new.state.rules[id].signers)
               /\ IsList(rule.policies) => IsList(new.state.rules[id].policies)
<1> DEFINE st == ch.state
           id == st.next_id
           sids == Allocate(rule.keys, [s \in DOMAIN st.signers |-> st.signers[s].key], ch.next_signer)
           pids == Allocate(rule.policies, [p \in DOMAIN st.policies |-> st.policies[p].address],
                            ch.next_policy)
           At(seq, value) == CHOOSE k \in DOMAIN seq : seq[k] = value
           signers == Extended(st.signers, [s \in ToSet(sids) |->
                            [id |-> s, key |-> rule.keys[At(sids, s)]]])
           policies == Extended(st.policies, [p \in ToSet(pids) |->
                            [id |-> p, address |-> rule.policies[At(pids, p)]]])
           added == [ id |-> id, name |-> rule.name, context |-> rule.context, until |-> rule.until,
                      signers |-> sids, policies |-> pids ]
           rules == Extended(st.rules, [r \in {id} |-> added])
           state == [ next_id |-> id + 1, active_count |-> st.active_count + 1, rules |-> rules,
                      signers |-> signers, policies |-> policies ]
           m == Cardinality(ToSet(sids) \ DOMAIN st.signers)
           n == Cardinality(ToSet(pids) \ DOMAIN st.policies)
           new == [ch EXCEPT !.state = state, !.next_signer = @ + m, !.next_policy = @ + n]
<1>1. AddedRule(ch, rule) = new
    BY DEF AddedRule
<1>2. (IsList(rule.keys) => IsList(sids)) /\ (IsList(rule.policies) => IsList(pids))
    BY AllocatedList
<1> HIDE DEF sids, pids, signers, policies, m, n
<1>3. /\ IsRule(added)
      /\ added.id = id /\ added.name = rule.name /\ added.context = rule.context
      /\ added.until = rule.until /\ added.signers = sids /\ added.policies = pids
    BY DEF IsRule, RuleFields
<1> HIDE DEF added
<1>4. /\ DOMAIN rules = DOMAIN st.rules \cup {id}
      /\ \A r \in DOMAIN st.rules : rules[r] = st.rules[r]
      /\ rules[id] = added
    <2>1. id \notin DOMAIN st.rules
        BY DEF IsAccount
    <2> QED BY <2>1 DEF Extended
<1> HIDE DEF rules
<1>5. DOMAIN state = {"next_id", "active_count", "rules", "signers", "policies"} /\ state.rules = rules
      /\ state.next_id = id + 1
    OBVIOUS
<1> HIDE DEF state
<1>6. new.state = state /\ DOMAIN new = DOMAIN ch /\ new.ledger = ch.ledger /\ new.marker = ch.marker
    BY DEF IsAccount
<1> HIDE DEF new
<1>7. IsAccount(new)
    <2>1. state.next_id \in Nat /\ DOMAIN rules \subseteq 0 .. state.next_id - 1
        BY <1>4, <1>5 DEF IsAccount
    <2> QED BY <1>3, <1>4, <1>5, <1>6, <2>1 DEF IsAccount
<1>8. id \notin DOMAIN st.rules
    BY DEF IsAccount
<1> QED BY <1>1, <1>2, <1>3, <1>4, <1>5, <1>6, <1>7, <1>8

LEMMA AccountAfterAdd ==
    ASSUME NEW ch, IsAccount(ch), Listed(ch), NEW rule, IsList(rule.keys), IsList(rule.policies)
    PROVE  Listed(AddedRule(ch, rule))
<1> DEFINE new == AddedRule(ch, rule)
           id == ch.state.next_id
<1>1. /\ DOMAIN new.state.rules = DOMAIN ch.state.rules \cup {id}
      /\ \A r \in DOMAIN ch.state.rules : new.state.rules[r] = ch.state.rules[r]
    BY RuleAdded
<1>2. IsList(new.state.rules[id].signers) /\ IsList(new.state.rules[id].policies)
    BY RuleAdded
<1> HIDE DEF new
<1> QED BY <1>1, <1>2 DEF Listed, new

LEMMA AccountAfterRemove ==
    ASSUME NEW ch, IsAccount(ch), NEW id
    PROVE  LET new == RemovedRule(ch, id) IN
           /\ IsAccount(new) /\ (Listed(ch) => Listed(new))
<1> DEFINE rules == Kept(ch.state.rules, DOMAIN ch.state.rules \ {id})
           rest == WithoutRule(ch.state, id)
           state == [rest EXCEPT !.next_id = ch.state.next_id]
           new == [ch EXCEPT !.state = state, !.marker = @ \ {id}]
<1>1. RemovedRule(ch, id) = new
    BY DEF RemovedRule
<1>2. /\ DOMAIN rules = DOMAIN ch.state.rules \ {id}
      /\ \A r \in DOMAIN rules : rules[r] = ch.state.rules[r]
    BY DEF Kept
<1>3. DOMAIN rest = {"next_id", "active_count", "rules", "signers", "policies"} /\ rest.rules = rules
    BY DEF WithoutRule
<1> HIDE DEF rules, rest
<1>4. DOMAIN state = {"next_id", "active_count", "rules", "signers", "policies"} /\ state.rules = rules
      /\ state.next_id = ch.state.next_id
    BY <1>3
<1> HIDE DEF state
<1>5. new.state = state /\ DOMAIN new = DOMAIN ch
    BY DEF IsAccount
<1> HIDE DEF new
<1>6. IsAccount(new)
    BY <1>2, <1>4, <1>5 DEF IsAccount
<1>7. Listed(ch) => Listed(new)
    BY <1>2, <1>4, <1>5 DEF Listed
<1> QED BY <1>1, <1>6, <1>7

(* One rule replaced by one with the same lists. *)
LEMMA AccountAfterEdit ==
    ASSUME NEW ch, IsAccount(ch), NEW id \in DOMAIN ch.state.rules, NEW x, NEW new,
           \/ new = [ch EXCEPT !.state.rules[id].until = x]
           \/ new = [ch EXCEPT !.state.rules[id].name = x]
    PROVE  IsAccount(new) /\ (Listed(ch) => Listed(new))
<1> DEFINE st == ch.state
           old == st.rules
           rule == old[id]
<1>0. IsRule(rule)
    BY DEF IsAccount
<1>1. PICK edited : /\ new = [ch EXCEPT !.state.rules[id] = edited]
                    /\ IsRule(edited) /\ edited.signers = rule.signers
                    /\ edited.policies = rule.policies
    <2>1. CASE new = [ch EXCEPT !.state.rules[id].until = x]
        <3> DEFINE e == [rule EXCEPT !.until = x]
        <3>1. IsRule(e) /\ e.signers = rule.signers /\ e.policies = rule.policies
            <4> HIDE DEF rule
            <4>1. DOMAIN rule = RuleFields
                BY <1>0 DEF IsRule
            <4>2. e = [f \in RuleFields |-> e[f]]
                BY <4>1
            <4> QED BY <4>1, <4>2 DEF IsRule, RuleFields
        <3>2. new = [ch EXCEPT !.state.rules[id] = e]
            BY <2>1
        <3> HIDE DEF e
        <3> QED BY <3>1, <3>2
    <2>2. CASE new = [ch EXCEPT !.state.rules[id].name = x]
        <3> DEFINE e == [rule EXCEPT !.name = x]
        <3>1. IsRule(e) /\ e.signers = rule.signers /\ e.policies = rule.policies
            <4> HIDE DEF rule
            <4>1. DOMAIN rule = RuleFields
                BY <1>0 DEF IsRule
            <4>2. e = [f \in RuleFields |-> e[f]]
                BY <4>1
            <4> QED BY <4>1, <4>2 DEF IsRule, RuleFields
        <3>2. new = [ch EXCEPT !.state.rules[id] = e]
            BY <2>2
        <3> HIDE DEF e
        <3> QED BY <3>1, <3>2
    <2> QED BY <2>1, <2>2
<1> DEFINE rules == [old EXCEPT ![id] = edited]
           state == [st EXCEPT !.rules = rules]
<1>2. new = [ch EXCEPT !.state = state]
    BY <1>1
<1>3. DOMAIN rules = DOMAIN old /\ rules[id] = edited /\ \A r \in DOMAIN old \ {id} : rules[r] = old[r]
    OBVIOUS
<1> HIDE DEF rules
<1>4. DOMAIN state = DOMAIN st /\ state.rules = rules /\ state.next_id = st.next_id
    BY DEF IsAccount
<1> HIDE DEF state
<1>5. new.state = state /\ DOMAIN new = DOMAIN ch
    BY <1>2 DEF IsAccount
<1>6. IsAccount(new)
    BY <1>1, <1>3, <1>4, <1>5 DEF IsAccount
<1>7. Listed(ch) => Listed(new)
    BY <1>1, <1>3, <1>4, <1>5 DEF Listed
<1> QED BY <1>6, <1>7

LEMMA AccountKept ==
    ASSUME NEW ch, IsAccount(ch), NEW name \in DOMAIN Setups, NEW c \in Setups[name].changes,
           Applies(ch, c)
    PROVE  IsAccount(Change(ch, c)) /\ (Listed(ch) => Listed(Change(ch, c)))
<1>1. /\ c.do \in {"add", "remove", "extend", "rename", "classic", "upgrade"}
      /\ c.do = "add" => IsList(c.rule.keys) /\ IsList(c.rule.policies)
    BY SetupAssumption
<1> DEFINE new == Change(ch, c)
<1>2. CASE c.do = "add"
    <2>1. new = AddedRule(ch, c.rule)
        BY <1>2 DEF Change
    <2>2. IsAccount(AddedRule(ch, c.rule))
        BY RuleAdded
    <2> QED BY <1>1, <1>2, <2>1, <2>2, AccountAfterAdd
<1>3. CASE c.do = "remove"
    <2>1. new = RemovedRule(ch, c.id)
        BY <1>3 DEF Change
    <2> QED BY <2>1, AccountAfterRemove
<1>4. CASE c.do = "extend"
    <2>1. new = [ch EXCEPT !.state.rules[c.id].until = c.until] /\ c.id \in DOMAIN ch.state.rules
        BY <1>4 DEF Change, Applies
    <2> HIDE DEF new
    <2>2. IsAccount(new) /\ (Listed(ch) => Listed(new))
        BY <2>1, AccountAfterEdit
    <2> QED BY <2>2 DEF new
<1>5. CASE c.do = "rename"
    <2>1. new = [ch EXCEPT !.state.rules[c.id].name = c.name] /\ c.id \in DOMAIN ch.state.rules
        BY <1>5 DEF Change, Applies
    <2> HIDE DEF new
    <2>2. IsAccount(new) /\ (Listed(ch) => Listed(new))
        BY <2>1, AccountAfterEdit
    <2> QED BY <2>2 DEF new
<1>6. CASE c.do \in {"classic", "upgrade"}
    <2>1. \/ new = [ch EXCEPT !.classics = [ch.classics EXCEPT ![c.at] = c.entry]]
          \/ new = [ch EXCEPT !.codes = [ch.codes EXCEPT ![c.at] = c.code]]
        BY <1>6 DEF Change
    <2>2. new.state = ch.state /\ DOMAIN new = DOMAIN ch
        BY <2>1 DEF IsAccount
    <2> HIDE DEF new
    <2>3. IsAccount(new) /\ (Listed(ch) => Listed(new))
        BY <2>2 DEF IsAccount, Listed
    <2> QED BY <2>3 DEF new
<1> QED BY <1>1, <1>2, <1>3, <1>4, <1>5, <1>6

-----------------------------------------------------------------------------
(* The shape of a state *)

JobFields ==
    {"phase", "request", "approved", "before", "seen", "record", "authority", "watched", "reads",
     "report", "reg", "touched"}

Unsigned == {"idle", "planned", "approved", "cleared"}

ShapeInv ==
    /\ DOMAIN setup = {"name", "left"} /\ setup.name \in DOMAIN Setups
    /\ DOMAIN job = JobFields
    /\ IsAccount(chain)
    /\ job.phase \in Unsigned => Listed(chain)

LEMMA InitShape == ASSUME Init PROVE ShapeInv
<1>1. PICK name \in DOMAIN Setups : setup = [name |-> name, left |-> Setups[name].events]
    BY DEF Init
<1>2. IsAccount(chain) /\ Listed(chain)
    BY <1>1, SetupAssumption DEF Init, Config
<1>3. DOMAIN job = JobFields
    BY DEF Init, NoJob, JobFields
<1> QED BY <1>1, <1>2, <1>3 DEF ShapeInv

(* What a step other than those of the installation leaves alone. *)
JobKept ==
    /\ DOMAIN job' = JobFields
    /\ job'.phase = job.phase /\ job'.request = job.request /\ job'.approved = job.approved
    /\ job'.before = job.before /\ job'.seen = job.seen /\ job'.record = job.record
    /\ job'.authority = job.authority /\ job'.watched = job.watched
    /\ job'.report = job.report /\ job'.reg = job.reg

InstallStep ==
    \/ \E r \in Config.requests : Plan(r)
    \/ Review \/ Recheck \/ Install \/ ReadAuthority \/ Conclude

LEMMA StepKinds ==
    ASSUME ShapeInv, [Next]_vars
    PROVE  InstallStep \/ (JobKept /\ IsAccount(chain)' /\ (Listed(chain) => Listed(chain)'))
<1>1. CASE \E c \in Config.changes : AccountChanges(c)
    <2>1. PICK c \in Config.changes : AccountChanges(c)
        BY <1>1
    <2>2. /\ job' = [job EXCEPT !.touched = TRUE] /\ chain' = Change(chain, c)
          /\ Applies(chain, c)
        BY <2>1 DEF AccountChanges
    <2>3. IsAccount(chain)' /\ (Listed(chain) => Listed(chain)')
        BY <2>2, AccountKept DEF ShapeInv, Config
    <2>4. JobKept
        BY <2>2 DEF JobKept, ShapeInv, JobFields
    <2> QED BY <2>3, <2>4
<1>2. CASE LedgerCloses
    <2>1. chain' = [chain EXCEPT !.ledger = @ + 1] /\ job' = job
        BY <1>2 DEF LedgerCloses
    <2>2. chain'.state = chain.state /\ DOMAIN chain' = DOMAIN chain
        BY <2>1 DEF ShapeInv, IsAccount
    <2> QED BY <2>1, <2>2 DEF JobKept, ShapeInv, IsAccount, Listed
<1>3. CASE Persist \/ Restart \/ TimePasses \/ UNCHANGED vars \/ \E s \in Published : Load(s)
    <2>1. UNCHANGED <<chain, job>>
        BY <1>3 DEF Persist, Restart, TimePasses, vars, Load
    <2> QED BY <2>1 DEF JobKept, ShapeInv, IsAccount, Listed
<1>4. CASE \E names \in Config.batches : Read(names)
    <2>1. PICK names \in Config.batches : Read(names)
        BY <1>4
    <2> DEFINE reads == Extended(job.reads,
                    [n \in names |-> [ledger |-> chain.ledger, value |-> ValueNow(n)]])
    <2>2. job' = [job EXCEPT !.reads = reads] /\ chain' = chain
        BY <2>1 DEF Read
    <2> HIDE DEF reads
    <2> QED BY <2>2 DEF JobKept, ShapeInv, JobFields, IsAccount, Listed
<1> QED BY <1>1, <1>2, <1>3, <1>4 DEF Next, InstallStep

(* Only an installation step writes the job, and only Install the account. *)
LEMMA InstallShape ==
    ASSUME ShapeInv, InstallStep
    PROVE  /\ DOMAIN job' = JobFields /\ IsAccount(chain)'
           /\ Install \/ chain' = chain
           /\ job'.phase \in Unsigned => job.phase \in Unsigned /\ chain' = chain
<1>1. CASE \E r \in Config.requests : Plan(r)
    BY <1>1 DEF Plan, ShapeInv, JobFields, Unsigned
<1>2. CASE Review
    <2> DEFINE result == prepare_install_intent_from_scan(The(job.reg), Request, Scan(Request, chain), now)
               ok == result.error = "ok" /\ reviewIntent(The(result.output), Wallet, Expected, chain.state)
               out == result.output
    <2>1. /\ job.phase = "planned" /\ chain' = chain
          /\ job' = IF ok THEN [job EXCEPT !.phase = "approved", !.approved = out,
                                           !.before = {chain}, !.touched = FALSE]
                    ELSE [job EXCEPT !.phase = "refused"]
        BY <1>2 DEF Review
    <2> HIDE DEF ok, out
    <2>2. DOMAIN job' = JobFields
        BY <2>1 DEF ShapeInv
    <2> QED BY <2>1, <2>2 DEF ShapeInv, JobFields, Unsigned
<1>3. CASE Recheck
    <2> DEFINE result == prepare_install_intent_from_scan(RegistryNow, Request, Scan(Request, chain), now)
               ok == /\ Replanned /\ result.error = "ok"
                     /\ authorityRecheck(The(job.approved), The(result.output), Wallet, Expected,
                                         The(job.before).state)
                     /\ RuleNow(OwnerRule.id) = {OwnerRule}
    <2>1. /\ job.phase = "approved" /\ chain' = chain
          /\ job' = IF ok THEN [job EXCEPT !.phase = "cleared", !.seen = {chain}, !.touched = FALSE]
                    ELSE [job EXCEPT !.phase = "refused"]
        BY <1>3 DEF Recheck
    <2> HIDE DEF ok
    <2>2. DOMAIN job' = JobFields
        BY <2>1 DEF ShapeInv
    <2> QED BY <2>1, <2>2 DEF ShapeInv, JobFields, Unsigned
<1>4. CASE Install
    <2> DEFINE after == AddedRule(chain, InstalledRule(grant_for(Request)))
               marker == after.marker \cup {chain.state.next_id}
    <2>1. PICK record : job' = [job EXCEPT !.phase = "installed", !.record = record]
        BY <1>4 DEF Install
    <2>2. chain' = [after EXCEPT !.marker = marker]
        BY <1>4 DEF Install
    <2>3. IsAccount(after)
        BY RuleAdded DEF ShapeInv
    <2> HIDE DEF after, marker
    <2>4. chain'.state = after.state /\ DOMAIN chain' = DOMAIN after
        BY <2>2, <2>3 DEF IsAccount
    <2>5. IsAccount(chain')
        BY <2>3, <2>4 DEF IsAccount
    <2>6. DOMAIN job' = JobFields /\ job'.phase = "installed"
        BY <2>1 DEF ShapeInv, JobFields
    <2> QED BY <1>4, <2>5, <2>6 DEF Unsigned
<1>5. CASE ReadAuthority
    <2>1. PICK authority : job' = [job EXCEPT !.phase = "monitoring", !.watched = {chain},
                                              !.authority = authority]
        BY <1>5 DEF ReadAuthority
    <2>2. chain' = chain
        BY <1>5 DEF ReadAuthority
    <2>3. DOMAIN job' = JobFields /\ job'.phase = "monitoring"
        BY <2>1 DEF ShapeInv, JobFields
    <2> QED BY <2>2, <2>3 DEF Unsigned, ShapeInv
<1>6. CASE Conclude
    <2>1. PICK report : job' = [job EXCEPT !.phase = "reported", !.report = report]
        BY <1>6 DEF Conclude
    <2>2. chain' = chain
        BY <1>6 DEF Conclude
    <2>3. DOMAIN job' = JobFields /\ job'.phase = "reported"
        BY <2>1 DEF ShapeInv, JobFields
    <2> QED BY <2>2, <2>3 DEF Unsigned, ShapeInv
<1> QED BY <1>1, <1>2, <1>3, <1>4, <1>5, <1>6 DEF InstallStep

LEMMA SetupKept == ASSUME ShapeInv, [Next]_vars
                   PROVE  DOMAIN setup' = {"name", "left"} /\ setup'.name = setup.name
<1>1. (\E c \in Config.changes : setup' = [setup EXCEPT !.left = @ - 1]) \/ setup' = setup
    BY DEF Next, vars, AccountChanges, LedgerCloses, Load, Persist, Restart, TimePasses, Plan,
           Review, Recheck, Install, ReadAuthority, Read, Conclude
<1> QED BY <1>1 DEF ShapeInv

LEMMA StepShape == ASSUME ShapeInv, [Next]_vars PROVE ShapeInv'
<1>1. DOMAIN setup' = {"name", "left"} /\ setup'.name \in DOMAIN Setups
    BY SetupKept DEF ShapeInv
<1>2. CASE InstallStep
    BY <1>1, <1>2, InstallShape DEF ShapeInv
<1>3. CASE JobKept /\ IsAccount(chain)' /\ (Listed(chain) => Listed(chain)')
    BY <1>1, <1>3 DEF ShapeInv, JobKept
<1> QED BY <1>2, <1>3, StepKinds

-----------------------------------------------------------------------------
(* Control when the wallet goes on to sign *)

(* The last check before signing. *)
LEMMA Cleared ==
    ASSUME ShapeInv, InstallStep, job'.phase = "cleared"
    PROVE  /\ Recheck /\ job.phase = "approved" /\ Replanned
           /\ job' = [job EXCEPT !.phase = "cleared", !.seen = {chain}, !.touched = FALSE]
           /\ \E result : /\ result = prepare_install_intent_from_scan(RegistryNow, Request, Scan(Request, chain), now)
                          /\ result.error = "ok"
                          /\ authorityRecheck(The(job.approved), The(result.output), Wallet, Expected,
                                              The(job.before).state)
<1>1. ASSUME \E r \in Config.requests : Plan(r) PROVE FALSE
    BY <1>1 DEF Plan, ShapeInv, JobFields
<1>2. ASSUME Review PROVE FALSE
    <2>1. PICK out : \/ job' = [job EXCEPT !.phase = "approved", !.approved = out,
                                           !.before = {chain}, !.touched = FALSE]
                     \/ job' = [job EXCEPT !.phase = "refused"]
        BY <1>2 DEF Review
    <2> QED BY <2>1 DEF ShapeInv, JobFields
<1>3. ASSUME Install PROVE FALSE
    <2>1. PICK record : job' = [job EXCEPT !.phase = "installed", !.record = record]
        BY <1>3 DEF Install
    <2> QED BY <2>1 DEF ShapeInv, JobFields
<1>4. ASSUME ReadAuthority PROVE FALSE
    <2>1. PICK authority : job' = [job EXCEPT !.phase = "monitoring", !.watched = {chain},
                                              !.authority = authority]
        BY <1>4 DEF ReadAuthority
    <2> QED BY <2>1 DEF ShapeInv, JobFields
<1>5. ASSUME Conclude PROVE FALSE
    <2>1. PICK report : job' = [job EXCEPT !.phase = "reported", !.report = report]
        BY <1>5 DEF Conclude
    <2> QED BY <2>1 DEF ShapeInv, JobFields
<1>6. Recheck
    BY <1>1, <1>2, <1>3, <1>4, <1>5 DEF InstallStep
<1> DEFINE result == prepare_install_intent_from_scan(RegistryNow, Request, Scan(Request, chain), now)
           agreed == authorityRecheck(The(job.approved), The(result.output), Wallet, Expected,
                                      The(job.before).state)
           ok == /\ Replanned /\ result.error = "ok" /\ agreed
                 /\ RuleNow(OwnerRule.id) = {OwnerRule}
<1>7. /\ job.phase = "approved"
      /\ job' = IF ok THEN [job EXCEPT !.phase = "cleared", !.seen = {chain}, !.touched = FALSE]
                ELSE [job EXCEPT !.phase = "refused"]
    BY <1>6 DEF Recheck
<1> HIDE DEF result, agreed
<1>8. ok
    BY <1>7 DEF ShapeInv, JobFields
<1> QED BY <1>6, <1>7, <1>8 DEF agreed, result

LEMMA ClearedControl ==
    ASSUME ShapeInv, InstallStep, job'.phase = "cleared"
    PROVE  OnlyTrustedControl'
<1>1. PICK result : /\ result = prepare_install_intent_from_scan(RegistryNow, Request, Scan(Request, chain), now)
                    /\ result.error = "ok"
                    /\ authorityRecheck(The(job.approved), The(result.output), Wallet, Expected,
                                        The(job.before).state)
    BY Cleared
<1>2. job.phase = "approved" /\ job' = [job EXCEPT !.phase = "cleared", !.seen = {chain}, !.touched = FALSE]
    BY Cleared
<1>3. job'.request = job.request /\ job'.seen = {chain}
    BY <1>2 DEF ShapeInv, JobFields
<1>4. Request' = Request /\ The(job'.seen) = chain
    BY <1>3 DEF Request, The
<1> DEFINE output == The(result.output)
           rg == RegistryNow
           request == Request
<1>5. Answers(output, rg, request, chain)
    BY <1>1, IntentAnswers
<1>6. decide(output, WalletTrust(Wallet), Expected)
    BY <1>1 DEF authorityRecheck, recheck
<1>7. Expected.account = Wallet.account
    BY DEF Expected
<1>8. Listed(chain)
    BY <1>2 DEF ShapeInv, Unsigned
<1> HIDE DEF output, rg
<1>9. \A a \in {Wallet.account} \cup {b.address : b \in ToSet(request.bindings.list)} :
        ~CanCall(chain, KeyHeads \ {Wallet.data.head}, a, {})
    <2> HIDE DEF request
    <2> QED BY <1>5, <1>6, <1>7, <1>8, ControlDecided
<1>10. ControlSurface' = {Wallet.account} \cup {b.address : b \in ToSet(request.bindings.list)}
    BY <1>4 DEF ControlSurface, BoundNow
<1> QED BY <1>4, <1>9, <1>10 DEF OnlyTrustedControl

(* The step keeps what a property says of the job alone. *)
LEMMA RequestKept == ASSUME JobKept PROVE Request' = Request
BY DEF JobKept, Request

(***************************************************************************)
(* Whatever happened since the request, when the wallet's second reading   *)
(* clears the signature, all keys but the owner's together can neither     *)
(* manage the account nor call a policy about to be bound, at the state    *)
(* that was read.  Inductive because only Recheck clears, its answer is    *)
(* over the account as it is then, and accounts keep their shape.          *)
(***************************************************************************)
THEOREM ControlIsTrusted == Spec => []OnlyTrustedControl
<1> DEFINE Inv == ShapeInv /\ OnlyTrustedControl
<1>1. Init => Inv
    <2>1. Init => OnlyTrustedControl
        BY DEF Init, NoJob, OnlyTrustedControl
    <2> QED BY <2>1, InitShape
<1>2. Inv /\ [Next]_vars => Inv'
    <2> SUFFICES ASSUME Inv, [Next]_vars PROVE OnlyTrustedControl'
        BY StepShape
    <2>1. CASE JobKept
        <3>1. Request' = Request /\ job'.phase = job.phase /\ job'.seen = job.seen
            BY <2>1, RequestKept DEF JobKept
        <3>2. ControlSurface' = ControlSurface
            BY <3>1 DEF ControlSurface, BoundNow
        <3> QED BY <3>1, <3>2 DEF OnlyTrustedControl
    <2>2. CASE InstallStep
        <3>1. CASE job'.phase = "cleared"
            BY <2>2, <3>1, ClearedControl
        <3>2. CASE job'.phase # "cleared"
            BY <3>2 DEF OnlyTrustedControl
        <3> QED BY <3>1, <3>2
    <2> QED BY <2>1, <2>2, StepKinds
<1>3. Inv => OnlyTrustedControl
    OBVIOUS
<1> QED BY <1>1, <1>2, <1>3, PTL DEF Spec

-----------------------------------------------------------------------------
(* Equal commitments are equal powers *)

(* What the check read of a signer is what the account would ask. *)
MirrorsKey(in, ch, s) ==
    LET key == ch.state.signers[s].key
    IN  /\ in.state.signers[s].key = key
        /\ key.kind = "External" =>
            /\ key.at \in DOMAIN in.verifiers <=> key.at \in DOMAIN ch.codes
            /\ key.at \in DOMAIN in.verifiers => in.verifiers[key.at].code = ch.codes[key.at]
        /\ IsClassic(key) =>
            key.at \in DOMAIN in.classics /\ in.classics[key.at] = ch.classics[key.at]

MirrorsPolicy(in, ch, p) == in.state.policies[p].code = ch.codes[ch.state.policies[p].address]

(* The input describes the account but for the rules in except. *)
Mirrors(in, ch, except) ==
    /\ in.ledger = ch.ledger
    /\ {"rules", "signers", "policies"} \subseteq DOMAIN in.state
    /\ DOMAIN in.state.rules = DOMAIN ch.state.rules \ except
    /\ \A r \in DOMAIN in.state.rules :
        /\ in.state.rules[r] = ch.state.rules[r]
        /\ DOMAIN in.state.rules[r] = RuleFields
        /\ in.state.rules[r].id = r
        /\ \A s \in ToSet(in.state.rules[r].signers) : MirrorsKey(in, ch, s)
        /\ \A p \in ToSet(in.state.rules[r].policies) : MirrorsPolicy(in, ch, p)

Expired(in) ==
    {[rule |-> x.id, context |-> x.context, until |-> x.until] :
        x \in {y \in Views(in) : y.expired /\ y.reach # "none"}}

(* Two inputs that the commitment does not tell apart. *)
SameSurface(x, y) ==
    /\ x.account = y.account /\ BoundAddresses(x) = BoundAddresses(y)
    /\ x.grant.target = y.grant.target

Same(x, y) ==
    /\ SameSurface(x, y)
    /\ Expired(x) = Expired(y)
    /\ AuthorityState(x, LiveViews(x)) = AuthorityState(y, LiveViews(y))

LEMMA Committed ==
    ASSUME NEW x, NEW y, SameSurface(x, y),
           authority_commitment(x, verdict(x)) = authority_commitment(y, verdict(y))
    PROVE  Same(x, y)
<1> DEFINE cut(v) == [v EXCEPT !.ledger = 0]
           vx == verdict(x)
           vy == verdict(y)
<1>1. cut(vx) = cut(vy)
    <2>1. authority_commitment(x, vx).answer = cut(vx) /\ authority_commitment(y, vy).answer = cut(vy)
        BY DEF authority_commitment
    <2> QED BY <2>1
<1>2. /\ vx.expired_rules = Expired(x) /\ vx.authority_state = AuthorityState(x, LiveViews(x))
      /\ vy.expired_rules = Expired(y) /\ vy.authority_state = AuthorityState(y, LiveViews(y))
    BY VerdictParts DEF Expired
<1>3. ASSUME NEW z PROVE {"expired_rules", "authority_state"} \subseteq DOMAIN verdict(z)
    BY DEF verdict, AnswerOf, AnswerFrom, AnswerOver, AnswerWith
<1>4. {"expired_rules", "authority_state"} \subseteq DOMAIN vx
      /\ {"expired_rules", "authority_state"} \subseteq DOMAIN vy
    BY <1>3
<1> HIDE DEF vx, vy
<1>5. /\ cut(vx).expired_rules = vx.expired_rules /\ cut(vx).authority_state = vx.authority_state
      /\ cut(vy).expired_rules = vy.expired_rules /\ cut(vy).authority_state = vy.authority_state
    BY <1>4
<1> QED BY <1>1, <1>2, <1>5 DEF Same

LEMMA SameRules ==
    ASSUME NEW x, NEW cx, NEW ex, NEW y, NEW cy, NEW ey,
           Mirrors(x, cx, ex), Mirrors(y, cy, ey), Same(x, y)
    PROVE  /\ DOMAIN x.state.rules = DOMAIN y.state.rules
           /\ x.state.signers = y.state.signers /\ x.state.policies = y.state.policies
           /\ \A r \in DOMAIN x.state.rules :
                LET a == x.state.rules[r] b == y.state.rules[r]
                IN  /\ a.context = b.context /\ a.until = b.until
                    /\ a.signers = b.signers /\ a.policies = b.policies
<1> DEFINE sx == x.state
           sy == y.state
           rx == sx.rules
           ry == sy.rules
           dx == [r \in DOMAIN rx |-> [rx[r] EXCEPT !.name = "none"]]
           dy == [r \in DOMAIN ry |-> [ry[r] EXCEPT !.name = "none"]]
<1>1. state_digest(sx) = state_digest(sy)
    <2>1. \A z, l : AuthorityState(z, l).digest = state_digest(z.state)
        BY DEF AuthorityState
    <2> QED BY <2>1 DEF Same
<1>2. /\ state_digest(sx) = [sx EXCEPT !.rules = dx]
      /\ state_digest(sy) = [sy EXCEPT !.rules = dy]
    BY DEF state_digest
<1>3. /\ {"rules", "signers", "policies"} \subseteq DOMAIN sx
      /\ {"rules", "signers", "policies"} \subseteq DOMAIN sy
    BY DEF Mirrors
<1>4. dx = dy /\ sx.signers = sy.signers /\ sx.policies = sy.policies
    <2> HIDE DEF dx, dy, sx, sy
    <2> QED BY <1>1, <1>2, <1>3
<1>5. DOMAIN rx = DOMAIN ry
    <2>1. DOMAIN dx = DOMAIN rx /\ DOMAIN dy = DOMAIN ry
        OBVIOUS
    <2> HIDE DEF dx, dy
    <2> QED BY <1>4, <2>1
<1>6. ASSUME NEW r \in DOMAIN rx
      PROVE  /\ rx[r].context = ry[r].context /\ rx[r].until = ry[r].until
             /\ rx[r].signers = ry[r].signers /\ rx[r].policies = ry[r].policies
    <2> DEFINE a == rx[r]
               b == ry[r]
    <2>1. DOMAIN a = RuleFields /\ DOMAIN b = RuleFields
        BY <1>5 DEF Mirrors
    <2>2. dx[r] = [a EXCEPT !.name = "none"] /\ dy[r] = [b EXCEPT !.name = "none"]
        BY <1>5
    <2> HIDE DEF a, b, dx, dy
    <2>3. [a EXCEPT !.name = "none"] = [b EXCEPT !.name = "none"]
        BY <1>4, <2>2
    <2>4. a.context = b.context /\ a.until = b.until /\ a.signers = b.signers /\ a.policies = b.policies
        BY <2>1, <2>3 DEF RuleFields
    <2> QED BY <2>4 DEF a, b
<1> QED BY <1>4, <1>5, <1>6

LEMMA SameLife ==
    ASSUME NEW x, NEW cx, NEW ex, NEW y, NEW cy, NEW ey,
           Mirrors(x, cx, ex), Mirrors(y, cy, ey), Same(x, y),
           NEW r \in DOMAIN y.state.rules, reach(y, y.state.rules[r].context) # "none",
           is_expired(y.state.rules[r], y.ledger)
    PROVE  is_expired(x.state.rules[r], x.ledger)
<1> DEFINE rule == y.state.rules[r]
           v == RuleView(y, rule)
           Facts(w) == [rule |-> w.id, context |-> w.context, until |-> w.until]
<1>1. rule.id = r
    BY DEF Mirrors
<1>2. v \in Views(y)
    BY DEF Views
<1> HIDE DEF rule
<1>3. v.id = rule.id /\ v.reach = reach(y, rule.context) /\ v.expired = is_expired(rule, y.ledger)
    BY DEF RuleView
<1> HIDE DEF v
<1>4. Facts(v) \in Expired(y)
    BY <1>2, <1>3 DEF Expired, rule
<1>5. PICK w \in Views(x) : w.expired /\ Facts(w) = Facts(v)
    <2>1. Facts(v) \in Expired(x)
        BY <1>4 DEF Same
    <2> HIDE DEF Views
    <2> QED BY <2>1 DEF Expired
<1>6. w.id = r
    <2>1. Facts(w).rule = w.id /\ Facts(v).rule = v.id
        OBVIOUS
    <2> QED BY <1>1, <1>3, <1>5, <2>1
<1>7. PICK q \in DOMAIN x.state.rules : w = RuleView(x, x.state.rules[q])
    BY DEF Views
<1> DEFINE old == x.state.rules[q]
<1>8. old.id = q
    BY DEF Mirrors
<1>9. w = RuleView(x, old)
    BY <1>7
<1> HIDE DEF old
<1>10. w.id = old.id /\ w.expired = is_expired(old, x.ledger)
    BY <1>9 DEF RuleView
<1> QED BY <1>5, <1>6, <1>8, <1>10 DEF old

(* A signer of a live rule that matters was consulted. *)
LEMMA Consulted ==
    ASSUME NEW in, NEW r \in DOMAIN in.state.rules,
           reach(in, in.state.rules[r].context) # "none", ~is_expired(in.state.rules[r], in.ledger),
           NEW s \in ToSet(in.state.rules[r].signers)
    PROVE  in.state.signers[s].key \in ConsultedKeys(in, LiveViews(in))
<1> DEFINE rule == in.state.rules[r]
           v == RuleView(in, rule)
<1>1. v \in Views(in)
    BY DEF Views
<1>2. PICK k \in DOMAIN rule.signers : s = rule.signers[k]
    BY DEF ToSet
<1> HIDE DEF rule
<1>3. /\ v.reach = reach(in, rule.context) /\ v.expired = is_expired(rule, in.ledger)
      /\ v.keys = [j \in DOMAIN rule.signers |-> in.state.signers[rule.signers[j]].key]
    BY DEF RuleView
<1> HIDE DEF v
<1>4. v \in LiveViews(in) /\ v.reach # "none"
    BY <1>1, <1>3 DEF LiveViews, rule
<1>5. in.state.signers[s].key \in ToSet(v.keys)
    BY <1>2, <1>3 DEF ToSet
<1> QED BY <1>4, <1>5 DEF ConsultedKeys

UsedAt(in, kind) == {k.at : k \in {x \in ConsultedKeys(in, LiveViews(in)) : x.kind = kind}}

LEMMA SameConsulted ==
    ASSUME NEW x, NEW y, Same(x, y)
    PROVE  /\ \A a \in UsedAt(x, "Delegated") \cap UsedAt(y, "Delegated") :
                a \in DOMAIN x.classics /\ a \in DOMAIN y.classics => x.classics[a] = y.classics[a]
           /\ \A a \in UsedAt(x, "External") \cap UsedAt(y, "External") :
                /\ a \in DOMAIN x.verifiers <=> a \in DOMAIN y.verifiers
                /\ a \in DOMAIN x.verifiers => x.verifiers[a] = y.verifiers[a]
<1> DEFINE C(z) == {<<a, z.classics[a]>> : a \in DOMAIN z.classics \cap UsedAt(z, "Delegated")}
           V(z) == {<<a, z.verifiers[a]>> : a \in DOMAIN z.verifiers \cap UsedAt(z, "External")}
<1>1. ASSUME NEW z PROVE /\ AuthorityState(z, LiveViews(z)).classics = C(z)
                         /\ AuthorityState(z, LiveViews(z)).verifiers = V(z)
    BY DEF AuthorityState, UsedAt
<1>2. C(x) = C(y) /\ V(x) = V(y)
    <2>1. /\ AuthorityState(x, LiveViews(x)).classics = C(x)
          /\ AuthorityState(x, LiveViews(x)).verifiers = V(x)
          /\ AuthorityState(y, LiveViews(y)).classics = C(y)
          /\ AuthorityState(y, LiveViews(y)).verifiers = V(y)
        BY <1>1
    <2> HIDE DEF C, V
    <2> QED BY <2>1 DEF Same
<1>3. ASSUME NEW a \in UsedAt(x, "Delegated") \cap UsedAt(y, "Delegated"),
             a \in DOMAIN x.classics, a \in DOMAIN y.classics
      PROVE  x.classics[a] = y.classics[a]
    <2>1. <<a, x.classics[a]>> \in C(y)
        BY <1>2, <1>3
    <2> QED BY <2>1
<1>4. ASSUME NEW a \in UsedAt(x, "External") \cap UsedAt(y, "External"), a \in DOMAIN x.verifiers
      PROVE  a \in DOMAIN y.verifiers /\ x.verifiers[a] = y.verifiers[a]
    <2>1. <<a, x.verifiers[a]>> \in V(y)
        BY <1>2, <1>4
    <2> QED BY <2>1
<1>5. ASSUME NEW a \in UsedAt(x, "External") \cap UsedAt(y, "External"), a \in DOMAIN y.verifiers
      PROVE  a \in DOMAIN x.verifiers
    <2>1. <<a, y.verifiers[a]>> \in V(x)
        BY <1>2, <1>5
    <2> QED BY <2>1
<1> QED BY <1>3, <1>4, <1>5

LEMMA SameProducers ==
    ASSUME NEW x, NEW cx, NEW y, NEW cy, Same(x, y), NEW s, NEW keys,
           MirrorsKey(x, cx, s), MirrorsKey(y, cy, s), x.state.signers[s].key = y.state.signers[s].key,
           x.state.signers[s].key \in ConsultedKeys(x, LiveViews(x)),
           y.state.signers[s].key \in ConsultedKeys(y, LiveViews(y))
    PROVE  /\ cx.state.signers[s].key = cy.state.signers[s].key
           /\ CanProduce(cx, keys, cx.state.signers[s].key) <=> CanProduce(cy, keys, cy.state.signers[s].key)
<1> DEFINE key == x.state.signers[s].key
           at == key.at
<1>1. key = cx.state.signers[s].key /\ key = cy.state.signers[s].key
    BY DEF MirrorsKey
<1>2. /\ key.kind = "External" =>
            /\ at \in DOMAIN x.verifiers <=> at \in DOMAIN cx.codes
            /\ at \in DOMAIN x.verifiers => x.verifiers[at].code = cx.codes[at]
            /\ at \in DOMAIN y.verifiers <=> at \in DOMAIN cy.codes
            /\ at \in DOMAIN y.verifiers => y.verifiers[at].code = cy.codes[at]
      /\ IsClassic(key) =>
            /\ at \in DOMAIN x.classics /\ x.classics[at] = cx.classics[at]
            /\ at \in DOMAIN y.classics /\ y.classics[at] = cy.classics[at]
    BY <1>1 DEF MirrorsKey
<1>3. key \in ConsultedKeys(x, LiveViews(x)) /\ key \in ConsultedKeys(y, LiveViews(y))
    OBVIOUS
<1> HIDE DEF key
<1>4. at \in UsedAt(x, key.kind) /\ at \in UsedAt(y, key.kind)
    BY <1>3 DEF UsedAt
<1>5. CASE key.kind = "External"
    <2>1. /\ at \in DOMAIN x.verifiers <=> at \in DOMAIN y.verifiers
          /\ at \in DOMAIN x.verifiers => x.verifiers[at] = y.verifiers[at]
        BY <1>4, <1>5, SameConsulted
    <2>2. /\ at \in DOMAIN cx.codes <=> at \in DOMAIN cy.codes
          /\ at \in DOMAIN cx.codes => cx.codes[at] = cy.codes[at]
        BY <1>2, <1>5, <2>1
    <2>3. CanProduce(cx, keys, key) <=> CanProduce(cy, keys, key)
        BY <1>5, <2>2 DEF CanProduce
    <2> QED BY <1>1, <2>3
<1>6. CASE key.kind # "External" /\ IsClassic(key)
    <2>1. x.classics[at] = y.classics[at]
        BY <1>2, <1>4, <1>6, SameConsulted DEF IsClassic
    <2>2. cx.classics[at] = cy.classics[at]
        BY <1>2, <1>6, <2>1
    <2> DEFINE e == cx.classics[at]
    <2>3. CanProduce(cx, keys, key) <=> CanProduce(cy, keys, key)
        BY <1>6, <2>2 DEF CanProduce
    <2> QED BY <1>1, <2>3
<1>7. CASE key.kind # "External" /\ ~IsClassic(key)
    BY <1>1, <1>7 DEF CanProduce
<1> QED BY <1>5, <1>6, <1>7

Surface(in) == {in.account, in.grant.target} \cup BoundAddresses(in)

LEMMA OnSurface ==
    ASSUME NEW in, NEW a \in Surface(in), NEW c,
           c.kind = "Default" \/ c = [kind |-> "CallContract", at |-> a]
    PROVE  reach(in, c) # "none"
BY DEF Surface, reach

LEMMA PowerKept ==
    ASSUME NEW x, NEW cx, NEW ex, NEW y, NEW cy, NEW ey,
           Mirrors(x, cx, ex), Mirrors(y, cy, ey), Same(x, y), Same(y, x),
           NEW a \in Surface(x), NEW keys, CanCall(cx, keys, a, ex)
    PROVE  CanCall(cy, keys, a, ey)
<1>1. PICK r \in DOMAIN cx.state.rules \ ex :
        /\ \/ cx.state.rules[r].context.kind = "Default"
           \/ cx.state.rules[r].context = [kind |-> "CallContract", at |-> a]
        /\ MayUse(cx, keys, cx.state.rules[r])
    BY DEF CanCall
<1> DEFINE rx == x.state.rules[r]
           ry == y.state.rules[r]
<1>2. r \in DOMAIN x.state.rules /\ r \in DOMAIN y.state.rules
    <2>1. r \in DOMAIN x.state.rules
        BY <1>1 DEF Mirrors
    <2>2. DOMAIN x.state.rules = DOMAIN y.state.rules
        BY SameRules
    <2> QED BY <2>1, <2>2
<1>3. rx = cx.state.rules[r] /\ ry = cy.state.rules[r] /\ r \in DOMAIN cy.state.rules \ ey
    BY <1>2 DEF Mirrors
<1>4. /\ rx.context = ry.context /\ rx.until = ry.until
      /\ rx.signers = ry.signers /\ rx.policies = ry.policies
    BY <1>2, SameRules
<1>5. /\ x.state.signers = y.state.signers /\ x.state.policies = y.state.policies
      /\ x.ledger = cx.ledger /\ y.ledger = cy.ledger
    <2>1. x.state.signers = y.state.signers /\ x.state.policies = y.state.policies
        BY SameRules
    <2> QED BY <2>1 DEF Mirrors
<1>6. reach(x, rx.context) # "none" /\ reach(y, ry.context) # "none"
    <2>1. a \in Surface(y)
        BY DEF Surface, Same, SameSurface
    <2> DEFINE c == rx.context
    <2>2. c.kind = "Default" \/ c = [kind |-> "CallContract", at |-> a]
        BY <1>1, <1>3
    <2> HIDE DEF c
    <2>3. reach(x, c) # "none" /\ reach(y, c) # "none"
        BY <2>1, <2>2, OnSurface
    <2> QED BY <1>4, <2>3 DEF c
<1>7. ~is_expired(rx, x.ledger)
    BY <1>1, <1>3, <1>5 DEF MayUse, is_expired
<1>8. ~is_expired(ry, y.ledger)
    BY <1>2, <1>6, <1>7, SameLife
<1>9. ASSUME NEW s \in ToSet(rx.signers)
      PROVE  /\ cx.state.signers[s].key = cy.state.signers[s].key
             /\ CanProduce(cx, keys, cx.state.signers[s].key) <=> CanProduce(cy, keys, cy.state.signers[s].key)
    <2>1. MirrorsKey(x, cx, s) /\ MirrorsKey(y, cy, s)
        BY <1>2, <1>4 DEF Mirrors
    <2>2. /\ x.state.signers[s].key \in ConsultedKeys(x, LiveViews(x))
          /\ y.state.signers[s].key \in ConsultedKeys(y, LiveViews(y))
        BY <1>2, <1>4, <1>6, <1>7, <1>8, Consulted
    <2> QED BY <1>5, <2>1, <2>2, SameProducers
<1>10. ASSUME NEW p \in ToSet(rx.policies)
       PROVE  cx.codes[cx.state.policies[p].address] = cy.codes[cy.state.policies[p].address]
    <2>1. MirrorsPolicy(x, cx, p) /\ MirrorsPolicy(y, cy, p)
        BY <1>2, <1>4 DEF Mirrors
    <2> QED BY <1>5, <2>1 DEF MirrorsPolicy
<1>11. MayUse(cx, keys, rx)
    BY <1>1, <1>3
<1> HIDE DEF rx, ry
<1>12. MayUse(cy, keys, ry)
    <2> DEFINE Keys(c) == {c.state.signers[s].key : s \in ToSet(rx.signers)}
               Codes(c) == {c.codes[c.state.policies[p].address] : p \in ToSet(rx.policies)}
    <2>1. Codes(cx) = Codes(cy)
        BY <1>10
    <2>2. /\ \A k \in Keys(cy) : k \in Keys(cx) /\ (CanProduce(cx, keys, k) <=> CanProduce(cy, keys, k))
          /\ \A k \in Keys(cx) : k \in Keys(cy)
        BY <1>9
    <2>3. IF Codes(cx) = {} THEN \A k \in Keys(cx) : CanProduce(cx, keys, k)
          ELSE \A c \in Codes(cx) : c \in LimitCode => \E k \in Keys(cx) : CanProduce(cx, keys, k)
        BY <1>11 DEF MayUse
    <2>4. ~ \E v \in ry.until : cy.ledger > v
        BY <1>5, <1>8 DEF is_expired
    <2>5. /\ Keys(cy) = {cy.state.signers[s].key : s \in ToSet(ry.signers)}
          /\ Codes(cy) = {cy.codes[cy.state.policies[p].address] : p \in ToSet(ry.policies)}
        BY <1>4
    <2> HIDE DEF Keys, Codes
    <2>6. IF Codes(cy) = {} THEN \A k \in Keys(cy) : CanProduce(cy, keys, k)
          ELSE \A c \in Codes(cy) : c \in LimitCode => \E k \in Keys(cy) : CanProduce(cy, keys, k)
        BY <2>1, <2>2, <2>3
    <2> QED BY <2>4, <2>5, <2>6 DEF MayUse
<1>13. \/ ry.context.kind = "Default"
       \/ ry.context = [kind |-> "CallContract", at |-> a]
    BY <1>1, <1>3, <1>4
<1> QED BY <1>3, <1>12, <1>13 DEF CanCall

LEMMA PowerSame ==
    ASSUME NEW x, NEW cx, NEW ex, NEW y, NEW cy, NEW ey,
           Mirrors(x, cx, ex), Mirrors(y, cy, ey), SameSurface(x, y),
           authority_commitment(x, verdict(x)) = authority_commitment(y, verdict(y)),
           NEW a \in Surface(x), NEW keys
    PROVE  CanCall(cx, keys, a, ex) <=> CanCall(cy, keys, a, ey)
<1>1. SameSurface(y, x) /\ a \in Surface(y)
    BY DEF SameSurface, Surface
<1>2. Same(x, y) /\ Same(y, x)
    BY <1>1, Committed
<1> QED BY <1>1, <1>2, PowerKept

-----------------------------------------------------------------------------
(* The check's input mirrors the account *)

(* A state as the check reads it: the account's without the rules in except. *)
Projects(state, scan, ch, except) ==
    /\ {"rules", "signers", "policies"} \subseteq DOMAIN state
    /\ DOMAIN state.rules = DOMAIN ch.state.rules \ except
    /\ \A r \in DOMAIN state.rules :
        /\ state.rules[r] = ch.state.rules[r]
        /\ ToSet(state.rules[r].signers) \subseteq DOMAIN state.signers
        /\ ToSet(state.rules[r].policies) \subseteq DOMAIN state.policies
    /\ \A s \in DOMAIN state.signers :
        s \in DOMAIN ch.state.signers /\ state.signers[s] = ch.state.signers[s]
    /\ \A p \in DOMAIN state.policies :
        /\ p \in DOMAIN ch.state.policies
        /\ state.policies[p].code = scan.codes[ch.state.policies[p].address]

LEMMA Reconciled ==
    ASSUME NEW request, NEW ch, IsAccount(ch), ~ProjectionRefused(Scan(request, ch), ch.state)
    PROVE  /\ \A r \in DOMAIN ch.state.rules : ch.state.rules[r].id = r
           /\ \A r \in DOMAIN ch.state.rules :
                /\ ToSet(ch.state.rules[r].signers) \subseteq DOMAIN ch.state.signers
                /\ ToSet(ch.state.rules[r].policies) \subseteq DOMAIN ch.state.policies
           /\ \A p \in DOMAIN ch.state.policies :
                ch.state.policies[p].address \in DOMAIN Scan(request, ch).codes
<1>1. \A r \in DOMAIN ch.state.rules : ch.state.rules[r].id = r
    BY DEF ProjectionRefused
<1>2. /\ DOMAIN ch.state.signers = Referenced(ch.state, "signers")
      /\ DOMAIN ch.state.policies = Referenced(ch.state, "policies")
    BY DEF ProjectionRefused
<1>3. \A p \in DOMAIN ch.state.policies :
            ch.state.policies[p].address \in DOMAIN Scan(request, ch).codes
    BY DEF ProjectionRefused
<1>4. ASSUME NEW r \in DOMAIN ch.state.rules
      PROVE  /\ ToSet(ch.state.rules[r].signers) \subseteq DOMAIN ch.state.signers
             /\ ToSet(ch.state.rules[r].policies) \subseteq DOMAIN ch.state.policies
    BY <1>2 DEF Referenced
<1> QED BY <1>1, <1>3, <1>4

LEMMA ScannedCodes ==
    ASSUME NEW request, NEW ch
    PROVE  LET codes == Scan(request, ch).codes IN
           /\ \A a \in DOMAIN codes : a \in DOMAIN ch.codes /\ codes[a] = ch.codes[a]
           /\ \A s \in DOMAIN ch.state.signers :
                LET key == ch.state.signers[s].key
                IN  key.kind = "External" /\ key.at \in DOMAIN ch.codes => key.at \in DOMAIN codes
<1> DEFINE st == ch.state
           keys == {st.signers[s].key : s \in DOMAIN st.signers} \cup ToSet(grant_for(request).signers)
           verifiers == {k.at : k \in {x \in keys : x.kind = "External"}}
           all == verifiers \cup PlannedContracts(request)
                    \cup {st.policies[p].address : p \in DOMAIN st.policies}
           codes == Scan(request, ch).codes
<1>1. codes = [a \in DOMAIN ch.codes \cap all |-> ch.codes[a]]
    BY DEF Scan, Kept
<1>2. \A s \in DOMAIN st.signers : st.signers[s].key.kind = "External" => st.signers[s].key.at \in all
    OBVIOUS
<1> HIDE DEF all, codes
<1>3. DOMAIN codes = DOMAIN ch.codes \cap all /\ \A a \in DOMAIN codes : codes[a] = ch.codes[a]
    BY <1>1
<1> QED BY <1>2, <1>3 DEF codes

LEMMA ScannedClassics ==
    ASSUME NEW request, NEW ch, NEW s \in DOMAIN ch.state.signers, IsClassic(ch.state.signers[s].key)
    PROVE  LET at == ch.state.signers[s].key.at
               classics == Scan(request, ch).classics
           IN  at \in DOMAIN classics /\ classics[at] = ch.classics[at]
<1> DEFINE st == ch.state
           keys == {st.signers[x].key : x \in DOMAIN st.signers} \cup ToSet(grant_for(request).signers)
           used == {k.at : k \in {x \in keys : IsClassic(x)}}
           classics == Scan(request, ch).classics
<1>1. classics = [a \in used |-> ch.classics[a]]
    BY DEF Scan, Kept
<1>2. st.signers[s].key.at \in used
    OBVIOUS
<1> HIDE DEF used, classics
<1> QED BY <1>1, <1>2 DEF classics

LEMMA InputMirrors ==
    ASSUME NEW rg, NEW request, NEW ch, IsAccount(ch), ~ProjectionRefused(Scan(request, ch), ch.state),
           NEW state, NEW except, Projects(state, Scan(request, ch), ch, except)
    PROVE  Mirrors(CheckInput(rg, request, Scan(request, ch), state), ch, except)
<1> DEFINE scan == Scan(request, ch)
           in == CheckInput(rg, request, scan, state)
           codes == scan.codes
           named == {k.at : k \in {x \in {state.signers[s].key : s \in DOMAIN state.signers}
                                        \cup ToSet(grant_for(request).signers) : x.kind = "External"}}
<1>1. /\ \A r \in DOMAIN ch.state.rules : ch.state.rules[r].id = r
      /\ \A p \in DOMAIN ch.state.policies : ch.state.policies[p].address \in DOMAIN codes
    BY Reconciled
<1>2. /\ \A a \in DOMAIN codes : a \in DOMAIN ch.codes /\ codes[a] = ch.codes[a]
      /\ \A s \in DOMAIN ch.state.signers :
            LET key == ch.state.signers[s].key
            IN  key.kind = "External" /\ key.at \in DOMAIN ch.codes => key.at \in DOMAIN codes
    BY ScannedCodes
<1>3. scan.ledger = ch.ledger
    BY DEF Scan
<1>4. in.state = state /\ in.ledger = scan.ledger /\ in.classics = scan.classics
      /\ in.verifiers = VerifiersSeen(rg, request, scan, state)
    BY DEF CheckInput
<1>5. VerifiersSeen(rg, request, scan, state) = [v \in named \cap DOMAIN codes |->
            [ code |-> codes[v],
              scheme |-> IF Passes(resolve_signature_verifier(rg, codes[v]))
                         THEN {ReviewedSchemes[codes[v]]} ELSE {} ]]
    BY DEF VerifiersSeen
<1>6. \A s \in DOMAIN state.signers : state.signers[s].key.kind = "External" => state.signers[s].key.at \in named
    OBVIOUS
<1>7. ASSUME NEW s \in DOMAIN ch.state.signers, IsClassic(ch.state.signers[s].key)
      PROVE  LET at == ch.state.signers[s].key.at
             IN  at \in DOMAIN scan.classics /\ scan.classics[at] = ch.classics[at]
    BY <1>7, ScannedClassics
<1> HIDE DEF named, codes, in, scan
<1>8. /\ DOMAIN in.verifiers = named \cap DOMAIN codes
      /\ \A v \in DOMAIN in.verifiers : in.verifiers[v].code = codes[v]
    BY <1>4, <1>5
<1>9. ASSUME NEW s \in DOMAIN state.signers PROVE MirrorsKey(in, ch, s)
    <2> DEFINE key == ch.state.signers[s].key
    <2>1. s \in DOMAIN ch.state.signers /\ state.signers[s].key = key
        BY DEF Projects
    <2>2. ASSUME key.kind = "External"
          PROVE  /\ key.at \in DOMAIN in.verifiers <=> key.at \in DOMAIN ch.codes
                 /\ key.at \in DOMAIN in.verifiers => in.verifiers[key.at].code = ch.codes[key.at]
        BY <1>2, <1>6, <1>8, <2>1, <2>2
    <2>3. IsClassic(key) => key.at \in DOMAIN in.classics /\ in.classics[key.at] = ch.classics[key.at]
        BY <1>4, <1>7, <2>1
    <2> QED BY <1>4, <2>1, <2>2, <2>3 DEF MirrorsKey
<1>10. ASSUME NEW p \in DOMAIN state.policies PROVE MirrorsPolicy(in, ch, p)
    <2>1. p \in DOMAIN ch.state.policies /\ state.policies[p].code = codes[ch.state.policies[p].address]
        BY DEF Projects, codes, scan
    <2> QED BY <1>1, <1>2, <1>4, <2>1 DEF MirrorsPolicy
<1>11. ASSUME NEW r \in DOMAIN state.rules
       PROVE  /\ state.rules[r] = ch.state.rules[r]
              /\ DOMAIN state.rules[r] = RuleFields
              /\ state.rules[r].id = r
              /\ ToSet(state.rules[r].signers) \subseteq DOMAIN state.signers
              /\ ToSet(state.rules[r].policies) \subseteq DOMAIN state.policies
    <2>1. /\ r \in DOMAIN ch.state.rules /\ state.rules[r] = ch.state.rules[r]
          /\ ToSet(state.rules[r].signers) \subseteq DOMAIN state.signers
          /\ ToSet(state.rules[r].policies) \subseteq DOMAIN state.policies
        BY DEF Projects
    <2> DEFINE rule == ch.state.rules[r]
    <2>2. IsRule(rule)
        BY <2>1 DEF IsAccount
    <2> HIDE DEF rule
    <2>3. DOMAIN rule = RuleFields
        BY <2>2 DEF IsRule
    <2> QED BY <1>1, <2>1, <2>3 DEF rule
<1>12. /\ {"rules", "signers", "policies"} \subseteq DOMAIN state
       /\ DOMAIN state.rules = DOMAIN ch.state.rules \ except
    BY DEF Projects
<1>13. Mirrors(in, ch, except)
    BY <1>3, <1>4, <1>9, <1>10, <1>11, <1>12 DEF Mirrors
<1> QED BY <1>13 DEF in, scan

LEMMA WholeProjects ==
    ASSUME NEW request, NEW ch, IsAccount(ch), ~ProjectionRefused(Scan(request, ch), ch.state)
    PROVE  Projects(project_account_state(Scan(request, ch), ch.state), Scan(request, ch), ch, {})
<1> DEFINE scan == Scan(request, ch)
           st == ch.state
           policies == [p \in DOMAIN st.policies |->
                            [ id |-> st.policies[p].id, address |-> st.policies[p].address,
                              code |-> scan.codes[st.policies[p].address] ]]
           state == [st EXCEPT !.policies = policies]
<1>1. project_account_state(scan, st) = state
    BY DEF project_account_state
<1>2. \A r \in DOMAIN st.rules : /\ ToSet(st.rules[r].signers) \subseteq DOMAIN st.signers
                                 /\ ToSet(st.rules[r].policies) \subseteq DOMAIN st.policies
    BY Reconciled
<1> HIDE DEF scan
<1>3. /\ DOMAIN policies = DOMAIN st.policies
      /\ \A p \in DOMAIN st.policies : policies[p].code = scan.codes[st.policies[p].address]
    OBVIOUS
<1> HIDE DEF policies
<1>4. /\ DOMAIN state = DOMAIN st /\ state.rules = st.rules /\ state.signers = st.signers
      /\ state.policies = policies
    BY DEF IsAccount
<1> HIDE DEF state
<1>5. Projects(state, scan, ch, {})
    BY <1>2, <1>3, <1>4 DEF Projects, IsAccount
<1> QED BY <1>1, <1>5 DEF scan

LEMMA RestProjects ==
    ASSUME NEW scan, NEW ch, NEW st, Projects(st, scan, ch, {}), NEW id
    PROVE  Projects(WithoutRule(st, id), scan, ch, {id})
<1> DEFINE rules == Kept(st.rules, DOMAIN st.rules \ {id})
           rest == [st EXCEPT !.rules = rules]
           gone == st.rules[id]
           ds == ToSet(gone["signers"]) \ Referenced(rest, "signers")
           dp == ToSet(gone["policies"]) \ Referenced(rest, "policies")
           signers == Kept(st.signers, DOMAIN st.signers \ ds)
           policies == Kept(st.policies, DOMAIN st.policies \ dp)
           new == WithoutRule(st, id)
<1>1. new = [ next_id |-> id, active_count |-> st.active_count - 1, rules |-> rules,
              signers |-> signers, policies |-> policies ]
    BY DEF WithoutRule
<1>2. DOMAIN rules = DOMAIN st.rules \ {id} /\ \A r \in DOMAIN rules : rules[r] = st.rules[r]
    BY DEF Kept
<1>3. DOMAIN signers = DOMAIN st.signers \ ds /\ \A s \in DOMAIN signers : signers[s] = st.signers[s]
    BY DEF Kept
<1>4. DOMAIN policies = DOMAIN st.policies \ dp /\ \A p \in DOMAIN policies : policies[p] = st.policies[p]
    BY DEF Kept
<1>5. rest.rules = rules
    BY DEF Projects
<1> HIDE DEF rules, signers, policies, new, rest
<1>6. ASSUME NEW r \in DOMAIN rules
      PROVE  /\ ToSet(rules[r].signers) \cap ds = {}
             /\ ToSet(rules[r].policies) \cap dp = {}
    BY <1>5 DEF Referenced
<1> HIDE DEF ds, dp
<1>7. {"rules", "signers", "policies"} \subseteq DOMAIN new /\ new.rules = rules
      /\ new.signers = signers /\ new.policies = policies
    BY <1>1
<1>8. ASSUME NEW r \in DOMAIN rules
      PROVE  /\ rules[r] = ch.state.rules[r]
             /\ ToSet(rules[r].signers) \subseteq DOMAIN signers
             /\ ToSet(rules[r].policies) \subseteq DOMAIN policies
    BY <1>2, <1>3, <1>4, <1>6 DEF Projects
<1>9. DOMAIN rules = DOMAIN ch.state.rules \ {id}
    BY <1>2 DEF Projects
<1>10. \A s \in DOMAIN signers :
            s \in DOMAIN ch.state.signers /\ signers[s] = ch.state.signers[s]
    BY <1>3 DEF Projects
<1>11. \A p \in DOMAIN policies :
            /\ p \in DOMAIN ch.state.policies
            /\ policies[p].code = scan.codes[ch.state.policies[p].address]
    BY <1>4 DEF Projects
<1>12. Projects(new, scan, ch, {id})
    BY <1>7, <1>8, <1>9, <1>10, <1>11 DEF Projects
<1> QED BY <1>12 DEF new

-----------------------------------------------------------------------------
(* An approved answer and the account it was read from *)

Rests(commitment, request, ch) ==
    /\ IsAccount(ch)
    /\ \E rg : /\ commitment = authority_commitment(Input(rg, request, ch), verdict(Input(rg, request, ch)))
               /\ Mirrors(Input(rg, request, ch), ch, {})

LEMMA IntentRests ==
    ASSUME NEW rg, NEW request, NEW ch, IsAccount(ch), NEW time, NEW result,
           result = prepare_install_intent_from_scan(rg, request, Scan(request, ch), time),
           result.error = "ok"
    PROVE  Rests(The(result.output).commitment, request, ch)
<1> DEFINE scan == Scan(request, ch)
           in == Input(rg, request, ch)
<1>1. Answers(The(result.output), rg, request, ch) /\ ~ProjectionRefused(scan, ch.state)
    BY IntentAnswers
<1>2. scan.state = ch.state
    BY DEF Scan
<1>3. in = CheckInput(rg, request, scan, project_account_state(scan, ch.state))
    BY <1>2 DEF Input
<1>4. Projects(project_account_state(scan, ch.state), scan, ch, {})
    BY <1>1, WholeProjects
<1>5. Mirrors(in, ch, {})
    BY <1>1, <1>3, <1>4, InputMirrors
<1>6. The(result.output).commitment = authority_commitment(in, verdict(in))
    BY <1>1 DEF Answers
<1> QED BY <1>5, <1>6 DEF Rests

LEMMA InputSurface ==
    ASSUME NEW rg, NEW request, NEW scan, NEW state
    PROVE  LET in == CheckInput(rg, request, scan, state) IN
           /\ in.account = request.account /\ in.grant = grant_for(request)
           /\ BoundAddresses(in) = {b.address : b \in ToSet(request.bindings.list)}
<1> DEFINE in == CheckInput(rg, request, scan, state)
           list == request.bindings.list
<1>1. in.account = request.account /\ in.grant = grant_for(request)
      /\ in.bound = [k \in DOMAIN list |-> [address |-> list[k].address, code |-> list[k].code]]
    BY DEF CheckInput
<1> HIDE DEF in, list
<1>2. {p.address : p \in ToSet(in.bound)} = {b.address : b \in ToSet(list)}
    BY <1>1 DEF ToSet
<1> QED BY <1>1, <1>2 DEF BoundAddresses, in, list

(* Equal commitments over two captures, one perhaps with a rule left out. *)
LEMMA CommitmentPower ==
    ASSUME NEW request, NEW cx, NEW ex, NEW cy, NEW ey, NEW rx, NEW ry, NEW scx, NEW scy, NEW sx, NEW sy,
           NEW x, NEW y,
           x = CheckInput(rx, request, scx, sx), y = CheckInput(ry, request, scy, sy),
           Mirrors(x, cx, ex), Mirrors(y, cy, ey),
           authority_commitment(x, verdict(x)) = authority_commitment(y, verdict(y)),
           NEW a \in {request.account, grant_for(request).target}
                        \cup {b.address : b \in ToSet(request.bindings.list)},
           NEW keys
    PROVE  CanCall(cx, keys, a, ex) <=> CanCall(cy, keys, a, ey)
<1>1. /\ x.account = request.account /\ x.grant = grant_for(request)
      /\ BoundAddresses(x) = {b.address : b \in ToSet(request.bindings.list)}
    BY InputSurface
<1>2. /\ y.account = request.account /\ y.grant = grant_for(request)
      /\ BoundAddresses(y) = {b.address : b \in ToSet(request.bindings.list)}
    BY InputSurface
<1>3. SameSurface(x, y) /\ a \in Surface(x)
    BY <1>1, <1>2 DEF SameSurface, Surface
<1> QED BY <1>3, PowerSame

-----------------------------------------------------------------------------
(* From the approval on *)

Approved == {"approved", "cleared", "installed", "monitoring", "reported"}

ApprovalInv ==
    job.phase \in Approved =>
        /\ Request.account = Wallet.account
        /\ Rests(The(job.approved).commitment, Request, The(job.before))

Reviews(out) ==
    /\ job.phase = "planned"
    /\ job' = [job EXCEPT !.phase = "approved", !.approved = out, !.before = {chain}, !.touched = FALSE]
    /\ \E result : /\ result = prepare_install_intent_from_scan(The(job.reg), Request, Scan(Request, chain), now)
                   /\ result.error = "ok" /\ out = result.output
                   /\ reviewIntent(The(result.output), Wallet, Expected, chain.state)

Clears == job.phase = "approved"
          /\ job' = [job EXCEPT !.phase = "cleared", !.seen = {chain}, !.touched = FALSE]

Refuses == job.phase \in {"planned", "approved"} /\ job' = [job EXCEPT !.phase = "refused"]

Plans ==
    \E r \in Config.requests : \E x, p :
        /\ p \in {"planned", "refused"} /\ job.phase = "idle"
        /\ job' = [job EXCEPT !.phase = p, !.request = {r}, !.reg = x]

Installs(record) == job.phase = "cleared" /\ job' = [job EXCEPT !.phase = "installed", !.record = record]

Observes(authority) ==
    /\ job.phase = "installed"
    /\ job' = [job EXCEPT !.phase = "monitoring", !.watched = {chain}, !.authority = authority]

Concludes(report) == job.phase = "monitoring" /\ job' = [job EXCEPT !.phase = "reported", !.report = report]

(* What each installation step writes. *)
LEMMA Writes ==
    ASSUME ShapeInv, InstallStep
    PROVE  \/ Plans \/ Refuses \/ Clears
           \/ \E out : Review /\ Reviews(out)
           \/ \E record : Install /\ Installs(record)
           \/ \E authority : ReadAuthority /\ Observes(authority)
           \/ \E report : Conclude /\ Concludes(report)
<1>1. CASE \E r \in Config.requests : Plan(r)
    <2>1. PICK r \in Config.requests : Plan(r)
        BY <1>1
    <2> DEFINE p == IF Passes(plan_install_intent_read(r, trust, now)) THEN "planned" ELSE "refused"
               x == {load_at(RegistryFor(trust), r.snapshot)}
    <2>2. job.phase = "idle" /\ job' = [job EXCEPT !.phase = p, !.request = {r}, !.reg = x]
        BY <2>1 DEF Plan
    <2>3. p \in {"planned", "refused"}
        OBVIOUS
    <2> HIDE DEF p, x
    <2> QED BY <2>2, <2>3 DEF Plans
<1>2. CASE Review
    <2> DEFINE result == prepare_install_intent_from_scan(The(job.reg), Request, Scan(Request, chain), now)
               fine == reviewIntent(The(result.output), Wallet, Expected, chain.state)
    <2>1. /\ job.phase = "planned"
          /\ job' = IF result.error = "ok" /\ fine
                    THEN [job EXCEPT !.phase = "approved", !.approved = result.output,
                                     !.before = {chain}, !.touched = FALSE]
                    ELSE [job EXCEPT !.phase = "refused"]
        BY <1>2 DEF Review
    <2>2. CASE result.error = "ok" /\ fine
        <3> DEFINE out == result.output
        <3>1. job' = [job EXCEPT !.phase = "approved", !.approved = out, !.before = {chain}, !.touched = FALSE]
            BY <2>1, <2>2
        <3>2. \E x : /\ x = prepare_install_intent_from_scan(The(job.reg), Request, Scan(Request, chain), now)
                     /\ x.error = "ok" /\ out = x.output
                     /\ reviewIntent(The(x.output), Wallet, Expected, chain.state)
            BY <2>2
        <3> HIDE DEF out
        <3>3. Reviews(out)
            BY <2>1, <3>1, <3>2 DEF Reviews
        <3> QED BY <1>2, <3>3
    <2>3. CASE ~(result.error = "ok" /\ fine)
        <3> HIDE DEF result, fine
        <3> QED BY <2>1, <2>3 DEF Refuses, Unsigned
    <2> QED BY <2>2, <2>3
<1>3. CASE Recheck
    <2> DEFINE result == prepare_install_intent_from_scan(RegistryNow, Request, Scan(Request, chain), now)
               ok == /\ Replanned /\ result.error = "ok"
                     /\ authorityRecheck(The(job.approved), The(result.output), Wallet, Expected,
                                         The(job.before).state)
                     /\ RuleNow(OwnerRule.id) = {OwnerRule}
    <2>1. /\ job.phase = "approved"
          /\ job' = IF ok THEN [job EXCEPT !.phase = "cleared", !.seen = {chain}, !.touched = FALSE]
                    ELSE [job EXCEPT !.phase = "refused"]
        BY <1>3 DEF Recheck
    <2> HIDE DEF ok
    <2> QED BY <2>1 DEF Clears, Refuses, Unsigned
<1>4. CASE Install
    BY <1>4 DEF Install, Installs
<1>5. CASE ReadAuthority
    BY <1>5 DEF ReadAuthority, Observes
<1>6. CASE Conclude
    BY <1>6 DEF Conclude, Concludes
<1> QED BY <1>1, <1>2, <1>3, <1>4, <1>5, <1>6 DEF InstallStep

LEMMA ApprovalStep ==
    ASSUME ShapeInv, ApprovalInv, [Next]_vars
    PROVE  ApprovalInv'
<1>1. CASE JobKept
    <2>1. Request' = Request /\ job'.phase = job.phase /\ job'.approved = job.approved
          /\ job'.before = job.before
        BY <1>1, RequestKept DEF JobKept
    <2> QED BY <2>1 DEF ApprovalInv
<1>2. ASSUME job.phase \in Approved, job'.request = job.request, job'.approved = job.approved,
             job'.before = job.before
      PROVE  ApprovalInv'
    BY <1>2 DEF ApprovalInv, Request
<1>3. CASE Clears \/ (\E r : Installs(r)) \/ (\E a : Observes(a)) \/ (\E r : Concludes(r))
    <2>1. /\ job.phase \in Approved /\ job'.request = job.request /\ job'.approved = job.approved
          /\ job'.before = job.before
        BY <1>3 DEF Clears, Installs, Observes, Concludes, Approved, ShapeInv, JobFields
    <2> QED BY <1>2, <2>1
<1>4. CASE Plans \/ Refuses
    <2>1. job'.phase \notin Approved
        BY <1>4 DEF Plans, Refuses, ShapeInv, JobFields, Approved
    <2> QED BY <2>1 DEF ApprovalInv
<1>5. ASSUME NEW out, Reviews(out) PROVE ApprovalInv'
    <2>1. PICK result :
            /\ result = prepare_install_intent_from_scan(The(job.reg), Request, Scan(Request, chain), now)
            /\ result.error = "ok" /\ out = result.output
            /\ reviewIntent(The(result.output), Wallet, Expected, chain.state)
        BY <1>5 DEF Reviews
    <2>2. job'.request = job.request /\ job'.approved = out /\ job'.before = {chain}
        BY <1>5 DEF Reviews, ShapeInv, JobFields
    <2>3. Request' = Request /\ The(job'.before) = chain
        BY <2>2 DEF Request, The
    <2> DEFINE request == Request
               output == The(out)
               rg == The(job.reg)
    <2>4. Rests(output.commitment, request, chain)
        BY <2>1, IntentRests DEF ShapeInv
    <2>5. Answers(output, rg, request, chain)
        BY <2>1, IntentAnswers
    <2>6. output.verdict.account = Wallet.account
        BY <2>1 DEF reviewIntent, decide, Expected
    <2>7. request.account = Wallet.account
        <3> DEFINE in == Input(rg, request, chain)
        <3>1. output.verdict = verdict(in) /\ in.account = request.account
            BY <2>5, InputParts DEF Answers
        <3> HIDE DEF in
        <3>2. verdict(in).account = in.account
            BY VerdictParts
        <3> QED BY <2>6, <3>1, <3>2
    <2> QED BY <2>2, <2>3, <2>4, <2>7 DEF ApprovalInv
<1> QED BY <1>1, <1>3, <1>4, <1>5, StepKinds, Writes

-----------------------------------------------------------------------------
(* The approval covers the powers *)

LEMMA ClearedPower ==
    ASSUME ShapeInv, ApprovalInv, InstallStep, job'.phase = "cleared"
    PROVE  CommitmentCoversPower'
<1>1. PICK result : /\ result = prepare_install_intent_from_scan(RegistryNow, Request, Scan(Request, chain), now)
                    /\ result.error = "ok"
                    /\ authorityRecheck(The(job.approved), The(result.output), Wallet, Expected,
                                        The(job.before).state)
    BY Cleared
<1>2. job.phase = "approved" /\ job' = [job EXCEPT !.phase = "cleared", !.seen = {chain}, !.touched = FALSE]
    BY Cleared
<1>3. job'.request = job.request /\ job'.seen = {chain} /\ job'.before = job.before
    BY <1>2 DEF ShapeInv, JobFields
<1>4. Request' = Request /\ The(job'.seen) = chain
    BY <1>3 DEF Request, The
<1> DEFINE request == Request
           before == The(job.before)
           fresh == The(result.output).commitment
           old == The(job.approved).commitment
<1>5. Rests(fresh, request, chain)
    BY <1>1, IntentRests DEF ShapeInv
<1>6. request.account = Wallet.account /\ Rests(old, request, before)
    BY <1>2 DEF ApprovalInv, Approved
<1>7. fresh = old
    BY <1>1 DEF authorityRecheck, recheck
<1> HIDE DEF request, before, fresh, old
<1> DEFINE area == {request.account, grant_for(request).target}
                        \cup {b.address : b \in ToSet(request.bindings.list)}
<1>8. \A a \in area, keys \in SUBSET KeyHeads :
        CanCall(chain, keys, a, {}) <=> CanCall(before, keys, a, {})
    <2> DEFINE in(r, c) == Input(r, request, c)
               scan(c) == Scan(request, c)
               st(c) == project_account_state(scan(c), scan(c).state)
    <2>1. PICK rx : fresh = authority_commitment(in(rx, chain), verdict(in(rx, chain)))
                    /\ Mirrors(in(rx, chain), chain, {})
        BY <1>5 DEF Rests
    <2>2. PICK ry : old = authority_commitment(in(ry, before), verdict(in(ry, before)))
                    /\ Mirrors(in(ry, before), before, {})
        BY <1>6 DEF Rests
    <2> DEFINE x == in(rx, chain)
               y == in(ry, before)
    <2>3. x = CheckInput(rx, request, scan(chain), st(chain)) /\ y = CheckInput(ry, request, scan(before), st(before))
        BY DEF Input
    <2>4. /\ Mirrors(x, chain, {}) /\ Mirrors(y, before, {})
          /\ authority_commitment(x, verdict(x)) = authority_commitment(y, verdict(y))
        BY <1>7, <2>1, <2>2
    <2> HIDE DEF x, y, st, scan
    <2> QED BY <2>3, <2>4, CommitmentPower
<1>9. (ControlSurface \cup {grant_for(Request).target})' = area
    BY <1>4, <1>6 DEF ControlSurface, BoundNow, request
<1> HIDE DEF area
<1> DEFINE sees(c) == {p \in area \X SUBSET KeyHeads : CanCall(c, p[2], p[1], {})}
<1>10. sees(chain) = sees(before)
    <2>1. ASSUME NEW p \in area \X SUBSET KeyHeads
          PROVE  CanCall(chain, p[2], p[1], {}) <=> CanCall(before, p[2], p[1], {})
        <3> DEFINE a == p[1]
                   keys == p[2]
        <3>1. a \in area /\ keys \in SUBSET KeyHeads
            OBVIOUS
        <3> HIDE DEF a, keys
        <3>2. CanCall(chain, keys, a, {}) <=> CanCall(before, keys, a, {})
            BY <1>8, <3>1
        <3> QED BY <3>2 DEF a, keys
    <2> QED BY <2>1
<1>11. Powers(The(job.seen), {})' = sees(chain) /\ Powers(The(job.before), {})' = sees(before)
    BY <1>3, <1>4, <1>9 DEF Powers, before
<1> QED BY <1>10, <1>11 DEF CommitmentCoversPower

(***************************************************************************)
(* The owner approved a commitment; when the second reading has the same,  *)
(* every set of keys can do on the account, the policies and the target    *)
(* exactly what it could at the approval, although rules, classic accounts *)
(* and code may have changed in between.  ApprovalInv carries what the     *)
(* approved commitment rests on to the later reading.                      *)
(***************************************************************************)
THEOREM ApprovalCoversPower == Spec => []CommitmentCoversPower
<1> DEFINE Inv == ShapeInv /\ ApprovalInv /\ CommitmentCoversPower
<1>1. Init => Inv
    <2>1. Init => ApprovalInv /\ CommitmentCoversPower
        BY DEF Init, NoJob, ApprovalInv, Approved, CommitmentCoversPower
    <2> QED BY <2>1, InitShape
<1>2. Inv /\ [Next]_vars => Inv'
    <2> SUFFICES ASSUME Inv, [Next]_vars PROVE CommitmentCoversPower'
        BY StepShape, ApprovalStep
    <2>1. CASE JobKept
        <3>1. Request' = Request /\ job'.phase = job.phase /\ job'.seen = job.seen
              /\ job'.before = job.before
            BY <2>1, RequestKept DEF JobKept
        <3>2. ControlSurface' = ControlSurface
            BY <3>1 DEF ControlSurface, BoundNow
        <3>3. /\ Powers(The(job.seen), {})' = Powers(The(job.seen), {})
              /\ Powers(The(job.before), {})' = Powers(The(job.before), {})
            BY <3>1, <3>2 DEF Powers
        <3> QED BY <3>1, <3>3 DEF CommitmentCoversPower
    <2>2. CASE InstallStep
        <3>1. CASE job'.phase = "cleared"
            BY <2>2, <3>1, ClearedPower
        <3>2. CASE job'.phase # "cleared"
            BY <3>2 DEF CommitmentCoversPower
        <3> QED BY <3>1, <3>2
    <2> QED BY <2>1, <2>2, StepKinds
<1>3. Inv => CommitmentCoversPower
    OBVIOUS
<1> QED BY <1>1, <1>2, <1>3, PTL DEF Spec

-----------------------------------------------------------------------------
(* Monitoring *)

ChangeCodes ==
    {"later_rule_allocation_or_changed_next_id", "installed_rule_missing", "installed_rule_changed",
     "installed_signer_changed", "installed_policy_changed"}

LEMMA RecordedRule ==
    ASSUME NEW request, NEW st, NEW expected, IsRule(expected),
           expected.context = [kind |-> "CallContract", at |-> grant_for(request).target],
           \A r \in DOMAIN st.rules : IsRule(st.rules[r]) /\ st.rules[r].id = r,
           FirstRefusal(without_recorded_grant(request, st, expected)) = "Permit"
    PROVE  expected.id \in DOMAIN st.rules /\ st.rules[expected.id] = expected
<1> DEFINE grant == grant_for(request)
           found == {st.rules[r] : r \in DOMAIN st.rules \cap {expected.id}}
           known(seq, map) == ToSet(seq) \subseteq DOMAIN map
           f1 == expected.id = 0 \/ st.next_id # expected.id + 1
           f2 == found = {}
           f3 == \E r \in found :
                    \/ r.name # expected.name \/ r.signers # expected.signers
                    \/ r.policies # expected.policies \/ r.until # expected.until
                    \/ expected.name # grant.name \/ expected.until # grant.until
                    \/ r.context # [kind |-> "CallContract", at |-> grant.target]
                    \/ Len(r.signers) # Len(grant.signers) \/ Len(r.policies) # Len(grant.policies)
           f4 == \E r \in found :
                    \/ ~known(r.signers, st.signers)
                    \/ \E k \in DOMAIN r.signers \cap DOMAIN grant.signers :
                        r.signers[k] \in DOMAIN st.signers
                        /\ st.signers[r.signers[k]].key # grant.signers[k]
           f5 == \E r \in found :
                    \/ ~known(r.policies, st.policies)
                    \/ {st.policies[p].address : p \in ToSet(r.policies) \cap DOMAIN st.policies}
                        # {p.address : p \in ToSet(grant.policies)}
           c == << Check(f1, "later_rule_allocation_or_changed_next_id"),
                   Check(f2, "installed_rule_missing"), Check(f3, "installed_rule_changed"),
                   Check(f4, "installed_signer_changed"), Check(f5, "installed_policy_changed") >>
<1>1. without_recorded_grant(request, st, expected) = c
    BY DEF without_recorded_grant
<1>2. DOMAIN c = 1 .. 5 /\ (c[2].fails <=> f2) /\ (c[3].fails <=> f3)
    <2> HIDE DEF f1, f2, f3, f4, f5
    <2> QED BY DEF Check
<1>3. Coded(c, ChangeCodes)
    <2> HIDE DEF f1, f2, f3, f4, f5
    <2> QED BY DEF Coded, Check, ChangeCodes
<1> HIDE DEF c
<1>4. Passes(c)
    BY <1>1, <1>2, <1>3, Permitted DEF ChangeCodes
<1>5. ~f2 /\ ~f3
    <2> HIDE DEF f2, f3
    <2> QED BY <1>2, <1>4 DEF Passes
<1> DEFINE id == expected.id
           rule == st.rules[id]
<1>6. id \in DOMAIN st.rules /\ rule \in found
    BY <1>5
<1>7. /\ rule.name = expected.name /\ rule.signers = expected.signers
      /\ rule.policies = expected.policies /\ rule.until = expected.until
      /\ rule.context = expected.context
    BY <1>5, <1>6
<1>8. IsRule(rule) /\ rule.id = id
    BY <1>6
<1> HIDE DEF rule
<1>9. rule = expected
    <2>1. /\ rule = [f \in RuleFields |-> rule[f]] /\ expected = [f \in RuleFields |-> expected[f]]
        BY <1>8 DEF IsRule
    <2>2. \A f \in RuleFields : rule[f] = expected[f]
        BY <1>7, <1>8 DEF RuleFields
    <2> QED BY <2>1, <2>2
<1> QED BY <1>6, <1>9 DEF rule

Recorded == {"installed", "monitoring", "reported"}

RecordInv ==
    job.phase \in Recorded =>
        /\ Record.commitment = The(job.approved).commitment
        /\ IsRule(Record.rule)
        /\ Record.rule.context = [kind |-> "CallContract", at |-> grant_for(Request).target]

(* The rule stands as recorded, and the rest of the account is what the     *)
(* answer is about.                                                         *)
Stands(request, rule, commitment, ch) ==
    /\ rule.id \in DOMAIN ch.state.rules /\ ch.state.rules[rule.id] = rule
    /\ \E rg, state :
        LET in == CheckInput(rg, request, Scan(request, ch), state)
        IN  /\ commitment = authority_commitment(in, verdict(in))
            /\ Mirrors(in, ch, {rule.id})

WatchInv ==
    job.phase \in {"monitoring", "reported"} =>
        /\ The(job.authority).ledger = The(job.watched).ledger
        /\ The(job.authority).status \in {"error", "changed", "observed"}
        /\ The(job.authority).status = "observed" =>
            \E o \in The(job.authority).output :
                Stands(Request, Record.rule, o.commitment, The(job.watched))

ReportInv == job.phase # "reported" => job.report = "none"

LEMMA ObservedGrant ==
    ASSUME NEW rg, NEW request, NEW ch, IsAccount(ch), NEW rule, IsRule(rule),
           rule.context = [kind |-> "CallContract", at |-> grant_for(request).target], NEW time, NEW found,
           found = check_installed_grant_from_scan(rg, request, Scan(request, ch), rule, time)
    PROVE  /\ found.status \in {"error", "changed", "observed"}
           /\ found.status = "observed" => \E o \in found.output : Stands(request, rule, o.commitment, ch)
<1> DEFINE scan == Scan(request, ch)
           whole == project_account_state(scan, scan.state)
           state == WithoutRule(whole, rule.id)
           actual == finish_call_surface_check(rg, request, scan, time)
           changed == FirstRefusal(without_recorded_grant(request, scan.state, rule))
           projected == finish_call_surface_with_state(rg, request, scan, state, time)
           reason == IF is_expired(rule, scan.ledger) THEN "installed_rule_expired" ELSE "none"
<1>1. found = InstalledGrant(actual, changed, projected, reason)
    BY DEF check_installed_grant_from_scan
<1>2. scan.state = ch.state
    BY DEF Scan
<1> HIDE DEF actual, changed, projected, reason
<1>3. found.status \in {"error", "changed", "observed"}
    BY <1>1 DEF InstalledGrant
<1>4. ASSUME found.status = "observed"
      PROVE  \E o \in found.output : Stands(request, rule, o.commitment, ch)
    <2>1. changed = "Permit" /\ projected.error = "ok" /\ found.output = projected.output
        BY <1>1, <1>4 DEF InstalledGrant
    <2> DEFINE in == CheckInput(rg, request, scan, state)
               o == [verdict |-> verdict(in), commitment |-> authority_commitment(in, verdict(in))]
    <2>2. projected.output = {o} /\ ~ProjectionRefused(scan, scan.state)
        BY <2>1, FinishedCheck DEF projected
    <2>3. ~ProjectionRefused(scan, ch.state)
        BY <1>2, <2>2
    <2>4. Projects(whole, scan, ch, {})
        BY <1>2, <2>3, WholeProjects
    <2>5. Projects(state, scan, ch, {rule.id})
        <3> HIDE DEF whole, scan
        <3> QED BY <2>4, RestProjects
    <2>6. Mirrors(in, ch, {rule.id})
        <3> HIDE DEF state
        <3> QED BY <2>3, <2>5, InputMirrors
    <2>7. rule.id \in DOMAIN ch.state.rules /\ ch.state.rules[rule.id] = rule
        <3>1. \A r \in DOMAIN ch.state.rules : ch.state.rules[r].id = r
            BY <2>3, Reconciled
        <3>2. \A r \in DOMAIN ch.state.rules : IsRule(ch.state.rules[r])
            BY DEF IsAccount
        <3>3. FirstRefusal(without_recorded_grant(request, ch.state, rule)) = "Permit"
            BY <1>2, <2>1 DEF changed
        <3> DEFINE st == ch.state
        <3> HIDE DEF st
        <3>4. rule.id \in DOMAIN st.rules /\ st.rules[rule.id] = rule
            BY <3>1, <3>2, <3>3, RecordedRule DEF st
        <3> QED BY <3>4 DEF st
    <2>8. Stands(request, rule, o.commitment, ch)
        <3> HIDE DEF state, scan
        <3>1. o.commitment = authority_commitment(in, verdict(in))
            OBVIOUS
        <3> HIDE DEF o
        <3> QED BY <2>6, <2>7, <3>1 DEF Stands, scan
    <2> HIDE DEF o
    <2> QED BY <2>1, <2>2, <2>8
<1> QED BY <1>3, <1>4

LEMMA RecordStep ==
    ASSUME ShapeInv, RecordInv, [Next]_vars
    PROVE  RecordInv'
<1>1. ASSUME job.phase \in Recorded, job'.request = job.request, job'.approved = job.approved,
             job'.record = job.record
      PROVE  RecordInv'
    BY <1>1 DEF RecordInv, Record, Request
<1>2. CASE JobKept
    <2>1. CASE job.phase \in Recorded
        BY <1>1, <1>2, <2>1 DEF JobKept
    <2>2. CASE job.phase \notin Recorded
        BY <1>2, <2>2 DEF JobKept, RecordInv
    <2> QED BY <2>1, <2>2
<1>3. CASE (\E a : Observes(a)) \/ (\E r : Concludes(r))
    <2>1. /\ job.phase \in Recorded /\ job'.request = job.request /\ job'.approved = job.approved
          /\ job'.record = job.record
        BY <1>3 DEF Observes, Concludes, Recorded, ShapeInv, JobFields
    <2> QED BY <1>1, <2>1
<1>4. CASE Plans \/ Refuses \/ Clears \/ (\E out : Reviews(out))
    <2>1. job'.phase \notin Recorded
        BY <1>4 DEF Plans, Refuses, Clears, Reviews, ShapeInv, JobFields, Recorded
    <2> QED BY <2>1 DEF RecordInv
<1>5. CASE Install
    <2> DEFINE grant == grant_for(Request)
               added == InstalledRule(grant)
               after == AddedRule(chain, added)
               id == chain.state.next_id
               rule == after.state.rules[id]
    <2>1. PICK record : /\ record.rule = rule /\ record.commitment = The(job.approved).commitment
                        /\ job' = [job EXCEPT !.phase = "installed", !.record = {record}]
        <3> DEFINE x == [ rule |-> rule, until |-> grant.until,
                          ledger |-> chain.ledger, owner |-> OwnerRule.id,
                          owner_rule |-> OwnerRule,
                          policy |-> grant.policies[1].address,
                          policy_code |-> Request.bindings.list[1].code,
                          commitment |-> The(job.approved).commitment ]
        <3>1. job' = [job EXCEPT !.phase = "installed", !.record = {x}]
            BY <1>5 DEF Install
        <3> HIDE DEF rule, grant
        <3>2. x.rule = rule /\ x.commitment = The(job.approved).commitment
            OBVIOUS
        <3> HIDE DEF x
        <3> QED BY <3>1, <3>2
    <2>2. /\ job'.request = job.request /\ job'.approved = job.approved /\ job'.record = {record}
        BY <2>1 DEF ShapeInv, JobFields
    <2>3. Request' = Request /\ Record' = record
        BY <2>2 DEF Request, Record, The
    <2>4. added.context = [kind |-> "CallContract", at |-> grant.target]
        BY DEF InstalledRule
    <2> HIDE DEF grant, added
    <2>5. /\ IsAccount(after) /\ id \in DOMAIN after.state.rules
          /\ rule.context = added.context
        <3>1. IsAccount(chain)
            BY DEF ShapeInv
        <3>2. IsAccount(after)
            BY <3>1, RuleAdded
        <3>3. DOMAIN after.state.rules = DOMAIN chain.state.rules \cup {id}
            BY <3>1, RuleAdded
        <3>4. rule.context = added.context
            BY <3>1, RuleAdded
        <3> QED BY <3>2, <3>3, <3>4
    <2>6. IsRule(rule)
        <3> HIDE DEF after
        <3> QED BY <2>5 DEF IsAccount
    <2> HIDE DEF rule
    <2> QED BY <2>1, <2>2, <2>3, <2>4, <2>5, <2>6 DEF RecordInv, grant
<1> QED BY <1>2, <1>3, <1>4, <1>5, StepKinds, Writes

LEMMA WatchStep ==
    ASSUME ShapeInv, RecordInv, WatchInv, [Next]_vars
    PROVE  WatchInv'
<1> DEFINE Phases == {"monitoring", "reported"}
<1>1. ASSUME job.phase \in Phases, job'.request = job.request, job'.authority = job.authority,
             job'.record = job.record, job'.watched = job.watched
      PROVE  WatchInv'
    BY <1>1 DEF WatchInv, Record, Request
<1>2. CASE JobKept
    <2>1. CASE job.phase \in Phases
        BY <1>1, <1>2, <2>1 DEF JobKept
    <2>2. CASE job.phase \notin Phases
        BY <1>2, <2>2 DEF JobKept, WatchInv
    <2> QED BY <2>1, <2>2
<1>3. CASE \E r : Concludes(r)
    <2>1. /\ job.phase \in Phases /\ job'.request = job.request /\ job'.authority = job.authority
          /\ job'.record = job.record /\ job'.watched = job.watched
        BY <1>3 DEF Concludes, ShapeInv, JobFields
    <2> QED BY <1>1, <2>1
<1>4. CASE Plans \/ Refuses \/ Clears \/ (\E out : Reviews(out)) \/ (\E r : Installs(r))
    <2>1. job'.phase \notin Phases
        BY <1>4 DEF Plans, Refuses, Clears, Reviews, Installs, ShapeInv, JobFields
    <2> QED BY <2>1 DEF WatchInv
<1>5. CASE ReadAuthority
    <2> DEFINE checked == check_installed_grant_from_scan(RegistryNow, Request, Scan(Request, chain), Record.rule, now)
               failed == [status |-> "error", reason |-> "none", output |-> {}]
               found == IF Replanned THEN checked ELSE failed
               answer == [ status |-> found.status, reason |-> found.reason,
                           output |-> found.output, ledger |-> chain.ledger ]
    <2>1. /\ job.phase = "installed"
          /\ job' = [job EXCEPT !.phase = "monitoring", !.watched = {chain}, !.authority = {answer}]
        BY <1>5 DEF ReadAuthority
    <2>2. /\ job'.request = job.request /\ job'.record = job.record
          /\ job'.watched = {chain} /\ job'.authority = {answer}
        <3> HIDE DEF answer
        <3> QED BY <2>1 DEF ShapeInv, JobFields
    <2>3. Request' = Request /\ Record' = Record
        BY <2>2 DEF Request, Record
    <2>4. The(job'.watched) = chain /\ The(job'.authority) = answer
        <3> HIDE DEF answer
        <3> QED BY <2>2 DEF The
    <2> DEFINE request == Request
               rule == Record.rule
    <2>5. IsRule(rule) /\ rule.context = [kind |-> "CallContract", at |-> grant_for(request).target]
        BY <2>1 DEF RecordInv, Recorded
    <2>6. /\ found.status \in {"error", "changed", "observed"}
          /\ found.status = "observed" => \E o \in found.output : Stands(request, rule, o.commitment, chain)
        <3>1. /\ checked.status \in {"error", "changed", "observed"}
              /\ checked.status = "observed" => \E o \in checked.output : Stands(request, rule, o.commitment, chain)
            BY <2>5, ObservedGrant DEF ShapeInv
        <3> HIDE DEF checked, request, rule
        <3> QED BY <3>1
    <2> HIDE DEF found, request, rule
    <2>7. /\ answer.ledger = chain.ledger /\ answer.status = found.status /\ answer.output = found.output
        OBVIOUS
    <2> HIDE DEF answer
    <2> QED BY <2>3, <2>4, <2>6, <2>7 DEF WatchInv, request, rule
<1> QED BY <1>2, <1>3, <1>4, <1>5, StepKinds, Writes

LEMMA ReportStep ==
    ASSUME ShapeInv, ReportInv, [Next]_vars
    PROVE  ReportInv'
<1>1. CASE JobKept
    BY <1>1 DEF JobKept, ReportInv
<1>2. CASE \/ Plans \/ Refuses \/ Clears \/ (\E out : Reviews(out)) \/ (\E r : Installs(r))
           \/ (\E a : Observes(a))
    <2>1. job.phase # "reported" /\ job'.report = job.report
        BY <1>2 DEF Plans, Refuses, Clears, Reviews, Installs, Observes, ShapeInv, JobFields, Unsigned
    <2> QED BY <2>1 DEF ReportInv
<1>3. CASE \E r : Concludes(r)
    BY <1>3 DEF Concludes, ReportInv, ShapeInv, JobFields
<1> QED BY <1>1, <1>2, <1>3, StepKinds, Writes

(* A report of "unchanged" has nothing against it. *)
LEMMA Unchanged ==
    ASSUME NEW record, NEW authority, NEW reads, NEW current,
           monitorInstallation(record, authority, reads, current) = "unchanged"
    PROVE  /\ authority.status # "error" /\ Fresh(record, authority.ledger, current)
           /\ ~AuthorityDrifted(record, authority)
<1> DEFINE usable == {n \in DOMAIN reads : Fresh(record, reads[n].ledger, current)}
           drift == \/ AuthorityDrifted(record, authority)
                    \/ \E n \in usable : Drifted(record, n, reads[n].value)
           missing == \/ authority.status = "error"
                      \/ ~Fresh(record, authority.ledger, current)
                      \/ usable # ReadNames
           over == authority.reason = "installed_rule_expired" \/ \E u \in record.until : current > u
<1>1. monitorInstallation(record, authority, reads, current) =
        IF drift THEN "drift" ELSE IF missing THEN "unavailable" ELSE IF over THEN "inactive" ELSE "unchanged"
    BY DEF monitorInstallation
<1>2. ~drift /\ ~missing
    <2> HIDE DEF drift, missing, over
    <2> QED BY <1>1
<1> QED BY <1>2

LEMMA ReportedTrue ==
    ASSUME ShapeInv, ApprovalInv, RecordInv, WatchInv, Conclude
    PROVE  UnchangedIsTrue'
<1> SUFFICES ASSUME job'.report = "unchanged" PROVE UnchangedIsTrue'
    BY DEF UnchangedIsTrue
<1> DEFINE report == monitorInstallation(Record, The(job.authority), job.reads, chain.ledger)
<1>1. job.phase = "monitoring" /\ job' = [job EXCEPT !.phase = "reported", !.report = report]
    BY DEF Conclude
<1> HIDE DEF report
<1>2. /\ job'.request = job.request /\ job'.record = job.record /\ job'.watched = job.watched
      /\ job'.before = job.before /\ report = "unchanged"
    BY <1>1 DEF ShapeInv, JobFields
<1>3. Request' = Request /\ Record' = Record
    BY <1>2 DEF Request, Record
<1> DEFINE authority == The(job.authority)
           ch == The(job.watched)
           before == The(job.before)
           request == Request
           rule == Record.rule
           id == rule.id
           old == The(job.approved).commitment
<1>4. /\ authority.status # "error" /\ Fresh(Record, authority.ledger, chain.ledger)
      /\ ~AuthorityDrifted(Record, authority)
    BY <1>2, Unchanged DEF report
<1>5. authority.ledger = ch.ledger /\ authority.status \in {"error", "changed", "observed"}
    BY <1>1 DEF WatchInv
<1>6. authority.ledger >= Record.ledger
    BY <1>4 DEF Fresh
<1>7. authority.status = "observed" /\ \A o \in authority.output : o.commitment = Record.commitment
    BY <1>4, <1>5, <1>6 DEF AuthorityDrifted
<1>8. Stands(request, rule, Record.commitment, ch)
    <2>1. PICK o \in authority.output : Stands(request, rule, o.commitment, ch)
        BY <1>1, <1>7 DEF WatchInv
    <2> QED BY <1>7, <2>1
<1>9. Record.commitment = old /\ request.account = Wallet.account /\ Rests(old, request, before)
    BY <1>1 DEF RecordInv, ApprovalInv, Recorded, Approved
<1>10. id \in DOMAIN ch.state.rules /\ ch.state.rules[id] = rule
    BY <1>8 DEF Stands
<1> DEFINE area == {request.account, grant_for(request).target}
                        \cup {b.address : b \in ToSet(request.bindings.list)}
<1>11. (ControlSurface \cup {grant_for(Request).target})' = area
    BY <1>3, <1>9 DEF ControlSurface, BoundNow
<1> HIDE DEF request, before, ch, rule, old, authority
<1>12. \A a \in area, keys \in SUBSET KeyHeads :
        CanCall(ch, keys, a, {id}) <=> CanCall(before, keys, a, {})
    <2>1. PICK rx, state :
            LET in == CheckInput(rx, request, Scan(request, ch), state)
            IN  /\ old = authority_commitment(in, verdict(in)) /\ Mirrors(in, ch, {id})
        BY <1>8, <1>9 DEF Stands
    <2>2. PICK ry : LET in == Input(ry, request, before)
                    IN  old = authority_commitment(in, verdict(in)) /\ Mirrors(in, before, {})
        BY <1>9 DEF Rests
    <2> DEFINE scx == Scan(request, ch)
               scy == Scan(request, before)
               sy == project_account_state(scy, scy.state)
               x == CheckInput(rx, request, scx, state)
               y == CheckInput(ry, request, scy, sy)
    <2>3. y = Input(ry, request, before)
        BY DEF Input
    <2>4. /\ Mirrors(x, ch, {id}) /\ Mirrors(y, before, {})
          /\ authority_commitment(x, verdict(x)) = authority_commitment(y, verdict(y))
        BY <2>1, <2>2, <2>3
    <2>5. x = CheckInput(rx, request, scx, state) /\ y = CheckInput(ry, request, scy, sy)
        OBVIOUS
    <2> HIDE DEF x, y, scx, scy, sy, id
    <2> QED BY <2>4, <2>5, CommitmentPower
<1> HIDE DEF area, id
<1> DEFINE sees(c, except) == {p \in area \X SUBSET KeyHeads : CanCall(c, p[2], p[1], except)}
<1>13. sees(ch, {id}) = sees(before, {})
    <2>1. ASSUME NEW p \in area \X SUBSET KeyHeads
          PROVE  CanCall(ch, p[2], p[1], {id}) <=> CanCall(before, p[2], p[1], {})
        <3> DEFINE a == p[1]
                   keys == p[2]
        <3>1. a \in area /\ keys \in SUBSET KeyHeads
            OBVIOUS
        <3> HIDE DEF a, keys
        <3>2. CanCall(ch, keys, a, {id}) <=> CanCall(before, keys, a, {})
            BY <1>12, <3>1
        <3> QED BY <3>2 DEF a, keys
    <2> QED BY <2>1
<1>14. Powers(The(job.watched), {Record.rule.id})' = sees(ch, {id})
       /\ Powers(The(job.before), {})' = sees(before, {})
    BY <1>2, <1>3, <1>11 DEF Powers, before, ch, id, rule
<1>15. The(job.watched)' = ch /\ Record' = Record
    BY <1>2, <1>3 DEF ch
<1> QED BY <1>5, <1>6, <1>10, <1>13, <1>14, <1>15 DEF UnchangedIsTrue, id, rule

(* From the approval to the report. *)
MonitorInv == ShapeInv /\ ApprovalInv /\ RecordInv /\ WatchInv /\ ReportInv /\ UnchangedIsTrue

(***************************************************************************)
(* A monitoring report of "unchanged" is true of the account at the        *)
(* authority read: the recorded rule stands as installed, and but for it   *)
(* every set of keys can do what it could at the approval, in whatever     *)
(* order the eight reads were answered and the account changed.            *)
(***************************************************************************)
THEOREM ReportIsTrue == Spec => []UnchangedIsTrue
<1>1. Init => MonitorInv
    <2>1. Init => ApprovalInv /\ RecordInv /\ WatchInv /\ ReportInv /\ UnchangedIsTrue
        BY DEF Init, NoJob, ApprovalInv, RecordInv, WatchInv, ReportInv, UnchangedIsTrue, Approved, Recorded
    <2> QED BY <2>1, InitShape DEF MonitorInv
<1>2. MonitorInv /\ [Next]_vars => MonitorInv'
    <2> SUFFICES ASSUME MonitorInv, [Next]_vars PROVE UnchangedIsTrue'
        BY StepShape, ApprovalStep, RecordStep, WatchStep, ReportStep DEF MonitorInv
    <2>1. CASE JobKept
        <3>1. /\ Request' = Request /\ job'.report = job.report /\ job'.watched = job.watched
              /\ job'.before = job.before /\ Record' = Record
            BY <2>1, RequestKept DEF JobKept, Record
        <3>2. ControlSurface' = ControlSurface
            BY <3>1 DEF ControlSurface, BoundNow
        <3>3. /\ Powers(The(job.watched), {Record.rule.id})' = Powers(The(job.watched), {Record.rule.id})
              /\ Powers(The(job.before), {})' = Powers(The(job.before), {})
            BY <3>1, <3>2 DEF Powers
        <3> QED BY <3>1, <3>3 DEF UnchangedIsTrue, MonitorInv
    <2>2. CASE Conclude
        BY <2>2, ReportedTrue DEF MonitorInv
    <2>3. CASE \/ Plans \/ Refuses \/ Clears \/ (\E out : Reviews(out)) \/ (\E r : Installs(r))
               \/ (\E a : Observes(a))
        <3>1. job'.report = "none"
            BY <2>3 DEF Plans, Refuses, Clears, Reviews, Installs, Observes, MonitorInv, ReportInv,
                        ShapeInv, JobFields, Unsigned
        <3> QED BY <3>1 DEF UnchangedIsTrue
    <2> QED BY <2>1, <2>2, <2>3, StepKinds, Writes DEF MonitorInv
<1>3. MonitorInv => UnchangedIsTrue
    BY DEF MonitorInv
<1> QED BY <1>1, <1>2, <1>3, PTL DEF Spec

-----------------------------------------------------------------------------
(* What a passed plan has established *)

LEMMA LongerLists ==
    /\ \A a, b, c, d : IsList(<<a, b, c, d>>)
    /\ \A a, b, c, d, e : IsList(<<a, b, c, d, e>>)
<1>1. ASSUME NEW a, NEW b, NEW c, NEW d PROVE IsList(<<a, b, c, d>>)
    <2>1. <<a, b, c, d>> = [k \in 1 .. 4 |-> <<a, b, c, d>>[k]]
        OBVIOUS
    <2> QED BY <2>1, IsAList
<1>2. ASSUME NEW a, NEW b, NEW c, NEW d, NEW e PROVE IsList(<<a, b, c, d, e>>)
    <2>1. <<a, b, c, d, e>> = [k \in 1 .. 5 |-> <<a, b, c, d, e>>[k]]
        OBVIOUS
    <2> QED BY <2>1, IsAList
<1> QED BY <1>1, <1>2

BindingCodes ==
    {"PolicyBindingInvalid", "NotLoaded", "Revoked", "UnknownPolicy", "UnknownTemplate",
     "UnsupportedPattern"}

LEMMA PolicyResolved ==
    ASSUME NEW rg, NEW h
    PROVE  LET c == resolve_policy(rg, h) IN
           /\ IsList(c) /\ Coded(c, BindingCodes)
           /\ Passes(c) => rg.current # {} /\ \A s \in rg.current : h \in DOMAIN s.policies
<1> DEFINE f1 == rg.current = {}
           f2 == \E c \in rg.current : <<"policy", h>> \in DOMAIN c.revocations
           f3 == \E c \in rg.current : h \notin DOMAIN c.policies
           a == <<Check(f1, "NotLoaded"), Check(f2, "Revoked")>>
           b == <<Check(f3, "UnknownPolicy")>>
<1>1. resolve_policy(rg, h) = a \o b
    BY DEF resolve_policy, ensure_active
<1> HIDE DEF f1, f2, f3
<1>2. IsList(a) /\ Coded(a, BindingCodes) /\ 1 \in DOMAIN a /\ (a[1].fails <=> f1)
    BY Lists DEF Coded, Check, BindingCodes
<1>3. IsList(b) /\ Coded(b, BindingCodes) /\ 1 \in DOMAIN b /\ (b[1].fails <=> f3)
    BY Lists DEF Coded, Check, BindingCodes
<1> HIDE DEF a, b
<1>4. IsList(a \o b) /\ Coded(a \o b, BindingCodes) /\ (Passes(a \o b) => Passes(a) /\ Passes(b))
    BY <1>2, <1>3, Joined
<1>5. Passes(a \o b) => ~f1 /\ ~f3
    BY <1>2, <1>3, <1>4 DEF Passes
<1> QED BY <1>1, <1>4, <1>5 DEF f1, f3

LEMMA ReviewedBinding ==
    ASSUME NEW rg, NEW policy, NEW b
    PROVE  LET c == reviewed_checks(rg, policy, b) IN
           /\ IsList(c) /\ Coded(c, BindingCodes)
           /\ Passes(c) => \A s \in rg.current : b.code \in DOMAIN s.policies
                                                 /\ s.policies[b.code] = policy.kind
<1> DEFINE f1 == policy.capability # b.code
           f2 == \E c \in rg.current : b.code \in DOMAIN c.policies /\ c.policies[b.code] # policy.kind
           x == <<Check(f1, "PolicyBindingInvalid")>>
           y == resolve_policy(rg, b.code)
           z == <<Check(f2, "PolicyBindingInvalid")>>
           xy == x \o y
<1>1. reviewed_checks(rg, policy, b) = xy \o z
    BY DEF reviewed_checks
<1>2. /\ IsList(y) /\ Coded(y, BindingCodes)
      /\ Passes(y) => \A s \in rg.current : b.code \in DOMAIN s.policies
    <2> DEFINE h == b.code
    <2> HIDE DEF h
    <2> QED BY PolicyResolved DEF h
<1> HIDE DEF f1, f2, y
<1>3. IsList(x) /\ Coded(x, BindingCodes)
    BY Lists DEF Coded, Check, BindingCodes
<1>4. IsList(z) /\ Coded(z, BindingCodes) /\ 1 \in DOMAIN z /\ (z[1].fails <=> f2)
    BY Lists DEF Coded, Check, BindingCodes
<1> HIDE DEF x, z
<1>5. IsList(xy) /\ Coded(xy, BindingCodes) /\ (Passes(xy) => Passes(y))
    BY <1>2, <1>3, Joined
<1> HIDE DEF xy
<1>6. IsList(xy \o z) /\ Coded(xy \o z, BindingCodes) /\ (Passes(xy \o z) => Passes(xy) /\ Passes(z))
    BY <1>4, <1>5, Joined
<1>7. Passes(z) => ~f2
    BY <1>4 DEF Passes
<1> QED BY <1>1, <1>2, <1>5, <1>6, <1>7 DEF f2

LEMMA GeneratedBinding ==
    ASSUME NEW rg, NEW rule, NEW policy, NEW b
    PROVE  LET c == generated_checks(rg, rule, policy, b) IN IsList(c) /\ Coded(c, BindingCodes)
<1> DEFINE t == policy.family
           f1 == rg.current = {}
           f2 == \E c \in rg.current : <<"template", t>> \in DOMAIN c.revocations
           f3 == \E c \in rg.current : t \notin DOMAIN c.templates
           f4 == \E c \in rg.current : /\ t \in DOMAIN c.templates
                                       /\ c.templates[t].schema # policy.schema
           f5 == \E c \in rg.current : /\ t \in DOMAIN c.templates
                                       /\ ~(rule.uses \subseteq c.templates[t].declares)
           f6 == \/ rule.artifact.manifest # b.manifest \/ rule.artifact.wasm # b.code
                 \/ rule.artifact.family # policy.family
           x == <<Check(f1, "NotLoaded"), Check(f2, "Revoked")>>
           y == <<Check(f3, "UnknownTemplate")>>
           z == << Check(f4, "PolicyBindingInvalid"), Check(f5, "UnsupportedPattern"),
                   Check(f6, "PolicyBindingInvalid") >>
           xy == x \o y
<1>1. generated_checks(rg, rule, policy, b) = xy \o z
    BY DEF generated_checks, resolve_template, ensure_active
<1> HIDE DEF f1, f2, f3, f4, f5, f6
<1>2. IsList(x) /\ Coded(x, BindingCodes) /\ IsList(y) /\ Coded(y, BindingCodes)
    BY Lists DEF Coded, Check, BindingCodes
<1>3. IsList(z) /\ Coded(z, BindingCodes)
    BY Lists DEF Coded, Check, BindingCodes
<1> HIDE DEF x, y, z
<1>4. IsList(xy) /\ Coded(xy, BindingCodes)
    BY <1>2, Joined
<1> HIDE DEF xy
<1>5. IsList(xy \o z) /\ Coded(xy \o z, BindingCodes)
    BY <1>3, <1>4, Joined
<1> QED BY <1>1, <1>5

PolicyOf(spec, b) == spec.rules[b.rule].policies[b.policy]

LEMMA BindingAccepted ==
    ASSUME NEW rg, NEW spec, NEW b, FirstRefusal(binding_checks(rg, spec, b)) = "Permit",
           b.recognition = "reviewed_registry"
    PROVE  \A s \in rg.current : b.code \in DOMAIN s.policies
                                 /\ s.policies[b.code] = PolicyOf(spec, b).kind
<1> DEFINE rule == spec.rules[b.rule]
           policy == rule.policies[b.policy]
           f1 == AddressKind[b.address] # "contract"
           f2 == b.address = spec.account
           f3 == ~b.reference \/ ~b.canonical
           f4 == (policy.of = "reviewed") # (b.recognition = "reviewed_registry")
           x == << Check(f1, "PolicyBindingInvalid"), Check(f2, "PolicyBindingInvalid"),
                   Check(f3, "PolicyBindingInvalid"), Check(f4, "PolicyBindingInvalid") >>
           r == reviewed_checks(rg, policy, b)
           g == generated_checks(rg, rule, policy, b)
           y == IF policy.of = "reviewed" THEN r ELSE g
<1>1. binding_checks(rg, spec, b) = x \o y
    BY DEF binding_checks
<1> HIDE DEF rule, policy
<1>2. /\ IsList(r) /\ Coded(r, BindingCodes)
      /\ Passes(r) => \A s \in rg.current : b.code \in DOMAIN s.policies /\ s.policies[b.code] = policy.kind
    BY ReviewedBinding
<1>3. IsList(g) /\ Coded(g, BindingCodes)
    BY GeneratedBinding
<1> HIDE DEF f1, f2, f3, f4, r, g
<1>4. IsList(x) /\ Coded(x, BindingCodes) /\ 4 \in DOMAIN x /\ (x[4].fails <=> f4)
    BY LongerLists DEF Coded, Check, BindingCodes
<1>5. IsList(y) /\ Coded(y, BindingCodes)
    BY <1>2, <1>3
<1> HIDE DEF x, y
<1> DEFINE c == x \o y
<1>6. IsList(c) /\ Coded(c, BindingCodes) /\ (Passes(c) => Passes(x) /\ Passes(y))
    BY <1>4, <1>5, Joined
<1> HIDE DEF c
<1>7. Passes(c)
    <2>1. DOMAIN c \subseteq Nat
        BY <1>6, ListDomain
    <2>2. FirstRefusal(c) = "Permit" /\ "Permit" \notin BindingCodes
        BY <1>1 DEF c, BindingCodes
    <2> QED BY <1>6, <2>1, <2>2, Permitted
<1>8. ~f4
    BY <1>4, <1>6, <1>7 DEF Passes
<1>9. policy.of = "reviewed"
    BY <1>8 DEF f4
<1>10. Passes(r)
    BY <1>6, <1>7, <1>9 DEF y
<1> QED BY <1>2, <1>10 DEF PolicyOf, policy, rule

LEMMA AccountListed ==
    ASSUME NEW rg, NEW h
    PROVE  IsList(resolve_account(rg, h)) /\ IsList(resolve_account_authority(rg, h))
<1> DEFINE a == ensure_active(rg, "account", h)
           b == <<Check(\E c \in rg.current : h \notin DOMAIN c.accounts, "UnknownAccount")>>
           f1 == \E c \in rg.current : /\ h \in DOMAIN c.accounts
                                       /\ c.accounts[h].enumeration # "bounded_next_id"
           f2 == \E c \in rg.current :
                    /\ h \in DOMAIN c.accounts
                    /\ \/ \A scan \in c.accounts[h].scan : ~ScanSound(scan)
                       \/ h # PinnedAccount
                       \/ c.accounts[h].methods # {"reviewed"}
           d == <<Check(f1, "AccountRuleEnumerationUnsupported"), Check(f2, "AccountAuthorityUnsupported")>>
           ab == a \o b
<1>1. resolve_account(rg, h) = ab /\ resolve_account_authority(rg, h) = ab \o d
    BY DEF resolve_account, resolve_account_authority
<1>2. IsList(a) /\ IsList(b) /\ IsList(d)
    BY Lists DEF ensure_active
<1> HIDE DEF a, b, d
<1>3. IsList(ab)
    BY <1>2, Joined
<1> HIDE DEF ab
<1>4. IsList(ab \o d)
    BY <1>2, <1>3, Joined
<1> QED BY <1>1, <1>3, <1>4

LEMMA LoadSigned ==
    ASSUME NEW rg, NEW signed, NEW network, NEW time
    PROVE  LET c == load_checks(rg, signed, network, time) IN
           IsList(c) /\ (Passes(c) => Signed(signed))
<1> DEFINE s == signed.snapshot
           f1 == s.schema # "v1"
           f2 == ~Signed(signed)
           f3 == s.network # network
           head == <<Check(f1, "Schema"), Check(f2, "Signature"), Check(f3, "Network")>>
           valid == check_snapshot_validity(s, time)
           roles == validate_capability_keys(s)
           tail == << Check(RevocationMalformed(s), "Parse"), Check(s.version < rg.minimum, "Rollback"),
                      Check(/\ rg.current = {}
                            /\ \E cp \in rg.checkpoint : ~ExtendsCheckpoint(s, cp), "Transparency"),
                      Check(\E c \in rg.current : s.version <= c.version, "Rollback"),
                      Check(\E c \in rg.current :
                                ~DirectSuccessor(s, c.log_index, snapshot_root(c), c.revocations),
                            "Transparency") >>
           hv == head \o valid
           hvr == hv \o roles
<1>1. load_checks(rg, signed, network, time) = hvr \o tail
    BY DEF load_checks
<1> HIDE DEF s
<1>2. IsList(valid) /\ IsList(roles)
    BY Lists DEF check_snapshot_validity, validate_capability_keys
<1>3. IsList(tail)
    BY LongerLists
<1> HIDE DEF f1, f2, f3, valid, roles, tail
<1>4. IsList(head) /\ 2 \in DOMAIN head /\ (head[2].fails <=> f2)
    BY Lists DEF Check
<1> HIDE DEF head
<1>5. IsList(hv) /\ (Passes(hv) => Passes(head))
    BY <1>2, <1>4, Joined
<1> HIDE DEF hv
<1>6. IsList(hvr) /\ (Passes(hvr) => Passes(hv))
    BY <1>2, <1>5, Joined
<1> HIDE DEF hvr
<1>7. IsList(hvr \o tail) /\ (Passes(hvr \o tail) => Passes(hvr))
    BY <1>3, <1>6, Joined
<1>8. Passes(head) => ~f2
    BY <1>4 DEF Passes
<1> QED BY <1>1, <1>5, <1>6, <1>7, <1>8 DEF f2

LEMMA BindingsValid ==
    ASSUME NEW rg, NEW request, IsList(request.bindings.list)
    PROVE  LET c == validate_bindings(rg, request) IN
           /\ IsList(c)
           /\ Passes(c) => \A k \in DOMAIN request.bindings.list :
                FirstRefusal(binding_checks(rg, request.spec, request.bindings.list[k])) = "Permit"
<1> DEFINE ok == BindingSetWellFormed(request)
           list == request.bindings.list
           refusal(k) == FirstRefusal(binding_checks(rg, request.spec, list[k]))
           f == ~ok
           a == <<Check(f, "PolicyBindingInvalid")>>
           each == [k \in DOMAIN list |-> Check(refusal(k) # "Permit", refusal(k))]
           b == IF ok THEN each ELSE <<>>
<1>1. validate_bindings(rg, request) = a \o b
    BY DEF validate_bindings
<1>2. Len(list) \in Nat /\ DOMAIN list = 1 .. Len(list)
    BY ListDomain
<1> HIDE DEF ok, list, refusal
<1>3. IsList(each) /\ DOMAIN each = DOMAIN list /\ \A k \in DOMAIN list : each[k].fails <=> refusal(k) # "Permit"
    <2>1. /\ DOMAIN each = DOMAIN list
          /\ \A k \in DOMAIN list : each[k].fails <=> refusal(k) # "Permit"
        BY DEF Check
    <2>2. each = [k \in 1 .. Len(list) |-> each[k]]
        BY <1>2
    <2> HIDE DEF each
    <2> QED BY <1>2, <2>1, <2>2, IsAList
<1> HIDE DEF f
<1>4. IsList(a) /\ 1 \in DOMAIN a /\ (a[1].fails <=> f)
    BY Lists DEF Check
<1> HIDE DEF each, a
<1>5. IsList(b)
    BY <1>3, Lists
<1> HIDE DEF b
<1>6. IsList(a \o b) /\ (Passes(a \o b) => Passes(a) /\ Passes(b))
    BY <1>4, <1>5, Joined
<1>7. ASSUME Passes(a), Passes(b) PROVE \A k \in DOMAIN list : refusal(k) = "Permit"
    <2>1. ok
        BY <1>4, <1>7 DEF Passes, f
    <2>2. Passes(each)
        BY <1>7, <2>1 DEF b
    <2> QED BY <1>3, <2>2 DEF Passes
<1> QED BY <1>1, <1>6, <1>7 DEF refusal, list

LEMMA PlanAccepted ==
    ASSUME NEW request, NEW tr, NEW time, IsList(request.bindings.list),
           Passes(plan_install_intent_read(request, tr, time))
    PROVE  /\ Signed(request.snapshot)
           /\ \A k \in DOMAIN request.bindings.list :
                FirstRefusal(binding_checks(load_at(RegistryFor(tr), request.snapshot), request.spec,
                                            request.bindings.list[k])) = "Permit"
<1> DEFINE spec == request.spec
           empty == RegistryFor(tr)
           rg == load_at(empty, request.snapshot)
           guard == IF request.rule \in DOMAIN request.spec.rules THEN guard_target(request) ELSE <<>>
           prep == prepare_call_surface_check(request, tr, time)
           last == resolve_account_authority(rg, spec.code)
           head == << Check(~spec.valid, "SpecInvalid"),
                      Check(request.account # spec.account \/ request.network # spec.network,
                            "PolicyBindingInvalid"),
                      Check(request.rule \notin DOMAIN spec.rules, "SpecInvalid") >>
           net == registry_for_checks(spec.network)
           load == load_checks(empty, request.snapshot, spec.network, time)
           root == << Check(snapshot_root(request.snapshot.snapshot) # spec.registry, "PolicyBindingInvalid") >>
           account == resolve_account(rg, spec.code)
           agree == << Check(\E c \in rg.current : spec.code \in DOMAIN c.accounts /\ ~c.accounts[spec.code].agree,
                             "IncompatibleAccount"),
                       Check(\E c \in rg.current : spec.code \in DOMAIN c.accounts
                                 /\ c.accounts[spec.code].enumeration # "bounded_next_id",
                             "AccountRuleEnumerationUnsupported") >>
           binds == validate_bindings(rg, request)
           l1 == net \o load
           l2 == head \o l1
           l3 == l2 \o root
           l4 == l3 \o account
           l5 == l4 \o agree
           gp == guard \o prep
<1>1. plan_install_intent_read(request, tr, time) = gp \o last
    BY DEF plan_install_intent_read
<1>2. prep = l5 \o binds
    BY DEF prepare_call_surface_check
<1>3. IsList(guard)
    BY Lists DEF guard_target
<1>4. IsList(head) /\ IsList(net) /\ IsList(root) /\ IsList(agree)
    BY Lists DEF registry_for_checks
<1> HIDE DEF guard, head, root, agree, empty
<1>5. IsList(load) /\ (Passes(load) => Signed(request.snapshot))
    <2> DEFINE n == spec.network
               signed == request.snapshot
    <2> HIDE DEF n, signed
    <2> QED BY LoadSigned DEF n, signed
<1> HIDE DEF rg
<1>6. IsList(account) /\ IsList(last)
    <2> DEFINE h == spec.code
    <2> HIDE DEF h
    <2> QED BY AccountListed DEF h
<1>7. /\ IsList(binds)
      /\ Passes(binds) => \A k \in DOMAIN request.bindings.list :
                FirstRefusal(binding_checks(rg, request.spec, request.bindings.list[k])) = "Permit"
    BY BindingsValid
<1> HIDE DEF net, load, account, last, binds
<1>8. IsList(l1) /\ (Passes(l1) => Passes(load))
    BY <1>4, <1>5, Joined
<1> HIDE DEF l1
<1>9. IsList(l2) /\ (Passes(l2) => Passes(l1))
    BY <1>4, <1>8, Joined
<1> HIDE DEF l2
<1>10. IsList(l3) /\ (Passes(l3) => Passes(l2))
    BY <1>4, <1>9, Joined
<1> HIDE DEF l3
<1>11. IsList(l4) /\ (Passes(l4) => Passes(l3))
    BY <1>6, <1>10, Joined
<1> HIDE DEF l4
<1>12. IsList(l5) /\ (Passes(l5) => Passes(l4))
    BY <1>4, <1>11, Joined
<1> HIDE DEF l5, prep
<1>13. IsList(prep) /\ (Passes(prep) => Passes(l5) /\ Passes(binds))
    BY <1>2, <1>7, <1>12, Joined
<1>14. IsList(gp) /\ (Passes(gp) => Passes(prep))
    BY <1>3, <1>13, Joined
<1> HIDE DEF gp
<1>15. Passes(gp)
    BY <1>1, <1>6, <1>14, Joined
<1> QED BY <1>5, <1>7, <1>8, <1>9, <1>10, <1>11, <1>12, <1>13, <1>14, <1>15 DEF rg, empty

-----------------------------------------------------------------------------
(* The agent's ways to its target *)

AgentHeads(request) ==
    {d.head : d \in UNION {key_material(k) : k \in ToSet(grant_for(request).signers)}}

(* Without findings the signers of the new rule are identities. *)
LEMMA GrantKeys ==
    ASSUME NEW in, FoundIn(in) = {}, NEW key \in ToSet(in.grant.signers)
    PROVE  GrantSignerProblem(in, key) = "Permit"
<1> DEFINE p == GrantSignerProblem(in, key)
<1>1. p # "Permit" => into_finding(p, {}) \in grant_findings(in)
    BY DEF grant_findings
<1>2. grant_findings(in) \subseteq FoundIn(in)
    BY DEF FoundIn, findings
<1> QED BY <1>1, <1>2

(* A key the check can name has at least 32 bytes. *)
LEMMA LongKeys ==
    ASSUME NEW in, NEW key, NEW d \in key_material(key),
           \/ key.kind = "External" /\ external_key(in, key) = "Permit"
           \/ IsClassic(key)
    PROVE  d.len \in Nat /\ d.len >= 32
<1>1. CASE key.kind = "External" /\ external_key(in, key) = "Permit"
    <2>1. PICK s \in in.verifiers[key.at].scheme : WellFormedKey(s, key.data)
        BY <1>1, ExternalKey
    <2>2. d = key.data
        BY <1>1 DEF key_material
    <2> QED BY <2>1, <2>2 DEF WellFormedKey
<1>2. CASE IsClassic(key)
    <2>1. d = PublicKey[key.at] /\ key.at \in DOMAIN PublicKey
        BY <1>2 DEF key_material, IsClassic
    <2>2. PublicKey[key.at].len = 32
        BY <2>1, AddressAssumption
    <2> QED BY <2>1, <2>2
<1> QED BY <1>1, <1>2

(* A key that shares its head with one of the agent's is taken for it. *)
LEMMA HeadRestricts ==
    ASSUME NEW in, FoundIn(in) = {}, NEW request, in.grant = grant_for(request),
           NEW key, NEW d \in key_material(key), d.len \in Nat, d.len >= 32,
           d.head \in AgentHeads(request)
    PROVE  is_restricted(in, key)
<1>1. PICK k \in ToSet(grant_for(request).signers) : \E e \in key_material(k) : e.head = d.head
    BY DEF AgentHeads
<1>2. PICK e \in key_material(k) : e.head = d.head
    BY <1>1
<1>3. k \in ToSet(in.grant.signers)
    BY <1>1
<1>4. GrantSignerProblem(in, k) = "Permit"
    BY <1>3, GrantKeys
<1>5. (k.kind = "External" /\ external_key(in, k) = "Permit") \/ IsClassic(k)
    BY <1>4 DEF GrantSignerProblem
<1>6. e.len \in Nat /\ e.len >= 32
    BY <1>2, <1>5, LongKeys
<1>7. aliases(key, k)
    BY <1>2, <1>6 DEF aliases
<1> QED BY <1>3, <1>7 DEF is_restricted

(* A signer the agent's keys can produce is one of them. *)
LEMMA ProducedIsRestricted ==
    ASSUME NEW rg, NEW request, NEW ch, NEW in, in = Input(rg, request, ch), FoundIn(in) = {},
           NEW s, MirrorsKey(in, ch, s),
           NEW key, key = ch.state.signers[s].key,
           IdentityProblem(in, key) = "Permit",
           CanProduce(ch, AgentHeads(request), key)
    PROVE  is_restricted(in, key)
<1>1. in.grant = grant_for(request)
    BY InputParts
<1>2. CASE key.kind = "External" /\ external_key(in, key) = "Permit"
    <2> DEFINE at == key.at
               h == ch.codes[at]
    <2>1. at \in DOMAIN in.verifiers /\ in.verifiers[at].scheme # {}
        BY <1>2, ExternalKey
    <2>2. PICK x \in in.verifiers[at].scheme : WellFormedKey(x, key.data)
        BY <1>2, <2>1, ExternalKey
    <2> HIDE DEF at
    <2>3. Passes(resolve_signature_verifier(rg, h))
        BY <2>1, VerifierSeen
    <2> HIDE DEF h
    <2>4. h \in DOMAIN TrueScheme
        BY <2>3, ReviewedVerifier, ReviewAssumption
    <2>5. key.data.head \in AgentHeads(request)
        BY <1>2, <2>4 DEF CanProduce, h, at
    <2>6. key.data \in key_material(key)
        BY <1>2, <2>2 DEF key_material, WellFormedKey
    <2> DEFINE d == key.data
    <2>7. d.len \in Nat /\ d.len >= 32
        BY <1>2, <2>6, LongKeys
    <2> QED BY <1>1, <2>5, <2>6, <2>7, HeadRestricts
<1>3. CASE IsClassic(key) /\ classic_account(in, key.at) = "Permit"
    <2> DEFINE entry == ch.classics[key.at]
               d == PublicKey[key.at]
    <2>1. key.kind # "External"
        BY <1>3 DEF IsClassic
    <2>2. in.classics[key.at] = entry
        BY <1>3 DEF MirrorsKey
    <2>3. DOMAIN in.classics[key.at].others = {}
        BY <1>3, ClassicAccount
    <2>4. Signing(entry, d.head, AgentHeads(request)) # {}
        BY <1>3, <2>1 DEF CanProduce
    <2>5. d.head \in AgentHeads(request)
        BY <2>2, <2>3, <2>4 DEF Signing
    <2>6. d \in key_material(key)
        BY <1>3, <2>1 DEF key_material, IsClassic
    <2>7. d.len \in Nat /\ d.len >= 32
        BY <1>3, <2>6, LongKeys
    <2> HIDE DEF d
    <2> QED BY <1>1, <2>5, <2>6, <2>7, HeadRestricts
<1> QED BY <1>2, <1>3, IdentityCoded

(* The registry of a request reads the snapshot of the request, and what    *)
(* that lists as a spending limit is one.                                   *)
Reviewed(rg, request) ==
    /\ rg.current = {request.snapshot.snapshot}
    /\ \A h \in DOMAIN request.snapshot.snapshot.policies :
        request.snapshot.snapshot.policies[h] = "spending_limit" => h \in LimitCode
    /\ IsList(request.bindings.list)
    /\ \A k \in DOMAIN request.bindings.list :
        FirstRefusal(binding_checks(rg, request.spec, request.bindings.list[k])) = "Permit"

LEMMA SpendingLimit ==
    ASSUME NEW kind, signer_semantics(kind) = "AtLeastOneRuleSigner" PROVE kind = "spending_limit"
BY DEF signer_semantics

LEMMA BoundLimit ==
    ASSUME NEW rg, NEW request, Reviewed(rg, request),
           NEW a \in DOMAIN BoundRecognition(rg, request),
           BoundRecognition(rg, request)[a].signers = "AtLeastOneRuleSigner"
    PROVE  BoundRecognition(rg, request)[a].code \in LimitCode
<1> DEFINE bs == request.bindings.list
           i == CHOOSE k \in DOMAIN bs : bs[k].address = a
           b == bs[i]
           kind == request.spec.rules[b.rule].policies[b.policy].kind
           s == request.snapshot.snapshot
<1>1. a \in {x.address : x \in ToSet(bs)}
    BY DEF BoundRecognition
<1>2. i \in DOMAIN bs
    BY <1>1 DEF ToSet
<1>3. BoundRecognition(rg, request)[a] =
        [ code |-> b.code, signers |-> IF b.recognition = "reviewed_registry"
                                       THEN signer_semantics(kind) ELSE "Unknown" ]
    BY <1>1 DEF BoundRecognition
<1>4. FirstRefusal(binding_checks(rg, request.spec, b)) = "Permit"
    BY <1>2 DEF Reviewed
<1> HIDE DEF b, kind
<1>5. BoundRecognition(rg, request)[a].code = b.code /\ b.recognition = "reviewed_registry"
      /\ signer_semantics(kind) = "AtLeastOneRuleSigner"
    BY <1>3
<1>6. kind = "spending_limit"
    BY <1>5, SpendingLimit
<1>7. b.code \in DOMAIN s.policies /\ s.policies[b.code] = PolicyOf(request.spec, b).kind
    BY <1>4, <1>5, BindingAccepted DEF Reviewed
<1>8. PolicyOf(request.spec, b).kind = kind
    BY DEF PolicyOf, kind
<1> QED BY <1>5, <1>6, <1>7, <1>8 DEF Reviewed

LEMMA RecognizedLimit ==
    ASSUME NEW rg, NEW request, NEW state, Reviewed(rg, request),
           NEW a \in DOMAIN Recognized(rg, request, state),
           Recognized(rg, request, state)[a].signers = "AtLeastOneRuleSigner"
    PROVE  Recognized(rg, request, state)[a].code \in LimitCode
<1> DEFINE bound == BoundRecognition(rg, request)
           listed == {p \in {state.policies[k] : k \in DOMAIN state.policies} :
                        /\ p.address \notin DOMAIN bound
                        /\ Passes(resolve_policy(rg, p.code))}
           of(x) == CHOOSE p \in listed : p.address = x
           known == [x \in {p.address : p \in listed} |->
                        [ code |-> of(x).code,
                          signers |-> signer_semantics(Of(rg).policies[of(x).code]) ]]
           all == Recognized(rg, request, state)
           s == request.snapshot.snapshot
<1>1. all = Extended(known, bound)
    BY DEF Recognized
<1>2. Of(rg) = s
    BY DEF Of, Reviewed
<1>3. CASE a \in {p.address : p \in listed}
    <2> DEFINE p == of(a)
    <2>1. p \in listed
        BY <1>3
    <2>2. known[a] = [ code |-> p.code, signers |-> signer_semantics(Of(rg).policies[p.code]) ]
        BY <1>3
    <2>3. a \in DOMAIN known
        BY <1>3
    <2>4. Passes(resolve_policy(rg, p.code))
        BY <2>1
    <2> HIDE DEF known, p, bound
    <2>5. all[a] = known[a]
        BY <1>1, <2>3 DEF Extended
    <2>6. signer_semantics(s.policies[p.code]) = "AtLeastOneRuleSigner" /\ all[a].code = p.code
        BY <1>2, <2>2, <2>5
    <2>7. s.policies[p.code] = "spending_limit"
        BY <2>6, SpendingLimit
    <2>8. p.code \in DOMAIN s.policies
        BY <2>4, PolicyResolved DEF Reviewed
    <2> QED BY <2>6, <2>7, <2>8 DEF Reviewed
<1>4. CASE a \notin {p.address : p \in listed}
    <2>1. DOMAIN known = {p.address : p \in listed}
        OBVIOUS
    <2> HIDE DEF known, bound
    <2>2. a \notin DOMAIN known /\ DOMAIN all = DOMAIN known \cup DOMAIN bound
        BY <1>1, <1>4, <2>1 DEF Extended
    <2>3. a \in DOMAIN bound /\ all[a] = bound[a]
        BY <1>1, <2>2 DEF Extended
    <2> QED BY <2>3, BoundLimit DEF bound
<1> QED BY <1>3, <1>4

(* An installed policy the check reads through asks for one of the signers. *)
LEMMA ReadableIsLimit ==
    ASSUME NEW rg, NEW request, NEW ch, NEW in, in = Input(rg, request, ch), Reviewed(rg, request),
           NEW p, policy_semantics(in, p) = "AtLeastOneRuleSigner"
    PROVE  p.code \in LimitCode
<1> DEFINE state == project_account_state(Scan(request, ch), Scan(request, ch).state)
           all == Recognized(rg, request, state)
           a == p.address
<1>1. in.recognized = all
    BY DEF Input, CheckInput
<1> HIDE DEF all, state
<1>2. a \in DOMAIN all /\ all[a].code = p.code /\ all[a].signers = "AtLeastOneRuleSigner"
    BY <1>1 DEF policy_semantics
<1> HIDE DEF a
<1> QED BY <1>2, RecognizedLimit DEF all

(* A rule that the check lets stand beside a counting grant does not let    *)
(* the agent's keys through alone.                                          *)
LEMMA NotAlone ==
    ASSUME NEW rg, NEW request, NEW ch, NEW in, in = Input(rg, request, ch), FoundIn(in) = {},
           Reviewed(rg, request), Mirrors(in, ch, {}), Listed(ch),
           NEW r \in DOMAIN ch.state.rules,
           NEW v, v = RuleView(in, ch.state.rules[r]),
           ~v.alone, DescribeProblem(in, v) = "Permit"
    PROVE  ~MayUse(ch, AgentHeads(request), ch.state.rules[r])
<1> DEFINE rule == ch.state.rules[r]
           heads == AgentHeads(request)
           ids == rule.signers
           pids == rule.policies
           key(k) == in.state.signers[ids[k]].key
           pol(k) == in.state.policies[pids[k]]
<1>1. /\ IsList(ids) /\ IsList(pids)
      /\ \A k \in DOMAIN ids : MirrorsKey(in, ch, ids[k])
      /\ \A k \in DOMAIN pids : MirrorsPolicy(in, ch, pids[k])
    BY DEF Listed, Mirrors, ToSet
<1> DEFINE keys == [k \in DOMAIN ids |-> key(k)]
           policies == [k \in DOMAIN pids |-> pol(k)]
           names == \E k \in ToSet(keys) : is_restricted(in, k)
<1>2. /\ v.keys = keys /\ v.policies = [k \in DOMAIN policies |-> policies[k].address]
      /\ v.readable = (\A p \in ToSet(policies) : policy_semantics(in, p) = "AtLeastOneRuleSigner")
      /\ v.alone = IF policies = <<>> THEN names /\ \A k \in ToSet(keys) : is_restricted(in, k)
                   ELSE names
    BY DEF RuleView
<1> HIDE DEF rule, ids, pids
<1>3. IsList(keys)
    <2>1. Len(ids) \in Nat /\ DOMAIN ids = 1 .. Len(ids)
        BY <1>1, ListDomain
    <2>2. keys = [k \in 1 .. Len(ids) |-> keys[k]]
        BY <2>1
    <2> HIDE DEF keys
    <2> QED BY <2>1, <2>2, IsAList
<1>4. IsList(v.keys)
    BY <1>2, <1>3
<1>5. /\ v.policies # <<>> => v.readable
      /\ ~(v.keys = <<>> /\ v.policies = <<>>)
      /\ \A k \in DOMAIN v.keys : IdentityProblem(in, v.keys[k]) = "Permit"
    BY <1>4, DescribedRule
<1>6. ASSUME NEW k \in DOMAIN ids, CanProduce(ch, heads, ch.state.signers[ids[k]].key)
      PROVE  is_restricted(in, keys[k])
    <2> DEFINE s == ids[k]
               x == ch.state.signers[s].key
    <2>1. MirrorsKey(in, ch, s)
        BY <1>1
    <2>2. keys[k] = x
        BY <2>1 DEF MirrorsKey
    <2>3. IdentityProblem(in, x) = "Permit"
        BY <1>2, <1>5, <2>2
    <2> HIDE DEF s, keys
    <2>4. CanProduce(ch, heads, x)
        BY <1>6 DEF s
    <2> HIDE DEF x
    <2>5. is_restricted(in, x)
        BY <2>1, <2>3, <2>4, ProducedIsRestricted DEF x
    <2> QED BY <2>2, <2>5
<1>7. DOMAIN keys = DOMAIN ids /\ DOMAIN policies = DOMAIN pids
    OBVIOUS
<1> DEFINE signers == {ch.state.signers[s].key : s \in ToSet(ids)}
           codes == {ch.codes[ch.state.policies[p].address] : p \in ToSet(pids)}
<1>8. MayUse(ch, heads, rule) =>
        IF codes = {} THEN \A k \in signers : CanProduce(ch, heads, k)
        ELSE \A c \in codes : c \in LimitCode => \E k \in signers : CanProduce(ch, heads, k)
    BY DEF MayUse, ids, pids
<1>9. CASE DOMAIN pids = {}
    <2>1. policies = <<>> /\ codes = {} /\ v.policies = <<>>
        <3>1. policies = <<>> /\ codes = {}
            BY <1>9 DEF ToSet
        <3>2. v.policies = <<>>
            BY <1>2, <1>7, <1>9
        <3> QED BY <3>1, <3>2
    <2>2. keys # <<>>
        BY <1>2, <1>5, <2>1
    <2>3. PICK k \in DOMAIN ids : TRUE
        <3>1. DOMAIN keys # {}
            <4> HIDE DEF keys
            <4> QED BY <1>3, <2>2 DEF IsList
        <3> QED BY <1>7, <3>1
    <2> SUFFICES ASSUME MayUse(ch, heads, rule) PROVE FALSE
        BY DEF rule
    <2>4. \A x \in signers : CanProduce(ch, heads, x)
        BY <1>8, <2>1
    <2>5. \A j \in DOMAIN ids : is_restricted(in, keys[j])
        BY <1>6, <2>4 DEF ToSet
    <2> HIDE DEF keys, policies
    <2>6. \A x \in ToSet(keys) : is_restricted(in, x)
        BY <1>7, <2>5 DEF ToSet
    <2>7. names
        BY <1>7, <2>3, <2>6 DEF ToSet
    <2> QED BY <1>2, <2>1, <2>6, <2>7
<1>10. CASE DOMAIN pids # {}
    <2>1. PICK j \in DOMAIN pids : TRUE
        BY <1>10
    <2>2. policies # <<>> /\ v.policies # <<>>
        <3>1. DOMAIN v.policies = DOMAIN policies
            BY <1>2
        <3> QED BY <1>7, <1>10, <3>1
    <2> DEFINE p == pol(j)
               c == ch.codes[ch.state.policies[pids[j]].address]
    <2>3. p \in ToSet(policies)
        BY DEF ToSet
    <2>4. policy_semantics(in, p) = "AtLeastOneRuleSigner"
        BY <1>2, <1>5, <2>2, <2>3
    <2>5. p.code = c
        BY <1>1 DEF MirrorsPolicy
    <2>6. c \in codes
        BY DEF ToSet
    <2> HIDE DEF p, c
    <2>7. c \in LimitCode
        BY <2>4, <2>5, ReadableIsLimit
    <2> SUFFICES ASSUME MayUse(ch, heads, rule) PROVE FALSE
        BY DEF rule
    <2>8. PICK x \in signers : CanProduce(ch, heads, x)
        BY <1>8, <2>6, <2>7
    <2>9. PICK k \in DOMAIN ids : x = ch.state.signers[ids[k]].key
        BY <2>8 DEF ToSet
    <2>10. is_restricted(in, keys[k])
        BY <1>6, <2>8, <2>9
    <2> HIDE DEF keys, policies
    <2>11. names
        BY <1>7, <2>10 DEF ToSet
    <2> QED BY <1>2, <2>2, <2>11
<1> QED BY <1>9, <1>10

(* An accepted answer for a grant that counts. *)
LEMMA OnlyWay ==
    ASSUME NEW rg, NEW request, NEW ch, NEW in, in = Input(rg, request, ch), FoundIn(in) = {},
           Reviewed(rg, request), Mirrors(in, ch, {}), Listed(ch), grant_for(request).stateful
    PROVE  ~CanCall(ch, AgentHeads(request), grant_for(request).target, {})
<1> DEFINE target == grant_for(request).target
<1> SUFFICES ASSUME NEW r \in DOMAIN ch.state.rules,
                    \/ ch.state.rules[r].context.kind = "Default"
                    \/ ch.state.rules[r].context = [kind |-> "CallContract", at |-> target],
                    MayUse(ch, AgentHeads(request), ch.state.rules[r])
             PROVE  FALSE
    BY DEF CanCall
<1> DEFINE rule == ch.state.rules[r]
           v == RuleView(in, rule)
<1>1. in.grant = grant_for(request) /\ in.ledger = ch.ledger
    BY InputParts
<1>2. ~is_expired(rule, in.ledger)
    BY <1>1 DEF MayUse, is_expired
<1>3. reach(in, rule.context) # "none"
    <2> DEFINE c == rule.context
    <2>1. c.kind = "Default" \/ (c.kind = "CallContract" /\ c.at = in.grant.target)
        BY <1>1
    <2> HIDE DEF c
    <2>2. reach(in, c) # "none"
        BY <2>1 DEF reach
    <2> QED BY <2>2 DEF c
<1>4. r \in DOMAIN in.state.rules /\ in.state.rules[r] = rule
    BY DEF Mirrors
<1> HIDE DEF rule
<1>5. v.reach = reach(in, rule.context) /\ v.expired = is_expired(rule, in.ledger)
    BY DEF RuleView
<1>6. v \in LiveViews(in)
    BY <1>2, <1>4, <1>5 DEF LiveViews, Views
<1> HIDE DEF v
<1>7. v.reach # "none"
    BY <1>3, <1>5
<1>8. ~v.alone /\ DescribeProblem(in, v) = "Permit"
    BY <1>1, <1>6, <1>7, Unfound
<1>9. ~MayUse(ch, AgentHeads(request), ch.state.rules[r])
    BY <1>8, NotAlone DEF v, rule
<1> QED BY <1>9

(* The request under way is one of the setup's. *)
RequestInv == job.phase # "idle" => \E r \in Config.requests : job.request = {r}

LEMMA RequestStep ==
    ASSUME ShapeInv, RequestInv, [Next]_vars
    PROVE  RequestInv'
<1>1. Config' = Config
    BY SetupKept DEF Config
<1>2. CASE Plans
    <2>1. \E r \in Config.requests : job'.request = {r}
        BY <1>2 DEF Plans, ShapeInv, JobFields
    <2> QED BY <1>1, <2>1 DEF RequestInv
<1>3. ASSUME job.phase # "idle", job'.request = job.request PROVE RequestInv'
    BY <1>1, <1>3 DEF RequestInv
<1>4. CASE JobKept
    BY <1>1, <1>4 DEF JobKept, RequestInv
<1>5. CASE \/ Refuses \/ Clears \/ (\E out : Reviews(out)) \/ (\E r : Installs(r))
           \/ (\E a : Observes(a)) \/ (\E r : Concludes(r))
    <2>1. job.phase # "idle" /\ job'.request = job.request
        BY <1>5 DEF Refuses, Clears, Reviews, Installs, Observes, Concludes, ShapeInv, JobFields
    <2> QED BY <1>3, <2>1
<1> QED BY <1>2, <1>4, <1>5, StepKinds, Writes

LEMMA ReviewedNow ==
    ASSUME ShapeInv, RequestInv, job.phase # "idle", Replanned
    PROVE  Reviewed(RegistryNow, Request)
<1>1. PICK r \in Config.requests : job.request = {r}
    BY DEF RequestInv
<1>2. Request = r
    BY <1>1 DEF Request, The
<1>3. setup.name \in DOMAIN Setups /\ r \in Setups[setup.name].requests
    BY <1>1 DEF ShapeInv, Config
<1>4. IsList(r.bindings.list)
    BY <1>3, SetupAssumption
<1>5. Passes(plan_install_intent_read(r, trust, now))
    BY <1>2 DEF Replanned
<1>6. Signed(r.snapshot)
    BY <1>4, <1>5, PlanAccepted
<1>7. \A k \in DOMAIN r.bindings.list :
        FirstRefusal(binding_checks(load_at(RegistryFor(trust), r.snapshot), r.spec,
                                    r.bindings.list[k])) = "Permit"
    BY <1>4, <1>5, PlanAccepted
<1>8. \A h \in DOMAIN r.snapshot.snapshot.policies :
        r.snapshot.snapshot.policies[h] = "spending_limit" => h \in LimitCode
    BY <1>3, <1>6, ReviewAssumption
<1>9. "current" \in DOMAIN RegistryFor(trust)
    BY DEF RegistryFor, with_pinned_roots_for_network_at_checkpoint,
           with_pinned_roots_for_network_at_version, with_pinned_roots
<1>10. load_at(RegistryFor(trust), r.snapshot).current = {r.snapshot.snapshot}
    BY <1>9 DEF load_at
<1>11. RegistryNow = load_at(RegistryFor(trust), r.snapshot)
    BY <1>2 DEF RegistryNow
<1> QED BY <1>2, <1>4, <1>7, <1>8, <1>10, <1>11 DEF Reviewed

LEMMA ClearedLimit ==
    ASSUME ShapeInv, RequestInv, InstallStep, job'.phase = "cleared"
    PROVE  LimitIsTheOnlyWay'
<1>1. PICK result : /\ result = prepare_install_intent_from_scan(RegistryNow, Request, Scan(Request, chain), now)
                    /\ result.error = "ok"
                    /\ authorityRecheck(The(job.approved), The(result.output), Wallet, Expected,
                                        The(job.before).state)
    BY Cleared
<1>2. job.phase = "approved" /\ Replanned
      /\ job' = [job EXCEPT !.phase = "cleared", !.seen = {chain}, !.touched = FALSE]
    BY Cleared
<1>3. job'.request = job.request /\ job'.seen = {chain}
    BY <1>2 DEF ShapeInv, JobFields
<1>4. Request' = Request /\ The(job'.seen) = chain
    BY <1>3 DEF Request, The
<1> DEFINE output == The(result.output)
           rg == RegistryNow
           request == Request
           scan == Scan(request, chain)
           in == Input(rg, request, chain)
<1>5. Answers(output, rg, request, chain) /\ ~ProjectionRefused(scan, chain.state)
    BY <1>1, IntentAnswers
<1>6. decide(output, WalletTrust(Wallet), Expected)
    BY <1>1 DEF authorityRecheck, recheck
<1>7. Listed(chain) /\ IsAccount(chain)
    BY <1>2 DEF ShapeInv, Unsigned
<1>8. Reviewed(rg, request)
    BY <1>2, ReviewedNow
<1> HIDE DEF output, rg, request
<1>9. Mirrors(in, chain, {})
    <2> DEFINE state == project_account_state(scan, chain.state)
    <2>1. in = CheckInput(rg, request, scan, state)
        BY DEF Input, Scan
    <2>2. Projects(state, scan, chain, {})
        BY <1>5, <1>7, WholeProjects
    <2> HIDE DEF state
    <2>3. Mirrors(CheckInput(rg, request, scan, state), chain, {})
        BY <1>5, <1>7, <2>2, InputMirrors
    <2> QED BY <2>1, <2>3
<1>10. output.verdict = verdict(in)
    BY <1>5 DEF Answers
<1> HIDE DEF in
<1>11. FoundIn(in) = {}
    BY <1>6, <1>10, NothingFound DEF decide
<1>12. grant_for(request).stateful => ~CanCall(chain, AgentHeads(request), grant_for(request).target, {})
    BY <1>7, <1>8, <1>9, <1>11, OnlyWay DEF in
<1>13. AgentKeys' = AgentHeads(request)
    BY <1>4 DEF AgentKeys, AgentHeads, request
<1>14. grant_for(Request)' = grant_for(request)
    BY <1>4 DEF request
<1> QED BY <1>4, <1>12, <1>13, <1>14 DEF LimitIsTheOnlyWay

(***************************************************************************)
(* When the wallet goes on to sign a grant that counts, no rule of the     *)
(* account lets the agent's keys alone call the grant's target: not by an  *)
(* aliased key, a classic account, a rule without policies or one behind a *)
(* recognized spending limit.  RequestInv says that the request is one the *)
(* reviews were about.                                                     *)
(***************************************************************************)
THEOREM LimitIsExclusive == Spec => []LimitIsTheOnlyWay
<1> DEFINE Inv == ShapeInv /\ RequestInv /\ LimitIsTheOnlyWay
<1>1. Init => Inv
    <2>1. Init => RequestInv /\ LimitIsTheOnlyWay
        BY DEF Init, NoJob, RequestInv, LimitIsTheOnlyWay
    <2> QED BY <2>1, InitShape
<1>2. Inv /\ [Next]_vars => Inv'
    <2> SUFFICES ASSUME Inv, [Next]_vars PROVE LimitIsTheOnlyWay'
        BY StepShape, RequestStep
    <2>1. CASE JobKept
        <3>1. Request' = Request /\ job'.phase = job.phase /\ job'.seen = job.seen
            BY <2>1, RequestKept DEF JobKept
        <3>2. AgentKeys' = AgentKeys /\ grant_for(Request)' = grant_for(Request)
            BY <3>1 DEF AgentKeys
        <3> QED BY <3>1, <3>2 DEF LimitIsTheOnlyWay
    <2>2. CASE InstallStep
        <3>1. CASE job'.phase = "cleared"
            BY <2>2, <3>1, ClearedLimit
        <3>2. CASE job'.phase # "cleared"
            BY <3>2 DEF LimitIsTheOnlyWay
        <3> QED BY <3>1, <3>2
    <2> QED BY <2>1, <2>2, StepKinds
<1>3. Inv => LimitIsTheOnlyWay
    OBVIOUS
<1> QED BY <1>1, <1>2, <1>3, PTL DEF Spec

=============================================================================
