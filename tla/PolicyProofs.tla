---------------------------- MODULE PolicyProofs ----------------------------
(***************************************************************************)
(* For every set of accounts, rules and requests, and every window, cap    *)
(* and time to live: an installation never permits more calls than its     *)
(* cap; the compiled contract permits what the evaluator permits, and      *)
(* refuses for the evaluator's reason; rent is bought only for use, and a  *)
(* use keeps what it depends on alive.  And for any ledger states, lag of  *)
(* the nodes and entries left out, a check of a call against an installed  *)
(* rule captures one whole ledger, and predicts what that ledger does.     *)
(***************************************************************************)
EXTENDS GeneratedPolicy, PolicyCheck, FiniteSetTheorems, WellFoundedInduction, TLAPS

-----------------------------------------------------------------------------
(* Decisions *)

(* A nonempty set of naturals has a least element. *)
LEMMA Least ==
    ASSUME NEW T, T \subseteq Nat, T # {}
    PROVE  \E x \in T : \A y \in T : x <= y
<1>1. PICK x \in T : \A y \in T : ~(<<y, x>> \in OpToRel(<, Nat))
    BY WFMin, NatLessThanWellFounded
<1>2. \A y \in T : ~(y < x)
    BY <1>1 DEF OpToRel
<1> QED BY <1>2

(* What holds of 0 and is passed on from each number holds up to L. *)
LEMMA UpTo ==
    ASSUME NEW L \in Nat, NEW G, 0 \in G, \A n \in 1 .. L : n - 1 \in G => n \in G
    PROVE  \A n \in 0 .. L : n \in G
<1> DEFINE bad == {n \in 0 .. L : n \notin G}
<1> SUFFICES ASSUME bad # {} PROVE FALSE
    OBVIOUS
<1>1. PICK m \in bad : \A n \in bad : m <= n
    <2>1. bad \subseteq Nat
        OBVIOUS
    <2> HIDE DEF bad
    <2> QED BY <2>1, Least
<1>2. m \in 1 .. L /\ m - 1 \in 0 .. L
    BY <1>1
<1>3. m - 1 \in G
    BY <1>1, <1>2
<1> QED BY <1>1, <1>2, <1>3

(* A decision is a permit exactly when no check fails. *)
LEMMA PermitIffNoneFails ==
    ASSUME NEW checks, DOMAIN checks \subseteq Nat,
           \A k \in DOMAIN checks : checks[k].code # "Permit"
    PROVE  FirstRefusal(checks) = "Permit"
           <=> \A k \in DOMAIN checks : ~checks[k].fails
<1> DEFINE failing == {k \in DOMAIN checks : checks[k].fails}
<1>1. CASE failing = {}
    BY <1>1 DEF FirstRefusal
<1>2. CASE failing # {}
    <2>1. PICK k \in failing : \A j \in failing : k <= j
        BY <1>2, Least
    <2> DEFINE isFirst(n) == /\ checks[n].fails
                             /\ \A j \in DOMAIN checks : checks[j].fails => n <= j
    <2>2. k \in DOMAIN checks /\ isFirst(k)
        BY <2>1
    <2>3. (CHOOSE n \in DOMAIN checks : isFirst(n)) \in DOMAIN checks
        BY <2>2
    <2>4. \E j \in DOMAIN checks : checks[j].fails
        BY <2>2
    <2>5. FirstRefusal(checks) = checks[CHOOSE n \in DOMAIN checks : isFirst(n)].code
        BY <2>4 DEF FirstRefusal
    <2> QED BY <2>3, <2>4, <2>5
<1> QED BY <1>1, <1>2

(* What a permitted call of the contract has passed. *)
PassesAll(ru, marker, count, l, r, account) ==
    /\ marker
    /\ ~Expired(ru, l)
    /\ r.auth # <<>>
    /\ ~PredicateFails(ru, r)
    /\ ~SetDiverged(ru, r)
    /\ r.kind = "contract"
    /\ r.contract = ru.contract
    /\ FnOk(ru, r)
    /\ TupleOk(ru, r, account)
    /\ ~(HasState(ru) /\ count = {})
    /\ ~ \E max \in ru.max_calls, used \in count : used >= max

(* The contract permits when every check of enforce passes, and likewise    *)
(* the evaluator.                                                           *)
LEMMA ContractPermits ==
    ASSUME NEW ru, NEW marker, NEW count, NEW l, NEW r, NEW account
    PROVE  enforce_verdict(ru, marker, count, l, r, account) = "Permit"
           <=> PassesAll(ru, marker, count, l, r, account)
<1> DEFINE checks == enforce_checks(ru, marker, count, l, r, account)
<1>1. DOMAIN checks = 1 .. 11
    BY DEF enforce_checks
<1>2. \A k \in 1 .. 11 : checks[k].code # "Permit"
    BY DEF enforce_checks, Check
<1>3. FirstRefusal(checks) = "Permit" <=> \A k \in 1 .. 11 : ~checks[k].fails
    BY <1>1, <1>2, PermitIffNoneFails
<1>4. (\A k \in 1 .. 11 : ~checks[k].fails) <=>
        /\ ~checks[1].fails /\ ~checks[2].fails /\ ~checks[3].fails /\ ~checks[4].fails
        /\ ~checks[5].fails /\ ~checks[6].fails /\ ~checks[7].fails /\ ~checks[8].fails
        /\ ~checks[9].fails /\ ~checks[10].fails /\ ~checks[11].fails
    <2> HIDE DEF checks
    <2>1. \A k \in 1 .. 11 : k = 1 \/ k = 2 \/ k = 3 \/ k = 4 \/ k = 5 \/ k = 6 \/ k = 7
                             \/ k = 8 \/ k = 9 \/ k = 10 \/ k = 11
        OBVIOUS
    <2> QED BY <2>1
<1>5. /\ checks[1].fails = ~marker
      /\ checks[2].fails = Expired(ru, l)
      /\ checks[3].fails = (r.auth = <<>>)
      /\ checks[4].fails = PredicateFails(ru, r)
      /\ checks[5].fails = SetDiverged(ru, r)
      /\ checks[6].fails = (r.kind # "contract")
      /\ checks[7].fails = (r.contract # ru.contract)
      /\ checks[8].fails = ~FnOk(ru, r)
      /\ checks[9].fails = ~TupleOk(ru, r, account)
      /\ checks[10].fails = (HasState(ru) /\ count = {})
      /\ checks[11].fails = \E max \in ru.max_calls, used \in count : used >= max
    BY DEF enforce_checks, Check
<1> QED BY <1>3, <1>4, <1>5 DEF enforce_verdict, PassesAll

LEMMA EvaluatorPermits ==
    ASSUME NEW ru, NEW count, NEW l, NEW r, NEW account
    PROVE  evaluate_generated_rule(ru, count, l, r, account) = "Permit" <=>
             /\ r.contract = ru.contract
             /\ ~Expired(ru, l)
             /\ r.auth # <<>>
             /\ ~EvalPredicateFails(ru, r)
             /\ ~(ru.strict /\ signer_set_hash(r.live) # signer_set_hash(ru.signers))
             /\ ~OutsideLiveSet(r)
             /\ \E k \in DOMAIN ru.calls : ru.calls[k].fn = r.fn
             /\ \E k \in DOMAIN ru.calls :
                    /\ ru.calls[k].fn = r.fn
                    /\ tuple_matches(ru.calls[k], r.args, account)
             /\ ~(HasState(ru) /\ count = {})
             /\ ~ \E max \in ru.max_calls, used \in count : used >= max
<1> DEFINE checks == evaluate_checks(ru, count, l, r, account)
<1>1. DOMAIN checks = 1 .. 10
    BY DEF evaluate_checks
<1>2. \A k \in 1 .. 10 : checks[k].code # "Permit"
    BY DEF evaluate_checks, Check
<1>3. FirstRefusal(checks) = "Permit" <=> \A k \in 1 .. 10 : ~checks[k].fails
    BY <1>1, <1>2, PermitIffNoneFails
<1>4. (\A k \in 1 .. 10 : ~checks[k].fails) <=>
        /\ ~checks[1].fails /\ ~checks[2].fails /\ ~checks[3].fails /\ ~checks[4].fails
        /\ ~checks[5].fails /\ ~checks[6].fails /\ ~checks[7].fails /\ ~checks[8].fails
        /\ ~checks[9].fails /\ ~checks[10].fails
    <2> HIDE DEF checks
    <2>1. \A k \in 1 .. 10 : k = 1 \/ k = 2 \/ k = 3 \/ k = 4 \/ k = 5 \/ k = 6 \/ k = 7
                             \/ k = 8 \/ k = 9 \/ k = 10
        OBVIOUS
    <2> QED BY <2>1
<1>5. /\ checks[1].fails = (r.contract # ru.contract)
      /\ checks[2].fails = Expired(ru, l)
      /\ checks[3].fails = (r.auth = <<>>)
      /\ checks[4].fails = EvalPredicateFails(ru, r)
      /\ checks[5].fails = (ru.strict /\ signer_set_hash(r.live) # signer_set_hash(ru.signers))
      /\ checks[6].fails = OutsideLiveSet(r)
      /\ checks[7].fails = ~ \E k \in DOMAIN ru.calls : ru.calls[k].fn = r.fn
      /\ checks[8].fails = ~ \E k \in DOMAIN ru.calls :
                               /\ ru.calls[k].fn = r.fn
                               /\ tuple_matches(ru.calls[k], r.args, account)
      /\ checks[9].fails = (HasState(ru) /\ count = {})
      /\ checks[10].fails = \E max \in ru.max_calls, used \in count : used >= max
    BY DEF evaluate_checks, Check
<1> QED BY <1>3, <1>4, <1>5 DEF evaluate_generated_rule

-----------------------------------------------------------------------------
(* Signers *)

FirstAt(s, x) == CHOOSE j \in DOMAIN s : s[j] = x /\ \A m \in 1 .. j - 1 : s[m] # x

LEMMA FirstExists ==
    ASSUME NEW s \in Seq(Signers), NEW x, \E j \in DOMAIN s : s[j] = x
    PROVE  /\ FirstAt(s, x) \in DOMAIN s
           /\ s[FirstAt(s, x)] = x
           /\ \A m \in 1 .. FirstAt(s, x) - 1 : s[m] # x
<1> DEFINE at == {j \in DOMAIN s : s[j] = x}
<1>1. DOMAIN s = 1 .. Len(s) /\ Len(s) \in Nat
    OBVIOUS
<1>2. PICK j \in at : \A m \in at : j <= m
    <2>1. at \subseteq Nat /\ at # {}
        BY <1>1
    <2> QED BY <2>1, Least
<1>3. j \in DOMAIN s /\ s[j] = x /\ \A m \in 1 .. j - 1 : s[m] # x
    BY <1>1, <1>2
<1> QED BY <1>3 DEF FirstAt

(* The positions of a list are as many as its length. *)
LEMMA LengthOfDomain ==
    ASSUME NEW n \in Nat
    PROVE  IsFiniteSet(1 .. n) /\ Cardinality(1 .. n) = n
<1>1. IsFiniteSet(1 .. n) /\ Cardinality(1 .. n) = IF 1 > n THEN 0 ELSE n - 1 + 1
    BY FS_Interval
<1> QED BY <1>1

(* Counting the expected signers that authenticated, or the first           *)
(* occurrences of expected signers among those that authenticated, gives    *)
(* the same number: sending a signer twice gains nothing in either program. *)
LEMMA CountsAgree ==
    ASSUME NEW auth \in Seq(Signers), NEW expected \in Seq(Signers), Distinct(expected)
    PROVE  /\ count_matched(auth, expected) = matched_count(auth, expected)
           /\ matched_count(auth, expected) \in Nat
           /\ matched_count(auth, expected) <= Len(expected)
<1> DEFINE E == {k \in DOMAIN expected : \E j \in DOMAIN auth : auth[j] = expected[k]}
           A == {j \in DOMAIN auth :
                    /\ \E k \in DOMAIN expected : expected[k] = auth[j]
                    /\ \A i \in 1 .. j - 1 : auth[i] # auth[j]}
           f == [k \in E |-> FirstAt(auth, expected[k])]
<1>0. /\ DOMAIN auth = 1 .. Len(auth) /\ Len(auth) \in Nat
      /\ DOMAIN expected = 1 .. Len(expected) /\ Len(expected) \in Nat
    OBVIOUS
<1>1. \A k \in E : /\ f[k] \in DOMAIN auth
                   /\ auth[f[k]] = expected[k]
                   /\ \A m \in 1 .. f[k] - 1 : auth[m] # expected[k]
    BY FirstExists
<1>2. f \in [E -> A]
    <2>1. \A k \in E : f[k] \in A
        BY <1>1
    <2> QED BY <2>1
<1>3. \A k, m \in E : f[k] = f[m] => k = m
    BY <1>1 DEF Distinct
<1>4. \A j \in A : \E k \in E : f[k] = j
    <2> SUFFICES ASSUME NEW j \in A PROVE \E k \in E : f[k] = j
        OBVIOUS
    <2>1. PICK k \in DOMAIN expected : expected[k] = auth[j]
        OBVIOUS
    <2>2. k \in E
        BY <2>1
    <2>3. /\ f[k] \in DOMAIN auth /\ auth[f[k]] = auth[j]
          /\ \A m \in 1 .. f[k] - 1 : auth[m] # auth[j]
        BY <1>1, <2>1, <2>2
    <2>4. j \in DOMAIN auth /\ \A m \in 1 .. j - 1 : auth[m] # auth[j]
        OBVIOUS
    <2> HIDE DEF f
    <2>5. f[k] = j
        BY <1>0, <2>3, <2>4
    <2> QED BY <2>2, <2>5
<1>5. f \in Bijection(E, A)
    <2> HIDE DEF f, E, A
    <2> QED BY <1>2, <1>3, <1>4 DEF Bijection, Injection, Surjection, IsInjective
<1>6. IsFiniteSet(E) /\ Cardinality(E) \in Nat /\ Cardinality(E) <= Len(expected)
    <2>1. E \in SUBSET (1 .. Len(expected))
        BY <1>0
    <2> HIDE DEF E
    <2>2. /\ IsFiniteSet(1 .. Len(expected))
          /\ Cardinality(1 .. Len(expected)) = Len(expected)
        BY <1>0, LengthOfDomain
    <2> QED BY <2>1, <2>2, FS_Subset, FS_CardinalityType
<1>7. Cardinality(A) = Cardinality(E)
    <2> HIDE DEF f, E, A
    <2>1. ExistsBijection(E, A)
        BY <1>5 DEF ExistsBijection
    <2> QED BY <2>1, <1>6, FS_Bijection
<1> QED BY <1>6, <1>7 DEF count_matched, matched_count

(* How often a list without repetitions names a signer. *)
LEMMA Occurrences ==
    ASSUME NEW s \in Seq(Signers), Distinct(s), NEW x
    PROVE  Cardinality({k \in DOMAIN s : s[k] = x}) =
             IF \E k \in DOMAIN s : s[k] = x THEN 1 ELSE 0
<1>1. CASE \E k \in DOMAIN s : s[k] = x
    <2>1. PICK k \in DOMAIN s : s[k] = x
        BY <1>1
    <2>2. {m \in DOMAIN s : s[m] = x} = {k}
        BY <2>1 DEF Distinct
    <2> QED BY <1>1, <2>2, FS_Singleton
<1>2. CASE ~ \E k \in DOMAIN s : s[k] = x
    <2>1. {m \in DOMAIN s : s[m] = x} = {}
        BY <1>2
    <2> QED BY <1>2, <2>1, FS_EmptySet
<1> QED BY <1>1, <1>2

(* A list without repetitions whose members all occur in another is not     *)
(* longer, and if it is as long, they have the same members.                *)
LEMMA Included ==
    ASSUME NEW s \in Seq(Signers), NEW t \in Seq(Signers), Distinct(s),
           \A k \in DOMAIN s : \E j \in DOMAIN t : t[j] = s[k]
    PROVE  /\ Len(s) <= Len(t)
           /\ Len(s) = Len(t) => \A j \in DOMAIN t : \E k \in DOMAIN s : s[k] = t[j]
<1> DEFINE S == DOMAIN s
           T == DOMAIN t
           f == [k \in S |-> FirstAt(t, s[k])]
<1>0. S = 1 .. Len(s) /\ Len(s) \in Nat /\ T = 1 .. Len(t) /\ Len(t) \in Nat
    OBVIOUS
<1>1. \A k \in S : f[k] \in T /\ t[f[k]] = s[k]
    BY FirstExists
<1>2. f \in [S -> T]
    <2> HIDE DEF S, T
    <2> QED BY <1>1
<1>3. \A k, m \in S : f[k] = f[m] => k = m
    BY <1>1 DEF Distinct
<1>4. f \in Injection(S, T)
    <2> HIDE DEF S, T, f
    <2> QED BY <1>2, <1>3 DEF Injection, IsInjective
<1>5. IsFiniteSet(S) /\ IsFiniteSet(T) /\ Cardinality(S) = Len(s) /\ Cardinality(T) = Len(t)
    BY <1>0, LengthOfDomain
<1>6. /\ Cardinality(S) <= Cardinality(T)
      /\ Cardinality(S) = Cardinality(T) <=> f \in Surjection(S, T)
    <2> HIDE DEF S, T, f
    <2> QED BY <1>4, <1>5, FS_Injection
<1>7. ASSUME Len(s) = Len(t), NEW j \in T PROVE \E k \in S : s[k] = t[j]
    <2>1. f \in Surjection(S, T)
        BY <1>5, <1>6, <1>7
    <2>2. PICK k \in S : f[k] = j
        <3> HIDE DEF S, T, f
        <3> QED BY <2>1, <1>7 DEF Surjection
    <2> QED BY <1>1, <2>2
<1> QED BY <1>5, <1>6, <1>7

(* The contract's strict check, equal lengths and every compiled signer     *)
(* live, is equality of the two sets' hashed encodings.                     *)
LEMMA StrictAgrees ==
    ASSUME NEW s \in Seq(Signers), NEW t \in Seq(Signers), Distinct(s), Distinct(t)
    PROVE  signer_set_hash(t) = signer_set_hash(s) <=>
             /\ Len(t) = Len(s)
             /\ \A k \in DOMAIN s : \E j \in DOMAIN t : t[j] = s[k]
<1>1. \A x : Cardinality({k \in DOMAIN s : s[k] = x}) =
               IF \E k \in DOMAIN s : s[k] = x THEN 1 ELSE 0
    BY Occurrences
<1>2. \A x : Cardinality({k \in DOMAIN t : t[k] = x}) =
               IF \E k \in DOMAIN t : t[k] = x THEN 1 ELSE 0
    BY Occurrences
<1> DEFINE In(u, x) == \E k \in DOMAIN u : u[k] = x
<1>3. signer_set_hash(t) = signer_set_hash(s) <=> \A x \in Signers : In(t, x) <=> In(s, x)
    <2>1. signer_set_hash(t) = signer_set_hash(s) <=>
            \A x \in Signers : signer_set_hash(t)[x] = signer_set_hash(s)[x]
        BY DEF signer_set_hash
    <2>2. \A x \in Signers : /\ signer_set_hash(t)[x] = IF In(t, x) THEN 1 ELSE 0
                             /\ signer_set_hash(s)[x] = IF In(s, x) THEN 1 ELSE 0
        BY <1>1, <1>2 DEF signer_set_hash
    <2> HIDE DEF In
    <2>3. \A x \in Signers : signer_set_hash(t)[x] = signer_set_hash(s)[x]
                             <=> (In(t, x) <=> In(s, x))
        BY <2>2
    <2> QED BY <2>1, <2>3
<1>4. \A k \in DOMAIN s : s[k] \in Signers
    OBVIOUS
<1>5. \A k \in DOMAIN t : t[k] \in Signers
    OBVIOUS
<1>6. ASSUME \A x \in Signers : In(t, x) <=> In(s, x)
      PROVE  /\ Len(t) = Len(s)
             /\ \A k \in DOMAIN s : \E j \in DOMAIN t : t[j] = s[k]
    <2>1. \A k \in DOMAIN s : \E j \in DOMAIN t : t[j] = s[k]
        BY <1>4, <1>6
    <2>2. \A k \in DOMAIN t : \E j \in DOMAIN s : s[j] = t[k]
        BY <1>5, <1>6
    <2>3. Len(s) <= Len(t) /\ Len(t) <= Len(s)
        BY <2>1, <2>2, Included
    <2> QED BY <2>1, <2>3
<1>7. ASSUME Len(t) = Len(s), \A k \in DOMAIN s : \E j \in DOMAIN t : t[j] = s[k]
      PROVE  \A x \in Signers : In(t, x) <=> In(s, x)
    <2>1. \A k \in DOMAIN t : \E j \in DOMAIN s : s[j] = t[k]
        BY <1>7, Included
    <2> QED BY <1>7, <2>1
<1> QED BY <1>3, <1>6, <1>7

-----------------------------------------------------------------------------
(* Arguments and predicates *)

(* The compiled comparison of one argument and the evaluator's. *)
LEMMA ArgumentAgrees ==
    ASSUME NEW c, c.c \in ConstraintKinds,
           c.c \in {"eq_i128", "le_i128", "ge_i128"} => c.v \in Int,
           NEW value, value.t = "i128" => value.v \in Int,
           NEW account
    PROVE  ArgOk(c, value, account) <=> constraint_satisfied(c, value, account)
<1>1. CASE c.c = "any_value"
    BY <1>1 DEF ArgOk, constraint_satisfied
<1>2. CASE c.c = "eq_self"
    BY <1>2 DEF ArgOk, constraint_satisfied
<1>3. CASE c.c = "eq_address"
    BY <1>3 DEF ArgOk, constraint_satisfied
<1>4. CASE c.c = "eq_scval"
    BY <1>4 DEF ArgOk, constraint_satisfied, exact_xdr_matches
<1>5. CASE c.c = "eq_i128"
    BY <1>5 DEF ArgOk, constraint_satisfied
<1>6. CASE c.c = "le_i128"
    BY <1>6 DEF ArgOk, constraint_satisfied
<1>7. CASE c.c = "ge_i128"
    BY <1>7 DEF ArgOk, constraint_satisfied
<1> QED BY <1>1, <1>2, <1>3, <1>4, <1>5, <1>6, <1>7 DEF ConstraintKinds

LEMMA TuplesAgree ==
    ASSUME NEW ru \in Rules, NEW r, FromAccount(r), NEW account, NEW k \in DOMAIN ru.calls
    PROVE  check_call(ru.calls[k], r.args, account)
           <=> tuple_matches(ru.calls[k], r.args, account)
<1>1. ValidCall(ru.calls[k])
    BY RulesValidated DEF Validated
<1>2. /\ DOMAIN r.args = 1 .. Len(r.args)
      /\ \A j \in DOMAIN r.args : r.args[j].t = "i128" => r.args[j].v \in Int
    BY DEF FromAccount, IsArguments
<1>3. ASSUME Len(r.args) = Len(ru.calls[k].args), NEW j \in DOMAIN ru.calls[k].args
      PROVE  ArgOk(ru.calls[k].args[j], r.args[j], account)
             <=> constraint_satisfied(ru.calls[k].args[j], r.args[j], account)
    <2>1. j \in DOMAIN r.args
        BY <1>1, <1>2, <1>3 DEF ValidCall
    <2>2. /\ ru.calls[k].args[j].c \in ConstraintKinds
          /\ ru.calls[k].args[j].c \in {"eq_i128", "le_i128", "ge_i128"}
               => ru.calls[k].args[j].v \in Int
        BY <1>1, <1>3 DEF ValidCall
    <2> QED BY <1>2, <2>1, <2>2, ArgumentAgrees
<1> QED BY <1>3 DEF check_call, tuple_matches

LEMMA PredicatesAgree ==
    ASSUME NEW ru \in Rules, NEW r, FromAccount(r)
    PROVE  PredicateFails(ru, r) <=> EvalPredicateFails(ru, r)
<1>1. /\ Validated(ru) /\ ru.signers \in Seq(Signers) /\ Distinct(ru.signers)
      /\ r.auth \in Seq(Signers) /\ r.live \in Seq(Signers) /\ Distinct(r.live)
    BY RulesValidated DEF FromAccount, Validated
<1>2. /\ count_matched(r.auth, ru.signers) = matched_count(r.auth, ru.signers)
      /\ matched_count(r.auth, ru.signers) \in Nat
      /\ matched_count(r.auth, ru.signers) <= Len(ru.signers)
      /\ count_matched(r.auth, r.live) = matched_count(r.auth, r.live)
    BY <1>1, CountsAgree
<1>3. Len(ru.signers) \in Nat
    BY <1>1
<1>4. CASE ru.kind = "any_of"
    BY <1>2, <1>4 DEF PredicateFails, EvalPredicateFails, IsDynamic
<1>5. CASE ru.kind = "all_of"
    BY <1>2, <1>3, <1>5 DEF PredicateFails, EvalPredicateFails, IsDynamic
<1>6. CASE ru.kind = "threshold"
    BY <1>2, <1>6 DEF PredicateFails, EvalPredicateFails, IsDynamic
<1>7. CASE ru.kind = "any_of_current_rule_signers"
    BY <1>2, <1>7 DEF PredicateFails, EvalPredicateFails, IsDynamic
<1> QED BY <1>1, <1>4, <1>5, <1>6, <1>7 DEF Validated, Kinds

LEMMA DivergenceAgrees ==
    ASSUME NEW ru \in Rules, NEW r, FromAccount(r)
    PROVE  SetDiverged(ru, r) <=>
             ru.strict /\ signer_set_hash(r.live) # signer_set_hash(ru.signers)
<1>1. /\ ru.signers \in Seq(Signers) /\ Distinct(ru.signers)
      /\ r.live \in Seq(Signers) /\ Distinct(r.live)
      /\ ru.strict <=> ~IsDynamic(ru)
    BY RulesValidated DEF FromAccount, Validated, IsDynamic
<1>2. signer_set_hash(r.live) = signer_set_hash(ru.signers) <=>
        /\ Len(r.live) = Len(ru.signers)
        /\ \A k \in DOMAIN ru.signers : \E j \in DOMAIN r.live : r.live[j] = ru.signers[k]
    BY <1>1, StrictAgrees
<1> QED BY <1>1, <1>2 DEF SetDiverged

(* The two programs decide alike on one installed rule. *)
LEMMA VerdictsAgree ==
    ASSUME NEW ru \in Rules, NEW r, FromAccount(r), NEW count, NEW l, NEW account,
           NEW marker, marker = TRUE, r.kind = "contract"
    PROVE  AccountAdmits(r) /\ enforce_verdict(ru, marker, count, l, r, account) = "Permit"
           <=> evaluate_generated_rule(ru, count, l, r, account) = "Permit"
<1>1. TupleOk(ru, r, account) <=>
        \E k \in DOMAIN ru.calls :
            /\ ru.calls[k].fn = r.fn
            /\ tuple_matches(ru.calls[k], r.args, account)
    BY TuplesAgree DEF TupleOk
<1>2. FnOk(ru, r) <=> \E k \in DOMAIN ru.calls : ru.calls[k].fn = r.fn
    BY DEF FnOk
<1>3. PredicateFails(ru, r) <=> EvalPredicateFails(ru, r)
    BY PredicatesAgree
<1>4. SetDiverged(ru, r) <=>
        ru.strict /\ signer_set_hash(r.live) # signer_set_hash(ru.signers)
    BY DivergenceAgrees
<1> DEFINE spent == \E max \in ru.max_calls, used \in count : used >= max
           missing == HasState(ru) /\ count = {}
           signed == r.auth # <<>>
           inScope == r.contract = ru.contract
<1>5. enforce_verdict(ru, marker, count, l, r, account) = "Permit" <=>
        /\ ~Expired(ru, l) /\ signed /\ ~PredicateFails(ru, r) /\ ~SetDiverged(ru, r)
        /\ inScope /\ FnOk(ru, r) /\ TupleOk(ru, r, account) /\ ~missing /\ ~spent
    <2>1. enforce_verdict(ru, marker, count, l, r, account) = "Permit"
          <=> PassesAll(ru, marker, count, l, r, account)
        BY ContractPermits
    <2> QED BY <2>1 DEF PassesAll
<1>6. evaluate_generated_rule(ru, count, l, r, account) = "Permit" <=>
        /\ ~Expired(ru, l) /\ signed /\ ~EvalPredicateFails(ru, r) /\ ~SetDiverged(ru, r)
        /\ ~OutsideLiveSet(r)
        /\ inScope /\ FnOk(ru, r) /\ TupleOk(ru, r, account) /\ ~missing /\ ~spent
    BY <1>1, <1>2, <1>4, EvaluatorPermits
<1> HIDE DEF spent, missing, signed, inScope
<1> QED BY <1>3, <1>5, <1>6 DEF AccountAdmits

LEMMA AdmittedAgree ==
    ASSUME NEW ru \in Rules, NEW r, FromAccount(r), AccountAdmits(r), NEW count, NEW l, NEW account,
           r.kind = "contract"
    PROVE  enforce_verdict(ru, TRUE, count, l, r, account) = "Permit"
           <=> evaluate_generated_rule(ru, count, l, r, account) = "Permit"
BY VerdictsAgree

-----------------------------------------------------------------------------
(* Reasons *)

(* The reason of a decision is the code of its first failing check. *)
LEMMA FirstIs ==
    ASSUME NEW checks, DOMAIN checks \subseteq Nat,
           NEW k \in DOMAIN checks, checks[k].fails,
           \A j \in DOMAIN checks : j < k => ~checks[j].fails
    PROVE  FirstRefusal(checks) = checks[k].code
<1> DEFINE isFirst(n) == /\ checks[n].fails
                         /\ \A j \in DOMAIN checks : checks[j].fails => n <= j
<1>1. isFirst(k)
    OBVIOUS
<1>2. \A n \in DOMAIN checks : isFirst(n) => n = k
    BY <1>1
<1>3. (CHOOSE n \in DOMAIN checks : isFirst(n)) = k
    <2> HIDE DEF isFirst
    <2> QED BY <1>1, <1>2
<1>4. FirstRefusal(checks) = checks[CHOOSE n \in DOMAIN checks : isFirst(n)].code
    BY DEF FirstRefusal
<1> QED BY <1>3, <1>4

(* The checks the two programs share, in the order both make them on a call *)
(* of the rule's own contract.                                              *)
LEMMA ReasonsAgree ==
    ASSUME NEW ru \in Rules, NEW r, FromAccount(r), NEW count, NEW l, NEW account,
           r.kind = "contract", r.contract = ru.contract,
           ~OutsideLiveSet(r)
    PROVE  /\ evaluate_generated_rule(ru, count, l, r, account) # "NoMatchingRule"
           /\ enforce_verdict(ru, TRUE, count, l, r, account)
                = evaluate_generated_rule(ru, count, l, r, account)
<1> DEFINE C == enforce_checks(ru, TRUE, count, l, r, account)
           E == evaluate_checks(ru, count, l, r, account)
           out == FirstRefusal(E)
<1>1. DOMAIN C = 1 .. 11 /\ DOMAIN E = 1 .. 10
    BY DEF enforce_checks, evaluate_checks
<1>2. /\ ~C[1].fails /\ ~C[6].fails /\ ~C[7].fails /\ ~E[1].fails /\ ~E[6].fails
    BY DEF enforce_checks, evaluate_checks, Check
<1>3. /\ C[2].fails = E[2].fails
      /\ C[3].fails = E[3].fails
    BY DEF enforce_checks, evaluate_checks, Check
<1>4. C[4].fails <=> E[4].fails
    BY PredicatesAgree DEF enforce_checks, evaluate_checks, Check
<1>5. C[5].fails <=> E[5].fails
    BY DivergenceAgrees DEF enforce_checks, evaluate_checks, Check
<1>6. C[8].fails <=> E[7].fails
    BY DEF enforce_checks, evaluate_checks, Check, FnOk
<1>7. C[9].fails <=> E[8].fails
    BY TuplesAgree DEF enforce_checks, evaluate_checks, Check, TupleOk
<1>8. /\ C[10].fails = E[9].fails
      /\ C[11].fails = E[10].fails
    BY DEF enforce_checks, evaluate_checks, Check
<1>9. /\ C[2].code = "RuleExpired" /\ E[2].code = "RuleExpired"
      /\ C[3].code = "ZeroSigners" /\ E[3].code = "ZeroSigners"
      /\ C[4].code = "PredicateUnsatisfied" /\ E[4].code = "PredicateUnsatisfied"
      /\ C[5].code = "SignerSetDiverged" /\ E[5].code = "SignerSetDiverged"
      /\ C[8].code = "FunctionNotAllowed" /\ E[7].code = "FunctionNotAllowed"
      /\ C[9].code = "NoTupleMatched" /\ E[8].code = "NoTupleMatched"
      /\ C[10].code = "MissingState" /\ E[9].code = "MissingState"
      /\ C[11].code = "CallCountExceeded" /\ E[10].code = "CallCountExceeded"
    BY DEF enforce_checks, evaluate_checks, Check
<1> HIDE DEF C, E
<1> DEFINE first == FirstRefusal(C)
<1>10. ASSUME NEW k \in 1 .. 11, C[k].fails, \A j \in 1 .. (k - 1) : ~C[j].fails
       PROVE  first = C[k].code
    <2>1. \A j \in DOMAIN C : j < k => ~C[j].fails
        BY <1>1, <1>10
    <2> QED BY <1>1, <1>10, <2>1, FirstIs
<1>11. ASSUME NEW k \in 1 .. 10, E[k].fails, \A j \in 1 .. (k - 1) : ~E[j].fails
       PROVE  out = E[k].code
    <2>1. \A j \in DOMAIN E : j < k => ~E[j].fails
        BY <1>1, <1>11
    <2> QED BY <1>1, <1>11, <2>1, FirstIs
<1> HIDE DEF first, out
<1>12. ASSUME C[2].fails
       PROVE  first = out /\ out # "NoMatchingRule"
    <2>1. \A j \in 1 .. 1 : ~C[j].fails
        <3>1. \A j \in 1 .. 1 : j = 1
            OBVIOUS
        <3> QED BY <1>2, <1>12, <3>1
    <2>2. \A j \in 1 .. 1 : ~E[j].fails
        <3>1. \A j \in 1 .. 1 : j = 1
            OBVIOUS
        <3> QED BY <1>2, <1>3, <1>12, <3>1
    <2>3. first = C[2].code /\ out = E[2].code
        BY <1>10, <1>11, <1>12, <1>3, <2>1, <2>2
    <2> QED BY <1>9, <2>3
<1>13. ASSUME ~C[2].fails, C[3].fails
       PROVE  first = out /\ out # "NoMatchingRule"
    <2>1. \A j \in 1 .. 2 : ~C[j].fails
        <3>1. \A j \in 1 .. 2 : j = 1 \/ j = 2
            OBVIOUS
        <3> QED BY <1>2, <1>13, <3>1
    <2>2. \A j \in 1 .. 2 : ~E[j].fails
        <3>1. \A j \in 1 .. 2 : j = 1 \/ j = 2
            OBVIOUS
        <3> QED BY <1>2, <1>3, <1>13, <3>1
    <2>3. first = C[3].code /\ out = E[3].code
        BY <1>10, <1>11, <1>13, <1>3, <2>1, <2>2
    <2> QED BY <1>9, <2>3
<1>14. ASSUME ~C[2].fails, ~C[3].fails, C[4].fails
       PROVE  first = out /\ out # "NoMatchingRule"
    <2>1. \A j \in 1 .. 3 : ~C[j].fails
        <3>1. \A j \in 1 .. 3 : j = 1 \/ j = 2 \/ j = 3
            OBVIOUS
        <3> QED BY <1>2, <1>14, <3>1
    <2>2. \A j \in 1 .. 3 : ~E[j].fails
        <3>1. \A j \in 1 .. 3 : j = 1 \/ j = 2 \/ j = 3
            OBVIOUS
        <3> QED BY <1>2, <1>3, <1>4, <1>14, <3>1
    <2>3. first = C[4].code /\ out = E[4].code
        BY <1>10, <1>11, <1>14, <1>4, <2>1, <2>2
    <2> QED BY <1>9, <2>3
<1>15. ASSUME ~C[2].fails, ~C[3].fails, ~C[4].fails, C[5].fails
       PROVE  first = out /\ out # "NoMatchingRule"
    <2>1. \A j \in 1 .. 4 : ~C[j].fails
        <3>1. \A j \in 1 .. 4 : j = 1 \/ j = 2 \/ j = 3 \/ j = 4
            OBVIOUS
        <3> QED BY <1>2, <1>15, <3>1
    <2>2. \A j \in 1 .. 4 : ~E[j].fails
        <3>1. \A j \in 1 .. 4 : j = 1 \/ j = 2 \/ j = 3 \/ j = 4
            OBVIOUS
        <3> QED BY <1>2, <1>3, <1>4, <1>5, <1>15, <3>1
    <2>3. first = C[5].code /\ out = E[5].code
        BY <1>10, <1>11, <1>15, <1>5, <2>1, <2>2
    <2> QED BY <1>9, <2>3
<1>16. ASSUME ~C[2].fails, ~C[3].fails, ~C[4].fails, ~C[5].fails,
              C[8].fails
       PROVE  first = out /\ out # "NoMatchingRule"
    <2>1. \A j \in 1 .. 7 : ~C[j].fails
        <3>1. \A j \in 1 .. 7 : j = 1 \/ j = 2 \/ j = 3 \/ j = 4 \/ j = 5 \/ j = 6 \/ j = 7
            OBVIOUS
        <3> QED BY <1>2, <1>16, <3>1
    <2>2. \A j \in 1 .. 6 : ~E[j].fails
        <3>1. \A j \in 1 .. 6 : j = 1 \/ j = 2 \/ j = 3 \/ j = 4 \/ j = 5 \/ j = 6
            OBVIOUS
        <3> QED BY <1>2, <1>3, <1>4, <1>5, <1>6, <1>16, <3>1
    <2>3. first = C[8].code /\ out = E[7].code
        BY <1>10, <1>11, <1>16, <1>6, <2>1, <2>2
    <2> QED BY <1>9, <2>3
<1>17. ASSUME ~C[2].fails, ~C[3].fails, ~C[4].fails, ~C[5].fails,
              ~C[8].fails, C[9].fails
       PROVE  first = out /\ out # "NoMatchingRule"
    <2>1. \A j \in 1 .. 8 : ~C[j].fails
        <3>1. \A j \in 1 .. 8 : j = 1 \/ j = 2 \/ j = 3 \/ j = 4 \/ j = 5 \/ j = 6
                             \/ j = 7 \/ j = 8
            OBVIOUS
        <3> QED BY <1>2, <1>17, <3>1
    <2>2. \A j \in 1 .. 7 : ~E[j].fails
        <3>1. \A j \in 1 .. 7 : j = 1 \/ j = 2 \/ j = 3 \/ j = 4 \/ j = 5 \/ j = 6 \/ j = 7
            OBVIOUS
        <3> QED BY <1>2, <1>3, <1>4, <1>5, <1>6, <1>7, <1>17, <3>1
    <2>3. first = C[9].code /\ out = E[8].code
        BY <1>10, <1>11, <1>17, <1>7, <2>1, <2>2
    <2> QED BY <1>9, <2>3
<1>18. ASSUME ~C[2].fails, ~C[3].fails, ~C[4].fails, ~C[5].fails,
              ~C[8].fails, ~C[9].fails, C[10].fails
       PROVE  first = out /\ out # "NoMatchingRule"
    <2>1. \A j \in 1 .. 9 : ~C[j].fails
        <3>1. \A j \in 1 .. 9 : j = 1 \/ j = 2 \/ j = 3 \/ j = 4 \/ j = 5 \/ j = 6
                             \/ j = 7 \/ j = 8 \/ j = 9
            OBVIOUS
        <3> QED BY <1>2, <1>18, <3>1
    <2>2. \A j \in 1 .. 8 : ~E[j].fails
        <3>1. \A j \in 1 .. 8 : j = 1 \/ j = 2 \/ j = 3 \/ j = 4 \/ j = 5 \/ j = 6
                             \/ j = 7 \/ j = 8
            OBVIOUS
        <3> QED BY <1>2, <1>3, <1>4, <1>5, <1>6, <1>7, <1>8, <1>18, <3>1
    <2>3. first = C[10].code /\ out = E[9].code
        BY <1>10, <1>11, <1>18, <1>8, <2>1, <2>2
    <2> QED BY <1>9, <2>3
<1>19. ASSUME ~C[2].fails, ~C[3].fails, ~C[4].fails, ~C[5].fails,
              ~C[8].fails, ~C[9].fails, ~C[10].fails, C[11].fails
       PROVE  first = out /\ out # "NoMatchingRule"
    <2>1. \A j \in 1 .. 10 : ~C[j].fails
        <3>1. \A j \in 1 .. 10 : j = 1 \/ j = 2 \/ j = 3 \/ j = 4 \/ j = 5 \/ j = 6
                              \/ j = 7 \/ j = 8 \/ j = 9 \/ j = 10
            OBVIOUS
        <3> QED BY <1>2, <1>19, <3>1
    <2>2. \A j \in 1 .. 9 : ~E[j].fails
        <3>1. \A j \in 1 .. 9 : j = 1 \/ j = 2 \/ j = 3 \/ j = 4 \/ j = 5 \/ j = 6
                             \/ j = 7 \/ j = 8 \/ j = 9
            OBVIOUS
        <3> QED BY <1>2, <1>3, <1>4, <1>5, <1>6, <1>7, <1>8, <1>19, <3>1
    <2>3. first = C[11].code /\ out = E[10].code
        BY <1>10, <1>11, <1>19, <1>8, <2>1, <2>2
    <2> QED BY <1>9, <2>3
<1>20. ASSUME ~C[2].fails, ~C[3].fails, ~C[4].fails, ~C[5].fails,
              ~C[8].fails, ~C[9].fails, ~C[10].fails, ~C[11].fails
       PROVE  first = out /\ out # "NoMatchingRule"
    <2>1. \A j \in 1 .. 11 : j = 1 \/ j = 2 \/ j = 3 \/ j = 4 \/ j = 5 \/ j = 6
                          \/ j = 7 \/ j = 8 \/ j = 9 \/ j = 10 \/ j = 11
        OBVIOUS
    <2>2. \A j \in 1 .. 10 : j = 1 \/ j = 2 \/ j = 3 \/ j = 4 \/ j = 5 \/ j = 6
                          \/ j = 7 \/ j = 8 \/ j = 9 \/ j = 10
        OBVIOUS
    <2>3. \A j \in 1 .. 11 : ~C[j].fails
        BY <1>2, <1>20, <2>1
    <2>4. \A j \in 1 .. 10 : ~E[j].fails
        BY <1>2, <1>3, <1>4, <1>5, <1>6, <1>7, <1>8, <1>20, <2>2
    <2>5. first = "Permit" /\ out = "Permit"
        BY <1>1, <2>3, <2>4 DEF FirstRefusal, first, out
    <2> QED BY <2>5
<1>21. first = out /\ out # "NoMatchingRule"
    BY <1>12, <1>13, <1>14, <1>15, <1>16, <1>17, <1>18, <1>19, <1>20
<1> QED BY <1>21 DEF enforce_verdict, evaluate_generated_rule, first, out, C, E

-----------------------------------------------------------------------------
(* The state machine *)

(***************************************************************************)
(* What makes the budget inductive: the stored count of an installed       *)
(* policy is its permit history, in the ledger and in the transaction.     *)
(***************************************************************************)
Counted(s) ==
    \A i \in Installations :
        s.marker[i] /\ HasState(rule) =>
            /\ s.count[i] = {s.permits[i]}
            /\ \A max \in rule.max_calls : s.permits[i] <= max

IInv == TypeOK /\ Counted(store) /\ Counted(work)

LEMMA TargetType == ASSUME NEW l \in Nat, rule \in Rules PROVE TargetAt(l) \in Nat
<1> DEFINE bounds == {MaxTtl} \cup {SaturatingSub(until, l) : until \in rule.valid_until}
<1>1. bounds \subseteq Nat /\ bounds # {}
    BY RulesValidated, TtlAssumption DEF Validated, SaturatingSub
<1>2. PICK b \in bounds : \A c \in bounds : b <= c
    <2> HIDE DEF bounds
    <2> QED BY <1>1, Least
<1>3. TargetAt(l) \in bounds
    <2>1. TargetAt(l) = CHOOSE ttl \in bounds : \A other \in bounds : ttl <= other
        BY DEF TargetAt
    <2> HIDE DEF bounds
    <2> QED BY <1>2, <2>1
<1> QED BY <1>1, <1>3

LEMMA ExtendType ==
    ASSUME TypeOK, NEW until \in [Entries -> Nat], NEW i, NEW remaining
    PROVE  ExtendTtl(until, i, remaining) \in [Entries -> Nat]
<1>1. ttl_target \in Nat /\ ledger \in Nat
    BY TargetType DEF TypeOK, ttl_target
<1>2. \A e \in Entries : extend_ttl(until[e], ttl_target \div 2, ttl_target) \in Nat
    BY <1>1 DEF extend_ttl
<1> QED BY <1>2 DEF ExtendTtl

LEMMA InitSafe == Init => IInv
<1> SUFFICES ASSUME Init PROVE IInv
    OBVIOUS
<1>1. store \in Stores
    BY TtlAssumption DEF Init, Stores
<1> QED BY <1>1 DEF Init, IInv, TypeOK, Counted

LEMMA EnforceSafe ==
    ASSUME IInv, NEW i \in Installations, NEW r \in Requests, enforce(i, r)
    PROVE  IInv'
<1> USE DEF IInv
<1>0. TypeOK /\ Counted(store) /\ Counted(work)
    OBVIOUS
<1>1. CASE Verdict(i, r) # "Permit"
    BY <1>0, <1>1 DEF enforce, Refused, TypeOK, Counted, HasState
<1>2. CASE Verdict(i, r) = "Permit"
    <2>1. Permitted(i) /\ UNCHANGED <<rule, ledger, store>>
        BY <1>2 DEF enforce
    <2>2. /\ work.marker[i]
          /\ ~(HasState(rule) /\ work.count[i] = {})
          /\ ~ \E max \in rule.max_calls, used \in work.count[i] : used >= max
        <3>1. PassesAll(rule, work.marker[i], work.count[i], ledger, r, AccountOf(i))
            BY <1>2, ContractPermits DEF Verdict
        <3> QED BY <3>1 DEF PassesAll
    <2> DEFINE count == {n + 1 : n \in work.count[i]}
               remaining == {max - n : max \in rule.max_calls, n \in count}
               until == ExtendTtl(work.until, i, remaining)
               used == IF 0 \in remaining THEN work.used[i] ELSE {ledger}
    <2>3. work' = [work EXCEPT !.count[i] = count, !.until = until,
                               !.permits[i] = @ + 1, !.used[i] = used]
        BY <2>1 DEF Permitted
    <2>4. count \in SUBSET Nat /\ used \in SUBSET Nat /\ until \in [Entries -> Nat]
        BY <1>0, ExtendType DEF TypeOK, Stores
    <2> HIDE DEF until, used
    <2>5. work' \in Stores
        <3> HIDE DEF count
        <3>1. work \in Stores
            BY <1>0 DEF TypeOK
        <3>2. work' = [marker  |-> work.marker,
                       count   |-> [work.count EXCEPT ![i] = count],
                       until   |-> until,
                       permits |-> [work.permits EXCEPT ![i] = @ + 1],
                       used    |-> [work.used EXCEPT ![i] = used]]
            BY <2>3, <3>1 DEF Stores
        <3> QED BY <2>4, <3>1, <3>2 DEF Stores
    <2>6. Counted(work)'
        <3> SUFFICES ASSUME NEW j \in Installations, work'.marker[j], HasState(rule)
                     PROVE  /\ work'.count[j] = {work'.permits[j]}
                            /\ \A max \in rule.max_calls : work'.permits[j] <= max
            BY <2>1 DEF Counted, HasState
        <3>1. CASE j # i
            BY <1>0, <2>3, <3>1 DEF TypeOK, Stores, Counted
        <3>2. CASE j = i
            <4>1. work.count[i] = {work.permits[i]} /\ work.permits[i] \in Nat
                BY <1>0, <2>2 DEF TypeOK, Stores, Counted
            <4>2. count = {work.permits[i] + 1}
                BY <4>1
            <4>3. \A max \in rule.max_calls : max \in Nat /\ work.permits[i] < max
                BY <1>0, <2>2, <4>1, RulesValidated DEF TypeOK, Validated
            <4>4. work'.count[i] = count /\ work'.permits[i] = work.permits[i] + 1
                <5> HIDE DEF count
                <5> QED BY <1>0, <2>3 DEF TypeOK, Stores
            <4> QED BY <3>2, <4>1, <4>2, <4>3, <4>4
        <3> QED BY <3>1, <3>2
    <2> QED BY <1>0, <2>1, <2>5, <2>6 DEF TypeOK, Counted, HasState
<1> QED BY <1>1, <1>2

LEMMA InstallSafe ==
    ASSUME IInv, NEW i \in Installations, install(i)
    PROVE  IInv'
<1> USE DEF IInv
<1>0. TypeOK /\ Counted(store) /\ Counted(work)
    OBVIOUS
<1>1. CASE Expired(rule, ledger) \/ work.marker[i]
    BY <1>0, <1>1 DEF install, Refused, TypeOK, Counted, HasState
<1>2. CASE ~(Expired(rule, ledger) \/ work.marker[i])
    <2> DEFINE fresh == [e \in Entries |->
                            IF e \in Dependencies(i) \ {Instance} THEN FreshUntil
                            ELSE work.until[e]]
               until == ExtendTtl(fresh, i, rule.max_calls)
               count == IF HasState(rule) THEN {0} ELSE {}
    <2>1. /\ work' = [work EXCEPT !.marker[i] = TRUE, !.count[i] = count, !.until = until,
                                  !.permits[i] = 0, !.used[i] = {ledger}]
          /\ UNCHANGED <<rule, ledger, store>>
        BY <1>2 DEF install
    <2>2. fresh \in [Entries -> Nat]
        <3>1. FreshUntil \in Nat
            BY <1>0, TtlAssumption DEF FreshUntil, TypeOK
        <3>2. work.until \in [Entries -> Nat]
            BY <1>0 DEF TypeOK, Stores
        <3> QED BY <3>1, <3>2
    <2> HIDE DEF fresh
    <2>3. until \in [Entries -> Nat] /\ count \in SUBSET Nat
        BY <1>0, <2>2, ExtendType
    <2> HIDE DEF until
    <2>4. work' \in Stores
        <3> HIDE DEF count
        <3>1. work \in Stores /\ {ledger} \in SUBSET Nat
            BY <1>0 DEF TypeOK
        <3>2. work' = [marker  |-> [work.marker EXCEPT ![i] = TRUE],
                       count   |-> [work.count EXCEPT ![i] = count],
                       until   |-> until,
                       permits |-> [work.permits EXCEPT ![i] = 0],
                       used    |-> [work.used EXCEPT ![i] = {ledger}]]
            BY <2>1, <3>1 DEF Stores
        <3> QED BY <2>3, <3>1, <3>2 DEF Stores
    <2>5. Counted(work)'
        <3> SUFFICES ASSUME NEW j \in Installations, work'.marker[j], HasState(rule)
                     PROVE  /\ work'.count[j] = {work'.permits[j]}
                            /\ \A max \in rule.max_calls : work'.permits[j] <= max
            BY <2>1 DEF Counted, HasState
        <3>1. CASE j # i
            BY <1>0, <2>1, <3>1 DEF TypeOK, Stores, Counted
        <3>2. CASE j = i
            <4>1. work'.count[i] = {0} /\ work'.permits[i] = 0
                BY <1>0, <2>1 DEF TypeOK, Stores
            <4>2. \A max \in rule.max_calls : max \in Nat
                BY <1>0, RulesValidated DEF TypeOK, Validated
            <4> QED BY <3>2, <4>1, <4>2
        <3> QED BY <3>1, <3>2
    <2> QED BY <1>0, <2>1, <2>4, <2>5 DEF TypeOK, Counted, HasState
<1> QED BY <1>1, <1>2

LEMMA UninstallSafe ==
    ASSUME IInv, NEW i \in Installations, uninstall(i)
    PROVE  IInv'
<1> USE DEF IInv
<1>0. TypeOK /\ Counted(store) /\ Counted(work)
    OBVIOUS
<1>1. CASE ~work.marker[i]
    BY <1>0, <1>1 DEF uninstall, Refused, TypeOK, Counted, HasState
<1>2. CASE work.marker[i]
    <2>1. /\ work' = [work EXCEPT !.marker[i] = FALSE, !.count[i] = {},
                                  !.until[Marker(i)] = 0, !.until[Counter(i)] = 0,
                                  !.permits[i] = 0, !.used[i] = {}]
          /\ UNCHANGED <<rule, ledger, store>>
        BY <1>2 DEF uninstall
    <2>2. work' \in Stores
        BY <1>0, <2>1 DEF TypeOK, Stores
    <2>3. Counted(work)'
        BY <1>0, <2>1 DEF TypeOK, Stores, Counted, HasState
    <2> QED BY <1>0, <2>1, <2>2, <2>3 DEF TypeOK, Counted, HasState
<1> QED BY <1>1, <1>2

LEMMA NextSafe == IInv /\ [Next]_vars => IInv'
<1> SUFFICES ASSUME IInv, [Next]_vars PROVE IInv'
    OBVIOUS
<1>0. TypeOK /\ Counted(store) /\ Counted(work)
    BY DEF IInv
<1>1. CASE Tick
    BY <1>0, <1>1 DEF Tick, IInv, TypeOK, Counted, HasState
<1>2. CASE Commit
    BY <1>0, <1>2 DEF Commit, IInv, TypeOK, Counted, HasState
<1>3. CASE RollBack
    BY <1>0, <1>3 DEF RollBack, IInv, TypeOK, Counted, HasState
<1>4. ASSUME NEW e \in Entries, Restore(e) PROVE IInv'
    <2>1. FreshUntil \in Nat
        BY <1>0, TtlAssumption DEF FreshUntil, TypeOK
    <2>2. /\ store' = [store EXCEPT !.until[e] = FreshUntil]
          /\ work' = store'
          /\ UNCHANGED <<rule, ledger>>
        BY <1>4 DEF Restore
    <2>3. store' \in Stores
        BY <1>0, <2>1, <2>2 DEF TypeOK, Stores
    <2>4. Counted(store)'
        BY <1>0, <2>2 DEF TypeOK, Stores, Counted, HasState
    <2> QED BY <1>0, <2>2, <2>3, <2>4 DEF IInv, TypeOK, Counted, HasState
<1>5. CASE UNCHANGED vars
    BY <1>0, <1>5 DEF vars, IInv, TypeOK, Counted, HasState
<1> QED BY <1>1, <1>2, <1>3, <1>4, <1>5, EnforceSafe, InstallSafe, UninstallSafe DEF Next

(* The count being the history, what remaining_calls reports is what is left. *)
LEMMA SafeBudget == IInv => TypeOK /\ CallBudget
<1> SUFFICES ASSUME IInv,
                    NEW s \in {store, work}, NEW i \in Installations,
                    NEW max \in rule.max_calls, is_installed(s, i)
             PROVE  s.permits[i] <= max /\ remaining_calls(s, i) = {max - s.permits[i]}
    BY DEF IInv, CallBudget
<1>1. s.marker[i] /\ HasState(rule) /\ s.permits[i] \in Nat
    BY DEF is_installed, HasState, IInv, TypeOK, Stores
<1>2. s.count[i] = {s.permits[i]} /\ s.permits[i] <= max
    BY <1>1 DEF IInv, Counted
<1>3. rule.max_calls = {max} /\ max \in Nat
    BY RulesValidated DEF IInv, TypeOK, Validated, IsOption
<1>4. SaturatingSub(max, s.permits[i]) = max - s.permits[i]
    BY <1>1, <1>2, <1>3 DEF SaturatingSub
<1>5. remaining_calls(s, i) = {SaturatingSub(max, s.permits[i])}
    BY <1>1, <1>2, <1>3 DEF remaining_calls
<1> QED BY <1>2, <1>4, <1>5

(***************************************************************************)
(* For every rule, set of accounts and requests, and time to live: an      *)
(* installation never permits more calls than the compiled cap, and        *)
(* remaining_calls tells exactly how many are left, across transactions    *)
(* taken back, entries archived and restored, and other installations of   *)
(* the same deployment.                                                    *)
(***************************************************************************)
THEOREM BudgetSafe == Spec => [](TypeOK /\ CallBudget)
<1>1. Spec => []IInv
    BY InitSafe, NextSafe, PTL DEF Spec
<1> QED BY <1>1, SafeBudget, PTL

(***************************************************************************)
(* The smart account and the compiled contract permit exactly what the     *)
(* reference evaluator permits, for every validated rule and every list of *)
(* signers and arguments, in every state of an installation.               *)
(***************************************************************************)
THEOREM EvaluatorIsContract == Spec => []PermitsAgree
<1>1. IInv => PermitsAgree
    <2> SUFFICES ASSUME IInv, NEW i \in Installations, NEW r \in Requests,
                        is_installed(work, i), r.kind = "contract"
                 PROVE  (AccountAdmits(r) /\ Verdict(i, r) = "Permit")
                        <=> evaluate_generated_rule(rule, work.count[i], ledger, r,
                                                    AccountOf(i)) = "Permit"
        BY DEF PermitsAgree
    <2>1. rule \in Rules /\ work.marker[i] = TRUE
        BY DEF IInv, TypeOK, Stores, is_installed
    <2>2. Verdict(i, r) = enforce_verdict(rule, work.marker[i], work.count[i], ledger, r,
                                          AccountOf(i))
        BY DEF Verdict
    <2>3. FromAccount(r)
        BY RequestsFromAccount
    <2> QED BY <2>1, <2>2, <2>3, VerdictsAgree
<1>2. Spec => []IInv
    BY InitSafe, NextSafe, PTL DEF Spec
<1> QED BY <1>1, <1>2, PTL

(***************************************************************************)
(* On a call of the rule's own contract that the smart account passes on,  *)
(* an installed policy refuses with the error code that stands for the     *)
(* very reason the evaluator gives, for every validated rule: the two      *)
(* programs make their common checks in one order.                         *)
(***************************************************************************)
THEOREM ReasonsAreTheEvaluators == Spec => []ReasonsAgreeInScope
<1>1. IInv => ReasonsAgreeInScope
    <2> SUFFICES ASSUME IInv, NEW i \in Installations, NEW r \in Requests,
                        is_installed(work, i), r.kind = "contract",
                        r.contract = rule.contract, AccountAdmits(r)
                 PROVE  Verdict(i, r) =
                          expected_code(evaluate_generated_rule(rule, work.count[i], ledger,
                                                                r, AccountOf(i)))
        BY DEF ReasonsAgreeInScope
    <2>1. rule \in Rules /\ work.marker[i] = TRUE
        BY DEF IInv, TypeOK, Stores, is_installed
    <2> DEFINE count == work.count[i]
               reason == evaluate_generated_rule(rule, count, ledger, r, AccountOf(i))
    <2>2. Verdict(i, r) = enforce_verdict(rule, TRUE, count, ledger, r, AccountOf(i))
        BY <2>1 DEF Verdict
    <2>3. ~OutsideLiveSet(r)
        BY DEF AccountAdmits
    <2>4. reason # "NoMatchingRule" /\ Verdict(i, r) = reason
        <3>1. rule \in Rules
            BY <2>1
        <3> HIDE DEF count
        <3>2. /\ reason # "NoMatchingRule"
              /\ enforce_verdict(rule, TRUE, count, ledger, r, AccountOf(i)) = reason
            BY <2>3, <3>1, RequestsFromAccount, ReasonsAgree
        <3> QED BY <2>2, <3>2
    <2> QED BY <2>4 DEF expected_code
<1>2. Spec => []IInv
    BY InitSafe, NextSafe, PTL DEF Spec
<1> QED BY <1>1, <1>2, PTL

-----------------------------------------------------------------------------
(* Rent *)

(* The lifetime a call may buy is within the network's maximum and within   *)
(* every window of the rule.                                                *)
LEMMA TargetBounds ==
    ASSUME NEW l \in Nat, rule \in Rules
    PROVE  /\ TargetAt(l) \in Nat
           /\ TargetAt(l) <= MaxTtl
           /\ \A until \in rule.valid_until : TargetAt(l) <= SaturatingSub(until, l)
<1> DEFINE bounds == {MaxTtl} \cup {SaturatingSub(until, l) : until \in rule.valid_until}
<1>1. bounds \subseteq Nat /\ bounds # {}
    BY RulesValidated, TtlAssumption DEF Validated, SaturatingSub
<1>2. PICK b \in bounds : \A c \in bounds : b <= c
    <2> HIDE DEF bounds
    <2> QED BY <1>1, Least
<1>3. TargetAt(l) \in bounds /\ \A c \in bounds : TargetAt(l) <= c
    <2>1. TargetAt(l) = CHOOSE ttl \in bounds : \A other \in bounds : ttl <= other
        BY DEF TargetAt
    <2> HIDE DEF bounds
    <2> QED BY <1>2, <2>1
<1> QED BY <1>1, <1>3

(* So an entry extended by a positive target ends within the window.        *)
LEMMA WindowHolds ==
    ASSUME TypeOK, ttl_target > 0
    PROVE  /\ ledger + ttl_target <= ledger + MaxTtl
           /\ \A until \in rule.valid_until : ledger + ttl_target <= until
<1>1. /\ ttl_target \in Nat /\ ledger \in Nat /\ ttl_target <= MaxTtl
      /\ \A until \in rule.valid_until : ttl_target <= SaturatingSub(until, ledger)
    BY TargetBounds DEF TypeOK, ttl_target
<1>2. \A until \in rule.valid_until : until \in Nat
    BY RulesValidated DEF TypeOK, Validated
<1> QED BY <1>1, <1>2, TtlAssumption DEF SaturatingSub

(* What extend_ttl does to one entry: it never shortens; what it moves, it  *)
(* moves to the target, for a call that leaves calls over; and an entry     *)
(* that was live has at least half the target ahead of it afterwards.       *)
LEMMA Extension ==
    ASSUME TypeOK, NEW until \in [Entries -> Nat], NEW i, NEW remaining, NEW e \in Entries
    PROVE  /\ until[e] <= ExtendTtl(until, i, remaining)[e]
           /\ ExtendTtl(until, i, remaining)[e] > until[e] =>
                /\ e \in Dependencies(i)
                /\ 0 \notin remaining
                /\ ttl_target > 0
                /\ ExtendTtl(until, i, remaining)[e] = ledger + ttl_target
           /\ e \in Dependencies(i) /\ 0 \notin remaining /\ ledger <= until[e] =>
                ledger + ttl_target \div 2 <= ExtendTtl(until, i, remaining)[e]
<1>1. ttl_target \in Nat /\ ledger \in Nat /\ until[e] \in Nat
    BY TargetType DEF TypeOK, ttl_target
<1>2. /\ ttl_target \div 2 \in Nat
      /\ ttl_target \div 2 <= ttl_target
      /\ ttl_target = 0 => ttl_target \div 2 = 0
    BY <1>1
<1> DEFINE moved == extend_ttl(until[e], ttl_target \div 2, ttl_target)
           half == ttl_target \div 2
<1>3. /\ until[e] <= moved
      /\ moved > until[e] => moved = ledger + ttl_target
      /\ ledger <= until[e] => ledger + half <= moved
    <2>1. half \in Nat /\ half <= ttl_target
        BY <1>2
    <2>2. moved = IF until[e] - ledger <= half /\ ledger + ttl_target > until[e]
                  THEN ledger + ttl_target
                  ELSE until[e]
        BY DEF extend_ttl
    <2> HIDE DEF half, moved
    <2> QED BY <1>1, <2>1, <2>2
<1>4. CASE 0 \notin remaining /\ ttl_target > 0
    <2>1. ExtendTtl(until, i, remaining)[e] = IF e \in Dependencies(i) THEN moved ELSE until[e]
        BY <1>4 DEF ExtendTtl
    <2> HIDE DEF moved
    <2> QED BY <1>1, <1>3, <1>4, <2>1
<1>5. CASE ~(0 \notin remaining /\ ttl_target > 0)
    <2>1. ExtendTtl(until, i, remaining)[e] = until[e]
        BY <1>5 DEF ExtendTtl
    <2>2. 0 \notin remaining => half = 0
        BY <1>1, <1>2, <1>5
    <2> HIDE DEF moved
    <2> QED BY <1>1, <1>5, <2>1, <2>2
<1> QED BY <1>4, <1>5

(***************************************************************************)
(* What makes the two rent properties inductive.  An installed policy has  *)
(* every entry it depends on, archived or not; one that is not installed   *)
(* has neither marker nor count, so installing it never lengthens an entry *)
(* that exists; and an entry's life reaches half the target past the last  *)
(* use of every installation that depends on it.  The last is kept as a    *)
(* bound on the ledger an entry lives to, which no passing of time can     *)
(* falsify, instead of as being live now.                                  *)
(***************************************************************************)
EntriesExist(s) ==
    /\ s.until[Instance] # 0
    /\ \A i \in Installations :
        IF s.marker[i] THEN \A e \in Dependencies(i) : s.until[e] # 0
        ELSE s.until[Marker(i)] = 0 /\ s.until[Counter(i)] = 0 /\ s.used[i] = {}

LivesPastUse(s) ==
    \A i \in Installations : \A l \in s.used[i], e \in Dependencies(i) :
        l + TargetAt(l) \div 2 <= s.until[e]

Kept(s) == EntriesExist(s) /\ LivesPastUse(s)

RentInv == IInv /\ ledger >= 1 /\ Kept(store) /\ Kept(work)

(* The keys of different entries differ, and belong to one installation. *)
LEMMA Keys ==
    ASSUME NEW i \in Installations
    PROVE  /\ Instance \in Entries /\ Marker(i) \in Entries /\ Counter(i) \in Entries
           /\ Dependencies(i) \subseteq Entries
           /\ Marker(i) # Instance /\ Counter(i) # Instance /\ Marker(i) # Counter(i)
           /\ \A j \in Installations : j # i =>
                /\ Marker(j) # Marker(i) /\ Counter(j) # Counter(i)
                /\ Marker(j) # Counter(i) /\ Counter(j) # Marker(i)
                /\ Marker(i) \notin Dependencies(j) /\ Counter(i) \notin Dependencies(j)
<1>1. /\ Marker(i) # Instance /\ Counter(i) # Instance
    BY DEF Marker, Counter, Instance
<1>2. \A j \in Installations : Marker(j) # Counter(i) /\ Counter(j) # Marker(i)
    BY DEF Marker, Counter
<1>3. \A j \in Installations : j # i => Marker(j) # Marker(i) /\ Counter(j) # Counter(i)
    BY DEF Marker, Counter
<1>4. Instance \in Entries /\ Marker(i) \in Entries /\ Counter(i) \in Entries
    BY DEF Entries
<1> QED BY <1>1, <1>2, <1>3, <1>4 DEF Dependencies

LEMMA InitKept == Init => RentInv
<1> SUFFICES ASSUME Init PROVE RentInv
    OBVIOUS
<1>1. IInv
    BY InitSafe
<1>2. store.until[Instance] # 0
    BY TtlAssumption DEF Init, Entries
<1>3. ASSUME NEW i \in Installations
      PROVE  store.until[Marker(i)] = 0 /\ store.until[Counter(i)] = 0 /\ store.used[i] = {}
             /\ ~store.marker[i]
    BY Keys DEF Init
<1>4. Kept(store)
    BY <1>2, <1>3 DEF Kept, EntriesExist, LivesPastUse
<1> QED BY <1>1, <1>4 DEF Init, RentInv

(* Dependencies and targets are the rule's, which never changes. *)
LEMMA RuleFixed ==
    ASSUME rule' = rule
    PROVE  /\ \A i : Dependencies(i)' = Dependencies(i)
           /\ \A l : TargetAt(l)' = TargetAt(l)
           /\ \A s : Kept(s) <=> Kept(s)'
<1>1. \A i : Dependencies(i)' = Dependencies(i)
    BY DEF Dependencies, HasState
<1>2. \A l : TargetAt(l)' = TargetAt(l)
    BY DEF TargetAt
<1> QED BY <1>1, <1>2 DEF Kept, EntriesExist, LivesPastUse

(* A state t that only lengthens the entries of s, and records only uses    *)
(* that reach far enough, is kept as s is.                                  *)
LEMMA Lengthened ==
    ASSUME rule \in Rules, NEW s \in Stores, NEW t \in Stores, Kept(s),
           t.marker = s.marker,
           \A e \in Entries : s.until[e] <= t.until[e],
           \A j \in Installations : ~s.marker[j] =>
               /\ t.used[j] = s.used[j]
               /\ t.until[Marker(j)] = s.until[Marker(j)]
               /\ t.until[Counter(j)] = s.until[Counter(j)],
           \A j \in Installations : \A l \in t.used[j] :
               \/ l \in s.used[j]
               \/ \A e \in Dependencies(j) : l + TargetAt(l) \div 2 <= t.until[e]
    PROVE  Kept(t)
<1>1. \A e \in Entries : s.until[e] \in Nat /\ t.until[e] \in Nat
    BY DEF Stores
<1>2. \A j \in Installations : Dependencies(j) \subseteq Entries
    BY Keys
<1>3. EntriesExist(t)
    <2>1. Instance \in Entries
        BY DEF Entries
    <2>2. \A e \in Entries : s.until[e] # 0 => t.until[e] # 0
        BY <1>1
    <2> QED BY <1>2, <2>1, <2>2 DEF Kept, EntriesExist
<1>4. LivesPastUse(t)
    <2> SUFFICES ASSUME NEW j \in Installations, NEW l \in t.used[j],
                        NEW e \in Dependencies(j), l \in s.used[j]
                 PROVE  l + TargetAt(l) \div 2 <= t.until[e]
        BY DEF LivesPastUse
    <2>1. e \in Entries /\ l \in Nat
        BY <1>2 DEF Stores
    <2>2. TargetAt(l) \in Nat
        BY <2>1, TargetType
    <2> DEFINE reach == l + TargetAt(l) \div 2
    <2>3. reach \in Nat
        BY <2>1, <2>2
    <2>4. reach <= s.until[e]
        BY DEF Kept, LivesPastUse
    <2> HIDE DEF reach
    <2>5. reach <= t.until[e]
        BY <1>1, <2>1, <2>3, <2>4
    <2> QED BY <2>5 DEF reach
<1> QED BY <1>3, <1>4 DEF Kept

(* A permitted call extends the entries of its own installation, and only   *)
(* when it leaves calls over.                                               *)
LEMMA PermitRent ==
    ASSUME RentInv, IInv', NEW i \in Installations, NEW r \in Requests, enforce(i, r),
           Verdict(i, r) = "Permit"
    PROVE  Kept(work)' /\ RentStep
<1>0. TypeOK /\ Kept(work) /\ work \in Stores /\ work' \in Stores /\ ledger \in Nat
    BY DEF RentInv, IInv, TypeOK
<1>1. Permitted(i) /\ UNCHANGED <<rule, ledger, store>>
    BY DEF enforce
<1> DEFINE count == {n + 1 : n \in work.count[i]}
           remaining == {max - n : max \in rule.max_calls, n \in count}
           until == ExtendTtl(work.until, i, remaining)
           used == IF 0 \in remaining THEN work.used[i] ELSE {ledger}
<1>2. work' = [work EXCEPT !.count[i] = count, !.until = until,
                           !.permits[i] = @ + 1, !.used[i] = used]
    BY <1>1 DEF Permitted
<1>3. work.until \in [Entries -> Nat]
    BY <1>0 DEF Stores
<1>4. work.marker[i]
    <2>1. PassesAll(rule, work.marker[i], work.count[i], ledger, r, AccountOf(i))
        BY ContractPermits DEF Verdict
    <2> QED BY <2>1 DEF PassesAll
<1> HIDE DEF used, until, remaining
<1>5. /\ work'.marker = work.marker /\ work'.until = until
      /\ work'.count[i] = count
      /\ \A j \in Installations : work'.used[j] = IF j = i THEN used ELSE work.used[j]
    <2> HIDE DEF count
    <2> QED BY <1>0, <1>2 DEF Stores
<1>6. \A e \in Dependencies(i) : e \in Entries /\ ledger <= work.until[e]
    <2>1. \A e \in Dependencies(i) : e \in Entries
        BY Keys
    <2>2. \A e \in Dependencies(i) : work.until[e] # 0
        BY <1>0, <1>4 DEF Kept, EntriesExist
    <2> QED BY <2>1, <2>2 DEF enforce, Live
<1>7. \A e \in Entries :
        /\ work.until[e] <= until[e]
        /\ until[e] > work.until[e] =>
             /\ e \in Dependencies(i) /\ 0 \notin remaining /\ ttl_target > 0
             /\ until[e] = ledger + ttl_target
        /\ e \in Dependencies(i) /\ 0 \notin remaining /\ ledger <= work.until[e] =>
             ledger + ttl_target \div 2 <= until[e]
    BY <1>0, <1>3, Extension DEF until
<1>8. Kept(work)'
    <2>1. \A e \in Entries : work.until[e] <= work'.until[e]
        BY <1>5, <1>7
    <2>2. \A j \in Installations : ~work.marker[j] =>
            /\ work'.used[j] = work.used[j]
            /\ work'.until[Marker(j)] = work.until[Marker(j)]
            /\ work'.until[Counter(j)] = work.until[Counter(j)]
        <3> SUFFICES ASSUME NEW j \in Installations, ~work.marker[j]
                     PROVE  /\ work'.used[j] = work.used[j]
                            /\ until[Marker(j)] = work.until[Marker(j)]
                            /\ until[Counter(j)] = work.until[Counter(j)]
            BY <1>5
        <3>1. j # i
            BY <1>4
        <3>2. /\ Marker(j) \in Entries /\ Marker(j) \notin Dependencies(i)
              /\ Counter(j) \in Entries /\ Counter(j) \notin Dependencies(i)
            BY <3>1, Keys
        <3>3. \A e \in Entries : until[e] \in Nat /\ work.until[e] \in Nat
            BY <1>0, <1>5 DEF Stores
        <3> QED BY <1>5, <1>7, <3>1, <3>2, <3>3
    <2>3. \A j \in Installations : \A l \in work'.used[j] :
            \/ l \in work.used[j]
            \/ \A e \in Dependencies(j) : l + TargetAt(l) \div 2 <= work'.until[e]
        <3> SUFFICES ASSUME NEW j \in Installations, NEW l \in work'.used[j],
                            l \notin work.used[j], NEW e \in Dependencies(j)
                     PROVE  l + TargetAt(l) \div 2 <= until[e]
            BY <1>5
        <3>1. j = i /\ 0 \notin remaining /\ l = ledger
            BY <1>5 DEF used
        <3> QED BY <1>6, <1>7, <3>1 DEF ttl_target
    <2>4. Kept(work')
        BY <1>0, <1>5, <2>1, <2>2, <2>3, Lengthened DEF TypeOK
    <2> QED BY <1>1, <2>4, RuleFixed
<1>9. RentStep
    <2> SUFFICES ASSUME NEW e \in Entries, until[e] > work.until[e]
                 PROVE  /\ \A end \in rule.valid_until : until[e] <= end
                        /\ until[e] <= ledger + MaxTtl
                        /\ e \in Dependencies(i)
                        /\ is_installed(work', i)
                        /\ 0 \notin remaining_calls(work', i)
        BY <1>5 DEF RentStep
    <2>1. e \in Dependencies(i) /\ 0 \notin remaining /\ ttl_target > 0
          /\ until[e] = ledger + ttl_target
        BY <1>7
    <2>2. is_installed(work', i)
        BY <1>4, <1>5 DEF is_installed
    <2>3. 0 \notin remaining_calls(work', i)
        <3> SUFFICES ASSUME NEW max \in rule.max_calls, NEW n \in count
                     PROVE  SaturatingSub(max, n) # 0
            BY <1>4, <1>5 DEF remaining_calls
        <3>1. HasState(rule) /\ max \in Nat
            BY <1>0, RulesValidated DEF HasState, TypeOK, Validated
        <3>2. Counted(work)'
            BY DEF IInv
        <3>3. n = work'.permits[i] /\ work'.permits[i] <= max /\ n \in Nat
            <4>1. count = {work'.permits[i]} /\ work'.permits[i] <= max
                BY <1>1, <1>4, <1>5, <3>1, <3>2 DEF Counted
            <4>2. work'.permits[i] \in Nat
                BY <1>0 DEF Stores
            <4> QED BY <4>1, <4>2
        <3>4. max - n # 0
            BY <2>1 DEF remaining
        <3> QED BY <3>1, <3>3, <3>4 DEF SaturatingSub
    <2> QED BY <1>0, <2>1, <2>2, <2>3, WindowHolds
<1> QED BY <1>8, <1>9

(* A successful installation makes its own entries and extends nothing for  *)
(* another installation.                                                    *)
LEMMA InstallRent ==
    ASSUME RentInv, IInv', NEW i \in Installations, install(i),
           ~(Expired(rule, ledger) \/ work.marker[i])
    PROVE  Kept(work)' /\ RentStep
<1>0. /\ TypeOK /\ Kept(work) /\ work \in Stores /\ work' \in Stores
      /\ ledger \in Nat /\ ledger >= 1
    BY DEF RentInv, IInv, TypeOK
<1> DEFINE fresh == [e \in Entries |->
                        IF e \in Dependencies(i) \ {Instance} THEN FreshUntil
                        ELSE work.until[e]]
           until == ExtendTtl(fresh, i, rule.max_calls)
           count == IF HasState(rule) THEN {0} ELSE {}
<1>1. /\ work' = [work EXCEPT !.marker[i] = TRUE, !.count[i] = count, !.until = until,
                              !.permits[i] = 0, !.used[i] = {ledger}]
      /\ UNCHANGED <<rule, ledger, store>>
    BY DEF install
<1>2. FreshUntil \in Nat /\ ledger <= FreshUntil
    BY <1>0, TtlAssumption DEF FreshUntil
<1>3. fresh \in [Entries -> Nat]
    <2>1. work.until \in [Entries -> Nat]
        BY <1>0 DEF Stores
    <2> QED BY <1>2, <2>1
<1>4. /\ Instance \in Entries /\ ledger <= work.until[Instance]
      /\ work.until[Marker(i)] = 0 /\ work.until[Counter(i)] = 0
    BY <1>0 DEF install, Live, Kept, EntriesExist, Entries
<1>5. \A e \in Entries :
        /\ e \in Dependencies(i) => ledger <= fresh[e]
        /\ work.until[e] <= fresh[e]
        /\ e \notin Dependencies(i) => fresh[e] = work.until[e]
        /\ fresh[e] # work.until[e] => work.until[e] = 0 /\ fresh[e] = FreshUntil
    <2> SUFFICES ASSUME NEW e \in Entries
                 PROVE  /\ e \in Dependencies(i) => ledger <= fresh[e]
                        /\ work.until[e] <= fresh[e]
                        /\ e \notin Dependencies(i) => fresh[e] = work.until[e]
                        /\ fresh[e] # work.until[e] =>
                             work.until[e] = 0 /\ fresh[e] = FreshUntil
        OBVIOUS
    <2>1. work.until[e] \in Nat
        BY <1>0 DEF Stores
    <2>2. e \in Dependencies(i) => e = Instance \/ e = Marker(i) \/ e = Counter(i)
        BY DEF Dependencies
    <2>3. fresh[e] = IF e \in Dependencies(i) \ {Instance} THEN FreshUntil ELSE work.until[e]
        OBVIOUS
    <2> HIDE DEF fresh
    <2> QED BY <1>0, <1>2, <1>4, <2>1, <2>2, <2>3
<1>6. 0 \notin rule.max_calls
    BY <1>0, RulesValidated DEF TypeOK, Validated
<1> HIDE DEF fresh
<1>7. \A e \in Entries :
        /\ fresh[e] <= until[e]
        /\ until[e] > fresh[e] =>
             /\ e \in Dependencies(i) /\ ttl_target > 0
             /\ until[e] = ledger + ttl_target
        /\ e \in Dependencies(i) => ledger + ttl_target \div 2 <= until[e]
    BY <1>0, <1>3, <1>5, <1>6, Extension
<1> HIDE DEF until
<1>8. /\ work'.until = until /\ work'.count[i] = count
      /\ \A j \in Installations :
           /\ work'.marker[j] = IF j = i THEN TRUE ELSE work.marker[j]
           /\ work'.used[j] = IF j = i THEN {ledger} ELSE work.used[j]
    <2> HIDE DEF count
    <2>1. work' = [marker  |-> [work.marker EXCEPT ![i] = TRUE],
                   count   |-> [work.count EXCEPT ![i] = count],
                   until   |-> until,
                   permits |-> [work.permits EXCEPT ![i] = 0],
                   used    |-> [work.used EXCEPT ![i] = {ledger}]]
        BY <1>0, <1>1 DEF Stores
    <2> QED BY <1>0, <2>1 DEF Stores
<1>9. \A e \in Entries : /\ until[e] \in Nat /\ fresh[e] \in Nat /\ work.until[e] \in Nat
                         /\ work.until[e] <= until[e]
                         /\ e \notin Dependencies(i) => until[e] = work.until[e]
    <2>1. \A e \in Entries : until[e] \in Nat /\ fresh[e] \in Nat /\ work.until[e] \in Nat
        BY <1>0, <1>3, <1>8 DEF Stores
    <2> QED BY <1>5, <1>7, <2>1
<1>10. Kept(work')
    <2>1. EntriesExist(work')
        <3>1. until[Instance] # 0
            BY <1>0, <1>4, <1>9
        <3>2. \A e \in Dependencies(i) : until[e] # 0
            <4>1. \A e \in Dependencies(i) : e \in Entries
                BY Keys
            <4> QED BY <1>0, <1>5, <1>7, <1>9, <4>1
        <3>3. ASSUME NEW j \in Installations, j # i, work.marker[j],
                     NEW e \in Dependencies(j)
              PROVE  until[e] # 0
            <4>1. e \in Entries /\ work.until[e] # 0
                BY <1>0, <3>3, Keys DEF Kept, EntriesExist
            <4> QED BY <1>9, <4>1
        <3>4. ASSUME NEW j \in Installations, j # i, ~work.marker[j]
              PROVE  until[Marker(j)] = 0 /\ until[Counter(j)] = 0 /\ work'.used[j] = {}
            <4>1. /\ Marker(j) \in Entries /\ Marker(j) \notin Dependencies(i)
                  /\ Counter(j) \in Entries /\ Counter(j) \notin Dependencies(i)
                BY <3>4, Keys
            <4>2. work.until[Marker(j)] = 0 /\ work.until[Counter(j)] = 0 /\ work.used[j] = {}
                BY <1>0, <3>4 DEF Kept, EntriesExist
            <4> QED BY <1>8, <1>9, <3>4, <4>1, <4>2
        <3> QED BY <1>8, <3>1, <3>2, <3>3, <3>4 DEF EntriesExist
    <2>2. LivesPastUse(work')
        <3> SUFFICES ASSUME NEW j \in Installations, NEW l \in work'.used[j],
                            NEW e \in Dependencies(j)
                     PROVE  l + TargetAt(l) \div 2 <= until[e]
            BY <1>8 DEF LivesPastUse
        <3>1. e \in Entries
            BY Keys
        <3>2. CASE j = i
            BY <1>7, <1>8, <3>1, <3>2 DEF ttl_target
        <3>3. CASE j # i
            <4>1. l \in work.used[j] /\ l \in Nat
                BY <1>0, <1>8, <3>3 DEF Stores
            <4>2. l + TargetAt(l) \div 2 <= work.until[e]
                BY <1>0, <4>1 DEF Kept, LivesPastUse
            <4> DEFINE reach == l + TargetAt(l) \div 2
            <4>3. reach \in Nat
                <5>1. TargetAt(l) \in Nat
                    BY <1>0, <4>1, TargetType DEF TypeOK
                <5> QED BY <4>1, <5>1
            <4>4. reach <= work.until[e]
                BY <4>2
            <4> HIDE DEF reach
            <4>5. reach <= until[e]
                BY <1>9, <3>1, <4>3, <4>4
            <4> QED BY <4>5 DEF reach
        <3> QED BY <3>2, <3>3
    <2> QED BY <2>1, <2>2 DEF Kept
<1>11. RentStep
    <2> SUFFICES ASSUME NEW e \in Entries, until[e] > work.until[e],
                        ~(work.until[e] < ledger /\ until[e] = FreshUntil)
                 PROVE  /\ \A end \in rule.valid_until : until[e] <= end
                        /\ until[e] <= ledger + MaxTtl
                        /\ e \in Dependencies(i)
                        /\ is_installed(work', i)
                        /\ 0 \notin remaining_calls(work', i)
        BY <1>8 DEF RentStep, GivenByHost
    <2>1. until[e] > fresh[e]
        BY <1>0, <1>5, <1>7, <1>9
    <2>2. e \in Dependencies(i) /\ ttl_target > 0 /\ until[e] = ledger + ttl_target
        BY <1>7, <2>1
    <2>3. is_installed(work', i)
        BY <1>8 DEF is_installed
    <2>4. 0 \notin remaining_calls(work', i)
        <3> SUFFICES ASSUME NEW max \in rule.max_calls, NEW n \in count
                     PROVE  SaturatingSub(max, n) # 0
            BY <1>8 DEF remaining_calls
        <3>1. max \in Nat \ {0} /\ n = 0
            BY <1>0, RulesValidated DEF TypeOK, Validated
        <3> QED BY <3>1 DEF SaturatingSub
    <2> QED BY <1>0, <2>2, <2>3, <2>4, WindowHolds
<1> QED BY <1>1, <1>10, <1>11, RuleFixed

LEMMA UninstallRent ==
    ASSUME RentInv, IInv', NEW i \in Installations, uninstall(i), work.marker[i]
    PROVE  Kept(work)' /\ RentStep
<1>0. TypeOK /\ Kept(work) /\ work \in Stores /\ work' \in Stores
    BY DEF RentInv, IInv, TypeOK
<1>1. /\ work' = [work EXCEPT !.marker[i] = FALSE, !.count[i] = {},
                              !.until[Marker(i)] = 0, !.until[Counter(i)] = 0,
                              !.permits[i] = 0, !.used[i] = {}]
      /\ UNCHANGED <<rule, ledger, store>>
    BY DEF uninstall
<1>2. /\ \A e \in Entries : work'.until[e] = IF e = Marker(i) \/ e = Counter(i) THEN 0
                                             ELSE work.until[e]
      /\ \A j \in Installations :
           /\ work'.marker[j] = IF j = i THEN FALSE ELSE work.marker[j]
           /\ work'.used[j] = IF j = i THEN {} ELSE work.used[j]
    <2>1. work' = [marker  |-> [work.marker EXCEPT ![i] = FALSE],
                   count   |-> [work.count EXCEPT ![i] = {}],
                   until   |-> [work.until EXCEPT ![Marker(i)] = 0, ![Counter(i)] = 0],
                   permits |-> [work.permits EXCEPT ![i] = 0],
                   used    |-> [work.used EXCEPT ![i] = {}]]
        BY <1>0, <1>1 DEF Stores
    <2> QED BY <1>0, <2>1 DEF Stores
<1>3. \A e \in Entries : work.until[e] \in Nat /\ work'.until[e] <= work.until[e]
    <2>1. \A e \in Entries : work.until[e] \in Nat
        BY <1>0 DEF Stores
    <2> QED BY <1>2, <2>1
<1>4. \A j \in Installations : j # i =>
        \A e \in Dependencies(j) : e \in Entries /\ work'.until[e] = work.until[e]
    BY <1>2, Keys
<1>5. EntriesExist(work')
    <2>1. work'.until[Instance] # 0
        BY <1>0, <1>2, Keys DEF Kept, EntriesExist
    <2>2. work'.until[Marker(i)] = 0 /\ work'.until[Counter(i)] = 0
        BY <1>2, Keys
    <2>3. ASSUME NEW j \in Installations, j # i, ~work.marker[j]
          PROVE  work'.until[Marker(j)] = 0 /\ work'.until[Counter(j)] = 0
                 /\ work'.used[j] = {}
        <3>1. /\ Marker(j) \in Entries /\ Counter(j) \in Entries
              /\ Marker(j) # Marker(i) /\ Counter(j) # Counter(i)
              /\ Marker(j) # Counter(i) /\ Counter(j) # Marker(i)
            BY <2>3, Keys
        <3> QED BY <1>0, <1>2, <2>3, <3>1 DEF Kept, EntriesExist
    <2>4. ASSUME NEW j \in Installations, j # i, work.marker[j], NEW e \in Dependencies(j)
          PROVE  work'.until[e] # 0
        BY <1>0, <1>4, <2>4 DEF Kept, EntriesExist
    <2> QED BY <1>2, <2>1, <2>2, <2>3, <2>4 DEF EntriesExist
<1>6. LivesPastUse(work')
    BY <1>0, <1>2, <1>4 DEF Kept, LivesPastUse
<1>7. RentStep
    <2>1. \A e \in Entries : ~(work'.until[e] > work.until[e])
        BY <1>0, <1>3 DEF Stores
    <2> QED BY <2>1 DEF RentStep
<1> QED BY <1>1, <1>5, <1>6, <1>7, RuleFixed DEF Kept

LEMMA RestoreRent ==
    ASSUME RentInv, IInv', NEW e \in Entries, Restore(e)
    PROVE  Kept(store)' /\ Kept(work)' /\ RentStep
<1>0. /\ TypeOK /\ Kept(store) /\ store \in Stores /\ store' \in Stores
      /\ ledger \in Nat /\ work = store
    BY DEF RentInv, IInv, TypeOK, Restore
<1>1. /\ store.until[e] # 0 /\ ledger > store.until[e]
      /\ store' = [store EXCEPT !.until[e] = FreshUntil]
      /\ work' = store' /\ UNCHANGED <<rule, ledger>>
    BY DEF Restore
<1>2. FreshUntil \in Nat /\ ledger <= FreshUntil
    BY <1>0, TtlAssumption DEF FreshUntil
<1>3. /\ store'.marker = store.marker /\ store'.used = store.used
      /\ \A f \in Entries : store'.until[f] = IF f = e THEN FreshUntil ELSE store.until[f]
    BY <1>0, <1>1 DEF Stores
<1>4. \A f \in Entries : store.until[f] \in Nat
    BY <1>0 DEF Stores
<1>5. \A f \in Entries : store.until[f] <= store'.until[f]
    BY <1>0, <1>1, <1>2, <1>3, <1>4
<1>6. \A j \in Installations : ~store.marker[j] =>
        /\ store'.used[j] = store.used[j]
        /\ store'.until[Marker(j)] = store.until[Marker(j)]
        /\ store'.until[Counter(j)] = store.until[Counter(j)]
    <2> SUFFICES ASSUME NEW j \in Installations, ~store.marker[j]
                 PROVE  /\ store'.until[Marker(j)] = store.until[Marker(j)]
                        /\ store'.until[Counter(j)] = store.until[Counter(j)]
        BY <1>3
    <2>1. store.until[Marker(j)] = 0 /\ store.until[Counter(j)] = 0
        BY <1>0 DEF Kept, EntriesExist
    <2>2. Marker(j) \in Entries /\ Counter(j) \in Entries
        BY Keys
    <2> QED BY <1>1, <1>3, <2>1, <2>2
<1>7. Kept(store')
    BY <1>0, <1>3, <1>5, <1>6, Lengthened DEF TypeOK
<1>8. RentStep
    <2> SUFFICES ASSUME NEW f \in Entries, work'.until[f] > work.until[f]
                 PROVE  GivenByHost(f)
        BY DEF RentStep
    <2>1. f = e
        BY <1>0, <1>1, <1>3, <1>4
    <2> QED BY <1>0, <1>1, <1>3, <2>1 DEF GivenByHost
<1> QED BY <1>1, <1>7, <1>8, RuleFixed

(* One step per action. *)
LEMMA NextRent == RentInv /\ [Next]_vars => RentInv' /\ [RentStep]_vars
<1> SUFFICES ASSUME RentInv, [Next]_vars PROVE RentInv' /\ [RentStep]_vars
    OBVIOUS
<1>0. /\ IInv /\ TypeOK /\ ledger \in Nat /\ ledger >= 1 /\ Kept(store) /\ Kept(work)
      /\ store \in Stores /\ work \in Stores
    BY DEF RentInv, IInv, TypeOK
<1>1. IInv'
    BY <1>0, NextSafe
<1>2. ASSUME UNCHANGED <<rule, store, work>>, ledger' = ledger \/ ledger' = ledger + 1
      PROVE  RentInv' /\ RentStep
    <2>1. Kept(store)' /\ Kept(work)' /\ ledger' >= 1
        BY <1>0, <1>2, RuleFixed
    <2>2. \A e \in Entries : work.until[e] \in Nat
        BY <1>0 DEF Stores
    <2>3. RentStep
        BY <1>2, <2>2 DEF RentStep
    <2> QED BY <1>1, <2>1, <2>3 DEF RentInv
<1>3. ASSUME work' = store, UNCHANGED <<rule, ledger, store>>
      PROVE  RentInv' /\ RentStep
    <2>1. Kept(store)' /\ Kept(work)' /\ ledger' >= 1
        BY <1>0, <1>3, RuleFixed
    <2> QED BY <1>1, <1>3, <2>1 DEF RentInv, RentStep
<1>4. ASSUME Kept(work)', RentStep, UNCHANGED <<rule, ledger, store>>
      PROVE  RentInv' /\ RentStep
    <2>1. Kept(store)' /\ ledger' >= 1
        BY <1>0, <1>4, RuleFixed
    <2> QED BY <1>1, <1>4, <2>1 DEF RentInv
<1>5. CASE Tick
    BY <1>2, <1>5 DEF Tick
<1>6. CASE Commit
    <2>1. store' = work /\ UNCHANGED <<rule, ledger, work>>
        BY <1>6 DEF Commit
    <2>2. Kept(store)' /\ Kept(work)' /\ ledger' >= 1
        BY <1>0, <2>1, RuleFixed
    <2>3. RentStep
        <3>1. \A e \in Entries : work.until[e] \in Nat
            BY <1>0 DEF Stores
        <3> QED BY <2>1, <3>1 DEF RentStep
    <2> QED BY <1>1, <2>2, <2>3 DEF RentInv
<1>7. CASE RollBack
    BY <1>3, <1>7 DEF RollBack
<1>8. ASSUME NEW e \in Entries, Restore(e) PROVE RentInv' /\ RentStep
    <2>1. ledger' >= 1
        BY <1>0, <1>8 DEF Restore
    <2> QED BY <1>1, <1>8, <2>1, RestoreRent DEF RentInv
<1>9. ASSUME NEW i \in Installations, install(i) PROVE RentInv' /\ RentStep
    <2>1. CASE Expired(rule, ledger) \/ work.marker[i]
        BY <1>3, <1>9, <2>1 DEF install, Refused
    <2>2. CASE ~(Expired(rule, ledger) \/ work.marker[i])
        <3>1. UNCHANGED <<rule, ledger, store>>
            BY <1>9, <2>2 DEF install
        <3> QED BY <1>1, <1>4, <1>9, <2>2, <3>1, InstallRent
    <2> QED BY <2>1, <2>2
<1>10. ASSUME NEW i \in Installations, uninstall(i) PROVE RentInv' /\ RentStep
    <2>1. CASE ~work.marker[i]
        BY <1>3, <1>10, <2>1 DEF uninstall, Refused
    <2>2. CASE work.marker[i]
        <3>1. UNCHANGED <<rule, ledger, store>>
            BY <1>10, <2>2 DEF uninstall
        <3> QED BY <1>1, <1>4, <1>10, <2>2, <3>1, UninstallRent
    <2> QED BY <2>1, <2>2
<1>11. ASSUME NEW i \in Installations, NEW r \in Requests, enforce(i, r)
       PROVE  RentInv' /\ RentStep
    <2>1. CASE Verdict(i, r) # "Permit"
        BY <1>3, <1>11, <2>1 DEF enforce, Refused
    <2>2. CASE Verdict(i, r) = "Permit"
        <3>1. UNCHANGED <<rule, ledger, store>>
            BY <1>11, <2>2 DEF enforce
        <3> QED BY <1>1, <1>4, <1>11, <2>2, <3>1, PermitRent
    <2> QED BY <2>1, <2>2
<1>12. CASE UNCHANGED vars
    BY <1>2, <1>12 DEF vars
<1> QED BY <1>5, <1>6, <1>7, <1>8, <1>9, <1>10, <1>11, <1>12 DEF Next

(***************************************************************************)
(* For every rule, window, cap and network limit: beyond what the host     *)
(* gives a new or restored entry, no step of the policy moves an entry's   *)
(* end past the rule's window or the network's maximum, and none extends   *)
(* one for an installation that has no call left.                          *)
(***************************************************************************)
THEOREM RentIsForUse == Spec => RentOnlyForUse
<1>1. Init => RentInv
    BY InitKept
<1>2. RentInv /\ [Next]_vars => RentInv'
    BY NextRent
<1>3. RentInv /\ [Next]_vars => [RentStep]_vars
    BY NextRent
<1> QED BY <1>1, <1>2, <1>3, PTL DEF Spec, RentOnlyForUse

(***************************************************************************)
(* For half the lifetime it could buy at its last installation or use, an  *)
(* installation has no archived entry: whatever other installations of the *)
(* deployment were removed or used, and whatever was restored or rolled    *)
(* back in between.                                                        *)
(***************************************************************************)
THEOREM UsedStaysAlive == Spec => []UseKeepsAlive
<1>1. RentInv => UseKeepsAlive
    <2> SUFFICES ASSUME RentInv, NEW i \in Installations, NEW l \in work.used[i],
                        ledger <= l + TargetAt(l) \div 2, NEW e \in Dependencies(i)
                 PROVE  ledger <= work.until[e]
        BY DEF UseKeepsAlive, Live
    <2>1. /\ rule \in Rules /\ ledger \in Nat /\ l \in Nat /\ e \in Entries
          /\ work.until[e] \in Nat
        BY Keys DEF RentInv, IInv, TypeOK, Stores
    <2> DEFINE reach == l + TargetAt(l) \div 2
    <2>2. reach \in Nat
        <3>1. TargetAt(l) \in Nat
            BY <2>1, TargetType
        <3> QED BY <2>1, <3>1
    <2>3. ledger <= reach /\ reach <= work.until[e]
        BY DEF RentInv, Kept, LivesPastUse
    <2> HIDE DEF reach
    <2> QED BY <2>1, <2>2, <2>3
<1>2. Spec => []RentInv
    <2>1. RentInv /\ [Next]_vars => RentInv'
        BY NextRent
    <2> QED BY InitKept, <2>1, PTL DEF Spec
<1> QED BY <1>1, <1>2, PTL

-----------------------------------------------------------------------------
(* Lists of checks *)

(* Every check that fails refuses with one of these codes. *)
Coded(checks, C) == \A k \in DOMAIN checks : checks[k].fails => checks[k].code \in C

LEMMA RefusalCoded ==
    ASSUME NEW checks, DOMAIN checks \subseteq Nat, NEW C, Coded(checks, C), ~Passes(checks)
    PROVE  FirstRefusal(checks) \in C
<1> DEFINE failing == {k \in DOMAIN checks : checks[k].fails}
           isFirst(k) == /\ checks[k].fails
                         /\ \A j \in DOMAIN checks : checks[j].fails => k <= j
<1>1. failing \subseteq Nat /\ failing # {} /\ DOMAIN checks \subseteq Nat
    BY DEF Passes
<1>2. PICK x \in failing : \A y \in failing : ~(<<y, x>> \in OpToRel(<, Nat))
    <2> HIDE DEF failing
    <2> QED BY <1>1, WFMin, NatLessThanWellFounded
<1>3. \A y \in failing : ~(y < x)
    <2> HIDE DEF failing
    <2> QED BY <1>1, <1>2 DEF OpToRel
<1>4. \A y \in failing : x <= y
    BY <1>1, <1>3
<1>5. x \in DOMAIN checks /\ isFirst(x)
    BY <1>4
<1> DEFINE n == CHOOSE k \in DOMAIN checks : isFirst(k)
<1>6. n \in DOMAIN checks /\ isFirst(n)
    BY <1>5
<1>7. FirstRefusal(checks) = checks[n].code
    <2>1. \E k \in DOMAIN checks : checks[k].fails
        BY <1>5
    <2> QED BY <2>1 DEF FirstRefusal
<1> HIDE DEF n
<1> QED BY <1>6, <1>7 DEF Coded

LEMMA Joined ==
    ASSUME NEW S, NEW a \in Seq(S), NEW b \in Seq(S)
    PROVE  /\ a \o b \in Seq(S)
           /\ Passes(a \o b) => Passes(a) /\ Passes(b)
           /\ \A C : Coded(a, C) /\ Coded(b, C) => Coded(a \o b, C)
<1> DEFINE c == a \o b
<1>1. c \in Seq(S) /\ Len(c) = Len(a) + Len(b)
    OBVIOUS
<1>2. \A k \in 1 .. Len(a) : c[k] = a[k] /\ k \in 1 .. Len(c)
    OBVIOUS
<1>3. \A k \in 1 .. Len(b) : c[Len(a) + k] = b[k] /\ Len(a) + k \in 1 .. Len(c)
    OBVIOUS
<1>4. \A k \in 1 .. Len(c) : \/ k \in 1 .. Len(a) /\ c[k] = a[k]
                             \/ k - Len(a) \in 1 .. Len(b) /\ c[k] = b[k - Len(a)]
    OBVIOUS
<1>5. DOMAIN a = 1 .. Len(a) /\ DOMAIN b = 1 .. Len(b) /\ DOMAIN c = 1 .. Len(c)
    BY <1>1
<1> HIDE DEF c
<1>6. Passes(c) => Passes(a) /\ Passes(b)
    <2> SUFFICES ASSUME Passes(c) PROVE Passes(a) /\ Passes(b)
        OBVIOUS
    <2>1. Passes(a)
        BY <1>2, <1>5 DEF Passes
    <2>2. ASSUME NEW k \in 1 .. Len(b) PROVE ~b[k].fails
        <3>1. ~c[Len(a) + k].fails
            BY <1>3, <1>5 DEF Passes
        <3> QED BY <1>3, <3>1
    <2> QED BY <1>5, <2>1, <2>2 DEF Passes
<1>7. ASSUME NEW C, Coded(a, C), Coded(b, C) PROVE Coded(c, C)
    <2> SUFFICES ASSUME NEW k \in 1 .. Len(c), c[k].fails PROVE c[k].code \in C
        BY <1>5 DEF Coded
    <2>1. CASE k \in 1 .. Len(a) /\ c[k] = a[k]
        BY <1>5, <1>7, <2>1 DEF Coded
    <2>2. CASE k - Len(a) \in 1 .. Len(b) /\ c[k] = b[k - Len(a)]
        <3> DEFINE m == k - Len(a)
        <3> HIDE DEF m
        <3>1. m \in DOMAIN b /\ c[k] = b[m]
            BY <1>5, <2>2 DEF m
        <3> QED BY <1>7, <3>1 DEF Coded
    <2> QED BY <1>4, <2>1, <2>2
<1> QED BY <1>1, <1>6, <1>7 DEF c

-----------------------------------------------------------------------------
(***************************************************************************)
(* The capture.  What was read is part of one ledger's state, all of what  *)
(* was asked unless an answer lacked something; once it is confirmed, the  *)
(* two headers and the values are of one ledger and the keys are those the *)
(* values name.                                                            *)
(***************************************************************************)
Part(found, s, ks) ==
    /\ DOMAIN found \subseteq ks \cap DOMAIN s
    /\ found = Restrict(s, DOMAIN found)

ReadHolds ==
    /\ read.ledger \in 1 .. Len(chain)
    /\ Part(read.found, chain[read.ledger], keys)
    /\ omitted = 0 => DOMAIN read.found = keys \cap DOMAIN chain[read.ledger]

(* What the plan has found before anything is read. *)
Planned(j) ==
    /\ j.flaw # "spec"
    /\ \A p \in Range(j.policies) : p.ref \in {"generated", "spending"}

CaptureInv ==
    /\ job \in Jobs
    /\ chain \in Seq(job.stores)
    /\ omitted \in Nat
    /\ pc \in {"after", "finish"} => ReadHolds
    /\ pc = "finish" => before = read.ledger /\ keys = closure(InitialKeys(job), read.found)
    /\ pc # "done" => answer = NoAnswer
    /\ pc \notin {"plan", "done"} => Planned(job)

CodesOfPlan ==
    {"E_SPEC_INVALID", "E_POLICY_BINDING_INVALID", "E_RESOURCE_LIMIT", "E_REGISTRY_SIGNATURE",
     "E_REGISTRY_EXPIRED", "E_INCOMPATIBLE_ACCOUNT", "E_UNSUPPORTED_PATTERN",
     "E_UNREGISTERED_TEMPLATE", "E_BUILD"}

LEMMA InitCapture == CheckInit => CaptureInv
<1> SUFFICES ASSUME CheckInit PROVE CaptureInv
    OBVIOUS
<1>1. PICK s \in job.stores : chain = <<s>>
    BY DEF CheckInit
<1>2. chain \in Seq(job.stores)
    <2> DEFINE S == job.stores
    <2>1. s \in S /\ chain = <<s>>
        BY <1>1
    <2> HIDE DEF S
    <2>2. <<s>> \in Seq(S)
        BY <2>1
    <2> QED BY <2>1, <2>2 DEF S
<1> QED BY <1>2 DEF CheckInit, CaptureInv

(* A ledger that closes leaves the earlier ones as they are. *)
LEMMA ChainGrows ==
    ASSUME CaptureInv, CloseLedger
    PROVE  /\ chain' \in Seq(job.stores) /\ Len(chain') = Len(chain) + 1
           /\ \A l \in 1 .. Len(chain) : chain'[l] = chain[l]
<1>1. chain \in Seq(job.stores)
    BY DEF CaptureInv
<1>2. PICK s \in job.stores : chain' = Append(chain, s)
    BY DEF CloseLedger
<1> QED BY <1>1, <1>2

LEMMA ReadIsPart ==
    ASSUME CaptureInv, read_entries
    PROVE  ReadHolds' /\ omitted' \in Nat
<1>1. PICK l \in Nodes : \E lost \in Losses(keys, l) : Note(lost) /\ read' = Reply(keys, l, lost)
    BY DEF read_entries
<1>2. PICK lost \in Losses(keys, l) : Note(lost) /\ read' = Reply(keys, l, lost)
    BY <1>1
<1>3. l \in 1 .. Len(chain) /\ UNCHANGED <<chain, keys>>
    BY DEF Nodes, read_entries
<1> DEFINE s == chain[l]
           D == (keys \cap DOMAIN s) \ lost
<1>4. read'.ledger = l /\ read'.found = Restrict(s, D)
    BY <1>2 DEF Reply, Existing
<1>5. DOMAIN read'.found = D
    BY <1>4 DEF Restrict
<1>6. read'.found = Restrict(s, DOMAIN read'.found)
    BY <1>4, <1>5
<1>7. omitted' \in Nat /\ (omitted' = 0 => lost = {})
    BY <1>2 DEF Note, CaptureInv
<1>8. Part(read'.found, s, keys)
    BY <1>5, <1>6 DEF Part
<1>9. omitted' = 0 => DOMAIN read'.found = keys \cap DOMAIN s
    BY <1>5, <1>7
<1>10. chain'[read'.ledger] = s
    BY <1>3, <1>4
<1> HIDE DEF s, D
<1>11. ReadHolds'
    BY <1>3, <1>4, <1>8, <1>9, <1>10 DEF ReadHolds
<1> QED BY <1>7, <1>11

LEMMA PlanCodes == Coded(plan_checks(job), CodesOfPlan) /\ DOMAIN plan_checks(job) = 1 .. 17
BY DEF Coded, plan_checks, Check, CodesOfPlan

LEMMA PlanPasses ==
    ASSUME FirstRefusal(plan_checks(job)) = "Permit"
    PROVE  Planned(job)
<1> DEFINE c == plan_checks(job)
<1>1. DOMAIN c = 1 .. 17 /\ \A k \in 1 .. 17 : c[k].code # "Permit"
    BY DEF plan_checks, Check
<1>2. c[1].fails <=> job.flaw = "spec"
    BY DEF plan_checks, Check
<1>3. c[17].fails <=> \E p \in Range(job.policies) : p.ref \notin {"generated", "spending"}
    BY DEF plan_checks, Check
<1> HIDE DEF c
<1>4. \A k \in DOMAIN c : ~c[k].fails
    BY <1>1, PermitIffNoneFails DEF c
<1>5. ~c[1].fails /\ ~c[17].fails
    BY <1>1, <1>4
<1> QED BY <1>2, <1>3, <1>5 DEF Planned

LEMMA NextCapture == CaptureInv /\ [CheckNext]_checkVars => CaptureInv'
<1> SUFFICES ASSUME CaptureInv, [CheckNext]_checkVars PROVE CaptureInv'
    OBVIOUS
<1>1. /\ job \in Jobs /\ chain \in Seq(job.stores) /\ omitted \in Nat
      /\ pc \in {"after", "finish"} => ReadHolds
      /\ pc = "finish" => before = read.ledger /\ keys = closure(InitialKeys(job), read.found)
      /\ pc # "done" => answer = NoAnswer
      /\ pc \notin {"plan", "done"} => Planned(job)
    BY DEF CaptureInv
<1>2. CASE CloseLedger
    <2>1. /\ chain' \in Seq(job.stores) /\ Len(chain') = Len(chain) + 1
          /\ \A l \in 1 .. Len(chain) : chain'[l] = chain[l]
        BY <1>2, ChainGrows
    <2>2. UNCHANGED <<job, pc, before, keys, read, omitted, answer>>
        BY <1>2 DEF CloseLedger, check
    <2>3. ASSUME ReadHolds PROVE ReadHolds'
        <3>1. read.ledger \in 1 .. Len(chain) /\ Len(chain) \in Nat
            BY <1>1, <2>3 DEF ReadHolds
        <3>2. read'.ledger \in 1 .. Len(chain') /\ chain'[read'.ledger] = chain[read.ledger]
            BY <2>1, <2>2, <3>1
        <3> QED BY <2>2, <2>3, <3>2 DEF ReadHolds
    <2> QED BY <1>1, <2>1, <2>2, <2>3 DEF CaptureInv
<1>3. CASE SnapshotExpires \/ Done \/ UNCHANGED checkVars
    <2>1. UNCHANGED <<job, chain, pc, before, keys, read, omitted, answer>>
        BY <1>3 DEF SnapshotExpires, Done, checkVars, check
    <2>2. ReadHolds => ReadHolds'
        BY <2>1 DEF ReadHolds
    <2> QED BY <1>1, <2>1, <2>2 DEF CaptureInv
<1>4. ASSUME UNCHANGED <<job, chain>>, omitted' \in Nat, pc' = "done" PROVE CaptureInv'
    BY <1>1, <1>4 DEF CaptureInv
<1>5. ASSUME UNCHANGED <<job, chain, answer>>, omitted' \in Nat, pc # "done", Planned(job),
             pc' \in {"network", "discover", "before", "read"}
      PROVE  CaptureInv'
    BY <1>1, <1>5 DEF CaptureInv
<1>6. CASE RequestFails
    BY <1>1, <1>4, <1>6 DEF RequestFails, Answered
<1>7. CASE plan_policy_check_read
    BY <1>1, <1>4, <1>5, <1>7, PlanPasses DEF plan_policy_check_read, Answered
<1>8. CASE verify_network
    BY <1>1, <1>5, <1>8 DEF verify_network
<1>9. CASE Discover
    <2>1. UNCHANGED <<job, chain>> /\ omitted' \in Nat /\ pc = "discover"
        BY <1>1, <1>9 DEF Discover, Note
    <2>2. pc' = "done" \/ (pc' \in {"before", "discover"} /\ UNCHANGED answer)
        BY <1>9 DEF Discover, Discovered, Answered
    <2> QED BY <1>1, <1>4, <1>5, <2>1, <2>2
<1>10. CASE header
    BY <1>1, <1>5, <1>10 DEF header
<1>11. CASE read_entries
    <2>1. ReadHolds' /\ omitted' \in Nat
        BY <1>11, ReadIsPart
    <2>2. UNCHANGED <<job, chain, answer>> /\ pc = "read" /\ pc' = "after"
        BY <1>11 DEF read_entries
    <2> QED BY <1>1, <2>1, <2>2 DEF CaptureInv
<1>12. CASE Confirm
    <2>1. UNCHANGED <<job, chain, omitted>> /\ pc = "after"
        BY <1>12 DEF Confirm
    <2>2. PICK after \in Nodes : LET named == closure(InitialKeys(job), read.found) IN
            \/ ~Anchored(after) /\ Changed
            \/ Answered(Failure("E_RPC"))
            \/ /\ Anchored(after)
               /\ \/ ~ClosureHolds(named) /\ Changed
                  \/ ClosureHolds(named) /\ pc' = "finish" /\ UNCHANGED <<check, answer>>
        BY <1>12 DEF Confirm
    <2>3. CASE Changed
        BY <1>1, <1>4, <1>5, <2>1, <2>3 DEF Changed, Answered
    <2>4. CASE Answered(Failure("E_RPC"))
        BY <1>1, <1>4, <2>1, <2>4 DEF Answered
    <2>5. CASE /\ Anchored(after) /\ ClosureHolds(closure(InitialKeys(job), read.found))
               /\ pc' = "finish" /\ UNCHANGED <<check, answer>>
        <3>1. UNCHANGED <<before, keys, read>>
            BY <2>5 DEF check
        <3>2. ReadHolds'
            BY <1>1, <2>1, <3>1 DEF ReadHolds
        <3>3. before' = read'.ledger /\ keys' = closure(InitialKeys(job'), read'.found)
            BY <2>1, <2>5, <3>1 DEF Anchored, ClosureHolds
        <3> QED BY <1>1, <2>1, <2>5, <3>2, <3>3 DEF CaptureInv
    <2> QED BY <2>2, <2>3, <2>4, <2>5
<1>13. CASE finish_policy_check
    BY <1>1, <1>4, <1>13 DEF finish_policy_check, Answered
<1> QED BY <1>2, <1>3, <1>6, <1>7, <1>8, <1>9, <1>10, <1>11, <1>12, <1>13 DEF CheckNext, Step

LEMMA CaptureAlways == CheckSpec => []CaptureInv
BY InitCapture, NextCapture, PTL DEF CheckSpec

-----------------------------------------------------------------------------
(* What a confirmed capture says *)

KnownKinds(found) ==
    \A k \in DOMAIN found :
        k[1] = "SignerData" => found[k].val.signer.kind \in {"delegated", "contract", "external"}

(* The code keys of a closure are those its own instances name. *)
LEMMA CodeOfClosure ==
    ASSUME NEW j, NEW found, KnownKinds(found)
    PROVE  UnreferencedCode(closure(InitialKeys(j), found), found) = {}
<1> SUFFICES ASSUME NEW k \in closure(InitialKeys(j), found), k[1] = "code"
             PROVE  k \in CodeKeys(found)
    BY DEF UnreferencedCode
<1>1. k \notin InitialKeys(j)
    BY DEF InitialKeys, additional_keys, StateTags, policy_key, InstanceKey, RuleKey
<1>2. k \notin RuleNames(found)
    BY DEF RuleNames, SignerKey, PolicyKey
<1>3. k \notin {InstanceKey(found[n].val.address) : n \in {m \in DOMAIN found : m[1] = "PolicyData"}}
    BY DEF InstanceKey
<1>4. ASSUME NEW n \in DOMAIN found, n[1] = "SignerData", k \in SignerNames(found[n].val.signer)
      PROVE  FALSE
    <2> DEFINE signer == found[n].val.signer
    <2>1. signer.kind \in {"delegated", "contract", "external"}
        BY <1>4 DEF KnownKinds
    <2> HIDE DEF signer
    <2>2. k \in SignerNames(signer)
        BY <1>4 DEF signer
    <2> QED BY <2>1, <2>2 DEF SignerNames, Classic, InstanceKey
<1>5. k \notin UNION {SignerNames(found[n].val.signer) :
                         n \in {m \in DOMAIN found : m[1] = "SignerData"}}
    BY <1>4
<1> QED BY <1>1, <1>2, <1>3, <1>5 DEF closure

LEMMA ReadKinds ==
    ASSUME CaptureInv, ReadHolds
    PROVE  KnownKinds(read.found)
<1> DEFINE s == chain[read.ledger]
           f == read.found
<1>1. job \in Jobs /\ s \in job.stores
    <2> DEFINE S == job.stores
    <2>1. chain \in Seq(S) /\ job \in Jobs
        BY DEF CaptureInv
    <2> HIDE DEF S
    <2>2. s \in S
        BY <2>1 DEF ReadHolds
    <2> QED BY <2>1, <2>2 DEF S
<1>2. Part(f, s, keys)
    BY DEF ReadHolds
<1> HIDE DEF s, f
<1>3. \A k \in DOMAIN f : k \in DOMAIN s /\ f[k] = s[k]
    BY <1>2 DEF Part, Restrict
<1>4. \A k \in DOMAIN s :
        k[1] = "SignerData" => s[k].val.signer.kind \in {"delegated", "contract", "external"}
    BY <1>1, JobsAssumption
<1>5. KnownKinds(f)
    BY <1>3, <1>4 DEF KnownKinds
<1> QED BY <1>5 DEF f

Attributed == answer # Failure("E_INCOMPLETE_ACCOUNT_STATE")

LEMMA NextAttributed == CaptureInv /\ Attributed /\ [CheckNext]_checkVars => Attributed'
<1> SUFFICES ASSUME CaptureInv, Attributed, [CheckNext]_checkVars PROVE Attributed'
    OBVIOUS
<1>1. ASSUME UNCHANGED answer PROVE Attributed'
    BY <1>1 DEF Attributed
<1>2. ASSUME NEW c, c # "E_INCOMPLETE_ACCOUNT_STATE", answer' = Failure(c) PROVE Attributed'
    BY <1>2 DEF Attributed, Failure, Result
<1>3. CASE plan_policy_check_read
    <2>1. CASE UNCHANGED answer
        BY <1>1, <2>1
    <2>2. CASE /\ FirstRefusal(plan_checks(job)) # "Permit"
               /\ answer' = policy_check_unavailable(FirstRefusal(plan_checks(job)))
        <3> DEFINE code == FirstRefusal(plan_checks(job))
        <3>1. ~Passes(plan_checks(job))
            BY <2>2 DEF FirstRefusal, Passes
        <3>2. code \in CodesOfPlan
            BY <3>1, PlanCodes, RefusalCoded
        <3> HIDE DEF code
        <3>3. answer' = policy_check_unavailable(code)
            BY <2>2 DEF code
        <3>4. CASE code \in Unrecognized
            BY <3>3, <3>4 DEF policy_check_unavailable, Attributed, Failure, Result
        <3>5. CASE code \notin Unrecognized
            BY <1>2, <3>2, <3>3, <3>5 DEF policy_check_unavailable, CodesOfPlan
        <3> QED BY <3>4, <3>5
    <2> QED BY <1>3, <2>1, <2>2 DEF plan_policy_check_read, Answered
<1>4. CASE finish_policy_check
    <2>1. CASE answer' = Failure("E_REGISTRY_EXPIRED")
        BY <1>2, <2>1
    <2>2. CASE answer' = Finished(job, keys, before, read.ledger, read.found)
        <3>1. ReadHolds /\ keys = closure(InitialKeys(job), read.found)
            BY <1>4 DEF finish_policy_check, CaptureInv
        <3>2. KnownKinds(read.found)
            BY <3>1, ReadKinds
        <3> DEFINE f == read.found
                   reason == evaluate_observed(job, keys, read.ledger, f)
                   r == Restoration(keys, read.ledger, f)
        <3>3. UnreferencedCode(keys, f) = {}
            BY <3>1, <3>2, CodeOfClosure
        <3>4. answer' = Result(Kind(reason), reason, read.ledger, before, r)
            BY <2>2, <3>3 DEF Finished
        <3> HIDE DEF reason, r
        <3> QED BY <3>4 DEF Kind, Result, Failure, Attributed
    <2> QED BY <1>4, <2>1, <2>2 DEF finish_policy_check, Answered
<1>5. CASE RequestFails \/ Discover \/ Confirm
    <2>1. UNCHANGED answer \/ answer' = Failure("E_RPC")
        BY <1>5 DEF RequestFails, Discover, Discovered, Confirm, Changed, Answered
    <2> QED BY <1>1, <1>2, <2>1
<1>6. CASE CloseLedger \/ SnapshotExpires \/ verify_network \/ header \/ read_entries \/ Done
           \/ UNCHANGED checkVars
    BY <1>1, <1>6 DEF CloseLedger, SnapshotExpires, verify_network, header, read_entries, Done, checkVars
<1> QED BY <1>3, <1>4, <1>5, <1>6 DEF CheckNext, Step

LEMMA WholeNow == CaptureInv /\ Attributed => CaptureIsWhole
<1> SUFFICES ASSUME CaptureInv, Attributed PROVE CaptureIsWhole
    OBVIOUS
<1> SUFFICES ASSUME pc = "finish"
             PROVE  LET s == chain[read.ledger]
                    IN  /\ before = read.ledger
                        /\ \A k \in DOMAIN read.found : read.found[k] = s[k]
                        /\ omitted = 0 =>
                            keys = closure(InitialKeys(job), Restrict(s, keys \cap DOMAIN s))
                        /\ \A k \in keys \cap DOMAIN s : k \in DOMAIN read.found \/ omitted > 0
    BY DEF CaptureIsWhole, Attributed
<1> DEFINE s == chain[read.ledger]
           f == read.found
<1>1. ReadHolds /\ before = read.ledger /\ keys = closure(InitialKeys(job), f) /\ omitted \in Nat
    BY DEF CaptureInv
<1>2. Part(f, s, keys) /\ (omitted = 0 => DOMAIN f = keys \cap DOMAIN s)
    BY <1>1 DEF ReadHolds
<1> HIDE DEF s, f
<1>3. \A k \in DOMAIN f : f[k] = s[k]
    BY <1>2 DEF Part, Restrict
<1>4. omitted = 0 => f = Restrict(s, keys \cap DOMAIN s)
    BY <1>2 DEF Part
<1>5. \A k \in keys \cap DOMAIN s : k \in DOMAIN f \/ omitted > 0
    BY <1>1, <1>2
<1> QED BY <1>1, <1>3, <1>4, <1>5 DEF s, f

(***************************************************************************)
(* What capture_policy_state hands over is the rule's whole closure at the *)
(* one ledger both headers name, less only what the endpoint left out, and *)
(* finish_policy_check never fails to attribute it.                        *)
(***************************************************************************)
THEOREM CaptureWhole == CheckSpec => []CaptureIsWhole
<1>1. CheckInit => Attributed
    BY DEF CheckInit, Attributed, NoAnswer, Failure, Result
<1> QED BY <1>1, InitCapture, NextCapture, NextAttributed, WholeNow, PTL DEF CheckSpec

-----------------------------------------------------------------------------
(***************************************************************************)
(* An answer's ledger.  An evaluation that concludes has found the capture *)
(* complete, live and recognized, so it is the ledger's own state on every *)
(* key the execution touches.                                              *)
(***************************************************************************)
LEMMA ListOf ==
    ASSUME NEW n \in Nat, NEW T, NEW f \in [1 .. n -> T]
    PROVE  f \in Seq(T)
OBVIOUS

LEMMA AvailabilityCoded ==
    ASSUME NEW asked, NEW l, NEW f
    PROVE  /\ Coded(availability_checks(asked, l, f), Inconclusive)
           /\ DOMAIN availability_checks(asked, l, f) \subseteq Nat
BY DEF Coded, availability_checks, Check, Inconclusive

LEMMA AvailabilityPassed ==
    ASSUME NEW asked, NEW l, NEW f, Passes(availability_checks(asked, l, f))
    PROVE  /\ DOMAIN f = asked
           /\ \A k \in DOMAIN f : k[1] # "account" => ~(f[k].ttl < l)
           /\ Restoration(asked, l, f) = "not_required"
<1> DEFINE c == availability_checks(asked, l, f)
<1>1. c[1].fails <=> \E k \in DOMAIN f : k[1] # "account" /\ f[k].ttl < l
    BY DEF availability_checks, Check
<1>2. c[2].fails <=> DOMAIN f # asked
    BY DEF availability_checks, Check
<1>3. 1 \in DOMAIN c /\ 2 \in DOMAIN c
    BY DEF availability_checks
<1> HIDE DEF c
<1>4. ~c[1].fails /\ ~c[2].fails
    BY <1>3 DEF Passes, c
<1>5. DOMAIN f = asked /\ ~\E k \in DOMAIN f : k[1] # "account" /\ f[k].ttl < l
    BY <1>1, <1>2, <1>4
<1> QED BY <1>5 DEF Restoration

FixedConfiguration(j, f) ==
    << Check(code_hash(f, Self) # j.account_hash, CodeRefusal(f, Self, "account_code_changed")),
       Check(\/ f[RuleKey].val.context # j.rule.contract
             \/ f[RuleKey].val.name # j.name
             \/ f[RuleKey].val.until # j.rule.valid_until,
             "installed_rule_configuration_differs_from_spec"),
       Check(~IsInjective(live_policies(f)), "duplicate_live_policy"),
       Check(Range(live_policies(f)) # {p.address : p \in Range(j.policies)},
             "installed_policy_set_differs_from_bindings") >>

PolicyCode(j, f) ==
    [k \in DOMAIN j.policies |->
        Check(code_hash(f, j.policies[k].address) # j.policies[k].hash,
              CodeRefusal(f, j.policies[k].address, "policy_code_changed"))]

LEMMA ConfigurationChecks ==
    ASSUME NEW j \in Jobs, NEW f
    PROVE  LET c == configuration_checks(j, f)
           IN  /\ Coded(c, Inconclusive) /\ DOMAIN c \subseteq Nat
               /\ Passes(c) => Passes(FixedConfiguration(j, f)) /\ Passes(PolicyCode(j, f))
<1> DEFINE c == configuration_checks(j, f)
           a == FixedConfiguration(j, f)
           b == PolicyCode(j, f)
           T == Range(a) \cup Range(b)
<1>1. c = a \o b
    BY DEF configuration_checks, FixedConfiguration, PolicyCode
<1>2. DOMAIN a = 1 .. 4
    BY DEF FixedConfiguration
<1>3. a \in [1 .. 4 -> T]
    BY <1>2 DEF Range, FixedConfiguration
<1>4. PICK n \in Nat : DOMAIN j.policies = 1 .. n
    <2> DEFINE ps == j.policies
    <2>1. IsList(ps)
        BY JobsAssumption
    <2> HIDE DEF ps
    <2>2. Len(ps) \in Nat /\ DOMAIN ps = 1 .. Len(ps)
        BY <2>1 DEF IsList
    <2> QED BY <2>2 DEF ps
<1>5. b \in [1 .. n -> T]
    BY <1>4 DEF Range, PolicyCode
<1>6. Coded(a, Inconclusive)
    BY DEF FixedConfiguration, Coded, Check, CodeRefusal, Inconclusive
<1>7. Coded(b, Inconclusive)
    BY DEF PolicyCode, Coded, Check, CodeRefusal, Inconclusive
<1> HIDE DEF a, b, c, T
<1>8. a \in Seq(T) /\ b \in Seq(T)
    BY <1>3, <1>4, <1>5, ListOf
<1>9. a \o b \in Seq(T) /\ (Passes(a \o b) => Passes(a) /\ Passes(b)) /\ Coded(a \o b, Inconclusive)
    BY <1>6, <1>7, <1>8, Joined
<1>10. DOMAIN c \subseteq Nat
    BY <1>1, <1>9
<1>11. Coded(c, Inconclusive) /\ DOMAIN c \subseteq Nat /\ (Passes(c) => Passes(a) /\ Passes(b))
    BY <1>1, <1>9, <1>10
<1> QED BY <1>11 DEF a, b, c

LEMMA ConfigurationPassed ==
    ASSUME NEW j \in Jobs, NEW f, Passes(configuration_checks(j, f))
    PROVE  /\ code_hash(f, Self) = j.account_hash
           /\ Range(live_policies(f)) = {p.address : p \in Range(j.policies)}
           /\ \A p \in Range(j.policies) : code_hash(f, p.address) = p.hash
           /\ f[RuleKey].val.context = j.rule.contract
           /\ f[RuleKey].val.until = j.rule.valid_until
<1> DEFINE a == FixedConfiguration(j, f)
           b == PolicyCode(j, f)
<1>1. Passes(a) /\ Passes(b)
    BY ConfigurationChecks
<1>2. DOMAIN a = 1 .. 4 /\ DOMAIN b = DOMAIN j.policies
    BY DEF FixedConfiguration, PolicyCode
<1>3. ~a[1].fails /\ ~a[2].fails /\ ~a[4].fails
    <2> HIDE DEF a
    <2> QED BY <1>1, <1>2 DEF Passes
<1>4. a[1].fails <=> code_hash(f, Self) # j.account_hash
    BY DEF FixedConfiguration, Check
<1>5. a[4].fails <=> Range(live_policies(f)) # {p.address : p \in Range(j.policies)}
    BY DEF FixedConfiguration, Check
<1>6. ASSUME NEW k \in DOMAIN j.policies
      PROVE  code_hash(f, j.policies[k].address) = j.policies[k].hash
    <2>1. b[k].fails <=> code_hash(f, j.policies[k].address) # j.policies[k].hash
        BY DEF PolicyCode, Check
    <2>2. ~b[k].fails
        BY <1>1, <1>2 DEF Passes
    <2> QED BY <2>1, <2>2
<1>7. a[2].fails <=> \/ f[RuleKey].val.context # j.rule.contract
                     \/ f[RuleKey].val.name # j.name
                     \/ f[RuleKey].val.until # j.rule.valid_until
    BY DEF FixedConfiguration, Check
<1> QED BY <1>3, <1>4, <1>5, <1>6, <1>7 DEF Range

(* A capture that is complete: it holds every key it names. *)
Closed(j, f) == DOMAIN f = closure(InitialKeys(j), f)

(* The rule a job's ledger has: the lists are lists, the kinds known. *)
WellKept(f) ==
    /\ KnownKinds(f)
    /\ RuleKey \in DOMAIN f => IsList(f[RuleKey].val.signer_ids)
    /\ \A k \in DOMAIN f : /\ k[1] = "SignerData" => f[k].val.signer \in Signers
                           /\ k[1] = "AccountContext" => IsSpendingState(f[k].val)

LEMMA RuleIsThere ==
    ASSUME NEW j, NEW f, Closed(j, f)
    PROVE  /\ RuleKey \in DOMAIN f
           /\ \A k \in DOMAIN f[RuleKey].val.signer_ids :
                SignerKey(f[RuleKey].val.signer_ids[k]) \in DOMAIN f
           /\ \A k \in DOMAIN f[RuleKey].val.policy_ids :
                PolicyKey(f[RuleKey].val.policy_ids[k]) \in DOMAIN f
<1>1. RuleKey \in DOMAIN f
    BY DEF Closed, closure, InitialKeys
<1>2. RuleNames(f) \subseteq DOMAIN f
    BY DEF Closed, closure
<1> DEFINE sids == f[RuleKey].val.signer_ids
           pids == f[RuleKey].val.policy_ids
<1>3. RuleNames(f) = {SignerKey(id) : id \in Range(sids)} \cup {PolicyKey(id) : id \in Range(pids)}
    BY <1>1 DEF RuleNames
<1> HIDE DEF sids, pids
<1>4. \A k \in DOMAIN sids : SignerKey(sids[k]) \in DOMAIN f
    BY <1>2, <1>3 DEF Range
<1>5. \A k \in DOMAIN pids : PolicyKey(pids[k]) \in DOMAIN f
    BY <1>2, <1>3 DEF Range
<1> QED BY <1>1, <1>4, <1>5 DEF sids, pids

LEMMA LiveSignerKinds ==
    ASSUME NEW j, NEW f, Closed(j, f), KnownKinds(f), NEW k \in DOMAIN live_signers(f)
    PROVE  live_signers(f)[k].kind \in {"delegated", "contract", "external"}
<1> DEFINE id == f[RuleKey].val.signer_ids[k]
           key == SignerKey(id)
<1>1. k \in DOMAIN f[RuleKey].val.signer_ids /\ live_signers(f)[k] = f[key].val.signer
    BY DEF live_signers
<1>2. key \in DOMAIN f
    BY <1>1, RuleIsThere
<1>3. key[1] = "SignerData"
    BY DEF SignerKey
<1> HIDE DEF key
<1>4. f[key].val.signer.kind \in {"delegated", "contract", "external"}
    BY <1>2, <1>3 DEF KnownKinds
<1> QED BY <1>1, <1>4

SignerCodes == Inconclusive \cup {"unauthorized_signer"}

LEMMA ResolvedCoded ==
    ASSUME NEW f, NEW x, x.kind \in {"delegated", "contract", "external"}
    PROVE  resolve_signer(f, x) \in Inconclusive \cup {"Permit"}
BY DEF resolve_signer, CodeRefusal, Inconclusive

FirstSigner(j, f) ==
    << Check(~candidates_belong_to_rule(j.candidates, live_signers(f)), "unauthorized_signer") >>

EachSigner(f) ==
    [k \in DOMAIN live_signers(f) |->
        Check(resolve_signer(f, live_signers(f)[k]) # "Permit", resolve_signer(f, live_signers(f)[k]))]

WholeSet(j, f) ==
    << Check(~IsInjective(live_signers(f)), "duplicate_live_signer"),
       Check(/\ ~IsDynamic(j.rule)
             /\ signer_set_hash(live_signers(f)) # signer_set_hash(j.rule.signers),
             "installed_signer_set_differs_from_spec") >>

LEMMA SignerChecks ==
    ASSUME NEW j, NEW f, Closed(j, f), WellKept(f)
    PROVE  LET c == signer_checks(j, f)
           IN  /\ Coded(c, SignerCodes) /\ DOMAIN c \subseteq Nat
               /\ Passes(c) => Passes(FirstSigner(j, f)) /\ Passes(EachSigner(f)) /\ Passes(WholeSet(j, f))
               /\ Passes(FirstSigner(j, f)) => Coded(c, Inconclusive)
<1> DEFINE c == signer_checks(j, f)
           a == FirstSigner(j, f)
           b == EachSigner(f)
           d == WholeSet(j, f)
           T == Range(a) \cup Range(b) \cup Range(d)
<1>1. c = (a \o b) \o d
    BY DEF signer_checks, FirstSigner, EachSigner, WholeSet
<1>2. a \in [1 .. 1 -> T]
    BY DEF Range, FirstSigner
<1>3. d \in [1 .. 2 -> T]
    BY DEF Range, WholeSet
<1>4. PICK n \in Nat : DOMAIN live_signers(f) = 1 .. n
    <2> DEFINE ids == f[RuleKey].val.signer_ids
    <2>1. IsList(ids)
        BY RuleIsThere DEF WellKept
    <2>2. DOMAIN live_signers(f) = DOMAIN ids
        BY DEF live_signers
    <2> HIDE DEF ids
    <2>3. Len(ids) \in Nat /\ DOMAIN ids = 1 .. Len(ids)
        BY <2>1 DEF IsList
    <2> QED BY <2>2, <2>3
<1>5. b \in [1 .. n -> T]
    BY <1>4 DEF Range, EachSigner
<1>6. /\ Coded(a, SignerCodes) /\ (Passes(a) => Coded(a, Inconclusive))
      /\ Coded(d, SignerCodes) /\ Coded(d, Inconclusive)
    BY DEF FirstSigner, WholeSet, Coded, Passes, Check, SignerCodes, Inconclusive
<1>7. Coded(b, Inconclusive) /\ Coded(b, SignerCodes)
    <2> SUFFICES ASSUME NEW k \in DOMAIN live_signers(f), b[k].fails
                 PROVE  b[k].code \in Inconclusive /\ b[k].code \in SignerCodes
        BY DEF Coded, EachSigner
    <2> DEFINE x == live_signers(f)[k]
    <2>1. resolve_signer(f, x) \in Inconclusive \cup {"Permit"}
        <3>1. x.kind \in {"delegated", "contract", "external"}
            BY LiveSignerKinds DEF WellKept
        <3> HIDE DEF x
        <3> QED BY <3>1, ResolvedCoded
    <2>2. (b[k].fails <=> resolve_signer(f, x) # "Permit") /\ b[k].code = resolve_signer(f, x)
        BY DEF EachSigner, Check
    <2> HIDE DEF b, x
    <2> QED BY <2>1, <2>2 DEF SignerCodes
<1> HIDE DEF a, b, c, d, T
<1>8. a \in Seq(T) /\ b \in Seq(T) /\ d \in Seq(T)
    BY <1>2, <1>3, <1>4, <1>5, ListOf
<1> DEFINE ab == a \o b
<1>9. /\ ab \in Seq(T) /\ (Passes(ab) => Passes(a) /\ Passes(b)) /\ Coded(ab, SignerCodes)
      /\ Passes(a) => Coded(ab, Inconclusive)
    BY <1>6, <1>7, <1>8, Joined
<1> HIDE DEF ab
<1>10. /\ ab \o d \in Seq(T) /\ (Passes(ab \o d) => Passes(ab) /\ Passes(d))
       /\ Coded(ab \o d, SignerCodes) /\ (Passes(a) => Coded(ab \o d, Inconclusive))
    BY <1>6, <1>8, <1>9, Joined
<1>11. c = ab \o d
    BY <1>1 DEF ab
<1>12. DOMAIN c \subseteq Nat
    BY <1>10, <1>11
<1>13. /\ Coded(c, SignerCodes) /\ DOMAIN c \subseteq Nat
       /\ Passes(c) => Passes(a) /\ Passes(b) /\ Passes(d)
       /\ Passes(a) => Coded(c, Inconclusive)
    BY <1>9, <1>10, <1>11, <1>12
<1> QED BY <1>13 DEF a, b, c, d

LEMMA SignersPassed ==
    ASSUME NEW j, NEW f, Closed(j, f), WellKept(f), Passes(signer_checks(j, f))
    PROVE  \A x \in Range(live_signers(f)) : resolve_signer(f, x) = "Permit"
<1>1. Passes(EachSigner(f))
    BY SignerChecks
<1> SUFFICES ASSUME NEW k \in DOMAIN live_signers(f)
             PROVE  resolve_signer(f, live_signers(f)[k]) = "Permit"
    BY DEF Range
<1> DEFINE b == EachSigner(f)
<1>2. k \in DOMAIN b /\ (b[k].fails <=> resolve_signer(f, live_signers(f)[k]) # "Permit")
    BY DEF EachSigner, Check
<1> HIDE DEF b
<1>3. ~b[k].fails
    BY <1>1, <1>2 DEF Passes, b
<1> QED BY <1>2, <1>3

LEMMA FirstSignerIs ==
    ASSUME NEW j, NEW f
    PROVE  LET a == FirstSigner(j, f)
           IN  /\ DOMAIN a = 1 .. 1
               /\ a[1].fails <=> ~candidates_belong_to_rule(j.candidates, live_signers(f))
<1> DEFINE x == ~candidates_belong_to_rule(j.candidates, live_signers(f))
<1>1. FirstSigner(j, f) = << Check(x, "unauthorized_signer") >>
    BY DEF FirstSigner
<1> HIDE DEF x
<1>2. Check(x, "unauthorized_signer").fails = x
    BY DEF Check
<1> DEFINE c == Check(x, "unauthorized_signer")
<1> HIDE DEF c
<1>3. DOMAIN << c >> = 1 .. 1 /\ << c >>[1] = c
    OBVIOUS
<1> QED BY <1>1, <1>2, <1>3 DEF c, x

LEMMA WholeSetIs ==
    ASSUME NEW j, NEW f
    PROVE  LET d == WholeSet(j, f)
           IN  1 \in DOMAIN d /\ (d[1].fails <=> ~IsInjective(live_signers(f)))
<1> DEFINE x == ~IsInjective(live_signers(f))
           c == Check(x, "duplicate_live_signer")
           e == Check(/\ ~IsDynamic(j.rule)
                      /\ signer_set_hash(live_signers(f)) # signer_set_hash(j.rule.signers),
                      "installed_signer_set_differs_from_spec")
<1>1. WholeSet(j, f) = << c, e >>
    BY DEF WholeSet
<1> HIDE DEF x, e
<1>2. c.fails = x
    BY DEF Check
<1> HIDE DEF c
<1>3. 1 \in DOMAIN << c, e >> /\ << c, e >>[1] = c
    OBVIOUS
<1> QED BY <1>1, <1>2, <1>3 DEF x

(* Signers that passed are distinct, and every candidate is one of them. *)
LEMMA SignersDistinct ==
    ASSUME NEW j, NEW f, Closed(j, f), WellKept(f), Passes(signer_checks(j, f))
    PROVE  IsInjective(live_signers(f)) /\ Range(j.candidates) \subseteq Range(live_signers(f))
<1> DEFINE a == FirstSigner(j, f)
           d == WholeSet(j, f)
<1>1. Passes(a) /\ Passes(d)
    BY SignerChecks
<1>2. 1 \in DOMAIN a /\ (a[1].fails <=> ~candidates_belong_to_rule(j.candidates, live_signers(f)))
    BY FirstSignerIs
<1>3. 1 \in DOMAIN d /\ (d[1].fails <=> ~IsInjective(live_signers(f)))
    BY WholeSetIs
<1> HIDE DEF a, d
<1>4. ~a[1].fails /\ ~d[1].fails
    BY <1>1, <1>2, <1>3 DEF Passes
<1> QED BY <1>2, <1>3, <1>4 DEF candidates_belong_to_rule

(* Where the first refusal is about a candidate, one is foreign. *)
LEMMA ForeignCandidate ==
    ASSUME NEW j, NEW f, Closed(j, f), WellKept(f), ~Passes(signer_checks(j, f)),
           FirstRefusal(signer_checks(j, f)) \notin Inconclusive
    PROVE  ~(Range(j.candidates) \subseteq Range(live_signers(f)))
<1> DEFINE a == FirstSigner(j, f)
           c == signer_checks(j, f)
<1>1. DOMAIN c \subseteq Nat /\ (Passes(a) => Coded(c, Inconclusive))
    BY SignerChecks
<1>2. DOMAIN a = 1 .. 1 /\ (a[1].fails <=> ~candidates_belong_to_rule(j.candidates, live_signers(f)))
    BY FirstSignerIs
<1> HIDE DEF a, c
<1>3. ~Passes(a)
    BY <1>1, RefusalCoded DEF c
<1>4. a[1].fails
    BY <1>2, <1>3 DEF Passes
<1> QED BY <1>2, <1>4 DEF candidates_belong_to_rule

LEMMA RestrictTo ==
    ASSUME NEW s, NEW D
    PROVE  DOMAIN Restrict(s, D) = D /\ \A k \in D : Restrict(s, D)[k] = s[k]
BY DEF Restrict

(* More entries name more keys. *)
LEMMA ClosureGrows ==
    ASSUME NEW I, NEW f, NEW g, DOMAIN g \subseteq DOMAIN f, \A k \in DOMAIN g : g[k] = f[k]
    PROVE  closure(I, g) \subseteq closure(I, f)
<1>1. CodeKeys(g) \subseteq CodeKeys(f)
    BY DEF CodeKeys
<1>2. RuleNames(g) \subseteq RuleNames(f)
    BY DEF RuleNames
<1> DEFINE signers(h) == UNION {SignerNames(h[k].val.signer) : k \in {m \in DOMAIN h : m[1] = "SignerData"}}
           policies(h) == {InstanceKey(h[k].val.address) : k \in {m \in DOMAIN h : m[1] = "PolicyData"}}
<1>3. signers(g) \subseteq signers(f)
    <2> SUFFICES ASSUME NEW k \in DOMAIN g, k[1] = "SignerData", NEW n \in SignerNames(g[k].val.signer)
                 PROVE  n \in signers(f)
        OBVIOUS
    <2>1. k \in DOMAIN f /\ g[k] = f[k]
        OBVIOUS
    <2>2. n \in SignerNames(f[k].val.signer)
        BY <2>1
    <2> QED BY <2>1, <2>2
<1>4. policies(g) \subseteq policies(f)
    OBVIOUS
<1>5. closure(I, g) = I \cup CodeKeys(g) \cup RuleNames(g) \cup signers(g) \cup policies(g)
    BY DEF closure
<1>6. closure(I, f) = I \cup CodeKeys(f) \cup RuleNames(f) \cup signers(f) \cup policies(f)
    BY DEF closure
<1> HIDE DEF signers, policies
<1> QED BY <1>1, <1>2, <1>3, <1>4, <1>5, <1>6

(* What an execution touches is within a complete capture. *)
LEMMA TouchedIsCaptured ==
    ASSUME NEW j, NEW s, NEW f, Closed(j, f), DOMAIN f \subseteq DOMAIN s,
           \A k \in DOMAIN f : f[k] = s[k]
    PROVE  Touched(j, s) \subseteq DOMAIN f
<1>1. ASSUME NEW ks, ks \subseteq DOMAIN f PROVE Follow(j, s, ks) \subseteq DOMAIN f
    <2> DEFINE D == ks \cap DOMAIN s
               g == Restrict(s, D)
    <2>1. DOMAIN g = D /\ \A k \in D : g[k] = s[k]
        BY RestrictTo
    <2>2. D \subseteq DOMAIN f
        BY <1>1
    <2> HIDE DEF g, D
    <2>3. closure(InitialKeys(j), g) \subseteq closure(InitialKeys(j), f)
        BY <2>1, <2>2, ClosureGrows
    <2> QED BY <2>3 DEF Follow, Closed, g, D
<1>2. InitialKeys(j) \subseteq DOMAIN f
    BY DEF Closed, closure
<1> DEFINE a == Follow(j, s, InitialKeys(j))
           b == Follow(j, s, a)
           c == Follow(j, s, b)
<1>3. a \subseteq DOMAIN f
    BY <1>1, <1>2
<1> HIDE DEF a
<1>4. b \subseteq DOMAIN f
    BY <1>1, <1>3
<1> HIDE DEF b
<1>5. c \subseteq DOMAIN f
    BY <1>1, <1>4
<1> HIDE DEF c
<1>6. Follow(j, s, c) \subseteq DOMAIN f
    BY <1>1, <1>5
<1> QED BY <1>6 DEF Touched, a, b, c

(* The rule of a ledger is that of a complete capture of it. *)
LEMMA LiveThere ==
    ASSUME NEW j, NEW s, NEW f, Closed(j, f), \A k \in DOMAIN f : f[k] = s[k]
    PROVE  live_policies(s) = live_policies(f) /\ live_signers(s) = live_signers(f)
<1>1. RuleKey \in DOMAIN f /\ f[RuleKey] = s[RuleKey]
    BY RuleIsThere
<1>2. live_policies(s) = live_policies(f)
    <2> DEFINE ids == f[RuleKey].val.policy_ids
    <2>1. \A k \in DOMAIN ids : PolicyKey(ids[k]) \in DOMAIN f
        BY RuleIsThere
    <2>2. live_policies(f) = [k \in DOMAIN ids |-> f[PolicyKey(ids[k])].val.address]
        BY DEF live_policies
    <2>3. live_policies(s) = [k \in DOMAIN ids |-> s[PolicyKey(ids[k])].val.address]
        BY <1>1 DEF live_policies
    <2> HIDE DEF ids
    <2>4. \A k \in DOMAIN ids : f[PolicyKey(ids[k])] = s[PolicyKey(ids[k])]
        BY <2>1
    <2> QED BY <2>2, <2>3, <2>4
<1>3. live_signers(s) = live_signers(f)
    <2> DEFINE ids == f[RuleKey].val.signer_ids
    <2>1. \A k \in DOMAIN ids : SignerKey(ids[k]) \in DOMAIN f
        BY RuleIsThere
    <2>2. live_signers(f) = [k \in DOMAIN ids |-> f[SignerKey(ids[k])].val.signer]
        BY DEF live_signers
    <2>3. live_signers(s) = [k \in DOMAIN ids |-> s[SignerKey(ids[k])].val.signer]
        BY <1>1 DEF live_signers
    <2> HIDE DEF ids
    <2>4. \A k \in DOMAIN ids : f[SignerKey(ids[k])] = s[SignerKey(ids[k])]
        BY <2>1
    <2> QED BY <2>2, <2>3, <2>4
<1> QED BY <1>2, <1>3

(* A ledger runs what a complete capture of it runs. *)
LEMMA RecognizedThere ==
    ASSUME NEW j, NEW s, NEW f, Closed(j, f), KnownKinds(f), DOMAIN f \subseteq DOMAIN s,
           \A k \in DOMAIN f : f[k] = s[k],
           Recognized(j, f)
    PROVE  Recognized(j, s)
<1>1. ASSUME NEW c, InstanceKey(c) \in DOMAIN f PROVE code_hash(s, c) = code_hash(f, c)
    BY <1>1 DEF code_hash
<1>2. InstanceKey(Self) \in DOMAIN f /\ \A p \in Range(j.policies) : InstanceKey(p.address) \in DOMAIN f
    BY DEF Closed, closure, InitialKeys
<1>3. live_policies(s) = live_policies(f) /\ live_signers(s) = live_signers(f)
    BY LiveThere
<1>4. ASSUME NEW x \in Range(live_signers(f)) PROVE resolve_signer(s, x) = "Permit"
    <2>1. PICK k \in DOMAIN live_signers(f) : x = live_signers(f)[k]
        BY DEF Range
    <2>2. x.kind \in {"delegated", "contract", "external"}
        BY <2>1, LiveSignerKinds
    <2>3. SignerNames(x) \subseteq DOMAIN f
        <3> DEFINE key == SignerKey(f[RuleKey].val.signer_ids[k])
        <3>1. k \in DOMAIN f[RuleKey].val.signer_ids /\ x = f[key].val.signer
            BY <2>1 DEF live_signers
        <3>2. key \in DOMAIN f /\ key[1] = "SignerData"
            BY <3>1, RuleIsThere DEF SignerKey
        <3> HIDE DEF key
        <3>3. SignerNames(f[key].val.signer) \subseteq closure(InitialKeys(j), f)
            BY <3>2 DEF closure
        <3> QED BY <3>1, <3>3 DEF Closed
    <2>4. resolve_signer(f, x) = "Permit"
        BY DEF Recognized
    <2>5. CASE x.kind = "contract"
        BY <2>4, <2>5 DEF resolve_signer
    <2>6. CASE x.kind = "delegated"
        <3>1. Classic(x.address) \in DOMAIN f
            BY <2>3, <2>6 DEF SignerNames
        <3>2. f[Classic(x.address)].val = "single"
            BY <2>4, <2>6, <3>1 DEF resolve_signer
        <3>3. Classic(x.address) \in DOMAIN s /\ s[Classic(x.address)].val = "single"
            BY <3>1, <3>2
        <3> QED BY <2>6, <3>3 DEF resolve_signer
    <2>7. CASE x.kind = "external"
        <3>1. InstanceKey(x.address) \in DOMAIN f
            BY <2>3, <2>7 DEF SignerNames
        <3>2. code_hash(s, x.address) = code_hash(f, x.address) /\ InstanceKey(x.address) \in DOMAIN s
            BY <1>1, <3>1
        <3>3. resolve_signer(s, x) = resolve_signer(f, x)
            BY <2>7, <3>1, <3>2 DEF resolve_signer, CodeRefusal
        <3> QED BY <2>4, <3>3
    <2> QED BY <2>2, <2>5, <2>6, <2>7
<1> QED BY <1>1, <1>2, <1>3, <1>4 DEF Recognized

(* The last group of checks is inconclusive too; once it passes, every     *)
(* spending history is usable.                                             *)
LEMMA LastChecks ==
    ASSUME NEW j, NEW f, NEW l
    PROVE  LET c == pinned_code_checks(j, f) \o spending_checks(j, l, f)
           IN  /\ Coded(c, Inconclusive) /\ DOMAIN c \subseteq Nat
               /\ Passes(c) => \A p \in Limits(j) :
                    evaluate_spending_limit(SpendingState(f, p), l, Amount(j.call)) # "unsupported"
<1> DEFINE a == pinned_code_checks(j, f)
           b == spending_checks(j, l, f)
           T == Range(a) \cup Range(b)
           bad == \E p \in Limits(j) :
                    evaluate_spending_limit(SpendingState(f, p), l, Amount(j.call)) = "unsupported"
<1>1. a \in [1 .. 3 -> T] /\ b \in [1 .. 2 -> T]
    BY DEF Range, pinned_code_checks, spending_checks
<1>2. Coded(a, Inconclusive) /\ Coded(b, Inconclusive)
    BY DEF Coded, pinned_code_checks, spending_checks, Check, Inconclusive
<1>3. DOMAIN b = 1 .. 2 /\ b[2] = Check(bad, "invalid_spending_history")
    BY DEF spending_checks
<1> HIDE DEF a, b, T, bad
<1>4. a \in Seq(T) /\ b \in Seq(T)
    BY <1>1, ListOf
<1>5. /\ a \o b \in Seq(T) /\ (Passes(a \o b) => Passes(b)) /\ Coded(a \o b, Inconclusive)
    BY <1>2, <1>4, Joined
<1>6. DOMAIN (a \o b) \subseteq Nat
    BY <1>5
<1>7. Passes(b) => ~bad
    BY <1>3 DEF Passes, Check
<1> QED BY <1>5, <1>6, <1>7 DEF a, b, bad

(* An evaluation that concludes has passed the groups before its reason. *)
LEMMA Concluded ==
    ASSUME NEW j \in Jobs, NEW f, NEW l, Kind(evaluate_observed(j, closure(InitialKeys(j), f), l, f))
                                            \in {"permit", "deny"},
           WellKept(f)
    PROVE  /\ Closed(j, f)
           /\ \A k \in DOMAIN f : k[1] # "account" => ~(f[k].ttl < l)
           /\ Restoration(closure(InitialKeys(j), f), l, f) = "not_required"
           /\ evaluate_observed(j, closure(InitialKeys(j), f), l, f) # "unauthorized_signer" =>
                Recognized(j, f)
           /\ Passes(configuration_checks(j, f))
           /\ IF Passes(signer_checks(j, f))
              THEN /\ Passes(pinned_code_checks(j, f) \o spending_checks(j, l, f))
                   /\ evaluate_observed(j, closure(InitialKeys(j), f), l, f) = Prediction(j, l, f)
              ELSE /\ evaluate_observed(j, closure(InitialKeys(j), f), l, f) # "Permit"
                   /\ ~(Range(j.candidates) \subseteq Range(live_signers(f)))
<1> DEFINE asked == closure(InitialKeys(j), f)
           reason == evaluate_observed(j, asked, l, f)
           available == availability_checks(asked, l, f)
           configured == configuration_checks(j, f)
           signed == signer_checks(j, f)
           pinned == pinned_code_checks(j, f) \o spending_checks(j, l, f)
<1>1. reason \notin Inconclusive
    <2>1. Kind(reason) \in {"permit", "deny"}
        OBVIOUS
    <2> HIDE DEF reason
    <2> QED BY <2>1 DEF Kind, Inconclusive
<1>2. Passes(available)
    <2>1. ~Passes(available) => reason = FirstRefusal(available)
        BY DEF evaluate_observed
    <2>2. Coded(available, Inconclusive) /\ DOMAIN available \subseteq Nat
        BY AvailabilityCoded
    <2> HIDE DEF available, reason
    <2> QED BY <1>1, <2>1, <2>2, RefusalCoded
<1>3. /\ DOMAIN f = asked
      /\ \A k \in DOMAIN f : k[1] # "account" => ~(f[k].ttl < l)
      /\ Restoration(asked, l, f) = "not_required"
    <2> HIDE DEF asked
    <2> QED BY <1>2, AvailabilityPassed
<1>4. Closed(j, f)
    BY <1>3 DEF Closed
<1>5. Passes(configured)
    <2>1. ~Passes(configured) => reason = FirstRefusal(configured)
        BY <1>2 DEF evaluate_observed
    <2>2. Coded(configured, Inconclusive) /\ DOMAIN configured \subseteq Nat
        BY ConfigurationChecks
    <2> HIDE DEF configured, reason
    <2> QED BY <1>1, <2>1, <2>2, RefusalCoded
<1>6. ASSUME reason # "unauthorized_signer" PROVE Passes(signed)
    <2>1. ~Passes(signed) => reason = FirstRefusal(signed)
        BY <1>2, <1>5 DEF evaluate_observed
    <2>2. Coded(signed, SignerCodes) /\ DOMAIN signed \subseteq Nat
        BY <1>4, SignerChecks
    <2>3. reason \notin SignerCodes
        BY <1>1, <1>6 DEF SignerCodes
    <2> HIDE DEF signed, reason
    <2> QED BY <2>1, <2>2, <2>3, RefusalCoded
<1>7. ASSUME reason # "unauthorized_signer" PROVE Recognized(j, f)
    <2>1. \A x \in Range(live_signers(f)) : resolve_signer(f, x) = "Permit"
        BY <1>4, <1>6, <1>7, SignersPassed
    <2>2. /\ code_hash(f, Self) = j.account_hash
          /\ Range(live_policies(f)) = {p.address : p \in Range(j.policies)}
          /\ \A p \in Range(j.policies) : code_hash(f, p.address) = p.hash
        BY <1>5, ConfigurationPassed
    <2> QED BY <2>1, <2>2 DEF Recognized
<1>8. ASSUME Passes(signed) PROVE Passes(pinned) /\ reason = Prediction(j, l, f)
    <2>1. IF Passes(pinned) THEN reason = Prediction(j, l, f) ELSE reason = FirstRefusal(pinned)
        BY <1>2, <1>5, <1>8 DEF evaluate_observed
    <2>2. Coded(pinned, Inconclusive) /\ DOMAIN pinned \subseteq Nat
        BY LastChecks
    <2> HIDE DEF pinned, reason
    <2> QED BY <1>1, <2>1, <2>2, RefusalCoded
<1>9. ASSUME ~Passes(signed)
      PROVE  reason # "Permit" /\ ~(Range(j.candidates) \subseteq Range(live_signers(f)))
    <2>1. reason = FirstRefusal(signed)
        BY <1>2, <1>5, <1>9 DEF evaluate_observed
    <2>2. Coded(signed, SignerCodes) /\ DOMAIN signed \subseteq Nat
        BY <1>4, SignerChecks
    <2>3. reason \in SignerCodes
        <3> HIDE DEF signed, reason
        <3> QED BY <1>9, <2>1, <2>2, RefusalCoded
    <2>4. reason # "Permit"
        <3> HIDE DEF reason
        <3> QED BY <2>3 DEF SignerCodes, Inconclusive
    <2> QED BY <1>1, <1>4, <1>9, <2>1, <2>4, ForeignCandidate
<1> QED BY <1>3, <1>4, <1>5, <1>7, <1>8, <1>9

LEMMA ReadKept ==
    ASSUME CaptureInv, ReadHolds
    PROVE  /\ WellKept(read.found)
           /\ DOMAIN read.found \subseteq DOMAIN chain[read.ledger]
           /\ \A k \in DOMAIN read.found :
                /\ read.found[k] = chain[read.ledger][k]
                /\ k[1] # "account" => read.found[k].ttl \in Nat
           /\ read.ledger \in Nat
<1> DEFINE s == chain[read.ledger]
           f == read.found
<1>1. job \in Jobs /\ s \in job.stores /\ read.ledger \in Nat
    <2> DEFINE S == job.stores
    <2>1. chain \in Seq(S) /\ job \in Jobs
        BY DEF CaptureInv
    <2> HIDE DEF S
    <2>2. s \in S /\ read.ledger \in Nat
        BY <2>1 DEF ReadHolds
    <2> QED BY <2>1, <2>2 DEF S
<1>2. Part(f, s, keys) /\ KnownKinds(f)
    BY ReadKinds DEF ReadHolds
<1> HIDE DEF s, f
<1>3. \A k \in DOMAIN f : k \in DOMAIN s /\ f[k] = s[k]
    BY <1>2 DEF Part, Restrict
<1>4. \A k \in DOMAIN s : /\ k = RuleKey => IsList(s[k].val.signer_ids)
                          /\ k[1] # "account" => s[k].ttl \in Nat
                          /\ k[1] = "SignerData" => s[k].val.signer \in Signers
                          /\ k[1] = "AccountContext" => IsSpendingState(s[k].val)
    BY <1>1, JobsAssumption
<1>5. WellKept(f)
    <2>1. RuleKey \in DOMAIN f => f[RuleKey] = s[RuleKey] /\ IsList(s[RuleKey].val.signer_ids)
        BY <1>3, <1>4
    <2>2. \A k \in DOMAIN f : /\ k[1] = "SignerData" => f[k].val.signer \in Signers
                              /\ k[1] = "AccountContext" => IsSpendingState(f[k].val)
        BY <1>3, <1>4
    <2> QED BY <1>2, <2>1, <2>2 DEF WellKept
<1>6. /\ DOMAIN f \subseteq DOMAIN s
      /\ \A k \in DOMAIN f : f[k] = s[k] /\ (k[1] # "account" => f[k].ttl \in Nat)
    BY <1>3, <1>4
<1> QED BY <1>1, <1>5, <1>6 DEF s, f

-----------------------------------------------------------------------------
(* The spending window *)

(* The sums a loop over a list of amounts goes through. *)
Sums(g, L, a) ==
    /\ g \in [0 .. L -> Int]
    /\ g[0] = 0
    /\ \A n \in 1 .. L : g[n] = g[n - 1] + a[n]

LEMMA SumsExist ==
    ASSUME NEW L \in Nat, NEW a \in [1 .. L -> Int]
    PROVE  \E g : Sums(g, L, a)
<1> DEFINE G == {m \in 0 .. L : \E g : Sums(g, m, a)}
<1>1. 0 \in G
    <2> DEFINE g == [n \in 0 .. 0 |-> 0]
    <2>1. Sums(g, 0, a)
        BY DEF Sums
    <2> QED BY <2>1
<1>2. ASSUME NEW m \in 1 .. L, m - 1 \in G PROVE m \in G
    <2>1. PICK g : Sums(g, m - 1, a)
        BY <1>2
    <2> DEFINE h == [n \in 0 .. m |-> IF n = m THEN g[m - 1] + a[m] ELSE g[n]]
    <2>2. g \in [0 .. m - 1 -> Int] /\ g[0] = 0 /\ \A n \in 1 .. m - 1 : g[n] = g[n - 1] + a[n]
        BY <2>1 DEF Sums
    <2>3. h \in [0 .. m -> Int]
        BY <2>2
    <2>4. h[0] = 0
        BY <2>2
    <2>5. \A n \in 1 .. m : h[n] = h[n - 1] + a[n]
        BY <2>2
    <2>6. Sums(h, m, a)
        <3> HIDE DEF h
        <3> QED BY <2>3, <2>4, <2>5 DEF Sums
    <2> QED BY <2>6
<1> HIDE DEF G
<1>3. \A m \in 0 .. L : m \in G
    BY <1>1, <1>2, UpTo
<1>4. L \in G
    BY <1>3
<1> QED BY <1>4 DEF G

AmountsIn(history, S) ==
    [n \in 1 .. Len(history) |-> IF n \in S THEN history[n].amount ELSE 0]

Amounts(history) ==
    /\ Len(history) \in Nat
    /\ \A n \in 1 .. Len(history) : history[n].amount \in Int

LEMMA SpentIsSum ==
    ASSUME NEW history, Amounts(history), NEW S
    PROVE  \E g : Sums(g, Len(history), AmountsIn(history, S)) /\ Spent(history, S) = g[Len(history)]
<1> DEFINE L == Len(history)
           a == AmountsIn(history, S)
           sum == CHOOSE f : f = [n \in 0 .. L |-> IF n = 0 THEN 0 ELSE f[n - 1] +
                                     (IF n \in S THEN history[n].amount ELSE 0)]
<1>1. L \in Nat /\ a \in [1 .. L -> Int]
      /\ \A n \in 1 .. L : a[n] = IF n \in S THEN history[n].amount ELSE 0
    BY DEF Amounts, AmountsIn
<1>2. Spent(history, S) = sum[L]
    BY DEF Spent
<1>3. PICK g : Sums(g, L, a)
    BY <1>1, SumsExist
<1>4. g = [n \in 0 .. L |-> IF n = 0 THEN 0 ELSE g[n - 1] + (IF n \in S THEN history[n].amount ELSE 0)]
    BY <1>1, <1>3 DEF Sums
<1>5. sum = [n \in 0 .. L |-> IF n = 0 THEN 0 ELSE sum[n - 1] + (IF n \in S THEN history[n].amount ELSE 0)]
    BY <1>4
<1> HIDE DEF sum
<1> HIDE DEF a
<1>6. sum = [n \in 0 .. L |-> IF n = 0 THEN 0 ELSE sum[n - 1] + a[n]]
    <2>1. \A n \in 0 .. L : n # 0 => a[n] = IF n \in S THEN history[n].amount ELSE 0
        BY <1>1
    <2> HIDE DEF L
    <2> QED BY <1>5, <2>1
<1> HIDE DEF L
<1>7. DOMAIN sum = 0 .. L /\ sum[0] = 0 /\ \A n \in 1 .. L : sum[n] = sum[n - 1] + a[n]
    BY <1>1, <1>6
<1>8. \A n \in 0 .. L : sum[n] \in Int
    <2> DEFINE G == {n \in 0 .. L : sum[n] \in Int}
    <2>1. 0 \in G
        BY <1>1, <1>7
    <2>2. ASSUME NEW n \in 1 .. L, n - 1 \in G PROVE n \in G
        BY <1>1, <1>7, <2>2
    <2> HIDE DEF G
    <2>3. \A n \in 0 .. L : n \in G
        BY <1>1, <2>1, <2>2, UpTo
    <2> QED BY <2>3 DEF G
<1>9. sum \in [0 .. L -> Int]
    BY <1>6, <1>8
<1>10. Sums(sum, L, a)
    BY <1>7, <1>9 DEF Sums
<1> QED BY <1>2, <1>10 DEF a, L

(* Two parts of a history make up its whole. *)
LEMMA SpentSplits ==
    ASSUME NEW history, Amounts(history), NEW A, NEW B, A \cap B = {},
           A \cup B = 1 .. Len(history)
    PROVE  /\ Spent(history, 1 .. Len(history)) = Spent(history, A) + Spent(history, B)
           /\ Spent(history, A) \in Int /\ Spent(history, B) \in Int
<1> DEFINE L == Len(history)
           a == AmountsIn(history, A)
           b == AmountsIn(history, B)
           c == AmountsIn(history, 1 .. L)
<1>1. PICK f : Sums(f, L, a) /\ Spent(history, A) = f[L]
    BY SpentIsSum
<1>2. PICK g : Sums(g, L, b) /\ Spent(history, B) = g[L]
    BY SpentIsSum
<1>3. PICK h : Sums(h, L, c) /\ Spent(history, 1 .. L) = h[L]
    BY SpentIsSum
<1>4. L \in Nat /\ \A n \in 1 .. L : /\ a[n] \in Int /\ b[n] \in Int /\ c[n] = a[n] + b[n]
    BY DEF Amounts, AmountsIn
<1> HIDE DEF L, a, b, c
<1>5. /\ f \in [0 .. L -> Int] /\ f[0] = 0 /\ \A n \in 1 .. L : f[n] = f[n - 1] + a[n]
      /\ g \in [0 .. L -> Int] /\ g[0] = 0 /\ \A n \in 1 .. L : g[n] = g[n - 1] + b[n]
      /\ h \in [0 .. L -> Int] /\ h[0] = 0 /\ \A n \in 1 .. L : h[n] = h[n - 1] + c[n]
    BY <1>1, <1>2, <1>3 DEF Sums
<1> DEFINE G == {n \in 0 .. L : h[n] = f[n] + g[n]}
<1>6. 0 \in G
    BY <1>4, <1>5
<1>7. ASSUME NEW n \in 1 .. L, n - 1 \in G PROVE n \in G
    <2>1. h[n - 1] = f[n - 1] + g[n - 1] /\ n - 1 \in 0 .. L
        BY <1>7
    <2>2. h[n] = h[n - 1] + c[n] /\ f[n] = f[n - 1] + a[n] /\ g[n] = g[n - 1] + b[n]
        BY <1>5
    <2>3. f[n - 1] \in Int /\ g[n - 1] \in Int /\ a[n] \in Int /\ b[n] \in Int /\ c[n] = a[n] + b[n]
        BY <1>4, <1>5, <2>1
    <2> QED BY <2>1, <2>2, <2>3
<1> HIDE DEF G
<1>8. \A n \in 0 .. L : n \in G
    BY <1>4, <1>6, <1>7, UpTo
<1>9. L \in 0 .. L /\ L \in G
    BY <1>4, <1>8
<1>10. h[L] = f[L] + g[L] /\ f[L] \in Int /\ g[L] \in Int
    BY <1>5, <1>9 DEF G
<1> QED BY <1>1, <1>2, <1>3, <1>10 DEF L

(* A history whose neighbours are in order is in order. *)
LEMMA Ordered ==
    ASSUME NEW L \in Nat, NEW at, \A k \in 1 .. L : at[k] \in Nat,
           \A k \in 1 .. L : k > 1 => ~(at[k] < at[k - 1])
    PROVE  \A k \in 1 .. L : \A m \in 1 .. k : at[m] <= at[k]
<1> DEFINE G == {k \in 0 .. L : \A m \in 1 .. k : at[m] <= at[k]}
<1>1. 0 \in G
    OBVIOUS
<1>2. ASSUME NEW k \in 1 .. L, k - 1 \in G PROVE k \in G
    <2>1. \A m \in 1 .. k - 1 : at[m] <= at[k - 1]
        BY <1>2
    <2> SUFFICES ASSUME NEW m \in 1 .. k PROVE at[m] <= at[k]
        OBVIOUS
    <2>2. CASE m = k
        BY <2>2
    <2>3. CASE m # k
        <3>1. m \in 1 .. k - 1 /\ k > 1 /\ k - 1 \in 1 .. L
            BY <2>3
        <3>2. at[m] <= at[k - 1] /\ at[k - 1] <= at[k]
            BY <2>1, <3>1
        <3> QED BY <3>1, <3>2
    <2> QED BY <2>2, <2>3
<1> HIDE DEF G
<1>3. \A k \in 0 .. L : k \in G
    BY <1>1, <1>2, UpTo
<1> QED BY <1>3 DEF G

LEMMA BoundsAgree ==
    ASSUME NEW amount \in Int, NEW x \in Int, NEW y \in Int, NEW n \in Int, NEW z \in Int,
           NEW len \in Int, NEW cached \in Int, NEW limit \in Int, NEW most \in Int, NEW max \in Int,
           cached = y + x, n = len - z, limit <= most
    PROVE  (~(amount < 0 \/ n >= max \/ x + amount > most \/ x + amount > limit)) <=>
             (amount >= 0 /\ len - z < max /\ cached - y + amount <= limit)
OBVIOUS

(***************************************************************************)
(* On a history it can use, the evaluator adds up the entries in the       *)
(* window; the contract drops the others from the front and takes them off *)
(* the cached total.  Both decide alike.                                   *)
(***************************************************************************)
LEMMA SpendingAgrees ==
    ASSUME NEW s, IsSpendingState(s), NEW current \in Nat, NEW amount \in Int,
           ~UnusableHistory(s, current)
    PROVE  LET gone == {k \in DOMAIN s.history :
                          \A j \in 1 .. k : s.history[j].ledger <= SaturatingSub(current, s.period)}
           IN  evaluate_spending_limit(s, current, amount) # "deny" <=>
                 /\ amount >= 0
                 /\ Len(s.history) - Cardinality(gone) < MaxHistory
                 /\ s.cached - Spent(s.history, gone) + amount <= s.limit
<1> DEFINE h == s.history
           L == Len(h)
           cutoff == SaturatingSub(current, s.period)
           gone == {k \in DOMAIN h : \A j \in 1 .. k : h[j].ledger <= cutoff}
           in == InWindow(s, current)
<1>1. /\ L \in Nat /\ DOMAIN h = 1 .. L
      /\ \A k \in 1 .. L : h[k].amount \in Int /\ h[k].ledger \in Nat
    <2>1. IsList(h) /\ \A k \in DOMAIN h : h[k].amount \in Int /\ h[k].ledger \in Nat
        BY DEF IsSpendingState
    <2> HIDE DEF h
    <2>2. Len(h) \in Nat /\ DOMAIN h = 1 .. Len(h)
        BY <2>1 DEF IsList
    <2> QED BY <2>1, <2>2
<1>2. /\ s.limit \in Int /\ s.limit <= MAX_I128 /\ s.period \in Nat /\ s.cached \in Int
      /\ MAX_I128 \in Nat /\ MaxHistory \in Nat
    BY CheckAssumption DEF IsSpendingState
<1>3. cutoff \in Nat
    BY <1>2 DEF SaturatingSub
<1>4. /\ \A k \in DOMAIN h : k > 1 => ~(h[k].ledger < h[k - 1].ledger)
      /\ Spent(h, DOMAIN h) = s.cached
    BY DEF UnusableHistory
<1>5. in = {k \in 1 .. L : h[k].ledger > cutoff}
    BY <1>1 DEF InWindow
<1>6. evaluate_spending_limit(s, current, amount) # "deny" <=>
        ~ (\/ amount < 0 \/ Cardinality(in) >= MaxHistory
           \/ Spent(h, in) + amount > MAX_I128 \/ Spent(h, in) + amount > s.limit)
    BY DEF evaluate_spending_limit
<1> HIDE DEF h, L, cutoff, in
<1>7. gone = (1 .. L) \ in
    <2> DEFINE at == [k \in 1 .. L |-> h[k].ledger]
    <2>1. \A k \in 1 .. L : at[k] = h[k].ledger
        OBVIOUS
    <2> HIDE DEF at
    <2>2. ASSUME NEW k \in 1 .. L PROVE at[k] \in Nat /\ (k > 1 => ~(at[k] < at[k - 1]))
        <3>1. at[k] \in Nat
            BY <1>1, <2>1
        <3>2. ASSUME k > 1 PROVE ~(at[k] < at[k - 1])
            <4>1. k - 1 \in 1 .. L
                BY <1>1, <3>2
            <4>2. ~(h[k].ledger < h[k - 1].ledger)
                BY <1>1, <1>4, <3>2
            <4> QED BY <2>1, <4>1, <4>2
        <3> QED BY <3>1, <3>2
    <2>3. \A k \in 1 .. L : \A m \in 1 .. k : at[m] <= at[k]
        BY <1>1, <2>2, Ordered
    <2>4. \A k \in 1 .. L : \A m \in 1 .. k : m \in 1 .. L /\ h[m].ledger <= h[k].ledger
        BY <1>1, <2>1, <2>3
    <2>5. ASSUME NEW k \in 1 .. L
          PROVE  h[k].ledger <= cutoff <=> \A m \in 1 .. k : h[m].ledger <= cutoff
        <3>1. k \in 1 .. k /\ h[k].ledger \in Nat
            BY <1>1
        <3>2. \A m \in 1 .. k : h[m].ledger \in Nat /\ h[m].ledger <= h[k].ledger
            BY <1>1, <2>4
        <3> QED BY <1>3, <3>1, <3>2
    <2>6. \A k \in 1 .. L : k \notin in <=> h[k].ledger <= cutoff
        BY <1>1, <1>3, <1>5
    <2> QED BY <1>1, <2>5, <2>6
<1>8. in \subseteq 1 .. L
    BY <1>5
<1> HIDE DEF gone
<1>9. /\ s.cached = Spent(h, gone) + Spent(h, in)
      /\ Spent(h, gone) \in Int /\ Spent(h, in) \in Int
    <2>1. gone \cap in = {} /\ gone \cup in = 1 .. L
        BY <1>7, <1>8
    <2>2. Amounts(h)
        BY <1>1 DEF Amounts, L
    <2>3. /\ Spent(h, 1 .. L) = Spent(h, gone) + Spent(h, in)
          /\ Spent(h, gone) \in Int /\ Spent(h, in) \in Int
        BY <2>1, <2>2, SpentSplits DEF L
    <2> QED BY <1>1, <1>4, <2>3
<1>10. Cardinality(in) = L - Cardinality(gone) /\ Cardinality(gone) \in Nat /\ Cardinality(in) \in Nat
    <2>1. IsFiniteSet(1 .. L) /\ Cardinality(1 .. L) = L
        BY <1>1, LengthOfDomain
    <2>2. IsFiniteSet(in) /\ Cardinality(in) \in Nat
        BY <1>8, <2>1, FS_Subset, FS_CardinalityType
    <2>3. Cardinality(gone) = Cardinality(1 .. L) - Cardinality((1 .. L) \cap in) /\ IsFiniteSet(gone)
        BY <1>7, <2>1, FS_Difference
    <2>4. (1 .. L) \cap in = in
        BY <1>8
    <2>5. Cardinality(gone) \in Nat
        BY <2>3, FS_CardinalityType
    <2> DEFINE n == Cardinality(in)
               z == Cardinality(gone)
    <2>6. z = L - n /\ n \in Nat /\ z \in Nat
        BY <2>1, <2>2, <2>3, <2>4, <2>5
    <2> HIDE DEF n, z
    <2>7. n = L - z
        BY <1>1, <2>6
    <2> QED BY <2>6, <2>7 DEF n, z
<1>11. evaluate_spending_limit(s, current, amount) # "deny" <=>
        /\ amount >= 0 /\ L - Cardinality(gone) < MaxHistory
        /\ s.cached - Spent(h, gone) + amount <= s.limit
    <2> DEFINE x == Spent(h, in)
               y == Spent(h, gone)
               n == Cardinality(in)
               z == Cardinality(gone)
               len == L
               cached == s.cached
               limit == s.limit
    <2>1. /\ x \in Int /\ y \in Int /\ n \in Nat /\ z \in Nat /\ cached = y + x /\ n = len - z
        BY <1>9, <1>10
    <2>2. len \in Int /\ cached \in Int /\ limit \in Int /\ limit <= MAX_I128
          /\ MAX_I128 \in Int /\ MaxHistory \in Int
        BY <1>1, <1>2
    <2> HIDE DEF x, y, n, z, len, cached, limit
    <2>3. (~(amount < 0 \/ n >= MaxHistory \/ x + amount > MAX_I128 \/ x + amount > limit)) <=>
            (amount >= 0 /\ len - z < MaxHistory /\ cached - y + amount <= limit)
        BY <2>1, <2>2, BoundsAgree
    <2> QED BY <1>6, <2>3 DEF x, y, n, z, len, cached, limit
<1> QED BY <1>11 DEF gone, h, L, cutoff

-----------------------------------------------------------------------------
(* The signers that authenticate *)

(* The lists a loop over the live signers goes through when it takes those in C. *)
Takes(g, L, T, live, C) ==
    /\ g \in [0 .. L -> Seq(T)]
    /\ g[0] = <<>>
    /\ \A n \in 1 .. L : g[n] = IF live[n] \in C THEN Append(g[n - 1], live[n]) ELSE g[n - 1]

LEMMA TakesExist ==
    ASSUME NEW L \in Nat, NEW T, NEW live \in [1 .. L -> T], NEW C
    PROVE  \E g : Takes(g, L, T, live, C)
<1> DEFINE G == {m \in 0 .. L : \E g : Takes(g, m, T, live, C)}
<1>1. 0 \in G
    <2> DEFINE g == [n \in 0 .. 0 |-> <<>>]
    <2>1. g \in [0 .. 0 -> Seq(T)]
        OBVIOUS
    <2>2. Takes(g, 0, T, live, C)
        BY <2>1 DEF Takes
    <2> QED BY <2>2
<1>2. ASSUME NEW m \in 1 .. L, m - 1 \in G PROVE m \in G
    <2>1. PICK g : Takes(g, m - 1, T, live, C)
        BY <1>2
    <2> DEFINE last == IF live[m] \in C THEN Append(g[m - 1], live[m]) ELSE g[m - 1]
               h == [n \in 0 .. m |-> IF n = m THEN last ELSE g[n]]
    <2>2. /\ g \in [0 .. m - 1 -> Seq(T)] /\ g[0] = <<>>
          /\ \A n \in 1 .. m - 1 : g[n] = IF live[n] \in C THEN Append(g[n - 1], live[n]) ELSE g[n - 1]
        BY <2>1 DEF Takes
    <2>3. last \in Seq(T)
        <3> DEFINE q == g[m - 1]
                   x == live[m]
        <3>1. q \in Seq(T) /\ x \in T
            BY <2>2
        <3> HIDE DEF q, x
        <3>2. Append(q, x) \in Seq(T)
            BY <3>1
        <3> QED BY <3>1, <3>2 DEF q, x
    <2>4. h \in [0 .. m -> Seq(T)]
        <3> HIDE DEF last
        <3> QED BY <2>2, <2>3
    <2>5. h[0] = <<>>
        BY <2>2
    <2>6. h[m] = last /\ h[m - 1] = g[m - 1]
        OBVIOUS
    <2>7. ASSUME NEW n \in 1 .. m
          PROVE  h[n] = IF live[n] \in C THEN Append(h[n - 1], live[n]) ELSE h[n - 1]
        <3>1. CASE n = m
            BY <2>6, <3>1
        <3>2. CASE n # m
            <4>1. h[n] = g[n] /\ h[n - 1] = g[n - 1] /\ n \in 1 .. m - 1
                BY <3>2
            <4> HIDE DEF h
            <4> QED BY <2>2, <4>1
        <3> QED BY <3>1, <3>2
    <2>8. Takes(h, m, T, live, C)
        <3> HIDE DEF h
        <3> QED BY <2>4, <2>5, <2>7 DEF Takes
    <2> QED BY <2>8
<1> HIDE DEF G
<1>3. \A m \in 0 .. L : m \in G
    BY <1>1, <1>2, UpTo
<1>4. L \in G
    BY <1>3
<1> QED BY <1>4 DEF G

(* Who authenticates is among the live signers. *)
LEMMA AuthenticatedAreLive ==
    ASSUME NEW j, NEW f, NEW L \in Nat, NEW T, live_signers(f) \in [1 .. L -> T]
    PROVE  authenticated_signers(j, f) \in Seq(T)
<1> DEFINE live == live_signers(f)
           C == Range(j.candidates)
           taken == CHOOSE g : g = [n \in 0 .. Len(live) |->
                        IF n = 0 THEN <<>>
                        ELSE IF live[n] \in C THEN Append(g[n - 1], live[n]) ELSE g[n - 1]]
<1>1. authenticated_signers(j, f) = taken[Len(live)]
    BY DEF authenticated_signers
<1>2. live \in [1 .. L -> T]
    OBVIOUS
<1> HIDE DEF live, C
<1>3. Len(live) = L
    BY <1>2
<1>4. PICK g : Takes(g, L, T, live, C)
    BY <1>2, TakesExist
<1>5. g = [n \in 0 .. L |-> IF n = 0 THEN <<>>
                            ELSE IF live[n] \in C THEN Append(g[n - 1], live[n]) ELSE g[n - 1]]
    <2>1. g \in [0 .. L -> Seq(T)] /\ g[0] = <<>>
        BY <1>4 DEF Takes
    <2>2. \A n \in 1 .. L : g[n] = IF live[n] \in C THEN Append(g[n - 1], live[n]) ELSE g[n - 1]
        BY <1>4 DEF Takes
    <2>3. ASSUME NEW n \in 0 .. L
          PROVE  g[n] = IF n = 0 THEN <<>>
                        ELSE IF live[n] \in C THEN Append(g[n - 1], live[n]) ELSE g[n - 1]
        <3>1. CASE n = 0
            BY <2>1, <3>1
        <3>2. CASE n # 0
            <4>1. n \in 1 .. L
                BY <3>2
            <4> QED BY <2>2, <3>2, <4>1
        <3> QED BY <3>1, <3>2
    <2> QED BY <2>1, <2>3
<1>6. taken = [n \in 0 .. L |-> IF n = 0 THEN <<>>
                                ELSE IF live[n] \in C THEN Append(taken[n - 1], live[n]) ELSE taken[n - 1]]
    BY <1>3, <1>5
<1> HIDE DEF taken
<1> DEFINE step(n) == IF live[n] \in C THEN Append(taken[n - 1], live[n]) ELSE taken[n - 1]
           entry(n) == IF n = 0 THEN <<>> ELSE step(n)
<1>7. \A n \in 0 .. L : taken[n] = entry(n)
    <2>1. taken = [n \in 0 .. L |-> entry(n)]
        BY <1>6
    <2> HIDE DEF entry
    <2> QED BY <2>1
<1>8. \A n \in 1 .. L : taken[n] = step(n)
    <2> HIDE DEF step
    <2> QED BY <1>7
<1> DEFINE G == {n \in 0 .. L : taken[n] \in Seq(T)}
<1>9. 0 \in G
    <2>1. 0 \in 0 .. L /\ entry(0) = <<>>
        OBVIOUS
    <2>2. <<>> \in Seq(T)
        OBVIOUS
    <2> HIDE DEF entry
    <2> QED BY <1>7, <2>1, <2>2
<1>10. ASSUME NEW n \in 1 .. L, n - 1 \in G PROVE n \in G
    <2> DEFINE q == taken[n - 1]
               x == live[n]
    <2>1. q \in Seq(T) /\ x \in T /\ taken[n] = IF x \in C THEN Append(q, x) ELSE q
        BY <1>2, <1>10, <1>8
    <2> HIDE DEF q, x
    <2>2. Append(q, x) \in Seq(T)
        BY <2>1
    <2>3. taken[n] \in Seq(T)
        BY <2>1, <2>2
    <2> QED BY <2>3
<1> HIDE DEF G
<1>11. \A n \in 0 .. L : n \in G
    BY <1>9, <1>10, UpTo
<1>12. L \in G
    BY <1>11
<1> QED BY <1>1, <1>3, <1>12 DEF G

(* The signers a complete capture has. *)
LEMMA LiveSignersAre ==
    ASSUME NEW j, NEW f, Closed(j, f), WellKept(f)
    PROVE  \E n \in Nat : live_signers(f) \in [1 .. n -> Signers]
<1> DEFINE ids == f[RuleKey].val.signer_ids
<1>1. IsList(ids) /\ \A k \in DOMAIN ids : SignerKey(ids[k]) \in DOMAIN f
    BY RuleIsThere DEF WellKept
<1>2. live_signers(f) = [k \in DOMAIN ids |-> f[SignerKey(ids[k])].val.signer]
    BY DEF live_signers
<1> HIDE DEF ids
<1>3. Len(ids) \in Nat /\ DOMAIN ids = 1 .. Len(ids)
    BY <1>1 DEF IsList
<1>4. ASSUME NEW k \in DOMAIN ids PROVE f[SignerKey(ids[k])].val.signer \in Signers
    <2>1. SignerKey(ids[k]) \in DOMAIN f /\ SignerKey(ids[k])[1] = "SignerData"
        BY <1>1 DEF SignerKey
    <2> QED BY <2>1 DEF WellKept
<1> QED BY <1>2, <1>3, <1>4

(* The attempt a passing capture describes is one an account passes on. *)
LEMMA AttemptFromAccount ==
    ASSUME NEW j \in Jobs, NEW f, Closed(j, f), WellKept(f), Passes(signer_checks(j, f))
    PROVE  /\ FromAccount(Attempted(j, f)) /\ AccountAdmits(Attempted(j, f))
           /\ Attempted(j, f).kind = "contract"
           /\ Attempted(j, f).contract = j.call.contract
<1> DEFINE live == live_signers(f)
           auth == authenticated_signers(j, f)
           r == Attempted(j, f)
<1>1. PICK n \in Nat : live \in [1 .. n -> Signers]
    BY LiveSignersAre
<1>2. live \in [1 .. n -> Range(live)]
    BY <1>1 DEF Range
<1>3. auth \in Seq(Range(live)) /\ auth \in Seq(Signers)
    BY <1>1, <1>2, AuthenticatedAreLive
<1>4. IsInjective(live)
    BY SignersDistinct
<1>5. /\ r.auth = auth /\ r.live = live /\ r.args = j.call.args /\ r.kind = "contract"
      /\ r.contract = j.call.contract
    BY DEF Attempted
<1> HIDE DEF r, live, auth
<1>6. live \in Seq(Signers) /\ Distinct(live)
    BY <1>1, <1>4, ListOf DEF IsInjective, Distinct
<1>7. IsArguments(j.call.args)
    BY JobsAssumption
<1>8. \A m \in DOMAIN auth : auth[m] \in Range(live)
    BY <1>3
<1>9. AccountAdmits(r)
    BY <1>5, <1>8 DEF AccountAdmits, OutsideLiveSet, Range
<1> QED BY <1>3, <1>5, <1>6, <1>7, <1>9 DEF FromAccount, r

(* What the decision reads is the same in a ledger and its capture. *)
LEMMA DecidedThere ==
    ASSUME NEW j \in Jobs, NEW s, NEW f, Closed(j, f), DOMAIN f \subseteq DOMAIN s,
           \A k \in DOMAIN f : f[k] = s[k], Planned(j)
    PROVE  /\ live_signers(s) = live_signers(f)
           /\ s[RuleKey] = f[RuleKey]
           /\ Attempted(j, s) = Attempted(j, f)
           /\ CallCount(j, s) = CallCount(j, f)
           /\ \A p \in Limits(j) : /\ SpendingState(s, p) = SpendingState(f, p)
                                   /\ policy_key("AccountContext", p.address) \in DOMAIN f
           /\ \A p \in Range(j.policies) :
                p.ref = "generated" => policy_key("Installed", p.address) \in DOMAIN s
<1>1. RuleKey \in DOMAIN f /\ s[RuleKey] = f[RuleKey]
    BY RuleIsThere
<1>2. live_signers(s) = live_signers(f)
    BY LiveThere
<1>3. Attempted(j, s) = Attempted(j, f)
    <2>1. authenticated_signers(j, s) = authenticated_signers(j, f)
        BY <1>2 DEF authenticated_signers
    <2> QED BY <1>2, <2>1 DEF Attempted
<1>4. additional_keys(j) \subseteq DOMAIN f
    BY DEF Closed, closure, InitialKeys
<1>5. ASSUME NEW p \in Range(j.policies), NEW tag \in StateTags(j, p)
      PROVE  policy_key(tag, p.address) \in DOMAIN f
    BY <1>4, <1>5 DEF additional_keys
<1>6. CallCount(j, s) = CallCount(j, f)
    <2> DEFINE p == Generated(j)
               key == policy_key("CallCount", p.address)
    <2>1. p \in Range(j.policies) /\ p.ref = "generated"
        <3>1. \E q \in Range(j.policies) : q.ref = "generated"
            BY JobsAssumption DEF Planned
        <3> QED BY <3>1 DEF Generated
    <2> HIDE DEF p
    <2>2. HasState(j.rule) => key \in DOMAIN f
        <3> SUFFICES ASSUME HasState(j.rule) PROVE key \in DOMAIN f
            OBVIOUS
        <3>1. "CallCount" \in StateTags(j, p)
            BY <2>1 DEF StateTags, HasState
        <3> QED BY <1>5, <2>1, <3>1
    <2>3. HasState(j.rule) => f[key] = s[key]
        BY <2>2
    <2> QED BY <2>3 DEF CallCount, p
<1>7. ASSUME NEW p \in Limits(j)
      PROVE  SpendingState(s, p) = SpendingState(f, p) /\ policy_key("AccountContext", p.address) \in DOMAIN f
    <2>1. p \in Range(j.policies) /\ "AccountContext" \in StateTags(j, p)
        BY DEF Limits, StateTags
    <2>2. policy_key("AccountContext", p.address) \in DOMAIN f
        BY <1>5, <2>1
    <2> QED BY <2>2 DEF SpendingState
<1>8. ASSUME NEW p \in Range(j.policies), p.ref = "generated"
      PROVE  policy_key("Installed", p.address) \in DOMAIN s
    <2>1. "Installed" \in StateTags(j, p)
        BY <1>8 DEF StateTags
    <2> QED BY <1>5, <2>1
<1> QED BY <1>1, <1>2, <1>3, <1>6, <1>7, <1>8

(* One spending limit decides as it would enforce. *)
LEMMA LimitAgrees ==
    ASSUME NEW j \in Jobs, NEW v, IsSpendingState(v), NEW l \in Nat,
           evaluate_spending_limit(v, l, Amount(j.call)) # "unsupported"
    PROVE  SpendingEnforces(v, l, j.call) <=>
             /\ j.call.fn = "transfer" /\ Argument(j.call) # {}
             /\ evaluate_spending_limit(v, l, Amount(j.call)) # "deny"
<1> DEFINE gone == {k \in DOMAIN v.history :
                      \A m \in 1 .. k : v.history[m].ledger <= SaturatingSub(l, v.period)}
           fits(amount) == /\ amount >= 0
                           /\ Len(v.history) - Cardinality(gone) < MaxHistory
                           /\ v.cached - Spent(v.history, gone) + amount <= v.limit
           X == Argument(j.call)
           n == Amount(j.call)
<1>1. SpendingEnforces(v, l, j.call) <=> j.call.fn = "transfer" /\ \E amount \in X : fits(amount)
    BY DEF SpendingEnforces
<1>2. ~UnusableHistory(v, l)
    BY DEF evaluate_spending_limit
<1>3. X = {} \/ (X = {n} /\ n \in Int)
    <2>1. IsArguments(j.call.args)
        BY JobsAssumption
    <2> DEFINE args == j.call.args
    <2>2. CASE Len(args) >= 3 /\ args[3].t = "i128"
        <3>1. X = {args[3].v}
            BY <2>2 DEF Argument
        <3>2. 3 \in DOMAIN args
            BY <2>1, <2>2 DEF IsArguments
        <3>3. args[3].v \in Int
            BY <2>1, <2>2, <3>2 DEF IsArguments
        <3>4. n = args[3].v
            BY <3>1 DEF Amount
        <3> QED BY <3>1, <3>3, <3>4
    <2>3. CASE ~(Len(args) >= 3 /\ args[3].t = "i128")
        BY <2>3 DEF Argument
    <2> QED BY <2>2, <2>3
<1>4. ASSUME X # {} PROVE evaluate_spending_limit(v, l, n) # "deny" <=> fits(n)
    <2>1. n \in Int
        BY <1>3, <1>4
    <2> HIDE DEF n
    <2> QED BY <1>2, <2>1, SpendingAgrees
<1> HIDE DEF X, n, fits
<1> QED BY <1>1, <1>3, <1>4 DEF X, n

(* The evaluator decides on the attempt as the installed contract does. *)
LEMMA RuleAgrees ==
    ASSUME NEW j \in Jobs, NEW f, NEW l, Closed(j, f), WellKept(f), Passes(signer_checks(j, f)),
           j.rule \in Rules
    PROVE  enforce_verdict(j.rule, TRUE, CallCount(j, f), l, Attempted(j, f), Self) = "Permit"
           <=> evaluate_generated_rule(j.rule, CallCount(j, f), l, Attempted(j, f), Self) = "Permit"
<1> DEFINE ru == j.rule
           count == CallCount(j, f)
           r == Attempted(j, f)
<1>1. FromAccount(r) /\ AccountAdmits(r) /\ r.kind = "contract"
    BY AttemptFromAccount
<1>2. ru \in Rules
    OBVIOUS
<1> HIDE DEF ru, count, r
<1>3. enforce_verdict(ru, TRUE, count, l, r, Self) = "Permit"
      <=> evaluate_generated_rule(ru, count, l, r, Self) = "Permit"
    BY <1>1, <1>2, AdmittedAgree
<1> QED BY <1>3 DEF ru, count, r

(***************************************************************************)
(* On a complete capture that passed its checks, the evaluator's rule and  *)
(* the spending limits decide as the account and the policies of the       *)
(* ledger would.                                                           *)
(***************************************************************************)
LEMMA PredictionAgrees ==
    ASSUME NEW j \in Jobs, NEW s, NEW f, NEW l \in Nat,
           Closed(j, f), WellKept(f), DOMAIN f \subseteq DOMAIN s, \A k \in DOMAIN f : f[k] = s[k],
           Planned(j), Passes(configuration_checks(j, f)), Passes(signer_checks(j, f)),
           Passes(pinned_code_checks(j, f) \o spending_checks(j, l, f))
    PROVE  Prediction(j, l, f) = "Permit" <=> Admits(j, s, l)
<1> DEFINE r == Attempted(j, f)
           count == CallCount(j, f)
           decision == evaluate_generated_rule(j.rule, count, l, r, Self)
           verdict(marker) == enforce_verdict(j.rule, marker, count, l, r, Self)
           v(p) == SpendingState(f, p)
           decided(p) == evaluate_spending_limit(v(p), l, Amount(j.call))
<1>1. /\ live_signers(s) = live_signers(f) /\ s[RuleKey] = f[RuleKey]
      /\ Attempted(j, s) = r /\ CallCount(j, s) = count
      /\ \A p \in Limits(j) : SpendingState(s, p) = v(p)
                              /\ policy_key("AccountContext", p.address) \in DOMAIN f
      /\ \A p \in Range(j.policies) :
            p.ref = "generated" => policy_key("Installed", p.address) \in DOMAIN s
    BY DecidedThere
<1>2. j.rule \in Rules /\ \E p \in Range(j.policies) : p.ref = "generated"
    BY JobsAssumption DEF Planned
<1>3. /\ FromAccount(r) /\ AccountAdmits(r) /\ r.kind = "contract" /\ r.contract = j.call.contract
    BY AttemptFromAccount
<1>4. f[RuleKey].val.context = j.rule.contract /\ f[RuleKey].val.until = j.rule.valid_until
    BY ConfigurationPassed
<1>5. Range(j.candidates) \subseteq Range(live_signers(f))
    BY SignersDistinct
<1>6. \A p \in Limits(j) : decided(p) # "unsupported"
    BY LastChecks
<1>7. j.rule.valid_until \subseteq Nat
    BY <1>2, RulesValidated DEF Validated
<1>8. verdict(TRUE) = "Permit" <=> decision = "Permit"
    BY <1>2, RuleAgrees
<1>9. decision = "Permit" => ~Expired(j.rule, l) /\ r.contract = j.rule.contract
    <2> HIDE DEF r, count
    <2> QED BY EvaluatorPermits
<1>10. ASSUME NEW p \in Limits(j)
       PROVE  SpendingEnforces(v(p), l, j.call) <=>
                j.call.fn = "transfer" /\ Argument(j.call) # {} /\ decided(p) # "deny"
    <2> DEFINE key == policy_key("AccountContext", p.address)
    <2>1. key \in DOMAIN f /\ key[1] = "AccountContext"
        BY <1>1 DEF policy_key
    <2>2. v(p) = f[key].val
        BY DEF SpendingState
    <2> HIDE DEF key
    <2>3. IsSpendingState(v(p))
        BY <2>1, <2>2 DEF WellKept
    <2>4. decided(p) # "unsupported"
        BY <1>6
    <2> HIDE DEF v
    <2> QED BY <2>3, <2>4, LimitAgrees
<1>11. ASSUME NEW p \in Range(j.policies), p.ref = "generated"
       PROVE  PolicyEnforces(j, s, l, p) <=> decision = "Permit"
    <2> DEFINE there == policy_key("Installed", p.address) \in DOMAIN s
    <2>1. there = TRUE
        BY <1>1, <1>11
    <2>2. PolicyEnforces(j, s, l, p) <=> verdict(there) = "Permit"
        BY <1>1, <1>11 DEF PolicyEnforces
    <2> HIDE DEF there, verdict
    <2> QED BY <1>8, <2>1, <2>2
<1>12. ASSUME NEW p \in Range(j.policies), p.ref # "generated"
       PROVE  p \in Limits(j) /\ (PolicyEnforces(j, s, l, p) <=> SpendingEnforces(v(p), l, j.call))
    <2>1. p \in Limits(j)
        BY <1>12 DEF Limits, Planned
    <2> QED BY <1>1, <1>12, <2>1 DEF PolicyEnforces
<1>13. \A p \in Limits(j) : p \in Range(j.policies) /\ p.ref # "generated"
    BY DEF Limits
<1>14. (\A until \in s[RuleKey].val.until : l <= until) <=> ~Expired(j.rule, l)
    BY <1>1, <1>4, <1>7 DEF Expired
<1>15. SpendingDenied(j, l, f) <=>
        /\ Limits(j) # {}
        /\ j.call.fn # "transfer" \/ Argument(j.call) = {} \/ \E p \in Limits(j) : decided(p) = "deny"
    BY DEF SpendingDenied
<1>16. Prediction(j, l, f) = "Permit" <=> decision = "Permit" /\ ~SpendingDenied(j, l, f)
    BY DEF Prediction
<1>17. Admits(j, s, l) <=>
        /\ f[RuleKey].val.context = j.call.contract
        /\ ~Expired(j.rule, l)
        /\ Range(j.candidates) \subseteq Range(live_signers(f))
        /\ \A p \in Range(j.policies) : PolicyEnforces(j, s, l, p)
    BY <1>1, <1>14 DEF Admits
<1> HIDE DEF r, count, decision, verdict, v, decided
<1>18. (\A p \in Range(j.policies) : PolicyEnforces(j, s, l, p)) <=>
        decision = "Permit" /\ ~SpendingDenied(j, l, f)
    BY <1>2, <1>10, <1>11, <1>12, <1>13, <1>15
<1> QED BY <1>3, <1>4, <1>5, <1>9, <1>16, <1>17, <1>18

LEMMA FinishIsOfItsLedger ==
    ASSUME CaptureInv, pc = "finish", UNCHANGED <<job, chain>>,
           answer' = Finished(job, keys, before, read.ledger, read.found)
    PROVE  PredictionIsOfItsLedger'
<1> SUFFICES ASSUME answer'.out \in {"permit", "deny"} PROVE PredictionIsOfItsLedger'
    BY DEF PredictionIsOfItsLedger, AnswerIsOfItsLedger
<1> DEFINE f == read.found
           l == read.ledger
           s == chain[l]
           asked == closure(InitialKeys(job), f)
           reason == evaluate_observed(job, asked, l, f)
           r == Restoration(asked, l, f)
<1>1. ReadHolds /\ before = l /\ keys = asked /\ job \in Jobs /\ Planned(job)
    BY DEF CaptureInv
<1>2. /\ WellKept(f) /\ DOMAIN f \subseteq DOMAIN s /\ l \in Nat
      /\ \A k \in DOMAIN f : f[k] = s[k] /\ (k[1] # "account" => f[k].ttl \in Nat)
    BY <1>1, ReadKept
<1>3. answer' = Result(Kind(reason), reason, l, l, r)
    <2>1. UnreferencedCode(asked, f) = {}
        BY <1>2, CodeOfClosure DEF WellKept
    <2> QED BY <1>1, <2>1 DEF Finished
<1>4. /\ answer'.out = Kind(reason) /\ answer'.why = reason /\ answer'.ledger = l
      /\ answer'.hash = l /\ answer'.restoration = r
    <2> HIDE DEF reason, r, l
    <2> QED BY <1>3 DEF Result
<1>5. Kind(reason) \in {"permit", "deny"}
    BY <1>4
<1>6. /\ Closed(job, f) /\ (\A k \in DOMAIN f : k[1] # "account" => ~(f[k].ttl < l))
      /\ r = "not_required" /\ (reason # "unauthorized_signer" => Recognized(job, f))
      /\ Passes(configuration_checks(job, f))
      /\ IF Passes(signer_checks(job, f))
         THEN Passes(pinned_code_checks(job, f) \o spending_checks(job, l, f))
              /\ reason = Prediction(job, l, f)
         ELSE reason # "Permit" /\ ~(Range(job.candidates) \subseteq Range(live_signers(f)))
    <2>1. Kind(evaluate_observed(job, closure(InitialKeys(job), f), l, f)) \in {"permit", "deny"}
        BY <1>5
    <2> HIDE DEF f, l
    <2> QED BY <1>1, <1>2, <2>1, Concluded
<1> HIDE DEF f, l, s, reason, r
<1>7. Executable(job, s, l)
    <2>1. Touched(job, s) \subseteq DOMAIN f
        BY <1>2, <1>6, TouchedIsCaptured
    <2>2. RuleKey \in DOMAIN s
        BY <1>2, <1>6, RuleIsThere
    <2>3. \A k \in DOMAIN f : k \in DOMAIN s /\ (k[1] # "account" => s[k].ttl >= l)
        BY <1>2, <1>6
    <2> QED BY <2>1, <2>2, <2>3 DEF Executable
<1>8. reason # "unauthorized_signer" => Recognized(job, s)
    BY <1>2, <1>6, RecognizedThere DEF WellKept
<1>9. Kind(reason) = "permit" <=> Admits(job, s, l)
    <2>1. Kind(reason) = "permit" <=> reason = "Permit"
        BY DEF Kind, Inconclusive
    <2>2. CASE Passes(signer_checks(job, f))
        <3>1. Prediction(job, l, f) = "Permit" <=> Admits(job, s, l)
            BY <1>1, <1>2, <1>6, <2>2, PredictionAgrees
        <3> QED BY <1>6, <2>1, <2>2, <3>1
    <2>3. CASE ~Passes(signer_checks(job, f))
        <3>1. live_signers(s) = live_signers(f)
            BY <1>2, <1>6, LiveThere
        <3> QED BY <1>6, <2>1, <2>3, <3>1 DEF Admits
    <2> QED BY <2>2, <2>3
<1>10. chain'[answer'.ledger] = s /\ job' = job
    BY <1>4 DEF s
<1> QED BY <1>4, <1>6, <1>7, <1>8, <1>9, <1>10 DEF PredictionIsOfItsLedger, AnswerIsOfItsLedger

LEMMA NextOfItsLedger == CaptureInv /\ PredictionIsOfItsLedger /\ [CheckNext]_checkVars => PredictionIsOfItsLedger'
<1> SUFFICES ASSUME CaptureInv, PredictionIsOfItsLedger, [CheckNext]_checkVars PROVE PredictionIsOfItsLedger'
    OBVIOUS
<1>1. ASSUME answer'.out \notin {"permit", "deny"} PROVE PredictionIsOfItsLedger'
    BY <1>1 DEF PredictionIsOfItsLedger, AnswerIsOfItsLedger
<1>2. ASSUME NEW c, answer' = Failure(c) PROVE PredictionIsOfItsLedger'
    BY <1>1, <1>2 DEF Failure, Result
<1>3. ASSUME pc # "done", UNCHANGED answer PROVE PredictionIsOfItsLedger'
    BY <1>1, <1>3 DEF CaptureInv, NoAnswer, Result
<1>4. CASE UNCHANGED checkVars
    BY <1>4 DEF checkVars, PredictionIsOfItsLedger, AnswerIsOfItsLedger
<1>5. CASE CloseLedger \/ SnapshotExpires \/ verify_network \/ header \/ read_entries
    BY <1>3, <1>5 DEF CloseLedger, SnapshotExpires, verify_network, header, read_entries
<1>6. CASE RequestFails \/ Discover \/ Confirm
    <2>1. pc # "done" /\ (UNCHANGED answer \/ answer' = Failure("E_RPC"))
        BY <1>6 DEF RequestFails, Discover, Discovered, Confirm, Changed, Answered
    <2> QED BY <1>2, <1>3, <2>1
<1>7. CASE plan_policy_check_read
    <2> DEFINE code == FirstRefusal(plan_checks(job))
    <2>1. pc # "done" /\ (UNCHANGED answer \/ answer' = policy_check_unavailable(code))
        BY <1>7 DEF plan_policy_check_read, Answered
    <2> HIDE DEF code
    <2>2. CASE answer' = policy_check_unavailable(code)
        BY <1>1, <2>2 DEF policy_check_unavailable, Failure, Result
    <2> QED BY <1>3, <2>1, <2>2
<1>8. CASE finish_policy_check
    <2>1. /\ pc = "finish" /\ UNCHANGED <<job, chain>>
          /\ \/ answer' = Failure("E_REGISTRY_EXPIRED")
             \/ answer' = Finished(job, keys, before, read.ledger, read.found)
        BY <1>8 DEF finish_policy_check, Answered
    <2> QED BY <1>2, <2>1, FinishIsOfItsLedger
<1> QED BY <1>4, <1>5, <1>6, <1>7, <1>8 DEF CheckNext, Step, Done

(***************************************************************************)
(* A permit or a denial of check_against_policy is what the account, its   *)
(* generated policy and its spending limits would do at the ledger whose   *)
(* sequence and hash the answer names, for every rule, request and chain   *)
(* of ledgers: every key the execution touches exists and is live there,   *)
(* what runs there is what the request recognized, and the answer permits  *)
(* exactly where that ledger would admit the call.                         *)
(***************************************************************************)
THEOREM PredictionIsTrue == CheckSpec => []PredictionIsOfItsLedger
<1>1. CheckInit => PredictionIsOfItsLedger
    BY DEF CheckInit, PredictionIsOfItsLedger, AnswerIsOfItsLedger, NoAnswer, Result
<1> QED BY <1>1, InitCapture, NextCapture, NextOfItsLedger, PTL DEF CheckSpec

=============================================================================
