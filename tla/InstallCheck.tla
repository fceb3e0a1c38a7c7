----------------------------- MODULE InstallCheck -----------------------------
(***************************************************************************)
(* From a request to a watched installation: the toolkit plans a check     *)
(* under the registry the operator pinned and reads the account, the       *)
(* wallet approves the answer, reads again before it signs, installs, and  *)
(* later monitors what it installed.  Meanwhile the account, the code it   *)
(* depends on and the registry go on changing.                             *)
(*                                                                         *)
(* The account's own methods, the classic accounts and the contracts are   *)
(* not the repository's code: what they do is modelled from how the check  *)
(* and the wallet use them.                                                *)
(***************************************************************************)
EXTENDS WalletDecision

CONSTANTS
    Setups,      \* function from a name to [accounts, requests, changes, batches, registry,
                 \* and the bounds events, ledgers, times]
    Published,   \* the signed snapshots in the world
    FirstTrust,  \* the operator's first registry configuration
    Wallet,      \* the wallet
    KeyHeads,    \* all the physical keys there are
    TrueScheme,  \* what the code at a verifier really checks, a function from code
    LimitCode    \* the codes that really demand one of their rule's signers

(* An operator who pins a checkpoint has it from a snapshot he trusted. *)
ASSUME FirstTrustAssumption ==
    /\ DOMAIN FirstTrust = {"checkpoint", "minimum", "was"}
    /\ FirstTrust.checkpoint = {checkpoint(s) : s \in FirstTrust.was}
    /\ IsOption(FirstTrust.was)

(* An account has its fields, and signer and policy lists are lists. *)
IsList(x) == x \in Seq(ToSet(x))

RuleFields == {"id", "name", "context", "until", "signers", "policies"}

IsRule(x) == x = [f \in RuleFields |-> x[f]]

IsAccount(ch) ==
    /\ {"ledger", "codes", "classics", "state", "marker"} \subseteq DOMAIN ch
    /\ DOMAIN ch.state = {"next_id", "active_count", "rules", "signers", "policies"}
    /\ ch.state.next_id \in Nat /\ DOMAIN ch.state.rules \subseteq 0 .. ch.state.next_id - 1
    /\ \A r \in DOMAIN ch.state.rules : IsRule(ch.state.rules[r])

Listed(ch) ==
    \A r \in DOMAIN ch.state.rules :
        IsList(ch.state.rules[r].signers) /\ IsList(ch.state.rules[r].policies)

ASSUME SetupAssumption ==
    \A name \in DOMAIN Setups :
        /\ \A ch \in Setups[name].accounts : IsAccount(ch) /\ Listed(ch)
        /\ \A c \in Setups[name].changes :
            /\ c.do \in {"add", "remove", "extend", "rename", "classic", "upgrade"}
            /\ c.do = "add" => IsList(c.rule.keys) /\ IsList(c.rule.policies)
        /\ \A r \in Setups[name].requests : IsList(r.bindings.list)

(* What the reviews established is true: of a verifier's code, and of the  *)
(* code the governance roots list as a spending limit.                     *)
ASSUME ReviewAssumption ==
    /\ DOMAIN ReviewedSchemes \subseteq DOMAIN TrueScheme
    /\ \A name \in DOMAIN Setups : \A r \in Setups[name].requests :
        Signed(r.snapshot) =>
            \A h \in DOMAIN r.snapshot.snapshot.policies :
                r.snapshot.snapshot.policies[h] = "spending_limit" => h \in LimitCode

VARIABLES
    setup,    \* the chosen setup and the changes it has left: bounds the behaviour
    chain,    \* the account and what it depends on
    trust,    \* the operator's registry configuration, and what it ever was
    reg,      \* a long-lived registry of the operator's
    now,      \* the clock
    job       \* the installation under way

vars == <<setup, chain, trust, reg, now, job>>

NoJob ==
    [ phase |-> "idle", request |-> {}, approved |-> {}, before |-> {}, seen |-> {},
      record |-> {}, authority |-> {}, watched |-> {}, reads |-> <<>>, report |-> "none",
      reg |-> {}, touched |-> FALSE ]

The(option) == CHOOSE x \in option : TRUE

Config == Setups[setup.name]

Request == The(job.request)

-----------------------------------------------------------------------------
(* The account and what it depends on *)

(* Identifiers for a list: entries already stored keep theirs, new ones     *)
(* take the next in order.                                                  *)
Allocate(list, known, next) ==
    LET new == SelectSeq(list, LAMBDA x : x \notin Range(known))
    IN  [k \in DOMAIN list |->
            IF list[k] \in Range(known) THEN CHOOSE i \in DOMAIN known : known[i] = list[k]
            ELSE next + (CHOOSE j \in DOMAIN new : new[j] = list[k]) - 1]

(* add_context_rule: entries are shared between rules. *)
AddedRule(ch, rule) ==
    LET st == ch.state
        id == st.next_id
        sids == Allocate(rule.keys, [s \in DOMAIN st.signers |-> st.signers[s].key], ch.next_signer)
        pids == Allocate(rule.policies, [p \in DOMAIN st.policies |-> st.policies[p].address],
                         ch.next_policy)
        At(seq, value) == CHOOSE k \in DOMAIN seq : seq[k] = value
    IN  [ch EXCEPT
            !.state = [ next_id |-> id + 1, active_count |-> st.active_count + 1,
                        rules |-> Extended(st.rules, [r \in {id} |->
                            [ id |-> id, name |-> rule.name, context |-> rule.context,
                              until |-> rule.until, signers |-> sids, policies |-> pids ]]),
                        signers |-> Extended(st.signers, [s \in ToSet(sids) |->
                            [id |-> s, key |-> rule.keys[At(sids, s)]]]),
                        policies |-> Extended(st.policies, [p \in ToSet(pids) |->
                            [id |-> p, address |-> rule.policies[At(pids, p)]]]) ],
            !.next_signer = @ + Cardinality(ToSet(sids) \ DOMAIN st.signers),
            !.next_policy = @ + Cardinality(ToSet(pids) \ DOMAIN st.policies)]

(* remove_context_rule: entries nobody else names go with the rule. *)
RemovedRule(ch, id) ==
    LET rest == WithoutRule(ch.state, id)
    IN  [ch EXCEPT !.state = [rest EXCEPT !.next_id = ch.state.next_id],
                   !.marker = @ \ {id}]

Change(ch, c) ==
    CASE c.do = "add" -> AddedRule(ch, c.rule)
      [] c.do = "remove" -> RemovedRule(ch, c.id)
      [] c.do = "extend" -> [ch EXCEPT !.state.rules[c.id].until = c.until]
      [] c.do = "rename" -> [ch EXCEPT !.state.rules[c.id].name = c.name]
      [] c.do = "classic" -> [ch EXCEPT !.classics[c.at] = c.entry]
      [] c.do = "upgrade" -> [ch EXCEPT !.codes[c.at] = c.code]

Applies(ch, c) ==
    /\ c.do \in {"remove", "extend", "rename"} => c.id \in DOMAIN ch.state.rules
    /\ Change(ch, c) # ch

(* Somebody with the authority to do so changes the account, a classic      *)
(* account or a contract's code.  Bound: setup.left of them.                *)
AccountChanges(c) ==
    /\ setup.left > 0
    /\ Applies(chain, c)
    /\ chain' = Change(chain, c)
    /\ setup' = [setup EXCEPT !.left = @ - 1]
    /\ job' = [job EXCEPT !.touched = TRUE]
    /\ UNCHANGED <<trust, reg, now>>

LedgerCloses ==
    /\ chain.ledger < Config.ledgers
    /\ chain' = [chain EXCEPT !.ledger = @ + 1]
    /\ UNCHANGED <<setup, trust, reg, now, job>>

-----------------------------------------------------------------------------
(* The operator's registry *)

Load(signed) ==
    /\ Config.registry
    /\ Passes(load_checks(reg, signed, Testnet, now))
    /\ reg' = load_at(reg, signed)
    /\ UNCHANGED <<setup, chain, trust, now, job>>

Persist ==
    /\ Config.registry /\ reg.current # {}
    /\ trust' = [trust EXCEPT !.checkpoint = {checkpoint(Of(reg))}, !.was = @ \cup {Of(reg)}]
    /\ trust' # trust
    /\ UNCHANGED <<setup, chain, reg, now, job>>

Restart ==
    /\ Config.registry
    /\ reg' = RegistryFor(trust)
    /\ reg' # reg
    /\ UNCHANGED <<setup, chain, trust, now, job>>

TimePasses ==
    /\ now < Config.times
    /\ now' = now + 1
    /\ UNCHANGED <<setup, chain, trust, reg, job>>

-----------------------------------------------------------------------------
(* The installation *)

Plan(request) ==
    /\ job.phase = "idle"
    /\ job' = [job EXCEPT !.phase = IF Passes(plan_install_intent_read(request, trust, now))
                                    THEN "planned" ELSE "refused",
                          !.request = {request},
                          !.reg = {load_at(RegistryFor(trust), request.snapshot)}]
    /\ UNCHANGED <<setup, chain, trust, reg, now>>

(* One capture of the account, with everything the plan or a rule names. *)
Scan(request, ch) ==
    LET st == ch.state
        keys == {st.signers[s].key : s \in DOMAIN st.signers} \cup ToSet(grant_for(request).signers)
        verifiers == {k.at : k \in {x \in keys : x.kind = "External"}}
    IN  [ network |-> Testnet, account |-> Wallet.account, ledger |-> ch.ledger,
          code |-> ch.code, state |-> st,
          codes |-> Kept(ch.codes, DOMAIN ch.codes \cap
                        (verifiers \cup PlannedContracts(request)
                            \cup {st.policies[p].address : p \in DOMAIN st.policies})),
          classics |-> Kept(ch.classics, {k.at : k \in {x \in keys : IsClassic(x)}}) ]

Expected ==
    [ account |-> Wallet.account, network |-> Testnet, target |-> grant_for(Request).target,
      bound |-> [k \in DOMAIN Request.bindings.list |-> Request.bindings.list[k].address],
      rule |-> Request.rule, spec |-> Request.spec, registry |-> Request.spec.registry ]

(* The plan is answered over a capture and the wallet reviews the answer. *)
Review ==
    /\ job.phase = "planned"
    /\ \E result \in {prepare_install_intent_from_scan(The(job.reg), Request, Scan(Request, chain), now)} :
        job' = IF /\ result.error = "ok"
                  /\ reviewIntent(The(result.output), Wallet, Expected, chain.state)
               THEN [job EXCEPT !.phase = "approved", !.approved = result.output,
                                !.before = {chain}, !.touched = FALSE]
               ELSE [job EXCEPT !.phase = "refused"]
    /\ UNCHANGED <<setup, chain, trust, reg, now>>

(* A later call of the tool plans anew, under the trust of that moment. *)
Replanned == Passes(plan_install_intent_read(Request, trust, now))

RegistryNow == load_at(RegistryFor(trust), Request.snapshot)

(* The rule the owner signs under, as retained at the approval. *)
OwnerRule ==
    LET st == The(job.before).state
    IN  st.rules[The(ownerRules(The(job.approved).verdict, Wallet, st))]

RuleNow(id) == {chain.state.rules[r] : r \in {id} \cap DOMAIN chain.state.rules}

(* Just before it submits, the wallet reads and decides again, and reads    *)
(* the owner's rule.                                                        *)
Recheck ==
    /\ job.phase = "approved"
    /\ \E result \in {prepare_install_intent_from_scan(RegistryNow, Request, Scan(Request, chain), now)} :
        job' = IF /\ Replanned
                  /\ result.error = "ok"
                  /\ authorityRecheck(The(job.approved), The(result.output), Wallet, Expected,
                                      The(job.before).state)
                  /\ RuleNow(OwnerRule.id) = {OwnerRule}
               THEN [job EXCEPT !.phase = "cleared", !.seen = {chain}, !.touched = FALSE]
               ELSE [job EXCEPT !.phase = "refused"]
    /\ UNCHANGED <<setup, chain, trust, reg, now>>

(* Grant signers and policies as add_context_rule takes them. *)
InstalledRule(grant) ==
    [ name |-> grant.name, context |-> [kind |-> "CallContract", at |-> grant.target],
      until |-> grant.until, keys |-> grant.signers,
      policies |-> [k \in DOMAIN grant.policies |-> grant.policies[k].address] ]

(* The owner's transaction is applied, and the wallet keeps what it saw. *)
Install ==
    LET grant == grant_for(Request)
        after == AddedRule(chain, InstalledRule(grant))
        id == chain.state.next_id
    IN  /\ job.phase = "cleared"
        /\ RuleNow(OwnerRule.id) # {}
        /\ chain' = [after EXCEPT !.marker = @ \cup {id}]
        /\ job' = [job EXCEPT !.phase = "installed",
                     !.record = {[ rule |-> after.state.rules[id], until |-> grant.until,
                                   ledger |-> chain.ledger, owner |-> OwnerRule.id,
                                   owner_rule |-> OwnerRule,
                                   policy |-> grant.policies[1].address,
                                   policy_code |-> Request.bindings.list[1].code,
                                   commitment |-> The(job.approved).commitment ]}]
        /\ UNCHANGED <<setup, trust, reg, now>>

-----------------------------------------------------------------------------
(* Monitoring: eight reads, each at its own moment *)

Record == The(job.record)

ReadAuthority ==
    /\ job.phase = "installed"
    /\ \E found \in {IF Replanned
                     THEN check_installed_grant_from_scan(RegistryNow, Request, Scan(Request, chain), Record.rule, now)
                     ELSE [status |-> "error", reason |-> "none", output |-> {}]} :
        job' = [job EXCEPT !.phase = "monitoring", !.watched = {chain},
                     !.authority = {[ status |-> found.status, reason |-> found.reason,
                                      output |-> found.output, ledger |-> chain.ledger ]}]
    /\ UNCHANGED <<setup, chain, trust, reg, now>>

ValueNow(name) ==
    CASE name = "account_code" -> chain.code
      [] name = "policy_code" -> chain.codes[Record.policy]
      [] name = "verifier_code" -> chain.codes[Wallet.verifier]
      [] name = "target" -> grant_for(Request).target
      [] name = "owner_rule" -> RuleNow(Record.owner)
      [] name = "rule" -> RuleNow(Record.rule.id)
      [] name = "marker" -> Record.rule.id \in chain.marker

(* A read of the parallel batch is answered.  Reads of one ledger commute. *)
Read(names) ==
    /\ job.phase = "monitoring" /\ names \cap DOMAIN job.reads = {}
    /\ job' = [job EXCEPT !.reads = Extended(@,
                    [n \in names |-> [ledger |-> chain.ledger, value |-> ValueNow(n)]])]
    /\ UNCHANGED <<setup, chain, trust, reg, now>>

(* Every read was answered or failed: the report. *)
Conclude ==
    /\ job.phase = "monitoring"
    /\ job' = [job EXCEPT !.phase = "reported",
                 !.report = monitorInstallation(Record, The(job.authority), job.reads, chain.ledger)]
    /\ UNCHANGED <<setup, chain, trust, reg, now>>

-----------------------------------------------------------------------------
Init ==
    /\ \E name \in DOMAIN Setups : setup = [name |-> name, left |-> Setups[name].events]
    /\ chain \in Config.accounts
    /\ trust = FirstTrust
    /\ reg = RegistryFor(FirstTrust)
    /\ now = 1
    /\ job = NoJob

Next ==
    \/ \E c \in Config.changes : AccountChanges(c)
    \/ LedgerCloses
    \/ \E s \in Published : Load(s)
    \/ Persist \/ Restart \/ TimePasses
    \/ \E r \in Config.requests : Plan(r)
    \/ Review \/ Recheck \/ Install \/ ReadAuthority
    \/ \E names \in Config.batches : Read(names)
    \/ Conclude

Spec == Init /\ [][Next]_vars

-----------------------------------------------------------------------------
(* What the account really lets a set of keys do (external: the account's   *)
(* authorization, the classic accounts' weights and the verifiers' code).   *)

Signing(entry, own, keys) == ({own} \cup DOMAIN entry.others) \cap keys

Weight(entry, own, keys) ==
    FoldSet(LAMBDA k, n : n + (IF k = own THEN entry.master ELSE entry.others[k]), 0,
            Signing(entry, own, keys))

CanProduce(ch, keys, key) ==
    IF key.kind = "External"
    THEN LET code == ch.codes[key.at]
         IN  /\ key.at \in DOMAIN ch.codes
             /\ \/ code \notin DOMAIN TrueScheme
                \/ WellFormedKey(TrueScheme[code], key.data) /\ key.data.head \in keys
    ELSE IF ~IsClassic(key) THEN TRUE
    ELSE LET entry == ch.classics[key.at]
             own == PublicKey[key.at].head
             weight == Weight(entry, own, keys)
         IN  /\ entry.found /\ Signing(entry, own, keys) # {}
             /\ weight > 0 /\ weight >= entry.medium

(* Without policies every signer signs; otherwise the policies decide, and  *)
(* one that was not reviewed may let anybody through.                       *)
MayUse(ch, keys, rule) ==
    LET signers == {ch.state.signers[s].key : s \in ToSet(rule.signers)}
        codes == {ch.codes[ch.state.policies[p].address] : p \in ToSet(rule.policies)}
    IN  /\ ~ \E v \in rule.until : ch.ledger > v
        /\ IF codes = {} THEN \A k \in signers : CanProduce(ch, keys, k)
           ELSE \A c \in codes : c \in LimitCode => \E k \in signers : CanProduce(ch, keys, k)

CanCall(ch, keys, address, except) ==
    \E r \in DOMAIN ch.state.rules \ except :
        /\ \/ ch.state.rules[r].context.kind = "Default"
           \/ ch.state.rules[r].context = [kind |-> "CallContract", at |-> address]
        /\ MayUse(ch, keys, ch.state.rules[r])

BoundNow == {b.address : b \in ToSet(Request.bindings.list)}

ControlSurface == {Wallet.account} \cup BoundNow

AgentKeys ==
    {d.head : d \in UNION {key_material(k) : k \in ToSet(grant_for(Request).signers)}}

Powers(ch, except) ==
    {p \in (ControlSurface \cup {grant_for(Request).target}) \X SUBSET KeyHeads :
        CanCall(ch, p[2], p[1], except)}

-----------------------------------------------------------------------------
(* Properties *)

(* When the wallet goes on to sign, everybody but the owner together could  *)
(* neither manage the account nor call a bound policy at the state it last  *)
(* read (decide over check: every listed rule needs a trusted signer, and   *)
(* no rule that could act is missing from the list).                        *)
OnlyTrustedControl ==
    job.phase = "cleared" =>
        \A a \in ControlSurface :
            ~CanCall(The(job.seen), KeyHeads \ {Wallet.data.head}, a, {})

(* A grant that counts is the agent's only way to its target: when the      *)
(* wallet goes on to sign, no rule there lets the agent's keys through      *)
(* alone (the overlap refusal, over aliased keys, expiries and policies).   *)
LimitIsTheOnlyWay ==
    job.phase = "cleared" /\ grant_for(Request).stateful =>
        ~CanCall(The(job.seen), AgentKeys, grant_for(Request).target, {})

(* An approval is for who can do what: an equal commitment at the re-read   *)
(* means that every set of keys can do exactly what it could when the       *)
(* owner approved, on the account, the policies and the target.             *)
CommitmentCoversPower ==
    job.phase = "cleared" => Powers(The(job.seen), {}) = Powers(The(job.before), {})

(* A monitoring report of "unchanged" is true: at the authority read the    *)
(* recorded rule stood as installed, and apart from it every set of keys    *)
(* could do what it could at the approval, although the eight reads are     *)
(* made at different ledgers.                                               *)
UnchangedIsTrue ==
    job.report = "unchanged" =>
        LET ch == The(job.watched)
            id == Record.rule.id
        IN  /\ id \in DOMAIN ch.state.rules /\ ch.state.rules[id] = Record.rule
            /\ Powers(ch, {id}) = Powers(The(job.before), {})
            /\ ch.ledger >= Record.ledger

Snapshots == {signed.snapshot : signed \in Published} \cup FirstTrust.was

(* A snapshot and what it extends, back to the first there is. *)
Ancestry(s) ==
    {a \in Snapshots : \A S \in SUBSET Snapshots :
        s \in S /\ (\A x \in S : x.previous \cap Snapshots \subseteq S) => a \in S}

Extends(b, a) == a \in Ancestry(b) /\ ensure_revocations_extend(a.revocations, b.revocations)

(* Every snapshot the operator ever persisted lies on one history, across   *)
(* restarts: of two, one descends from the other, and what the ancestor     *)
(* revoked the descendant revokes (load against the persisted checkpoint).  *)
OneRegistryHistory == \A a, b \in trust.was : Extends(a, b) \/ Extends(b, a)

=============================================================================
