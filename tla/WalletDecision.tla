---------------------------- MODULE WalletDecision ----------------------------
(***************************************************************************)
(* What the wallet that holds the owner's passkey decides from the         *)
(* authority check's answers (wallet/shared/authority.mjs, approval.mjs),  *)
(* and what it concludes later about a retained installation               *)
(* (wallet/server/monitor.mjs).  It trusts keys, never the answer.         *)
(*                                                                         *)
(* The wallet is [account, verifier, data]: its account, and the verifier  *)
(* and full key data (point and credential) of its passkey.                *)
(***************************************************************************)
EXTENDS SurfaceRequest

CONSTANTS
    PasskeyVerifierCode, \* the pinned WebAuthn verifier
    NativeAsset,         \* the one target this wallet supports
    MonitorWindow        \* how many ledgers old a monitoring read may be

identityKey(i) == <<i.scheme, i.key>>

SharesKey(a, b) == a = b \/ (a.len >= 32 /\ b.len >= 32 /\ a.head = b.head)

(* A key the answer marks as the agent's anywhere is the agent's everywhere. *)
Flagged(v) ==
    UNION {{i.key : i \in {x \in ToSet(e.requirement.signers) : x.restricted}} :
            e \in v.authority_list \cup v.target_rules}

RestrictedMaterial(v) == UNION {key_material(k) : k \in ToSet(v.grant.signers)}

TrustedSigner(v, trust, i) ==
    /\ identityKey(i) \in trust
    /\ ~i.restricted
    /\ \A m \in Flagged(v) \cup RestrictedMaterial(v) : ~SharesKey(i.key, m)

(* Every rule able to change the grant needs somebody the wallet trusts. *)
EntriesTrusted(v, trust) ==
    /\ v.authority_list # {}
    /\ \A e \in v.authority_list :
        /\ e.requirement.kind = "all_of"
        /\ \E i \in ToSet(e.requirement.signers) : TrustedSigner(v, trust, i)

decide(output, trust, expect) ==
    LET v == output.verdict
    IN  /\ v.account = expect.account /\ v.network = expect.network
        /\ v.grant.target = expect.target /\ v.bound = expect.bound /\ v.grant.rule = expect.rule
        /\ output.commitment.spec = expect.spec /\ output.commitment.registry = expect.registry
        /\ v.grant.target # v.account /\ v.grant.target \notin ToSet(v.bound)
        /\ \A u \in v.grant.until : u > v.ledger
        /\ v.refusals = {} /\ v.unresolved = {}
        /\ EntriesTrusted(v, trust)

(* Mutant: the re-check only decides again. *)
recheck_NoCommitment(approved, fresh, trust, expect) ==
    decide(fresh, trust, expect) /\ fresh.verdict.ledger >= approved.verdict.ledger

(* The fresh answer is acceptable itself, is the one approved, and is not   *)
(* older.  The wallet's backend compares the two inline (authorityRecheck); *)
(* the shared module's recheck, which it does not call, does the same.      *)
recheck(approved, fresh, trust, expect) ==
    /\ decide(fresh, trust, expect)
    /\ fresh.commitment = approved.commitment
    /\ fresh.verdict.ledger >= approved.verdict.ledger

-----------------------------------------------------------------------------
(* The rule the owner signs under *)

(* Rules of the account that the passkey alone satisfies, by full stored    *)
(* credential and not only by the point the answer names.  That the decoded *)
(* rule's expiry is the entry's is left to the commitment, which covers it. *)
ownerRules(v, wallet, st) ==
    {e.rule : e \in {x \in v.authority_list :
        /\ x.reach \in {"AnyCall", "AccountCalls"}
        /\ x.requirement.kind = "all_of" /\ Len(x.requirement.signers) = 1
        /\ \A u \in x.until : u > v.ledger
        /\ LET i == x.requirement.signers[1]
           IN  /\ i.kind = "external" /\ i.scheme = "webauthn" /\ ~i.restricted
               /\ i.at = wallet.verifier /\ i.code = PasskeyVerifierCode
               /\ i.key = CanonicalKey("webauthn", wallet.data)
        /\ x.rule \in DOMAIN st.rules
        /\ [k \in DOMAIN st.rules[x.rule].signers |-> st.signers[st.rules[x.rule].signers[k]].key]
            = <<[kind |-> "External", at |-> wallet.verifier, data |-> wallet.data]>>}}

WalletTrust(wallet) == {<<"webauthn", CanonicalKey("webauthn", wallet.data)>>}

reviewIntent(output, wallet, expect, st) ==
    /\ expect.network = Testnet /\ expect.account = wallet.account
    /\ output.commitment.code = PinnedAccount
    /\ decide(output, WalletTrust(wallet), expect)
    /\ ownerRules(output.verdict, wallet, st) # {}

(* Before it submits, the wallet reviews a fresh intent with the owner rule *)
(* it retained (st) and compares it with what was approved.                 *)
authorityRecheck(approved, fresh, wallet, expect, st) ==
    /\ reviewIntent(fresh, wallet, expect, st)
    /\ recheck(approved, fresh, WalletTrust(wallet), expect)
    /\ ownerRules(fresh.verdict, wallet, st) = ownerRules(approved.verdict, wallet, st)
    /\ fresh.verdict.grant = approved.verdict.grant

-----------------------------------------------------------------------------
(* Monitoring *)

ReadNames == {"account_code", "policy_code", "verifier_code", "target", "owner_rule", "rule", "marker"}

(* What each read must still say; reads is a function from the names that   *)
(* were answered to [ledger, value].  Code that is not found, or past its   *)
(* live-until ledger, is unavailable: here a read that was not answered.    *)
Drifted(record, name, value) ==
    CASE name = "account_code" -> value # PinnedAccount
      [] name = "policy_code" -> value # record.policy_code
      [] name = "verifier_code" -> value # PasskeyVerifierCode
      [] name = "target" -> value # NativeAsset
      [] name = "owner_rule" -> value # {record.owner_rule}
      [] name = "rule" -> value # {record.rule}
      [] name = "marker" -> value # TRUE

(* Made after the installation and within the window. *)
Fresh(record, ledger, current) ==
    ledger >= record.ledger /\ ledger <= current /\ current - ledger <= MonitorWindow

(* Mutant: the projected authority is not compared. *)
AuthorityDrifted_StatusOnly(record, authority) == authority.status = "changed"

AuthorityDrifted(record, authority) ==
    /\ authority.ledger >= record.ledger
    /\ \/ authority.status = "changed"
       \/ \E o \in authority.output :
            \/ o.commitment # record.commitment
            \/ o.verdict.refusals # {} \/ o.verdict.unresolved # {}

monitorInstallation(record, authority, reads, current) ==
    LET usable == {n \in DOMAIN reads : Fresh(record, reads[n].ledger, current)}
        drift == \/ AuthorityDrifted(record, authority)
                 \/ \E n \in usable : Drifted(record, n, reads[n].value)
        missing == \/ authority.status = "error"
                   \/ ~Fresh(record, authority.ledger, current)
                   \/ usable # ReadNames
        over == authority.reason = "installed_rule_expired" \/ \E u \in record.until : current > u
    IN  IF drift THEN "drift" ELSE IF missing THEN "unavailable"
        ELSE IF over THEN "inactive" ELSE "unchanged"

=============================================================================
