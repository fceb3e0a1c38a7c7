------------------------------- MODULE Registry -------------------------------
(***************************************************************************)
(* The capability registry (crates/registry/src/lib.rs): a signed snapshot *)
(* says which code is a recognized account, policy, verifier or target,    *)
(* and each snapshot extends the one before it.                            *)
(*                                                                         *)
(* A snapshot is [schema, version, log_index, previous, network, from,     *)
(* until, policies, accounts, verifiers, adapters, templates, revocations, *)
(* keys_ok]: the maps are functions from a hash or a family, revocations a *)
(* function from <<kind, identity>> to [effective, reason], previous an    *)
(* optional root.  A registry is [current, checkpoint, minimum] with       *)
(* optional current snapshot and checkpoint.                               *)
(***************************************************************************)
EXTENDS Verdicts, FiniteSets

CONSTANTS
    RootKeys,        \* identifiers of the pinned governance roots
    RootThreshold,   \* how many of them must sign
    PinnedAccount,   \* the account code whose methods were reviewed
    ReviewedSchemes, \* function from verifier code to its reviewed key scheme
    Implemented,     \* function from an adapter's name to what it derives
    MaxIndex         \* the largest log index (u64::MAX)

ASSUME RootPolicySound == RootThreshold \in 1 .. Cardinality(RootKeys)

(* Distinct snapshots have distinct roots. *)
snapshot_root(snapshot) == snapshot

checkpoint(snapshot) ==
    [ version |-> snapshot.version, log_index |-> snapshot.log_index,
      root |-> snapshot_root(snapshot), revocations |-> snapshot.revocations ]

with_pinned_roots(checkpoints, minimum) ==
    [current |-> {}, checkpoint |-> checkpoints, minimum |-> minimum]

(* A pinned checkpoint is also the version floor. *)
with_pinned_roots_for_network_at_checkpoint(cp) == with_pinned_roots({cp}, cp.version)

with_pinned_roots_for_network_at_version(minimum) == with_pinned_roots({}, minimum)

-----------------------------------------------------------------------------
(* Loading *)

(* Every supplied signature is by a pinned root and verifies. *)
Signed(signed) ==
    /\ Cardinality(DOMAIN signed.signatures) >= RootThreshold
    /\ \A id \in DOMAIN signed.signatures :
        id \in RootKeys /\ signed.signatures[id] = snapshot_root(signed.snapshot)

check_snapshot_validity(s, now) ==
    << Check(s.from > s.until, "Validity"),
       Check(now < s.from, "NotYetValid"),
       Check(now > s.until, "Expired") >>

(* One hash has one role. *)
validate_capability_keys(s) ==
    LET roles == <<DOMAIN s.policies, DOMAIN s.accounts, DOMAIN s.verifiers, DOMAIN s.adapters>>
    IN  << Check(~s.keys_ok, "Parse"),
           Check(\E j, k \in DOMAIN roles : j # k /\ roles[j] \cap roles[k] # {}, "Parse"),
           Check(\E r \in DOMAIN s.revocations : r[1] \notin
                    {"policy", "account", "verifier", "target_adapter", "template"}, "Parse") >>

RevocationMalformed(s) ==
    \E r \in DOMAIN s.revocations :
        s.revocations[r].reason = "" \/ s.revocations[r].effective > s.version

ensure_revocations_extend(previous, next) ==
    \A r \in DOMAIN previous : r \in DOMAIN next /\ next[r] = previous[r]

DirectSuccessor(s, index, root, revocations) ==
    /\ index < MaxIndex
    /\ s.log_index = index + 1
    /\ s.previous = {root}
    /\ ensure_revocations_extend(revocations, s.revocations)

(* Mutant: the persisted version alone is compared. *)
ExtendsCheckpoint_Version(s, cp) == s.version >= cp.version

(* A first load meets the persisted checkpoint: that snapshot or the next. *)
ExtendsCheckpoint(s, cp) ==
    IF s.version = cp.version
    THEN /\ snapshot_root(s) = cp.root
         /\ s.log_index = cp.log_index /\ s.revocations = cp.revocations
    ELSE DirectSuccessor(s, cp.log_index, cp.root, cp.revocations)

load_checks(reg, signed, network, now) ==
    LET s == signed.snapshot
    IN  << Check(s.schema # "v1", "Schema"),
           Check(~Signed(signed), "Signature"),
           Check(s.network # network, "Network") >>
        \o check_snapshot_validity(s, now)
        \o validate_capability_keys(s)
        \o << Check(RevocationMalformed(s), "Parse"),
              Check(s.version < reg.minimum, "Rollback"),
              Check(/\ reg.current = {}
                    /\ \E cp \in reg.checkpoint : ~ExtendsCheckpoint(s, cp), "Transparency"),
              Check(\E c \in reg.current : s.version <= c.version, "Rollback"),
              Check(\E c \in reg.current :
                        ~DirectSuccessor(s, c.log_index, snapshot_root(c), c.revocations),
                    "Transparency") >>

load_at(reg, signed) == [reg EXCEPT !.current = {signed.snapshot}]

ensure_valid_at(reg, now) ==
    << Check(reg.current = {}, "NotLoaded") >>
    \o (IF reg.current = {} THEN <<>>
        ELSE check_snapshot_validity(CHOOSE c \in reg.current : TRUE, now))

-----------------------------------------------------------------------------
(* Resolution.  Each check list says why a capability cannot be had. *)

Of(reg) == CHOOSE c \in reg.current : TRUE

(* A revocation holds even when the entry itself is gone. *)
ensure_active(reg, kind, identity) ==
    << Check(reg.current = {}, "NotLoaded"),
       Check(\E c \in reg.current : <<kind, identity>> \in DOMAIN c.revocations, "Revoked") >>

resolve_policy(reg, hash) ==
    ensure_active(reg, "policy", hash)
    \o << Check(\E c \in reg.current : hash \notin DOMAIN c.policies, "UnknownPolicy") >>

resolve_account(reg, hash) ==
    ensure_active(reg, "account", hash)
    \o << Check(\E c \in reg.current : hash \notin DOMAIN c.accounts, "UnknownAccount") >>

resolve_template(reg, family) ==
    ensure_active(reg, "template", family)
    \o << Check(\E c \in reg.current : family \notin DOMAIN c.templates, "UnknownTemplate") >>

resolve_verifier(reg, hash) ==
    ensure_active(reg, "verifier", hash)
    \o << Check(\E c \in reg.current : hash \notin DOMAIN c.verifiers, "UnknownVerifier") >>

(* A verifier vouches for an owner only with code, scheme, immutability and *)
(* statelessness all reviewed.                                              *)
resolve_signature_verifier(reg, hash) ==
    resolve_verifier(reg, hash)
    \o << Check(\E c \in reg.current :
                    /\ hash \in DOMAIN c.verifiers
                    /\ LET v == c.verifiers[hash]
                       IN  ~ /\ v.immutable /\ v.stateless = {TRUE}
                             /\ hash \in DOMAIN ReviewedSchemes
                             /\ v.scheme = {ReviewedSchemes[hash]},
                "VerifierCapabilityIncomplete") >>

ScanSound(scan) ==
    /\ scan.schema = 1 /\ scan.max_ids \in 1 .. 10000 /\ scan.max_batches \in 1 .. 128
    /\ scan.max_entries \in 1 .. 10000 /\ scan.max_attempts \in 1 .. 3

(* The reviewed method table is that of one exact build, and the signed     *)
(* entry must commit to it.                                                 *)
resolve_account_authority(reg, hash) ==
    resolve_account(reg, hash)
    \o << Check(\E c \in reg.current : /\ hash \in DOMAIN c.accounts
                                       /\ c.accounts[hash].enumeration # "bounded_next_id",
                "AccountRuleEnumerationUnsupported"),
          Check(\E c \in reg.current :
                    /\ hash \in DOMAIN c.accounts
                    /\ \/ \A scan \in c.accounts[hash].scan : ~ScanSound(scan)
                       \/ hash # PinnedAccount
                       \/ c.accounts[hash].methods # {"reviewed"},
                "AccountAuthorityUnsupported") >>

(* No binding is no adapter; a binding must name reviewed semantics.        *)
resolve_target_adapter(reg, hash) ==
    ensure_active(reg, "target_adapter", hash)
    \o << Check(\E c \in reg.current :
                    /\ hash \in DOMAIN c.adapters
                    /\ LET b == c.adapters[hash]
                       IN  \/ b.implementation \notin DOMAIN Implemented
                           \/ b.digest # b.implementation \/ b.review = "",
                "TargetAdapterUnsupported") >>

adapter_of(reg, hash) ==
    {[hash |-> hash, functions |-> Implemented[c.adapters[hash].implementation]] :
        c \in {x \in reg.current : hash \in DOMAIN x.adapters}}

=============================================================================
