------------------------------- MODULE Recorder -------------------------------
(***************************************************************************)
(* The recorder (crates/recorder-core/src/lib.rs): raw transaction         *)
(* evidence is decoded into a recording, and a recording that comes back   *)
(* from a file is decoded again from its own raw evidence and compared.    *)
(*                                                                         *)
(* An XDR blob is its decoded content with the encoded size and whether it *)
(* decodes ("ok"), does not ("garbage") or exceeds the decoder's limits    *)
(* ("deep").  An optional value is a set of at most one element.  An       *)
(* invocation tree is the sequence of its nodes in the order the walk over *)
(* the tree meets them.                                                    *)
(***************************************************************************)
EXTENDS Verdicts, SequencesExt

CONSTANTS
    Contracts,     \* addresses that are contracts
    BadText,       \* text outside the symbol grammar
    MaxXdr,        \* MAX_XDR_BASE64_BYTES
    MaxTotal,      \* MAX_TOTAL_EVIDENCE_BASE64_BYTES
    MaxAuth,       \* MAX_SIMULATED_AUTH_ENTRIES
    MaxChanges,    \* MAX_SIMULATED_STATE_CHANGES
    MaxObserved,   \* MAX_CONTRACT_EXECUTABLE_OBSERVATIONS
    MaxProtocol,   \* MAX_ACQUISITION_PROTOCOL
    MaxPreimage    \* the canonical hash boundary, in decoded items

-----------------------------------------------------------------------------
(* Acquisition: the four ways a snapshot comes about *)

EvidenceSnapshot(execution, trust, network, envelope, meta, result, simAuth, ledger) ==
    [ execution |-> execution, trust |-> trust, network |-> network,
      envelope |-> envelope, meta |-> meta, result |-> result, simAuth |-> simAuth,
      changes |-> <<>>, protocol |-> {}, executables |-> <<>>, ledger |-> ledger ]

Executed(successful) == IF successful THEN "success" ELSE "failed"

from_rpc_transaction(network, envelope, meta, ledger, successful) ==
    EvidenceSnapshot(Executed(successful), "rpc_reported", network, envelope, meta, {}, <<>>,
                     {ledger})

with_acquisition_protocol(s, protocol) == [s EXCEPT !.protocol = {protocol}]

with_rpc_result(s, result) == [s EXCEPT !.result = {result}]

from_rpc_simulation(network, envelope, simAuth, ledger) ==
    EvidenceSnapshot("simulated", "rpc_reported", network, envelope, {}, {}, simAuth, ledger)

SaysSuccess(result) == result.arm \in {"success", "bump_success"}

(* An imported outcome is self_supplied only when a result that decodes     *)
(* describes it.                                                            *)
from_import(network, envelope, meta, result, ledger, successful) ==
    LET backed == \E r \in result : /\ r.bytes <= MaxXdr
                                    /\ r.xdr = "ok"
                                    /\ SaysSuccess(r) = successful
    IN  EvidenceSnapshot(Executed(successful), IF backed THEN "self_supplied" ELSE "incomplete",
                         network, envelope, meta, result, <<>>, ledger)

with_simulated_state_changes(s, changes) == [s EXCEPT !.changes = changes]

with_contract_executables(s, observations) == [s EXCEPT !.executables = observations]

-----------------------------------------------------------------------------
(* Resource limits, the same for record and verify *)

BytesOf(blobs) == FoldLeft(LAMBDA total, blob : total + blob.bytes, 0, blobs)

ExceedsLimits(raw, changes, executables) ==
    LET single == SetToSeq({raw.envelope} \cup raw.meta \cup raw.result)
    IN  \/ \E blob \in {raw.envelope} \cup raw.meta \cup raw.result : blob.bytes > MaxXdr
        \/ Len(raw.simAuth) > MaxAuth
        \/ \E k \in DOMAIN raw.simAuth : raw.simAuth[k].bytes > MaxXdr
        \/ BytesOf(raw.simAuth) > MaxXdr
        \/ Len(changes) > MaxChanges
        \/ Cardinality(DOMAIN executables) > MaxObserved
        \/ BytesOf(changes) > MaxXdr
        \/ BytesOf(single) + BytesOf(raw.simAuth) + BytesOf(changes) > MaxTotal

(* map_xdr_parse_error: a limit of the decoder is a resource failure. *)
ParseChecks(blobs, code) ==
    << Check(\E blob \in blobs : blob.xdr = "deep", "ResourceLimit"),
       Check(\E blob \in blobs : blob.xdr = "garbage", code) >>

-----------------------------------------------------------------------------
(* Coherence of the evidence with itself *)

(* simulation_state_change: the summary follows from the key, both entry    *)
(* values are values of that key, and the sides fit the kind of change.     *)
ChangeCoherent(change) ==
    /\ change.source = "simulation"
    /\ \E key \in change.key :
        /\ change.entry = key.entry /\ change.contract = key.contract
        /\ \A side \in change.before \cup change.after : side = key
    /\ CASE change.kind = "created"  -> change.before = {} /\ change.after # {}
         [] change.kind = "updated"  -> change.before # {} /\ change.after # {}
         [] change.kind = "removed"  -> change.before # {} /\ change.after = {}
         [] change.kind = "restored" -> change.before # {} \/ change.after # {}
         [] change.kind = "state"    -> FALSE

(* An instance observed at a ledger was modified no later and lives on. *)
ObservationIncoherent(o) ==
    \/ \E modified \in o.modified : modified > o.observed
    \/ \E until \in o.live_until : until < o.observed

Succeeded(op) == op.status = "ok"

IsFeeBump(envelope) == envelope.form = "feebump"

(* Mutant: how many operations succeeded is not compared. *)
ContradictsResult_Count(envelope, r, execution) ==
    SaysSuccess(r) # (execution = "success")

(* verify_transaction_result: the result is one this envelope can have had, *)
(* with the outcome that is claimed for it.                                 *)
ContradictsResult(envelope, r, execution) ==
    LET bump == r.arm \in {"bump_success", "bump_failed"}
        plain == r.arm \in {"success", "failed"}
        reported == plain \/ (bump /\ r.inner \in {"success", "failed"})
        ran == envelope.ops
    IN  \/ plain /\ IsFeeBump(envelope)
        \/ bump /\ ~IsFeeBump(envelope)
        \/ bump /\ r.inner_hash # envelope.hash
        \/ bump /\ SaysSuccess(r) # (r.inner = "success")
        \/ SaysSuccess(r) # (execution = "success")
        \/ /\ reported
           /\ \/ ~SaysSuccess(r) /\ \A k \in DOMAIN r.ops : Succeeded(r.ops[k])
              \/ SaysSuccess(r) /\ Len(r.ops) # Len(ran)
              \/ Len(r.ops) > Len(ran)
              \/ \E k \in DOMAIN r.ops \cap DOMAIN ran :
                    \/ r.ops[k].status # "not_run" /\ r.ops[k].kind # ran[k].kind
                    \/ SaysSuccess(r) /\ ~Succeeded(r.ops[k])

-----------------------------------------------------------------------------
(* Decoding *)

SorobanOps(envelope) == {k \in DOMAIN envelope.ops : envelope.ops[k].kind = "invoke"}

(* The operation the caller chose, or the only one there is. *)
Selected(envelope, index) ==
    IF index = {} THEN SorobanOps(envelope) ELSE SorobanOps(envelope) \cap index

AuthEntries(p, op) ==
    IF p.execution = "simulated" THEN p.simAuth ELSE p.envelope.ops[op].auth

BadSymbol(call) ==
    call.fn = BadText \/ \E k \in DOMAIN call.args : call.args[k].v = BadText

(* Typed arguments keep their type; any other value is kept as its XDR. *)
summarize_arg(value) ==
    IF value.t \in {"address", "i128", "u64", "u32", "symbol"} THEN value
    ELSE [t |-> "other", v |-> 0, xdr |-> <<value.t, value.v>>]

decode_invocation(call) ==
    IF call.k = "create" THEN call
    ELSE [call EXCEPT !.args = [k \in DOMAIN call.args |-> summarize_arg(call.args[k])]]

(* The authorizer is the credential's address, or the transaction's source; *)
(* the fingerprint covers the authorizer and the invocation, not the nonce. *)
decode_auth_entry(entry, envelope) ==
    LET authorizer == IF entry.arm = "source" THEN envelope.source ELSE entry.address
        nodes == [k \in DOMAIN entry.nodes |-> decode_invocation(entry.nodes[k])]
    IN  [ authorizer |-> authorizer,
          credential |-> <<entry.arm, entry.nonce>>,
          fingerprint |-> <<authorizer, entry.nodes>>,
          nodes |-> nodes ]

(* Ledger changes of a transaction's meta: before, of the operation, after. *)
collect_changes(meta, op) ==
    LET sourced(changes, source) ==
            [k \in DOMAIN changes |-> [changes[k] EXCEPT !.source = source]]
    IN  sourced(meta.before, "tx_before")
        \o (IF op \in DOMAIN meta.ops THEN sourced(meta.ops[op].changes, "operation") ELSE <<>>)
        \o sourced(meta.after, "tx_after")

EventsOf(meta, op) ==
    IF meta.version = 3 THEN meta.events
    ELSE IF op \in DOMAIN meta.ops THEN meta.ops[op].events ELSE <<>>

(* decode_token_event: a contract event of a known kind with the addresses  *)
(* and the amount that kind needs.                                          *)
IsMovement(event) ==
    /\ event.from_contract
    /\ event.kind \in {"transfer", "mint", "burn", "approve"}
    /\ Len(event.addresses) >= (IF event.kind \in {"transfer", "approve"} THEN 2 ELSE 1)
    /\ event.amount # {}

decode_checks(p) ==
    << Check(\E v \in p.protocol : v \notin 1 .. MaxProtocol, "EvidenceIncoherent"),
       Check(\E k \in DOMAIN p.executables : ObservationIncoherent(p.executables[k]),
             "EvidenceIncoherent"),
       Check(\E k \in DOMAIN p.changes : ~ChangeCoherent(p.changes[k]), "EvidenceIncoherent") >>
    \o ParseChecks({p.envelope}, "EnvelopeParse")
    \o << Check(p.execution = "simulated" /\ (p.result # {} \/ p.meta # {}),
                "EvidenceIncoherent") >>
    \o ParseChecks(p.result, "ResultMismatch")
    \o << Check(/\ p.execution # "simulated"
                /\ \E r \in p.result : ContradictsResult(p.envelope, r, p.execution),
                "ResultMismatch"),
          Check(p.execution # "simulated" /\ p.result = {} /\ p.trust # "incomplete",
                "EvidenceIncoherent"),
          Check(p.envelope.form = "v0", "UnsupportedEnvelope"),
          Check(SorobanOps(p.envelope) = {}, "NoSorobanOp"),
          Check(p.index = {} /\ Cardinality(SorobanOps(p.envelope)) > 1, "OperationSelection"),
          Check(Selected(p.envelope, p.index) = {}, "NoSorobanOp") >>
    \o ParseChecks(IF p.execution = "simulated" THEN ToSet(p.simAuth) ELSE {}, "AuthParse")
    \o << Check(\E op \in Selected(p.envelope, p.index) :
                    \E entry \in ToSet(AuthEntries(p, op)) :
                        \E call \in ToSet(entry.nodes) : BadSymbol(call), "AuthParse") >>
    \o ParseChecks(p.meta, "MetaParse")
    \o << Check(\E meta \in p.meta : meta.version \notin {3, 4}, "UnsupportedMetaVersion") >>

(* The recording of evidence that passes the checks.  An event that cannot  *)
(* be typed is only noted.                                                  *)
decode_recording(p) ==
    LET op == CHOOSE k \in Selected(p.envelope, p.index) : TRUE
        entries == AuthEntries(p, op)
        events == FoldLeft(LAMBDA all, meta : all \o EventsOf(meta, op), <<>>, SetToSeq(p.meta))
    IN  [ schema |-> "v2", trust |-> p.trust, execution |-> p.execution, network |-> p.network,
          ledger |-> p.ledger, index |-> op, protocol |-> p.protocol,
          executables |-> p.executables,
          raw |-> [envelope |-> p.envelope, meta |-> p.meta, result |-> p.result,
                   simAuth |-> p.simAuth],
          authorizations |-> [k \in DOMAIN entries |-> decode_auth_entry(entries[k], p.envelope)],
          changes |-> p.changes
                      \o FoldLeft(LAMBDA all, meta : all \o collect_changes(meta, op), <<>>,
                                  SetToSeq(p.meta)),
          movements |-> SelectSeq(events, IsMovement),
          notes |-> Len(events) - Len(SelectSeq(events, IsMovement))
                    + (IF p.meta = {} /\ p.execution # "simulated" THEN 1 ELSE 0) ]

(* recording_hash names the recording: distinct recordings have distinct    *)
(* hashes, and one too large for the hash boundary has none.                *)
recording_hash(bundle) == bundle

WithinHashBoundary(bundle) ==
    Len(bundle.authorizations) + Len(bundle.changes) + Len(bundle.movements) <= MaxPreimage

-----------------------------------------------------------------------------
(* The two admission paths *)

Parts(raw, from, trust, changes, index) ==
    [ envelope |-> raw.envelope, meta |-> raw.meta, result |-> raw.result,
      simAuth |-> raw.simAuth, execution |-> from.execution, trust |-> trust,
      network |-> from.network, ledger |-> from.ledger, index |-> index, changes |-> changes,
      protocol |-> from.protocol, executables |-> from.executables ]

IsSimulation(change) == change.source = "simulation"

(* Executed evidence without its result is only ever incomplete. *)
record_parts(s, options) ==
    Parts(s, s,
          IF s.execution # "simulated" /\ s.result = {} THEN "incomplete" ELSE s.trust,
          s.changes, options.operation_index)

record_checks(s, options) ==
    << Check(ExceedsLimits(s, s.changes, s.executables), "ResourceLimit"),
       Check(s.execution = "failed" /\ ~options.allow_failed, "TxFailed"),
       Check(s.execution = "simulated" /\ \E c \in ToSet(s.changes) : ~IsSimulation(c),
             "EvidenceIncoherent"),
       Check(s.execution # "simulated" /\ s.changes # <<>>, "EvidenceIncoherent") >>
    \o decode_checks(record_parts(s, options))
    \o << Check(/\ Selected(s.envelope, options.operation_index) # {}
                /\ ~WithinHashBoundary(decode_recording(record_parts(s, options))),
                "ResourceLimit") >>

record(s, options) == decode_recording(record_parts(s, options))

verify_parts(b) ==
    Parts(b.raw, b, b.trust, SelectSeq(b.changes, IsSimulation), {b.index})

(* Shapes that no acquisition mints. *)
ForeignShape(b) ==
    IF b.execution = "simulated"
    THEN \/ b.raw.meta # {} \/ b.raw.result # {}
         \/ \E c \in ToSet(b.changes) : ~IsSimulation(c)
    ELSE b.raw.simAuth # <<>> \/ \E c \in ToSet(b.changes) : IsSimulation(c)

(* Mutant: the decoded views are taken as they come. *)
verify_checks_NoRebuild(b) ==
    << Check(b.schema # "v2", "EvidenceIncoherent"),
       Check(ForeignShape(b), "EvidenceIncoherent") >> \o decode_checks(verify_parts(b))

verify_checks(b) ==
    << Check(b.schema # "v2", "EvidenceIncoherent"),
       Check(ForeignShape(b), "EvidenceIncoherent"),
       Check(ExceedsLimits(b.raw, SelectSeq(b.changes, IsSimulation), b.executables),
             "ResourceLimit") >>
    \o decode_checks(verify_parts(b))
    \o << Check(/\ Selected(b.raw.envelope, {b.index}) # {}
                /\ decode_recording(verify_parts(b)) # b, "EvidenceIncoherent"),
          Check(~WithinHashBoundary(b), "ResourceLimit") >>

(* Which instances an acquisition has to look up: every contract called or  *)
(* named as an authorizer anywhere in the evidence.                         *)
referenced_contract_addresses(s) ==
    LET entries == IF s.execution = "simulated" THEN ToSet(s.simAuth)
                   ELSE UNION {ToSet(s.envelope.ops[k].auth) : k \in SorobanOps(s.envelope)}
        called == {s.envelope.ops[k].calls : k \in SorobanOps(s.envelope)}
        named == {e.address : e \in {x \in entries : x.arm # "source"}}
        inTrees == UNION {{call.contract : call \in {n \in ToSet(e.nodes) : n.k = "call"}}
                            : e \in entries}
    IN  Contracts \cap (called \cup named \cup inTrees)

=============================================================================
