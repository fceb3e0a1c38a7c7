------------------------------ MODULE RpcReads ------------------------------
(***************************************************************************)
(* The acquisitions of crates/source-rpc: a transaction or a simulation for *)
(* a recording, the preflight of an envelope, the capture of a native       *)
(* transfer, of a declared footprint or of a Wasm target, a contract code   *)
(* read, and the assembly of an install transaction.                        *)
(*                                                                          *)
(* An acquisition is sequential; every one of its requests is one action,   *)
(* and every reply comes from a node at a ledger of its own.  At most one   *)
(* reply of an acquisition has a defect.                                    *)
(***************************************************************************)
EXTENDS RpcEndpoint

CONSTANTS
    Setups,             \* the requests that are made, each with its ledgers
    Faults,             \* how many replies may be defective
    CAPTURE_ATTEMPTS,   \* attempts of a native capture
    MAX_I64             \* the largest native amount

ASSUME ReadsAssumption ==
    /\ Faults \in Nat
    /\ CAPTURE_ATTEMPTS \in Nat \ {0}
    /\ MAX_I64 \in Nat

(* A list of keys a request names; "unasked" stands for a key nobody asked   *)
(* for.                                                                      *)
IsKeys(keys) == keys \in Seq(ToSet(keys)) /\ "unasked" \notin ToSet(keys)

Operations == {"transaction", "simulation", "preflight", "native", "footprint", "target", "code",
               "data", "classic", "assembly"}

(* A classic account has no lifetime; counts and ledgers are unsigned.       *)
ASSUME SetupsAssumption ==
    \A s \in Setups :
        /\ s.job.op \in Operations
        /\ s.world.at \in Nat \ {0} /\ s.world.until \in Nat
        /\ s.job.op \in {"transaction", "simulation", "code"} => IsKeys(s.job.contracts)
        /\ s.job.op = "transaction" => s.job.applied \in BOOLEAN
        /\ s.job.op = "footprint" => IsKeys(s.job.envelope.ro) /\ IsKeys(s.job.envelope.rw)
        /\ s.job.op = "target" => IsKeys(s.job.selected)
        /\ s.job.op = "data" => IsKeys(s.job.keys)
        /\ s.job.op = "classic" => /\ IsKeys(s.job.accounts)
                                   /\ \A k \in ToSet(s.job.accounts) : ~HasTtl(k)
        /\ s.job.op = "assembly" => {s.job.validity, s.job.authority, s.job.max_fee} \subseteq Nat

VARIABLES
    world,     \* the ledgers, fixed for the acquisition
    job,       \* the request
    pc,        \* the next request to the endpoint, or "done"
    got,       \* what the acquisition has kept of earlier replies
    faults,    \* defective replies left
    answer     \* the result

vars == <<world, job, pc, got, faults, answer>>

NoAnswer == [ok |-> FALSE, code |-> "pending", text |-> "fixed", at |-> "none", ledger |-> 0]

Nothing ==
    [attempt |-> 1, ledger |-> 0, ro |-> <<>>, rw |-> <<>>, code |-> "none",
     seen |-> 0, batch |-> 1, kept |-> <<>>, seq |-> 0, cap |-> 0, fee |-> 0, snapshot |-> "none"]

-----------------------------------------------------------------------------
(* What is refused before anything is sent.                                  *)

invocation_shape(e) == e.form # "v0" /\ e.ops = 1 /\ e.invoke

simulation_shape(e) == invocation_shape(e) /\ ~e.memo

validate_simulation_envelope(e) ==
    FirstOf(<< <<e.large, Malformed>>, <<~e.decodes, Malformed>>,
               <<~simulation_shape(e), Malformed>> >>)

validate_invocation_envelope(e) ==
    FirstOf(<< <<e.large, Malformed>>, <<~e.decodes, Malformed>>,
               <<~invocation_shape(e), Malformed>> >>)

local_envelope(e) ==
    FirstOf(<< <<e.large, Err("EnvelopeTooLarge", "fixed")>>,
               <<e.spaced, Err("EnvelopeParse", "fixed")>>,
               <<~e.decodes, Err("EnvelopeParse", "fixed")>>,
               <<~simulation_shape(e), Err("UnsupportedEnvelope", "fixed")>> >>)

envelope_carries_signatures(e) == e.signed \/ e.auth \in {"signed", "delegate"}

capture_native_target(e) ==
    FirstOf(<< <<Failed(local_envelope(e)), local_envelope(e)>>,
               <<~e.canonical, Err("EnvelopeParse", "fixed")>>,
               <<envelope_carries_signatures(e) \/ e.form # "v1" \/ e.auth # "none"
                   \/ e.call # "transfer" \/ e.amount <= 0 \/ e.amount >= MAX_I64,
                 Err("UnsupportedEnvelope", "fixed")>> >>)

(* The declared footprint of read_invocation_footprint.                      *)
footprint_checks(ro, rw) ==
    IF Len(ro \o rw) \notin 1..MAX_LEDGER_ENTRY_KEYS \/ ~IsInjective(ro \o rw)
    THEN Err("InvalidFootprint", "fixed") ELSE NoError

read_invocation_footprint(e) ==
    FirstOf(<< <<Failed(validate_invocation_envelope(e)), validate_invocation_envelope(e)>>,
               <<~e.soroban, Err("InvalidFootprint", "fixed")>>,
               <<Failed(footprint_checks(e.ro, e.rw)), footprint_checks(e.ro, e.rw)>> >>)

read_target_capture(request) ==
    IF \/ Len(request.selected) > MAX_LEDGER_ENTRY_KEYS - 2
       \/ ~request.address
       \/ ~IsInjective(request.selected)
       \/ ToSet(request.selected) \cap {"unrelated", "t_instance"} # {}
    THEN Err("InvalidRequest", "fixed") ELSE NoError

read_contract_wasm_hashes(request) ==
    IF Len(request.contracts) \notin 1..MAX_LEDGER_ENTRY_KEYS \/ ~IsInjective(request.contracts)
    THEN Err("InvalidRequest", "fixed") ELSE NoError

(* keys_ok: every key is a contract-data key of the named contract, of       *)
(* bounded size.                                                             *)
read_contract_data(request) ==
    IF \/ Len(request.keys) \notin 1..MAX_LEDGER_ENTRY_KEYS \/ ~request.keys_ok
       \/ ~IsInjective(request.keys)
    THEN Err("InvalidRequest", "fixed") ELSE NoError

read_classic_accounts(request) ==
    IF \/ Len(request.accounts) \notin 1..MAX_LEDGER_ENTRY_KEYS \/ ~request.addresses
       \/ ~IsInjective(request.accounts)
    THEN Err("InvalidRequest", "fixed") ELSE NoError

MIN_INCLUSION_FEE == 100

assemble(request) ==
    IF \/ request.validity \notin 1..120
       \/ request.authority = 0
       \/ request.max_fee < MIN_INCLUSION_FEE
       \/ ~request.install
       \/ ~request.payer
    THEN Err("InvalidRequest", "fixed") ELSE NoError

RequestError(j) ==
    CASE j.op = "transaction" -> IF j.hash THEN NoError ELSE Malformed
      [] j.op = "simulation" -> validate_simulation_envelope(j.envelope)
      [] j.op = "preflight" -> local_envelope(j.envelope)
      [] j.op = "native" -> capture_native_target(j.envelope)
      [] j.op = "footprint" -> read_invocation_footprint(j.envelope)
      [] j.op = "target" -> read_target_capture(j)
      [] j.op = "code" -> read_contract_wasm_hashes(j)
      [] j.op = "data" -> read_contract_data(j)
      [] j.op = "classic" -> read_classic_accounts(j)
      [] j.op = "assembly" -> assemble(j)

-----------------------------------------------------------------------------
(* simulateTransaction, as the endpoint answers it.                          *)

(* The call's own keys at a ledger: the account's code is the one its        *)
(* instance names there.                                                     *)
ReadOnly(w, l, op) ==
    <<"acct_instance", EntryAt(w, l, "acct_instance").val>>
      \o IF op = "assembly" THEN <<>> ELSE <<"sac_instance">>

ReadWrite(op) == IF op = "assembly" THEN <<"acct_store", "nonce">>
                 ELSE <<"balance", "recipient", "nonce">>

Expired(w, l, keys) == {i \in DOMAIN keys : Archived(w, l, keys[i])}

SimulationDefects ==
    {"shape", "zero", "failed", "failedZero", "errorOther", "errorMixed", "noResult",
     "twoResults", "notVoid", "noAuth", "twoAuths", "otherAuth", "signedAuth", "fee",
     "outside", "config", "storage", "repeat", "badPreamble"}

(* how: archived entries are listed in a preamble, or restored in the call.  *)
SimulationReply(w, l, op, how, defect) ==
    LET ro == ReadOnly(w, l, op)
        auto == Chosen(ro, {k \in ToSet(ro) : Archived(w, l, k)})
        all == ro \o ReadWrite(op)
        archived == {all[i] : i \in Expired(w, l, all)}
        rw == auto \o ReadWrite(op)
        text == (op # "assembly" /\ ~Present(w, l, "recipient"))
                  \/ defect \in {"failed", "failedZero", "errorMixed"}
        inside == how = "auto" /\ archived # {}
    IN  [shape |-> defect # "shape",
         latest |-> IF defect \in {"zero", "failedZero"} THEN 0 ELSE l,
         error |-> IF defect = "errorOther" THEN "other" ELSE IF text THEN "text" ELSE "none",
         results |-> IF defect = "noResult" \/ (text /\ defect # "errorMixed") THEN 0
                     ELSE IF defect = "twoResults" THEN 2 ELSE 1,
         void |-> defect # "notVoid",
         auth |-> CASE defect = "noAuth" -> <<>>
                    [] defect = "twoAuths" -> <<"exact", "exact">>
                    [] defect = "otherAuth" -> <<"other">>
                    [] defect = "signedAuth" -> <<"signed">>
                    [] OTHER -> <<"exact">>,
         ro |-> (IF inside THEN Chosen(ro, {k \in ToSet(ro) : ~Archived(w, l, k)}) ELSE ro)
                  \o (IF defect = "config" THEN <<"config">> ELSE <<>>)
                  \o (IF defect = "storage" THEN <<"acct_store">> ELSE <<>>)
                  \o (IF defect = "repeat" THEN <<"acct_instance">> ELSE <<>>),
         rw |-> IF inside THEN rw ELSE ReadWrite(op),
         archived |-> IF defect = "outside" THEN {Len(rw) + 1}
                      ELSE IF inside THEN {i \in DOMAIN rw : rw[i] \in archived} ELSE {},
         fee |-> 100, agrees |-> defect # "fee",
         preamble |-> IF archived = {} \/ inside \/ text THEN "none"
                      ELSE IF defect = "badPreamble" THEN "unsound" ELSE "sound"]

Says(sim) == sim.error = "text"

(* An archived entry is named by its index in the simulated writable keys.   *)
OutOfFootprint(sim) == \E i \in sim.archived : i > Len(sim.rw)

restores_archived_entries(sim) == sim.archived # {}

(* The record-mode simulation of a recording.                                *)
parse_simulate(sim) ==
    FirstOf(<< <<Says(sim), Err("Rpc", "endpoint")>>,
               <<sim.results = 0 \/ ~sim.shape, Malformed>> >>)

validate_restoration(sim) == IF sim.preamble = "unsound" THEN Malformed ELSE NoError

(* What a simulation says before its success is looked at, in preflight and  *)
(* in a native capture.                                                      *)
simulation_head(sim, failed) ==
    << <<sim.error = "other", Malformed>>,
       <<Says(sim) /\ (sim.results > 0 \/ sim.preamble # "none"), Malformed>>,
       <<~sim.shape, Malformed>>,
       <<sim.latest = 0, IF Says(sim) THEN Err("Rpc", "fixed") ELSE Malformed>>,
       <<Says(sim), failed>>,
       <<Failed(validate_restoration(sim)), validate_restoration(sim)>> >>

(* The same keys in any order, repeats counted.                              *)
same_keys(declared, simulated) ==
    \A k \in ToSet(declared) \cup ToSet(simulated) :
        Cardinality({i \in DOMAIN declared : declared[i] = k})
          = Cardinality({i \in DOMAIN simulated : simulated[i] = k})

parse_preflight(sim, declared) ==
    LET refused == FirstOf(simulation_head(sim, NoError)
                     \o << <<~Says(sim) /\ sim.preamble = "none"
                              /\ (sim.results # 1 \/ ~sim.agrees \/ OutOfFootprint(sim)),
                             Malformed>> >>)
        mismatched == ~same_keys(declared.ro, sim.ro) \/ ~same_keys(declared.rw, sim.rw)
                        \/ ~declared.bytes
    IN  IF Failed(refused) THEN refused
        ELSE [ok |-> TRUE, code |-> "none", text |-> "fixed", ledger |-> sim.latest,
              outcome |-> IF Says(sim) THEN "SimulationFailed"
                          ELSE IF sim.preamble # "none" \/ restores_archived_entries(sim)
                               THEN "RestorationRequired"
                          ELSE IF mismatched THEN "DeclaredResourcesInsufficient"
                          ELSE "SimulatedSuccess"]

TargetArchived == Err("TargetArchived", "fixed")

capture_simulated(sim) ==
    FirstOf(simulation_head(sim, Err("TargetRefused", "fixed"))
      \o << <<sim.preamble = "sound", TargetArchived>>,
            <<sim.results # 1 \/ ~sim.void \/ sim.auth \notin {<<"exact">>, <<"signed">>}
                \/ ~sim.agrees, Malformed>>,
            <<OutOfFootprint(sim), Malformed>>,
            <<restores_archived_entries(sim), TargetArchived>>,
            <<"config" \in ToSet(sim.ro) \cup ToSet(sim.rw), Malformed>> >>)

-----------------------------------------------------------------------------
(* getTransaction, and the instances of the contracts a recording names.     *)

TransactionReply(j, defect) ==
    [status |-> IF defect = "status" THEN "other" ELSE IF defect = "missing" THEN "NOT_FOUND"
                ELSE IF defect = "flipped" THEN (IF j.applied THEN "FAILED" ELSE "SUCCESS")
                ELSE IF j.applied THEN "SUCCESS" ELSE "FAILED",
     hash |-> defect # "hash", envelope |-> defect # "envelope",
     result |-> IF defect = "noResult" THEN "absent" ELSE IF j.applied THEN "applied" ELSE "failed",
     fields |-> defect # "shape"]

TransactionDefects == {"status", "missing", "flipped", "hash", "envelope", "noResult", "shape"}

parse_get_transaction_ByStatus(r) ==
    FirstOf(<< <<r.status = "NOT_FOUND", Err("NotFound", "fixed")>>,
               <<r.status \notin {"SUCCESS", "FAILED"}, Err("Rpc", "endpoint")>>,
               <<~r.hash \/ ~r.envelope \/ ~r.fields, Malformed>> >>)

parse_get_transaction(r) ==
    FirstOf(<< <<r.status = "NOT_FOUND", Err("NotFound", "fixed")>>,
               <<r.status \notin {"SUCCESS", "FAILED"}, Err("Rpc", "endpoint")>>,
               <<~r.hash \/ ~r.envelope, Malformed>>,
               <<r.result = "absent", Malformed>>,
               <<(r.status = "SUCCESS") # (r.result = "applied"), Malformed>>,
               <<~r.fields, Malformed>> >>)

(* The keys of a batch of at most MAX_LEDGER_ENTRY_KEYS.                     *)
BatchOf(contracts, batch) ==
    SubSeq(contracts, (batch - 1) * MAX_LEDGER_ENTRY_KEYS + 1,
           Min({batch * MAX_LEDGER_ENTRY_KEYS, Len(contracts)}))

NotLive == Err("Evidence", "fixed")

instance_executable(row) ==
    IF row.val = "external" THEN Err("ExternalRefExecutable", "entry") ELSE NoError

executable_row(r, keys, i) ==
    LET row == r.rows[i] IN
    FirstOf(<< <<row.key \notin ToSet(keys) \/ Repeated(r.rows, i) \/ ~Timed(row), Malformed>>,
               <<Dead(row, r.latest), NotLive>>,
               <<row.mod > r.latest \/ row.of # row.key, Malformed>>,
               <<Failed(instance_executable(row)), instance_executable(row)>> >>)

parse_contract_executables(r, keys) ==
    LET rows == FirstRow([i \in DOMAIN r.rows |-> executable_row(r, keys, i)]) IN
    FirstOf(<< <<~r.shape, Malformed>>, <<Failed(rows), rows>>,
               <<Len(r.rows) # Len(keys), Err("Evidence", "fixed")>> >>)

(* Every observation is dated by the reply it came from, and inserted among  *)
(* the earlier ones.                                                         *)
Observed(r, kept) ==
    LET new == Entries(r.rows) IN
    [k \in DOMAIN new \cup DOMAIN kept |->
        IF k \in DOMAIN new THEN [at |-> r.latest, entry |-> new[k]] ELSE kept[k]]

code_read(e) == IF e.code = "Evidence" THEN [e EXCEPT !.code = "CodeRead"] ELSE e

wasm_hash(row) == row.val # "sac"

parse_contract_wasm_hashes(r, keys) ==
    LET parsed == code_read(parse_contract_executables(r, keys)) IN
    FirstOf(<< <<r.latest = 0, Malformed>>, <<Failed(parsed), parsed>>,
               <<\E i \in DOMAIN r.rows : ~wasm_hash(r.rows[i]), Err("CodeRead", "fixed")>> >>)

(* Raw contract data: an entry past its life is returned as archived.        *)
data_row(r, keys, i) ==
    LET row == r.rows[i] IN
    IF \/ row.key \notin ToSet(keys) \/ Repeated(r.rows, i) \/ row.of # row.key
       \/ ~Timed(row) \/ row.mod > r.latest
    THEN Malformed ELSE NoError

parse_contract_data(r, keys) ==
    LET rows == FirstRow([i \in DOMAIN r.rows |-> data_row(r, keys, i)]) IN
    FirstOf(<< <<~r.shape \/ r.latest = 0, Malformed>>, <<Failed(rows), rows>> >>)

returned_status(row, latest) == IF Dead(row, latest) THEN "Archived" ELSE "Present"

(* Classic accounts: a row is the account its key names; one the node does   *)
(* not have is an answer, not an error.                                      *)
decode_classic_account(row) == row.of = row.key

classic_row(r, keys, i) ==
    LET row == r.rows[i] IN
    IF \/ row.key \notin ToSet(keys) \/ Repeated(r.rows, i)
       \/ row.mod > r.latest \/ ~decode_classic_account(row)
    THEN Malformed ELSE NoError

parse_classic_accounts(r, keys) ==
    LET rows == FirstRow([i \in DOMAIN r.rows |-> classic_row(r, keys, i)]) IN
    FirstOf(<< <<~r.shape \/ r.latest = 0, Malformed>>, <<Failed(rows), rows>> >>)

-----------------------------------------------------------------------------
(* The declared footprint of an invocation.                                  *)

footprint_row(r, keys, i) ==
    LET row == r.rows[i] IN
    FirstOf(<< <<row.key \notin ToSet(keys) \/ Repeated(r.rows, i) \/ row.of # row.key
                   \/ row.mod > r.latest \/ (HasTtl(row.key) /\ ~Timed(row)), Malformed>>,
               <<Dead(row, r.latest), Err("ArchivedDeclaredKey", "fixed")>> >>)

IsInstance(key) == key \in {"acct_instance", "sac_instance", "t_instance"}

IsCode(key) == key \in {"code1", "code2"}

parse_footprint(r, keys) ==
    LET rows == FirstRow([i \in DOMAIN r.rows |-> footprint_row(r, keys, i)])
        returned == {r.rows[i].key : i \in DOMAIN r.rows}
        Lacks(row) == IsInstance(row.key) /\ IsCode(row.val) /\ row.val \notin returned
    IN  FirstOf(<< <<~r.shape \/ r.latest = 0, Malformed>>, <<Failed(rows), rows>>,
                   <<returned # ToSet(keys), Err("MissingDeclaredKey", "fixed")>>,
                   <<\E i \in DOMAIN r.rows : IsCode(r.rows[i].key) /\ ~r.rows[i].sound,
                     Err("CodeHashMismatch", "fixed")>>,
                   <<\E i \in DOMAIN r.rows : Lacks(r.rows[i]), Err("MissingCodeKey", "fixed")>>,
                   <<\E i \in DOMAIN r.rows : IsInstance(r.rows[i].key)
                                                /\ r.rows[i].val = "external",
                     Err("ExternalExecutable", "fixed")>> >>)

(* The parts of the account and of the configuration are taken out of the    *)
(* captured entries; what is left is the target.                             *)
partition(entries) ==
    LET code == entries["acct_instance"].val IN
    FirstOf(<< <<entries["config"].val # "settings" \/ entries["config"].ttl # NoTtl, Malformed>>,
               <<~IsCode(code) \/ code \notin DOMAIN entries, Malformed>>,
               <<"acct_store" \in DOMAIN entries, Malformed>> >>)

TargetOf(entries) == DOMAIN entries \ {"config", "acct_instance", entries["acct_instance"].val}

-----------------------------------------------------------------------------
(* A Wasm target: its instance, its code, and both again with its storage.   *)

NoRow == [key |-> "unasked", of |-> "unasked", val |-> "absent", mod |-> 0, ttl |-> NoTtl,
          sound |-> FALSE]

Only(r) == IF r.rows = <<>> THEN NoRow ELSE r.rows[1]

read_entry(r, key) ==
    FirstOf(<< <<~r.shape \/ r.latest = 0, Malformed>>,
               <<r.rows = <<>>, Err("MissingLedgerEntry", "fixed")>>,
               <<Len(r.rows) # 1 \/ Only(r).key # key \/ Only(r).mod > r.latest
                   \/ ~Timed(Only(r)), Malformed>>,
               <<Dead(Only(r), r.latest), Err("ArchivedLedgerEntry", "fixed")>> >>)

instance_of(r) ==
    FirstOf(<< <<Failed(read_entry(r, "t_instance")), read_entry(r, "t_instance")>>,
               <<Only(r).of # "t_instance", Malformed>>,
               <<Only(r).val = "sac", Err("NonWasmExecutable", "fixed")>>,
               <<Failed(instance_executable(Only(r))), instance_executable(Only(r))>> >>)

code_of(r, code) ==
    FirstOf(<< <<Failed(read_entry(r, code)), read_entry(r, code)>>,
               <<~IsCode(Only(r).of), Malformed>>,
               <<Only(r).of # code \/ ~Only(r).sound, Err("CodeHashMismatch", "fixed")>> >>)

target_row(r, keys, i) ==
    LET row == r.rows[i] IN
    FirstOf(<< <<row.key \notin ToSet(keys) \/ Repeated(r.rows, i) \/ row.of # row.key
                   \/ ~Timed(row) \/ row.mod > r.latest, Malformed>>,
               <<Dead(row, r.latest), Err("ArchivedLedgerEntry", "fixed")>> >>)

parse_target_capture(r, keys, code, seen) ==
    LET rows == FirstRow([i \in DOMAIN r.rows |-> target_row(r, keys, i)])
        runs == {r.rows[i].val : i \in {j \in DOMAIN r.rows : r.rows[j].key = "t_instance"}}
    IN
    FirstOf(<< <<~r.shape \/ r.latest = 0 \/ r.latest < seen, Malformed>>, <<Failed(rows), rows>>,
               <<Len(r.rows) # Len(keys), Err("MissingLedgerEntry", "fixed")>>,
               <<\E c \in runs : ~IsCode(c), Malformed>>,
               <<runs # {code}, Err("CodeHashMismatch", "fixed")>>,
               <<\E i \in DOMAIN r.rows : r.rows[i].key = code /\ ~r.rows[i].sound,
                 Err("CodeHashMismatch", "fixed")>> >>)

-----------------------------------------------------------------------------
(* The header of the captured ledger, from a node that has closed it.        *)

HeaderDefects == {"hash", "otherLedger", "version", "closeTime"}

HeaderReply(l, asked, defect) == [ledgers |-> IF l < asked THEN 0 ELSE 1, defect |-> defect]

header_describes(r) == r.ledgers = 1 /\ r.defect = "none"

-----------------------------------------------------------------------------
(* The install transaction.                                                  *)

FeeReply(l, p90, defect) == [latest |-> IF defect = "zero" THEN 0 ELSE l, p90 |-> p90,
                             decimal |-> defect # "decimal"]

LEDGER_GAP == 12

ordered_ledgers(before, after) == after >= before /\ after - before <= LEDGER_GAP

sequence_read(r, request) ==
    FirstOf(<< <<~r.shape \/ r.latest = 0 \/ ~ordered_ledgers(request.authority, r.latest), Malformed>>,
               <<Len(r.rows) # 1 \/ Only(r).key # "payer" \/ Only(r).of # "payer", Malformed>>,
               <<Only(r).mod = 0 \/ Only(r).mod > r.latest, Malformed>>,
               <<r.latest + request.validity > MAX_U32, Malformed>> >>)

InclusionFee(r) == Max({r.p90, MIN_INCLUSION_FEE})

fee_read(r, seen, request) ==
    FirstOf(<< <<r.latest = 0 \/ ~ordered_ledgers(seen, r.latest) \/ ~r.decimal, Malformed>>,
               <<InclusionFee(r) > request.max_fee, Err("InvalidRequest", "fixed")>> >>)

(* latestLedger is closed: the next one must be below the exclusive maximum. *)
AlreadyExpired_Inclusive(latest, cap) == latest + 1 > MAX_U32 \/ latest + 1 > cap

AlreadyExpired(latest, cap) == latest + 1 > MAX_U32 \/ latest + 1 >= cap

transaction_data(sim) == sim.agrees /\ IsInjective(sim.ro \o sim.rw)

(* One fee stands for the call's resource fee and for the preamble's, which *)
(* a separate restoration pays.  A preamble that names keys it may not is   *)
(* "unsound"; of automatic restoration, an index outside the footprint is   *)
(* refused and the kinds of key and repeated indexes are left out.          *)
install_simulated(sim, seen, cap, inclusion, request) ==
    FirstOf(<< <<~sim.shape \/ sim.latest = 0 \/ ~ordered_ledgers(seen, sim.latest)
                   \/ ~ordered_ledgers(request.authority, sim.latest), Malformed>>,
               <<AlreadyExpired(sim.latest, cap), Malformed>>,
               <<sim.error # "none" \/ ~transaction_data(sim), Malformed>>,
               <<sim.results # 1 \/ sim.auth # <<"exact">>, Malformed>>,
               <<sim.preamble = "unsound" \/ (sim.preamble = "none" /\ OutOfFootprint(sim)), Malformed>>,
               <<inclusion + sim.fee > request.max_fee, Err("InvalidRequest", "fixed")>> >>)

(* The envelope: its sequence, bounds, authorization expiry, fee and what it *)
(* does: the install, or the restoration alone.                              *)
Assembled(sim, seq, seen, cap, inclusion) ==
    [ok |-> TRUE, code |-> "none", text |-> "fixed", ledger |-> sim.latest,
     seq |-> seq + 1, min |-> seen, max |-> cap, expires |-> cap - 1,
     fee |-> inclusion + sim.fee,
     restoration |-> IF sim.preamble # "none" THEN "SeparateTransaction"
                     ELSE IF restores_archived_entries(sim) THEN "Automatic" ELSE "None"]

-----------------------------------------------------------------------------
(* Steps                                                                     *)

Keep == UNCHANGED <<world, job>>

Refuse(e, at) ==
    /\ answer' = [ok |-> FALSE, code |-> e.code, text |-> e.text, at |-> at, ledger |-> got.ledger]
    /\ pc' = "done"
    /\ UNCHANGED got

Return(value) == answer' = value /\ pc' = "done" /\ UNCHANGED got

Continue(next, kept) == pc' = next /\ got' = kept /\ UNCHANGED answer

(* A reply may be defective while the acquisition has faults left.           *)
Defect(d, defects) ==
    \/ d = "none" /\ UNCHANGED faults
    \/ d \in defects /\ faults > 0 /\ faults' = faults - 1

FirstRequest(op) ==
    CASE op = "transaction" -> "transaction" [] op = "simulation" -> "simulate"
      [] op = "preflight" -> "preflight" [] op = "native" -> "capture"
      [] op = "footprint" -> "footprint" [] op = "target" -> "instance"
      [] op = "code" -> "codes" [] op = "classic" -> "classics" [] op = "data" -> "data"
      [] op = "assembly" -> "sequence"

Begin ==
    /\ pc = "start"
    /\ LET e == RequestError(job) IN
       IF Failed(e) THEN Refuse(e, "local") ELSE Continue("network", got)
    /\ Keep /\ UNCHANGED faults

(* How an operation passes on the failure of one of its requests.            *)
request_error(op, request, e) ==
    CASE op = "native" -> withhold(e)
      [] op = "assembly" -> endpoint_error(e)
      [] request = "network" \/ op \in {"transaction", "simulation"} -> e
      [] op = "preflight" -> redact_simulation_error(e)
      [] OTHER -> redact_ledger_request_error(e)

RequestFails ==
    /\ pc \notin {"start", "done"} /\ faults > 0
    /\ \E e \in TransportErrors : Refuse(request_error(job.op, pc, e), pc)
    /\ faults' = faults - 1 /\ Keep

(* Asked once for a whole native capture: OneNetworkCheck answers the        *)
(* footprint reader's own check.                                             *)
VerifyNetwork ==
    /\ pc = "network"
    /\ \E r \in NetworkReplies \cup WrongNetworks :
        /\ Defect(IF r \in NetworkReplies THEN "none" ELSE "network", {"network"})
        /\ LET e == verify_network(r) IN
           IF Failed(e) THEN Refuse(request_error(job.op, "network", e), "network")
           ELSE Continue(FirstRequest(job.op), got)
    /\ Keep

GetTransaction ==
    /\ pc = "transaction"
    /\ \E d \in TransactionDefects \cup {"none"} :
        /\ Defect(d, TransactionDefects)
        /\ LET r == TransactionReply(job, d)
               e == parse_get_transaction(r)
           IN  IF Failed(e) THEN Refuse(e, "transaction")
               ELSE Continue("executables", [got EXCEPT !.snapshot = r.status])
    /\ Keep

SimulateRecording ==
    /\ pc = "simulate"
    /\ \E l \in Ledgers, how \in {"preamble", "auto"}, d \in SimulationDefects \cup {"none"} :
        /\ Defect(d, SimulationDefects)
        /\ LET e == parse_simulate(SimulationReply(world, l, job.op, how, d)) IN
           IF Failed(e) THEN Refuse(e, "simulate")
           ELSE Continue("executables", [got EXCEPT !.snapshot = "simulated"])
    /\ Keep

Recorded(kept) ==
    [ok |-> TRUE, code |-> "none", text |-> "fixed", at |-> "none", ledger |-> 0,
     snapshot |-> got.snapshot, kept |-> kept]

AcquireExecutables ==
    /\ pc = "executables"
    /\ \/ /\ job.contracts = <<>>
          /\ Return(Recorded(<<>>)) /\ UNCHANGED faults
       \/ /\ job.contracts # <<>>
          /\ \E l \in Ledgers, d \in EntryDefects \cup {"none"} :
              /\ Defect(d, EntryDefects)
              /\ \E keys \in {BatchOf(job.contracts, got.batch)} :
                 \E r \in {EntriesReply(world, l, keys, d)} :
                 \E e \in {parse_contract_executables(r, keys)}, kept \in {Observed(r, got.kept)} :
                 IF Failed(e) THEN Refuse(e, "executables")
                 ELSE IF got.batch * MAX_LEDGER_ENTRY_KEYS >= Len(job.contracts)
                 THEN Return(Recorded(kept))
                 ELSE Continue("executables", [got EXCEPT !.batch = @ + 1, !.kept = kept])
    /\ Keep

Preflight ==
    /\ pc = "preflight"
    /\ \E l \in Ledgers, how \in {"preamble", "auto"}, d \in SimulationDefects \cup {"none"} :
        /\ Defect(d, SimulationDefects)
        /\ \E r \in {parse_preflight(SimulationReply(world, l, job.op, how, d), job.envelope)} :
           IF r.ok THEN Return(r) ELSE Refuse(r, "preflight")
    /\ Keep

-----------------------------------------------------------------------------
(* A native capture: simulate, read the footprint, take the header, and once *)
(* more from the start when the two replies were from different ledgers.     *)

CaptureSimulate ==
    /\ pc = "capture"
    /\ \E l \in Ledgers, how \in {"preamble", "auto"}, d \in SimulationDefects \cup {"none"} :
        /\ Defect(d, SimulationDefects)
        /\ \E sim \in {SimulationReply(world, l, job.op, how, d)} :
           \E ro \in {Append(sim.ro, "config")}, rw \in {Chosen(sim.rw, ToSet(sim.rw) \ {"nonce"})} :
           \E e \in {FirstOf(<< <<Failed(capture_simulated(sim)), capture_simulated(sim)>>,
                                <<Failed(footprint_checks(ro, rw)), Malformed>> >>)} :
           IF Failed(e)
           THEN /\ answer' = [ok |-> FALSE, code |-> e.code, text |-> e.text, at |-> "capture",
                               ledger |-> sim.latest]
                /\ pc' = "done" /\ UNCHANGED got
           ELSE Continue("footprint", [got EXCEPT !.ledger = sim.latest, !.ro = ro, !.rw = rw])
    /\ Keep

NextAttempt ==
    IF got.attempt < CAPTURE_ATTEMPTS
    THEN Continue("capture", [got EXCEPT !.attempt = @ + 1])
    ELSE Refuse(Malformed, "footprint")

SameLedger_Any(reported, observed) == TRUE

SameLedger(reported, observed) == reported = observed

ArchivedAt(reported, observed) == reported = observed

(* A submission lands at the next ledger or later.                           *)
ExpiresAt(entries, observed) ==
    \E k \in DOMAIN entries : entries[k].ttl # NoTtl /\ entries[k].ttl <= observed

CaptureFootprint(r, e) ==
    IF e.code = "ArchivedDeclaredKey"
    THEN IF ArchivedAt(r.latest, got.ledger) THEN Refuse(TargetArchived, "footprint") ELSE NextAttempt
    ELSE IF Failed(e) THEN Refuse(Malformed, "footprint")
    ELSE IF ~SameLedger(r.latest, got.ledger) THEN NextAttempt
    ELSE IF ExpiresAt(Entries(r.rows), got.ledger) THEN Refuse(TargetArchived, "footprint")
    ELSE Continue("header", [got EXCEPT !.kept = Entries(r.rows)])

ReadFootprint ==
    /\ pc = "footprint"
    /\ \E l \in Ledgers, d \in EntryDefects \cup {"none"} :
        /\ Defect(d, EntryDefects)
        /\ \E keys \in {IF job.op = "native" THEN got.ro \o got.rw ELSE job.envelope.ro \o job.envelope.rw} :
           \E r \in {EntriesReply(world, l, keys, d)} :
           \E e \in {parse_footprint(r, keys)} :
           IF job.op = "native" THEN CaptureFootprint(r, e)
           ELSE IF Failed(e) THEN Refuse(e, "footprint")
           ELSE Return([ok |-> TRUE, code |-> "none", text |-> "fixed", ledger |-> r.latest,
                        kept |-> Entries(r.rows), runs |-> "none"])
    /\ Keep

Captured(entries) ==
    [ok |-> TRUE, code |-> "none", text |-> "fixed", ledger |-> got.ledger,
     kept |-> [k \in TargetOf(entries) |-> entries[k]], runs |-> entries["acct_instance"].val]

ReadHeader ==
    /\ pc = "header"
    /\ \E l \in Ledgers, d \in HeaderDefects \cup {"none"} :
        /\ Defect(d, HeaderDefects)
        /\ IF ~header_describes(HeaderReply(l, got.ledger, d)) \/ Failed(partition(got.kept))
           THEN Refuse(Malformed, "header")
           ELSE Return(Captured(got.kept))
    /\ Keep

-----------------------------------------------------------------------------
(* A Wasm target.                                                            *)

ReadInstance ==
    /\ pc = "instance"
    /\ \E l \in Ledgers, d \in EntryDefects \cup {"none"} :
        /\ Defect(d, EntryDefects)
        /\ \E r \in {EntriesReply(world, l, <<"t_instance">>, d)} :
           \E e \in {instance_of(r)} :
           IF Failed(e) THEN Refuse(e, "instance")
           ELSE Continue("code", [got EXCEPT !.code = Only(r).val, !.seen = r.latest])
    /\ Keep

ReadCode ==
    /\ pc = "code"
    /\ \E l \in Ledgers, d \in EntryDefects \cup {"none"} :
        /\ Defect(d, EntryDefects)
        /\ \E r \in {EntriesReply(world, l, <<got.code>>, d)} :
           \E e \in {code_of(r, got.code)} :
           IF Failed(e) THEN Refuse(e, "code")
           ELSE Continue("selected", [got EXCEPT !.seen = Max({@, r.latest})])
    /\ Keep

ReadSelected ==
    /\ pc = "selected"
    /\ \E l \in Ledgers, d \in EntryDefects \cup {"none"} :
        /\ Defect(d, EntryDefects)
        /\ \E keys \in {<<"t_instance", got.code>> \o job.selected} :
           \E r \in {EntriesReply(world, l, keys, d)} :
           \E e \in {parse_target_capture(r, keys, got.code, got.seen)} :
           IF Failed(e) THEN Refuse(e, "selected")
           ELSE Return([ok |-> TRUE, code |-> "none", text |-> "fixed", ledger |-> r.latest,
                        kept |-> Entries(r.rows), runs |-> got.code])
    /\ Keep

ReadCodes ==
    /\ pc = "codes"
    /\ \E l \in Ledgers, d \in EntryDefects \cup {"none"} :
        /\ Defect(d, EntryDefects)
        /\ \E r \in {EntriesReply(world, l, job.contracts, d)} :
           \E e \in {parse_contract_wasm_hashes(r, job.contracts)} :
           IF Failed(e) THEN Refuse(e, "codes")
           ELSE Return([ok |-> TRUE, code |-> "none", text |-> "fixed", ledger |-> r.latest,
                        kept |-> Entries(r.rows), runs |-> "none"])
    /\ Keep

ReadContractData ==
    /\ pc = "data"
    /\ \E l \in Ledgers, d \in EntryDefects \cup {"none"} :
        /\ Defect(d, EntryDefects)
        /\ \E r \in {EntriesReply(world, l, job.keys, d)} :
           \E e \in {parse_contract_data(r, job.keys)} :
           IF Failed(e) THEN Refuse(e, "data")
           ELSE Return([ok |-> TRUE, code |-> "none", text |-> "fixed", ledger |-> r.latest,
                        kept |-> Entries(r.rows), runs |-> "none",
                        archived |-> {row.key : row \in {x \in ToSet(r.rows) :
                                                    returned_status(x, r.latest) = "Archived"}},
                        absent |-> ToSet(job.keys) \ DOMAIN Entries(r.rows)])
    /\ Keep

ReadClassics ==
    /\ pc = "classics"
    /\ \E l \in Ledgers, d \in EntryDefects \cup {"none"} :
        /\ Defect(d, EntryDefects)
        /\ \E r \in {EntriesReply(world, l, job.accounts, d)} :
           \E e \in {parse_classic_accounts(r, job.accounts)} :
           IF Failed(e) THEN Refuse(e, "classics")
           ELSE Return([ok |-> TRUE, code |-> "none", text |-> "fixed", ledger |-> r.latest,
                        kept |-> Entries(r.rows), runs |-> "none",
                        absent |-> ToSet(job.accounts) \ DOMAIN Entries(r.rows)])
    /\ Keep

-----------------------------------------------------------------------------
(* An install transaction.                                                   *)

SequenceOf(val) == IF val = "s1" THEN 1 ELSE 2

ReadSequence ==
    /\ pc = "sequence"
    /\ \E l \in Ledgers, d \in EntryDefects \cup {"none"} :
        /\ Defect(d, EntryDefects)
        /\ \E r \in {EntriesReply(world, l, <<"payer">>, d)} :
           \E e \in {sequence_read(r, job)} :
           IF Failed(e) THEN Refuse(e, "sequence")
           ELSE Continue("fees", [got EXCEPT !.seq = SequenceOf(Only(r).val), !.ledger = r.latest,
                                             !.cap = r.latest + job.validity])
    /\ Keep

ReadFees ==
    /\ pc = "fees"
    /\ \E l \in Ledgers, p90 \in {50, 200}, d \in {"none", "zero", "decimal"} :
        /\ Defect(d, {"zero", "decimal"})
        /\ \E r \in {FeeReply(l, p90, d)} :
           \E e \in {fee_read(r, got.ledger, job)} :
           IF Failed(e) THEN Refuse(e, "fees")
           ELSE Continue("install", [got EXCEPT !.seen = r.latest, !.fee = InclusionFee(r)])
    /\ Keep

SimulateInstall ==
    /\ pc = "install"
    /\ \E l \in Ledgers, how \in {"preamble", "auto"}, d \in SimulationDefects \cup {"none"} :
        /\ Defect(d, SimulationDefects)
        /\ \E sim \in {SimulationReply(world, l, job.op, how, d)} :
           \E e \in {install_simulated(sim, got.seen, got.cap, got.fee, job)} :
           IF Failed(e) THEN Refuse(e, "install")
           ELSE Return(Assembled(sim, got.seq, got.ledger, got.cap, got.fee))
    /\ Keep

-----------------------------------------------------------------------------
Init ==
    /\ \E s \in Setups : job = s.job /\ world = s.world
    /\ pc = "start"
    /\ got = Nothing
    /\ faults = Faults
    /\ answer = NoAnswer

Finished == pc = "done" /\ UNCHANGED vars

Step ==
    \/ Begin \/ RequestFails \/ VerifyNetwork
    \/ GetTransaction \/ SimulateRecording \/ AcquireExecutables \/ Preflight
    \/ CaptureSimulate \/ ReadFootprint \/ ReadHeader
    \/ ReadInstance \/ ReadCode \/ ReadSelected \/ ReadCodes \/ ReadContractData \/ ReadClassics
    \/ ReadSequence \/ ReadFees \/ SimulateInstall

Next == Step \/ Finished

Spec == Init /\ [][Next]_vars /\ WF_vars(Step)

-----------------------------------------------------------------------------
(* Properties                                                                *)

CallKeys(l) == ToSet(ReadOnly(world, l, job.op) \o ReadWrite(job.op))

(* Whatever order the nodes answer in, a capture is the state of ONE ledger  *)
(* of the chain: every kept entry is what that ledger holds and, unless it   *)
(* is reported archived, live there; a native capture has every key the call *)
(* touches at that ledger, each still alive in the next, and binds the code  *)
(* the account runs there; a target capture has the code its instance names  *)
(* in the same ledger; an entry is called absent only where that ledger has  *)
(* none, unless the reply left it out.                                       *)
CapturedIsOneLedger ==
    (answer.ok /\ job.op \in {"native", "footprint", "target", "code", "data", "classic"}) =>
        /\ \A k \in DOMAIN answer.kept :
               /\ Present(world, answer.ledger, k)
               /\ answer.kept[k] = EntryAt(world, answer.ledger, k)
               /\ Archived(world, IF job.op = "native" THEN answer.ledger + 1 ELSE answer.ledger, k)
                    = (job.op = "data" /\ k \in answer.archived)
        /\ job.op = "native" =>
               /\ answer.runs = EntryAt(world, answer.ledger, "acct_instance").val
               /\ DOMAIN answer.kept
                    = CallKeys(answer.ledger) \ {"nonce", "acct_instance", answer.runs}
        /\ job.op = "target" => answer.runs = EntryAt(world, answer.ledger, "t_instance").val
        /\ (job.op \in {"data", "classic"} /\ faults = Faults) =>
               \A k \in answer.absent : ~Present(world, answer.ledger, k)

(* A recording says of every contract it names what ran at the ledger the    *)
(* observation is dated by, though its batches come from different ledgers;  *)
(* and its success label is the transaction's own result.                    *)
RecordingIsTrue ==
    (answer.ok /\ job.op \in {"transaction", "simulation"}) =>
        /\ DOMAIN answer.kept = ToSet(job.contracts)
        /\ \A k \in DOMAIN answer.kept :
               /\ answer.kept[k].entry = EntryAt(world, answer.kept[k].at, k)
               /\ ~Archived(world, answer.kept[k].at, k)
        /\ job.op = "transaction" => (answer.snapshot = "SUCCESS") = job.applied

(* An assembled transaction can still be included: a ledger after the        *)
(* simulated one is within its bounds, the account's authorization is        *)
(* unexpired in every ledger of the bounds, its sequence follows the payer's *)
(* at the lower bound, its fee keeps to the request, and it restores if and  *)
(* only if the install touches archived entries.                             *)
AssembledFits ==
    (answer.ok /\ job.op = "assembly") =>
        /\ answer.ledger >= answer.min /\ answer.ledger + 1 \in answer.min..(answer.max - 1)
        /\ \A l \in answer.min..(answer.max - 1) : l <= answer.expires
        /\ answer.seq = SequenceOf(EntryAt(world, answer.min, "payer").val) + 1
        /\ answer.fee \in MIN_INCLUSION_FEE..job.max_fee
        /\ answer.max <= MAX_U32
        /\ (answer.restoration = "None")
              <=> \A k \in CallKeys(answer.ledger) : ~Archived(world, answer.ledger, k)

=============================================================================
