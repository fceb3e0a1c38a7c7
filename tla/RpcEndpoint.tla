----------------------------- MODULE RpcEndpoint -----------------------------
(***************************************************************************)
(* The endpoint of crates/source-rpc and the transport in front of it.    *)
(*                                                                         *)
(* An endpoint is several nodes behind one address: every reply is taken   *)
(* from ONE closed ledger, but two replies need not be from the same one,  *)
(* nor in order.  A world says what every ledger entry holds at every      *)
(* ledger.  On top of that a reply may have one defect that a proxy, a     *)
(* cache or a broken node would put into it.                               *)
(***************************************************************************)
EXTENDS Integers, Sequences, FiniteSets, FiniteSetsExt, SequencesExt

CONSTANTS
    Ledgers,                 \* the ledgers the nodes of the endpoint serve
    MAX_U32,                 \* the largest ledger sequence
    MAX_LEDGER_ENTRY_KEYS,   \* keys of one getLedgerEntries request
    MAX_SUPPORTED_PROTOCOL,  \* the newest protocol this build decodes
    Base                     \* what every entry holds before anything changes

ASSUME EndpointAssumption ==
    /\ Ledgers \subseteq 1..MAX_U32 /\ MAX_U32 \in Nat
    /\ MAX_LEDGER_ENTRY_KEYS \in Nat \ {0}
    /\ MAX_SUPPORTED_PROTOCOL \in Nat \ {0}

-----------------------------------------------------------------------------
(* Errors: their code, and whose words they carry.  A text that the endpoint *)
(* controls may quote what was sent to it.                                   *)

Err(code, text) == [ok |-> FALSE, code |-> code, text |-> text]

Malformed == Err("Malformed", "fixed")

NoError == Err("none", "fixed")

Failed(e) == e.code # "none"

(* The first error of a list of checks, each <<refused, error>>.             *)
FirstOf(checks) ==
    LET refused == {i \in DOMAIN checks : checks[i][1]}
    IN  IF refused = {} THEN NoError ELSE checks[Min(refused)][2]

redact_ledger_request_error(e) == [e EXCEPT !.text = "fixed"]

redact_simulation_error(e) ==
    Err(IF e.code \in {"Transport", "Malformed"} THEN e.code ELSE "Rpc", "fixed")

withhold(e) ==
    Err(IF e.code \in {"NetworkMismatch", "UnsupportedProtocol", "Transport", "Rpc"}
        THEN e.code ELSE "Malformed", "fixed")

endpoint_error(e) ==
    IF e.code \in {"Transport", "Rpc", "Malformed", "NetworkMismatch"}
    THEN [e EXCEPT !.text = "fixed"] ELSE e

-----------------------------------------------------------------------------
(* One HTTP exchange.                                                        *)

Answered ==
    [reached |-> TRUE, status |-> "ok", large |-> FALSE, json |-> TRUE,
     version |-> TRUE, id |-> "ours", result |-> TRUE, error |-> FALSE]

jsonrpc_result(a) ==
    FirstOf(<< <<~a.version, Malformed>>,
               <<~(a.id = "ours" \/ (a.error /\ a.id = "null")), Err("Malformed", "endpoint")>>,
               <<a.result /\ a.error, Malformed>>,
               <<~a.result /\ ~a.error, Malformed>>,
               <<a.error, Err("Rpc", "endpoint")>> >>)

jsonrpc_error_of(a) == a.json /\ a.version /\ a.error

HttpTransport_call(a) ==
    IF ~a.reached THEN Err("Transport", "endpoint")
    ELSE IF a.large THEN Malformed
    ELSE IF a.status = "error"
         THEN IF jsonrpc_error_of(a) THEN Err("Rpc", "endpoint")
              ELSE Err("Transport", IF a.json THEN "fixed" ELSE "endpoint")
    ELSE IF ~a.json THEN Malformed
    ELSE jsonrpc_result(a)

(* What may come back instead of an answer to this request.                  *)
HttpFaults ==
    {[Answered EXCEPT !.reached = FALSE], [Answered EXCEPT !.large = TRUE],
     [Answered EXCEPT !.json = FALSE], [Answered EXCEPT !.version = FALSE],
     [Answered EXCEPT !.id = "other"], [Answered EXCEPT !.id = "null"],
     [Answered EXCEPT !.result = FALSE], [Answered EXCEPT !.error = TRUE],
     [Answered EXCEPT !.result = FALSE, !.error = TRUE],
     [Answered EXCEPT !.status = "error", !.result = FALSE, !.error = TRUE],
     [Answered EXCEPT !.status = "error", !.json = FALSE],
     [Answered EXCEPT !.status = "error", !.version = FALSE]}

TransportErrors == {HttpTransport_call(a) : a \in HttpFaults} \ {NoError}

-----------------------------------------------------------------------------
(* getNetwork                                                                *)

NetworkReplies ==
    [passphrase : {"ours"}, protocol : {MAX_SUPPORTED_PROTOCOL}]

WrongNetworks ==
    {[passphrase |-> "other", protocol |-> MAX_SUPPORTED_PROTOCOL]}
      \cup [passphrase : {"ours"}, protocol : {0, MAX_SUPPORTED_PROTOCOL + 1}]

verify_network(r) ==
    FirstOf(<< <<r.passphrase # "ours", Err("NetworkMismatch", "endpoint")>>,
               <<r.protocol = 0 \/ r.protocol > MAX_SUPPORTED_PROTOCOL,
                 Err("UnsupportedProtocol", "fixed")>> >>)

-----------------------------------------------------------------------------
(* Ledger entries.  A world changes at most one entry, at one ledger, and    *)
(* gives at most one entry a short life.                                     *)

NoTtl == 0

Far == MAX_U32

HasTtl(key) == key \notin {"recipient", "payer", "config"}

EntryAt(w, l, key) ==
    LET changed == key = w.key /\ l >= w.at IN
    [val |-> IF changed THEN w.val ELSE Base[key],
     mod |-> IF changed THEN w.at ELSE 1,
     ttl |-> IF ~HasTtl(key) THEN NoTtl ELSE IF key = w.expiring THEN w.until ELSE Far]

Present(w, l, key) == EntryAt(w, l, key).val # "absent"

Archived(w, l, key) == HasTtl(key) /\ EntryAt(w, l, key).ttl < l

(* A returned row: the key it is filed under, the key its payload is of, and *)
(* whether code bytes hash to their key.                                     *)
Row(w, l, key) ==
    [key |-> key, of |-> key, val |-> EntryAt(w, l, key).val, mod |-> EntryAt(w, l, key).mod,
     ttl |-> EntryAt(w, l, key).ttl, sound |-> TRUE]

RowDefects == {"omit", "twice", "unasked", "other", "future", "untimed", "unsound"}

EntryDefects == RowDefects \cup {"shape", "zero"}

(* The elements of a list that are in a set, in the list's order.            *)
Chosen(s, T) ==
    LET take[n \in 0..Len(s)] ==
            IF n = 0 THEN <<>>
            ELSE IF s[n] \in T THEN Append(take[n - 1], s[n]) ELSE take[n - 1]
    IN  take[Len(s)]

Rows(w, l, keys) ==
    LET there == Chosen(keys, {k \in ToSet(keys) : Present(w, l, k)})
    IN  [i \in DOMAIN there |-> Row(w, l, there[i])]

Defective(rows, defect, l) ==
    IF rows = <<>> \/ defect \notin RowDefects THEN rows
    ELSE CASE defect = "omit" -> Tail(rows)
           [] defect = "twice" -> Append(rows, rows[1])
           [] defect = "unasked" -> Append(rows, [rows[1] EXCEPT !.key = "unasked", !.of = "unasked"])
           [] defect = "other" -> [rows EXCEPT ![1].of = "unasked"]
           [] defect = "future" -> [rows EXCEPT ![1].mod = l + 1]
           [] defect = "untimed" -> [rows EXCEPT ![1].ttl = NoTtl]
           [] defect = "unsound" -> [i \in DOMAIN rows |-> [rows[i] EXCEPT !.sound = FALSE]]

(* The reply of a node at ledger l to a request for these keys.              *)
EntriesReply(w, l, keys, defect) ==
    [shape |-> defect # "shape", latest |-> IF defect = "zero" THEN 0 ELSE l,
     rows |-> Defective(Rows(w, l, keys), defect, l)]

(* The entry a reader keeps of a row, and the keys a reply returned.         *)
Kept(row) == [val |-> row.val, mod |-> row.mod, ttl |-> row.ttl]

Entries(rows) ==
    [k \in {rows[i].key : i \in DOMAIN rows} |->
        Kept(rows[CHOOSE i \in DOMAIN rows : rows[i].key = k])]

(* The error of the first row that a reader refuses.                         *)
FirstRow(errors) ==
    LET refused == {i \in DOMAIN errors : Failed(errors[i])}
    IN  IF refused = {} THEN NoError ELSE errors[Min(refused)]

Repeated(rows, i) == \E j \in 1..(i - 1) : rows[j].key = rows[i].key

Timed(row) == row.ttl # NoTtl

Dead(row, latest) == Timed(row) /\ row.ttl < latest
=============================================================================
