----------------------------- MODULE AccountScan -----------------------------
(***************************************************************************)
(* The acquisition of an account's authority state over RPC                *)
(* (crates/source-rpc/src/account_state_scan.rs): which rules, signers,    *)
(* policies, contract code and classic accounts decide who may act for the *)
(* account.  The account changes while it is read, and the endpoint may be *)
(* several nodes at different ledgers that leave entries out.              *)
(*                                                                         *)
(* scan_once asks for the keys the previous response named until one       *)
(* response names no key outside its own request.  A closure larger than   *)
(* one request is read in stages that must all report the same ledger.     *)
(*                                                                         *)
(* External: the account contract (any sequence of stores from Accounts)   *)
(* and the endpoint, which answers each request from one ledger            *)
(* (account_closure_read.rs:4-9).  An entry's value is what the decoders   *)
(* make of it; undecodable and malformed answers are failed requests; the  *)
(* budget of retained bytes is left out.                                   *)
(***************************************************************************)
EXTENDS Integers, Sequences, FiniteSets

CONSTANTS
    Instance,     \* the key of the account's instance
    Rule,         \* the key of each rule slot: [0 .. n -> key]
    Entries,      \* the keys of its signers and policies
    Contracts,    \* the instances of policies, verifiers and targets
    Classics,     \* classic accounts
    Targets,      \* the contracts and classic accounts the caller names
    Accounts,     \* the stores the account can have, key -> [val, live]
    Bounds,       \* the AccountScanBounds a caller may choose
    KeyLimit,     \* MAX_LEDGER_ENTRY_KEYS
    FirstSlots,   \* FIRST_RULE_SLOTS
    Lag,          \* how many ledgers a node may be behind
    MaxOmit,      \* how many entries of a response may be missing
    MaxLedger

VARIABLES
    chain,      \* the account's store at each ledger
    bounds, attempt, batches,
    phase,      \* "round", a stage, or "done"
    request,    \* the keys of the next closure read; those left of a stage
    growing,    \* no response so far contradicted its predecessor
    previous,   \* the last response and its request
    outcome,    \* "none", "ok" or the error; "batches" is a budget error as well
    ledger,     \* the ledger the result reports
    found,      \* the entries a staged read has, and those of the result
    served, lossy   \* history: the ledgers answered from; an entry was missing

scan == <<bounds, attempt, batches, phase, request, growing, previous, outcome, ledger, found>>
vars == <<chain, scan, served, lossy>>

Slots == DOMAIN Rule
Leaves == Contracts \cup Classics
Keys == {Instance} \cup {Rule[i] : i \in Slots} \cup Entries \cup Leaves

(* The account is no leaf of its own scan: named again as a target, policy  *)
(* or verifier it adds no key, for its instance is read first anyway.       *)
ASSUME KeyKinds ==
    /\ Instance \notin {Rule[i] : i \in Slots} \cup Entries \cup Leaves
    /\ \A i, j \in Slots : Rule[i] = Rule[j] => i = j
    /\ {Rule[i] : i \in Slots} \cap (Entries \cup Leaves) = {}
    /\ Entries \cap Leaves = {} /\ Contracts \cap Classics = {}
    /\ Targets \subseteq Leaves
    /\ IsFiniteSet(Keys) /\ IsFiniteSet(Slots) /\ Slots = 0 .. Cardinality(Slots) - 1

ASSUME BoundsAssumption ==
    /\ Bounds \subseteq [ids : Nat, batches : Nat \ {0}, entries : Nat, attempts : Nat \ {0}]
    /\ \A b \in Bounds : b.ids - 1 \in Slots
    /\ {KeyLimit, FirstSlots, Lag, MaxOmit} \subseteq Nat /\ MaxLedger \in Nat \ {0}

Only(f, S) == [k \in S |-> f[k]]
Least(a, b) == IF a < b THEN a ELSE b

-----------------------------------------------------------------------------
(***************************************************************************)
(* What a set of returned entries names: Closure::derive.                  *)
(***************************************************************************)

SlotKeys(f) == {Rule[i] : i \in 0 .. f[Instance].val.next - 1}

\* closure_ids: the signers and policies of the rules that were returned.
EntryKeys(f) == UNION {f[k].val.entries : k \in SlotKeys(f) \cap DOMAIN f}

\* code_addresses and classic_addresses.
LeafKeys(f) == Targets \cup UNION {f[k].val.names : k \in EntryKeys(f) \cap DOMAIN f}

ClosureKeys(f) == {Instance} \cup SlotKeys(f) \cup EntryKeys(f) \cup LeafKeys(f)

Present(f, k) == k \in DOMAIN f /\ f[k].live
Archived(f, k) == k \in DOMAIN f /\ ~f[k].live

\* check_supplied_account_entries: Count is the number of rules, and every
\* signer and policy counts the rules that name it.
Reconciled(f) ==
    LET rules == SlotKeys(f) \cap DOMAIN f
    IN  /\ f[Instance].val.count = Cardinality(rules)
        /\ \A e \in EntryKeys(f) :
               f[e].val.refs = Cardinality({k \in rules : e \in f[k].val.entries})

\* The account contract keeps Count in step with the rules it stores.
ASSUME AccountsAssumption ==
    \A s \in Accounts :
        /\ DOMAIN s \subseteq Keys
        /\ Instance \in DOMAIN s =>
               /\ s[Instance].val.next \in Nat
               /\ s[Instance].val.count = Cardinality(SlotKeys(s) \cap DOMAIN s)
               /\ \A k \in SlotKeys(s) \cap DOMAIN s : s[k].val.entries \subseteq Entries
        /\ \A k \in Entries \cap DOMAIN s : s[k].val.names \subseteq Leaves

InstanceError(f, b) ==
    CASE ~Present(f, Instance) -> "incomplete"
      [] Present(f, Instance) /\ f[Instance].val.next > b.ids -> "budget"
      [] OTHER -> "none"

\* Errors of the stages after the instance, each over the keys it was asked for.
RulesError(f, asked) ==
    IF \E k \in SlotKeys(f) \cap asked : Archived(f, k) THEN "incomplete" ELSE "none"

IdsError(f, b) == IF Cardinality(EntryKeys(f)) > b.entries THEN "budget" ELSE "none"

EntriesError(f, asked) ==
    IF \E k \in EntryKeys(f) \cap asked : ~Present(f, k) THEN "incomplete" ELSE "none"

CountsError(f, asked) ==
    IF SlotKeys(f) \cup EntryKeys(f) \subseteq asked /\ ~Reconciled(f) THEN "incomplete" ELSE "none"

CodeIdsError(f, b) ==
    IF Cardinality(LeafKeys(f) \cap Contracts) > b.entries THEN "budget" ELSE "none"

CodeError(f, asked) ==
    IF \E k \in LeafKeys(f) \cap Contracts \cap asked : ~Present(f, k) THEN "incomplete" ELSE "none"

ClassicIdsError(f, b) ==
    IF Cardinality(LeafKeys(f) \cap Classics) > b.entries THEN "budget" ELSE "none"

\* The first error of two checks.
a \oplus b == IF a = "none" THEN b ELSE a

derive(f, asked, b) ==
    InstanceError(f, b)
        \oplus RulesError(f, asked) \oplus IdsError(f, b)
        \oplus EntriesError(f, asked) \oplus CountsError(f, asked)
        \oplus CodeIdsError(f, b) \oplus CodeError(f, asked) \oplus ClassicIdsError(f, b)

-----------------------------------------------------------------------------
(***************************************************************************)
(* The account and the endpoint.                                           *)
(***************************************************************************)

\* A ledger closes with any store; an unchanged entry keeps its last_modified.
CloseLedger ==
    /\ phase # "done" /\ Len(chain) < MaxLedger
    /\ \E s \in Accounts :
           chain' = Append(chain, [k \in DOMAIN s |->
               [val |-> s[k].val, live |-> s[k].live,
                mod |-> IF /\ k \in DOMAIN chain[Len(chain)]
                           /\ chain[Len(chain)][k].val = s[k].val
                           /\ chain[Len(chain)][k].live = s[k].live
                        THEN chain[Len(chain)][k].mod ELSE Len(chain) + 1]])
    /\ UNCHANGED <<scan, served, lossy>>

\* The answers to one request: one ledger's entries, without some of them.
Answer(asked, l, o) ==
    [ledger |-> l, found |-> Only(chain[l], (asked \cap DOMAIN chain[l]) \ o)]

Responses(asked) ==
    UNION {{Answer(asked, l, o) : o \in {m \in SUBSET asked : Cardinality(m) <= MaxOmit}} :
               l \in {i \in 1 .. Len(chain) : i >= Len(chain) - Lag}}

Note(r, asked) ==
    /\ served' = served \cup {r.ledger}
    /\ lossy' = (lossy \/ asked \cap DOMAIN chain[r.ledger] # DOMAIN r.found)

-----------------------------------------------------------------------------
(***************************************************************************)
(* The scan.                                                               *)
(***************************************************************************)

\* The caller's keys, the instance and as many speculative rule slots as fit.
FirstRequest(b) ==
    LET fixed == {Instance} \cup Targets
        room == IF Cardinality(fixed) < KeyLimit THEN KeyLimit - Cardinality(fixed) ELSE 0
        slots == Least(b.ids, Least(FirstSlots, room))
    IN  fixed \cup {Rule[i] : i \in 0 .. slots - 1}

NoEntries == [k \in {} |-> 0]
NoResponse == [ledger |-> 0, keys |-> {}, asked |-> {}, found |-> NoEntries]

Init ==
    /\ \E s \in Accounts :
           chain = << [k \in DOMAIN s |-> [val |-> s[k].val, live |-> s[k].live, mod |-> 1]] >>
    /\ bounds \in Bounds
    /\ attempt = 1 /\ batches = 0
    /\ phase = "round"
    /\ request = FirstRequest(bounds)
    /\ growing = TRUE /\ previous = NoResponse
    /\ outcome = "none" /\ ledger = 0 /\ found = NoEntries
    /\ served = {} /\ lossy = FALSE

\* reserve_batch: another request may be sent.
BatchLeft == batches < bounds.batches

Finish(error, used) ==
    /\ phase' = "done" /\ outcome' = error /\ batches' = used
    /\ UNCHANGED <<bounds, attempt, request, growing, previous, ledger, found>>

NextAttempt_Uncounted == attempt
NextAttempt == attempt + 1

\* SnapshotChanged: scan_authority_state starts over, or gives up.
Changed(used) ==
    \/ /\ attempt < bounds.attempts
       /\ attempt' = NextAttempt /\ batches' = 0
       /\ phase' = "round" /\ request' = FirstRequest(bounds)
       /\ growing' = TRUE /\ previous' = NoResponse
       /\ ledger' = 0 /\ found' = NoEntries
       /\ UNCHANGED <<bounds, outcome>>
    \/ attempt >= bounds.attempts /\ Finish("changed", used)

Accept(l, f) ==
    /\ phase' = "done" /\ outcome' = "ok" /\ batches' = batches + 1
    /\ ledger' = l /\ found' = f
    /\ UNCHANGED <<bounds, attempt, request, growing, previous>>

\* RequestedEntry::same_answer for the keys both responses were asked for.
SameAnswers(p, r, asked) ==
    \A k \in p.keys \cap p.asked \cap asked :
        /\ k \in DOMAIN p.found <=> k \in DOMAIN r.found
        /\ k \in DOMAIN p.found => p.found[k] = r.found[k]

Continue(r) ==
    /\ batches' = batches + 1
    /\ growing' = (growing /\ (previous = NoResponse
                               \/ (/\ previous.keys \subseteq ClosureKeys(r.found)
                                   /\ SameAnswers(previous, r, request))))
    /\ request' = ClosureKeys(r.found)
    /\ previous' = [ledger |-> r.ledger, keys |-> ClosureKeys(r.found), asked |-> request,
                     found |-> r.found]
    /\ UNCHANGED <<bounds, attempt, phase, outcome, ledger, found>>

\* The first response whose closure lies inside its request decides everything.
Closed(r) == ClosureKeys(r.found) \subseteq request

\* One closure read: read_closure_entries and Closure::derive.
Round ==
    /\ phase = "round"
    /\ BatchLeft /\ Cardinality(request) <= KeyLimit
    /\ \E r \in Responses(request) :
           /\ Note(r, request)
           /\ LET error == derive(r.found, request, bounds)
              IN  \/ error # "none" /\ Finish(error, batches + 1)
                  \/ error = "none" /\ Closed(r)
                     /\ Accept(r.ledger, Only(r.found, ClosureKeys(r.found) \cap DOMAIN r.found))
                  \/ error = "none" /\ ~Closed(r) /\ Continue(r)
    /\ UNCHANGED chain

\* The loop's batches are used up: the budget's fault, or a moving account.
OutOfBatches ==
    /\ phase = "round"
    /\ ~BatchLeft
    /\ \/ growing /\ Finish("batches", batches)
       \/ ~growing /\ Changed(batches)
    /\ UNCHANGED <<chain, served, lossy>>

\* A request fails, or answers something malformed.
RequestFails ==
    /\ phase # "done" /\ BatchLeft
    /\ Finish("rpc", batches + 1)
    /\ UNCHANGED <<chain, served, lossy>>

-----------------------------------------------------------------------------
(***************************************************************************)
(* scan_staged.                                                            *)
(***************************************************************************)

EnterStaged ==
    /\ phase = "round"
    /\ BatchLeft /\ Cardinality(request) > KeyLimit
    /\ phase' = "instance" /\ request' = {Instance}
    /\ UNCHANGED <<chain, bounds, attempt, batches, growing, previous, outcome, ledger,
                   found, served, lossy>>

Reading == phase \in {"instance", "rules", "entries", "code", "classic", "last"} /\ request # {}

NoBatchLeft ==
    /\ Reading /\ ~BatchLeft
    /\ Finish("batches", batches)
    /\ UNCHANGED <<chain, served, lossy>>

Merge(f, g) == [k \in DOMAIN f \cup DOMAIN g |-> IF k \in DOMAIN g THEN g[k] ELSE f[k]]

\* The chunk of a stage that one request reads.
Chunks == {c \in SUBSET request : Cardinality(c) = Least(Cardinality(request), KeyLimit)}

\* What the pages of a stage refuse once the ledger agrees.
PageError(f, asked) ==
    CASE phase = "instance" -> InstanceError(f, bounds)
      [] phase = "rules" -> RulesError(f, asked)
      [] phase = "entries" -> EntriesError(f, asked)
      [] OTHER -> "none"

SameLedger_Ignored(r) == TRUE

\* same_ledger; the first page decides.
SameLedger(r) == phase = "instance" \/ r.ledger = ledger

Page(chunk, r) ==
    LET all == Merge(found, r.found)
        error == PageError(all, chunk)
    IN  \* unavailable code is reported before the ledgers are compared
        \/ phase = "code" /\ CodeError(all, chunk) # "none"
           /\ Finish("incomplete", batches + 1)
        \/ ~(phase = "code" /\ CodeError(all, chunk) # "none")
           /\ \/ ~SameLedger(r) /\ Changed(batches + 1)
              \/ SameLedger(r) /\ error # "none" /\ Finish(error, batches + 1)
              \/ SameLedger(r) /\ error = "none"
                 /\ batches' = batches + 1 /\ request' = request \ chunk
                 /\ ledger' = r.ledger /\ found' = all
                 /\ UNCHANGED <<bounds, attempt, phase, growing, previous, outcome>>

ReadPage ==
    /\ Reading /\ phase # "last" /\ BatchLeft
    /\ \E chunk \in Chunks : \E r \in Responses(chunk) :
           /\ Note(r, chunk)
           /\ Page(chunk, r)
    /\ UNCHANGED chain

Stage(next, keys, error) ==
    \/ error # "none" /\ Finish(error, batches)
    \/ error = "none" /\ phase' = next /\ request' = keys
       /\ UNCHANGED <<bounds, attempt, batches, growing, previous, outcome, ledger, found>>

\* A stage is read: check it and name the next one's keys.
NextStage ==
    /\ request = {}
    /\ \/ phase = "instance" /\ Stage("rules", SlotKeys(found), "none")
       \/ phase = "rules" /\ Stage("entries", EntryKeys(found), IdsError(found, bounds))
       \/ phase = "entries"
          /\ Stage("code", LeafKeys(found) \cap Contracts,
                   CountsError(found, Keys) \oplus CodeIdsError(found, bounds))
       \/ phase = "code"
          /\ Stage("classic", LeafKeys(found) \cap Classics, ClassicIdsError(found, bounds))
       \/ phase = "classic" /\ Stage("last", {Instance}, "none")
    /\ UNCHANGED <<chain, served, lossy>>

\* The instance again: it must be the same answer at the same ledger.
ReadLast ==
    /\ Reading /\ phase = "last" /\ BatchLeft
    /\ \E r \in Responses({Instance}) :
           /\ Note(r, {Instance})
           /\ \/ /\ ~(r.ledger = ledger /\ r.found = Only(found, {Instance}))
                 /\ Changed(batches + 1)
              \/ /\ r.ledger = ledger /\ r.found = Only(found, {Instance})
                 /\ Accept(ledger, found)
    /\ UNCHANGED chain

Scan == Round \/ OutOfBatches \/ EnterStaged \/ NoBatchLeft \/ ReadPage \/ NextStage \/ ReadLast

Next == CloseLedger \/ Scan \/ RequestFails

\* The scan's own thread goes on; nothing else has to.
Spec == Init /\ [][Next]_vars /\ WF_vars(Scan)

-----------------------------------------------------------------------------
(***************************************************************************)
(* Properties.                                                             *)
(***************************************************************************)

Values == [val : [next : Nat, count : Nat] \cup [entries : SUBSET Entries]
                 \cup [refs : Nat, names : SUBSET Leaves] \cup [version : Nat],
           live : BOOLEAN, mod : 1 .. MaxLedger]

IsStore(s) == DOMAIN s \subseteq Keys /\ \A k \in DOMAIN s : s[k] \in Values

\* What each variable holds; the scan stays inside its bounds.
TypeOK ==
    /\ Len(chain) \in 1 .. MaxLedger /\ \A l \in DOMAIN chain : IsStore(chain[l])
    /\ bounds \in Bounds /\ attempt \in 1 .. bounds.attempts /\ batches \in 0 .. bounds.batches
    /\ phase \in {"round", "instance", "rules", "entries", "code", "classic", "last", "done"}
    /\ outcome \in {"none", "ok", "incomplete", "budget", "batches", "changed", "rpc"}
    /\ phase = "done" <=> outcome # "none"
    /\ request \subseteq Keys /\ growing \in BOOLEAN /\ lossy \in BOOLEAN
    /\ previous.ledger \in 0 .. Len(chain) /\ ledger \in 0 .. Len(chain)
    /\ previous.keys \subseteq Keys /\ previous.asked \subseteq Keys
    /\ IsStore(previous.found) /\ IsStore(found)
    /\ served \subseteq 1 .. Len(chain)

\* Every entry the account's authority rests on is live and the counts agree.
Whole(s) ==
    /\ Present(s, Instance)
    /\ \A k \in SlotKeys(s) : ~Archived(s, k)
    /\ \A k \in EntryKeys(s) \cup (LeafKeys(s) \cap Contracts) : Present(s, k)
    /\ Reconciled(s)

\* An accepted result is the account at the one ledger it reports: all of its
\* closure and nothing else, although the account changed between the
\* responses, nodes of several ledgers answered, and answers lacked entries.
\* Only a classic account may be missing: its absence is an answer
\* (scan_once, scan_staged, check_supplied_account_entries).
AcceptedIsOneLedger ==
    outcome = "ok" =>
        LET s == chain[ledger]
        IN  /\ DOMAIN found \subseteq ClosureKeys(s)
            /\ ClosureKeys(s) \cap DOMAIN s \subseteq DOMAIN found \cup Classics
            /\ \A k \in DOMAIN found : k \in DOMAIN s /\ found[k] = s[k]
            /\ Whole(s)

\* Whether n requests close, the first of them req, if the account is s and
\* does not change.
\* Closure reads that run out of batches blame the caller's bound only where
\* an account that does not change would need more as well; an account that
\* moves under the scan is reported as changed, and read again (the growing
\* flag of scan_once).
\* What an error says did happen: a change was one between two responses, and
\* incomplete state was incomplete at one ledger, unless the endpoint left
\* something out.  A staged read that reaches missing code at another ledger
\* reports the code (scan_staged compares the ledgers afterwards).
\* The scan ends, even where no two responses agree.
ScanEnds == <>(phase = "done")
=============================================================================
