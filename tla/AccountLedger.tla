--------------------------- MODULE AccountLedger ----------------------------
(***************************************************************************)
(* The network as the wallet backend sees it through its RPC endpoint: the *)
(* ledger clock, the context rules of one smart account with the ledgers   *)
(* at which they came and went, and the owner authorization entries the    *)
(* wallet has released.                                                    *)
(*                                                                         *)
(* None of this is code of the repository except where the wallet reads it *)
(* (liveState, ruleReadback, clockedLedger).  What it stands on:           *)
(*   - an owner entry that left the backend may be signed and used, once,  *)
(*     by anyone who holds it, in any ledger up to its expiry;             *)
(*   - a transaction the fee payer sent may land late, or never;           *)
(*   - rule IDs grow and are never reused;                                 *)
(*   - a read is answered by a node that may lag.                          *)
(***************************************************************************)
EXTENDS Integers, FiniteSets

CONSTANTS
  MaxLedger,   \* bound: the last ledger
  MaxEntries,  \* bound: owner entries ever released
  MaxRules,    \* bound: rules ever added to the account
  MaxForeign,  \* bound: changes the owner makes with other tools
  Lag          \* how many ledgers a node may be behind

ASSUME LedgerAssumption ==
  /\ MaxLedger \in Nat \ {0} /\ MaxEntries \in Nat /\ MaxRules \in Nat
  /\ MaxForeign \in Nat /\ Lag \in Nat

VARIABLES
  ledger,      \* the last closed ledger
  rules,       \* per rule ID: the entry that added it, and when it came, changed, went
  entries,     \* per released owner entry: what it authorizes and until when
  used,        \* entries whose nonce is spent
  sent,        \* entries the fee payer has sent in a transaction
  landed,      \* those of them whose transaction was applied
  foreign      \* changes made with other tools so far

network == <<ledger, rules, entries, used, sent, landed, foreign>>

EntryIds == 1 .. MaxEntries
RuleIds == 1 .. MaxRules
Ledgers == 0 .. MaxLedger + 1

(* What the wallet compares between two reads of the account.              *)
Snapshots == [nextId : Nat, present : SUBSET RuleIds, edited : SUBSET RuleIds]
NoSnapshot == [nextId |-> 0, present |-> {}, edited |-> {}]

(* An entry for add_context_rule comes from a live check or from an        *)
(* installation; a "remove" entry names the rule it removes.  `seen` is    *)
(* the account as read before the entry existed.                           *)
Kinds == {"none", "live", "install", "remove"}
Entry == [kind : Kinds, expiry : Nat, rule : 0 .. MaxRules, seen : Snapshots]
NoEntry == [kind |-> "none", expiry |-> 0, rule |-> 0, seen |-> NoSnapshot]

Rule == [by : 0 .. MaxEntries, added : Ledgers, edited : Ledgers, removed : Ledgers]
NoRule == [by |-> 0, added |-> 0, edited |-> 0, removed |-> 0]

NetworkTypeOK ==
  /\ ledger \in 1 .. MaxLedger
  /\ rules \in [RuleIds -> Rule]
  /\ entries \in [EntryIds -> Entry]
  /\ used \subseteq EntryIds /\ sent \subseteq EntryIds /\ landed \subseteq EntryIds
  /\ foreign \in 0 .. MaxForeign

NetworkInit ==
  /\ ledger = 1
  /\ rules = [i \in RuleIds |-> NoRule]
  /\ entries = [e \in EntryIds |-> NoEntry]
  /\ used = {} /\ sent = {} /\ landed = {}
  /\ foreign = 0

-----------------------------------------------------------------------------
(* Reads.  Every read may be answered as of any of these ledgers.          *)
Reads == {r \in 1 .. ledger : ledger - r <= Lag}

PresentAt(r) ==
  {i \in RuleIds : /\ rules[i].added # 0 /\ rules[i].added <= r
                   /\ rules[i].removed = 0 \/ rules[i].removed > r}
EditedAt(r) == {i \in PresentAt(r) : rules[i].edited # 0 /\ rules[i].edited <= r}
NextIdAt(r) == 1 + Cardinality({i \in RuleIds : rules[i].added # 0 /\ rules[i].added <= r})
StateAt(r) == [nextId |-> NextIdAt(r), present |-> PresentAt(r), edited |-> EditedAt(r)]

Released(e) == entries[e].kind # "none"
AddsRule(e) == entries[e].kind \in {"live", "install"}
Present(i) == rules[i].added # 0 /\ rules[i].removed = 0

-----------------------------------------------------------------------------
(* The world outside the backend.                                          *)
Tick ==
  /\ ledger < MaxLedger
  /\ ledger' = ledger + 1
  /\ UNCHANGED <<rules, entries, used, sent, landed, foreign>>

(* The next ledger applies a transaction that carries entry e: the fee     *)
(* payer's, if it sent one, or anybody's.                                  *)
Land(e, by_payer) ==
  /\ Released(e) /\ e \notin used
  /\ ledger + 1 <= entries[e].expiry
  /\ by_payer => e \in sent
  /\ \/ /\ AddsRule(e)
        /\ \E i \in RuleIds :
             /\ rules[i].added = 0 /\ \A j \in 1 .. i - 1 : rules[j].added # 0
             /\ rules' = [rules EXCEPT ![i] = [NoRule EXCEPT !.by = e, !.added = ledger + 1]]
     \/ /\ entries[e].kind = "remove" /\ Present(entries[e].rule)
        /\ rules' = [rules EXCEPT ![entries[e].rule].removed = ledger + 1]
  /\ used' = used \cup {e}
  /\ landed' = IF by_payer THEN landed \cup {e} ELSE landed
  /\ UNCHANGED <<ledger, entries, sent, foreign>>

(* The owner adds, edits or removes a rule with another tool.              *)
OwnerElsewhere ==
  /\ foreign < MaxForeign
  /\ foreign' = foreign + 1
  /\ \E i \in RuleIds :
       \/ /\ rules[i].added = 0 /\ \A j \in 1 .. i - 1 : rules[j].added # 0
          /\ rules' = [rules EXCEPT ![i].added = ledger + 1]
       \/ Present(i) /\ rules[i].edited = 0 /\ rules' = [rules EXCEPT ![i].edited = ledger + 1]
       \/ Present(i) /\ rules' = [rules EXCEPT ![i].removed = ledger + 1]
  /\ UNCHANGED <<ledger, entries, used, sent, landed>>

World == Tick \/ OwnerElsewhere \/ \E e \in EntryIds, by \in BOOLEAN : Land(e, by)
=============================================================================
