---------------------------- MODULE WalletProofs ----------------------------
(***************************************************************************)
(* Proofs about the two stateful parts of the wallet backend.              *)
(*                                                                         *)
(* The grant lifecycle, for any bounds and any lag.  An owner entry that   *)
(* adds a rule is Spent when it cannot land any more and no rule it added  *)
(* is on the account.  Spent is stable, so the proof is about when each    *)
(* entry becomes so: before the first review of a process for the entries  *)
(* of earlier processes, at the replay check for the open ones, at a       *)
(* replacement for the installed ones.                                     *)
(*                                                                         *)
(* The agent handoff, for any number of wallets, delegates, proposals and  *)
(* body slots and any lifetimes and limits.  Every method first runs       *)
(* #expire(), so the argument is made once about the state after it        *)
(* (LiveKeepsOrder) and then once per action.                              *)
(***************************************************************************)
EXTENDS WalletGrant, AgentHandoff, FiniteSetTheorems, TLAPS

-----------------------------------------------------------------------------
(* The grant lifecycle *)


Spent(f) ==
  /\ entries[f].expiry < ledger \/ f \in used
  /\ \A i \in RuleIds : rules[i].by = f => ~Present(i)

(* What the account's rules say about the entries that added them. *)
RuleFacts ==
  \A i \in RuleIds :
    /\ rules[i].added = 0 => rules[i] = NoRule
    /\ rules[i].by # 0 =>
         /\ AddsRule(rules[i].by) /\ rules[i].by \in used
         /\ rules[i].added <= entries[rules[i].by].expiry
         /\ i \notin entries[rules[i].by].seen.present
    /\ \A j \in RuleIds : rules[i].by # 0 /\ rules[i].by = rules[j].by => i = j

(* A snapshot shows only rules that had been added. *)
SeenFacts ==
  /\ \A f \in EntryIds : \A j \in entries[f].seen.present : rules[j].added # 0
  /\ \A j \in tokens["live"].seen.present : rules[j].added # 0

(* Only released entries are sent; a removal that landed took its rule     *)
(* away.                                                                   *)
LandedFacts ==
  /\ \A f \in sent \cup landed : Released(f)
  /\ \A f \in EntryIds : entries[f].kind = "remove" => entries[f].rule \in RuleIds
  /\ \A f \in landed : entries[f].kind = "remove" => rules[entries[f].rule].removed # 0

(* Every entry that adds a rule is journaled, and no other is. *)
JournalFacts ==
  /\ \A f \in EntryIds : AddsRule(f) <=> f \in journal
  /\ records \subseteq journal /\ closed \subseteq records

InstallFacts ==
  \A e \in Recorded :
    /\ installs[e].rule # 0 /\ rules[installs[e].rule].by = e
    /\ installs[e].removal # "none" => rules[installs[e].rule].removed # 0

(* A pending removal, and one in flight, is of a recorded installation. *)
RemovalFacts ==
  /\ tokens["revoke"].held =>
       /\ tokens["revoke"].install \in Recorded
       /\ tokens["revoke"].entry \in EntryIds
       /\ entries[tokens["revoke"].entry].kind = "remove"
       /\ entries[tokens["revoke"].entry].rule = installs[tokens["revoke"].install].rule
  /\ task.step \in {"removing", "polling_removal", "verifying_removal"} =>
       /\ task.install \in Recorded
       /\ task.entry \in EntryIds
       /\ entries[task.entry].kind = "remove"
       /\ entries[task.entry].rule = installs[task.install].rule
  /\ task.step = "verifying_removal" => rules[installs[task.install].rule].removed # 0

(* What an earlier process released was spent before this one's first review. *)
EarlierSpent ==
  (\E r \in ReviewIds : Reviewed(r)) => \A f \in journal \ records : Spent(f)

(* A closed entry is spent, or it is the installation that uses up the     *)
(* allowance.                                                              *)
ClosedSpent ==
  /\ allowance <= attempts
  /\ \A f \in closed : Spent(f) \/ (attempts > allowance /\ f \in Recorded)

(* While an installation is submitted, every other entry is spent. *)
TaskFacts ==
  /\ task.step = "assembling" => task.review \in ReviewIds
  /\ tokens["install"].held => /\ tokens["install"].review \in ReviewIds
                               /\ tokens["install"].entry \in EntryIds
                               /\ Released(tokens["install"].entry)
  /\ tokens["live"].held => tokens["live"].review \in ReviewIds
  /\ tokens["live_sign"].held => tokens["live_sign"].review \in ReviewIds
  /\ task.step \in {"rechecking", "polling", "verifying"} =>
       /\ task.review \in ReviewIds /\ task.entry \in EntryIds
       /\ Released(task.entry)
       /\ attempts > allowance
       /\ \A f \in EntryIds \ {task.entry} : AddsRule(f) => Spent(f)
  /\ task.step = "verifying" => task.entry \in Recorded

(* Of two installations the fee payer sent, one is spent. *)
SentSpent ==
  \A e, f \in sent : AddsRule(e) /\ AddsRule(f) /\ e # f => Spent(e) \/ Spent(f)

IInv ==
  /\ TypeOK
  /\ RuleFacts /\ SeenFacts /\ LandedFacts
  /\ JournalFacts /\ InstallFacts /\ RemovalFacts
  /\ EarlierSpent /\ ClosedSpent /\ TaskFacts
  /\ SentSpent

-----------------------------------------------------------------------------
(* The types of what is read and released. *)
LEMMA ReadTypes ==
  ASSUME NEW q \in Reads, TypeOK
  PROVE  /\ q \in 1 .. MaxLedger /\ q <= ledger
         /\ PresentAt(q) \in SUBSET RuleIds /\ EditedAt(q) \in SUBSET RuleIds
         /\ StateAt(q) \in Snapshots
         /\ StateAt(q) # NoSnapshot
<1>1. q \in 1 .. MaxLedger /\ q <= ledger
  BY LedgerAssumption DEF Reads, TypeOK, NetworkTypeOK, LedgerAssumption
<1>2. PresentAt(q) \in SUBSET RuleIds /\ EditedAt(q) \in SUBSET RuleIds
  BY DEF PresentAt, EditedAt
<1> DEFINE S == {i \in RuleIds : rules[i].added # 0 /\ rules[i].added <= q}
<1>3. IsFiniteSet(S)
  <2>1. IsFiniteSet(RuleIds)
    BY FS_Interval, LedgerAssumption DEF RuleIds, LedgerAssumption
  <2> QED
    BY <2>1, FS_Subset
<1>4. Cardinality(S) \in Nat
  BY <1>3, FS_CardinalityType
<1>5. NextIdAt(q) \in Nat /\ NextIdAt(q) # 0
  <2>1. NextIdAt(q) = 1 + Cardinality(S)
    BY DEF NextIdAt
  <2> QED
    BY <2>1, <1>4
<1> QED
  BY <1>1, <1>2, <1>5 DEF StateAt, Snapshots, NoSnapshot

LEMMA BlankTypes ==
  /\ NoSnapshot \in Snapshots /\ NoEntry \in Entry /\ NoRule \in Rule
  /\ NoReview \in ReviewRecord /\ NoInstall \in InstallRecord
  /\ NoToken \in Token /\ NoTokens \in [TokenKinds -> Token] /\ Idle \in Task
<1>1. NoSnapshot \in Snapshots
  BY DEF NoSnapshot, Snapshots
<1>2. NoEntry \in Entry /\ NoRule \in Rule
  BY <1>1, LedgerAssumption DEF NoEntry, Entry, Kinds, NoRule, Rule, Ledgers, LedgerAssumption
<1>3. NoReview \in ReviewRecord
  BY <1>1, LedgerAssumption DEF NoReview, ReviewRecord, Clock, LedgerAssumption
<1>4. NoInstall \in InstallRecord
  BY LedgerAssumption DEF NoInstall, InstallRecord, Clock, Ledgers, LedgerAssumption
<1>5. NoToken \in Token
  BY <1>1, LedgerAssumption DEF NoToken, Token, LedgerAssumption
<1>6. NoTokens \in [TokenKinds -> Token]
  BY <1>5 DEF NoTokens
<1>7. Idle \in Task
  BY LedgerAssumption DEF Idle, Task, Steps, LedgerAssumption
<1> QED
  BY <1>1, <1>2, <1>3, <1>4, <1>5, <1>6, <1>7

(* A released entry, and the entry's token, have their types. *)
LEMMA ReleaseTypes ==
  ASSUME TypeOK, NEW e \in EntryIds, NEW k \in Kinds, NEW x \in Nat,
         NEW i \in 0 .. MaxRules, NEW sn \in Snapshots, Release(e, k, x, i, sn)
  PROVE  entries' \in [EntryIds -> Entry]
BY DEF Release, TypeOK, NetworkTypeOK, Entry

LEMMA WorldTypes ==
  ASSUME TypeOK, World
  PROVE  NetworkTypeOK'
<1> USE LedgerAssumption DEF LedgerAssumption
<1>1. CASE Tick
  BY <1>1 DEF Tick, TypeOK, NetworkTypeOK
<1>2. CASE OwnerElsewhere
  <2>1. rules' \in [RuleIds -> Rule]
    <3>1. ledger + 1 \in Ledgers /\ rules \in [RuleIds -> Rule]
      BY DEF Ledgers, TypeOK, NetworkTypeOK
    <3> QED
      BY <1>2, <3>1 DEF OwnerElsewhere, Rule
  <2> QED
    BY <2>1, <1>2 DEF OwnerElsewhere, TypeOK, NetworkTypeOK
<1>3. ASSUME NEW e \in EntryIds, NEW by \in BOOLEAN, Land(e, by)
      PROVE  NetworkTypeOK'
  <2>1. rules' \in [RuleIds -> Rule]
    <3>1. CASE AddsRule(e)
      <4>1. PICK i \in RuleIds :
              rules' = [rules EXCEPT ![i] = [NoRule EXCEPT !.by = e, !.added = ledger + 1]]
        BY <1>3, <3>1 DEF Land, AddsRule
      <4>2. ledger + 1 \in Ledgers /\ e \in 0 .. MaxEntries
        BY DEF Ledgers, EntryIds, TypeOK, NetworkTypeOK
      <4>3. [NoRule EXCEPT !.by = e, !.added = ledger + 1] \in Rule
        BY <4>2, BlankTypes DEF Rule
      <4> QED
        BY <4>1, <4>3 DEF TypeOK, NetworkTypeOK
    <3>2. CASE ~AddsRule(e)
      <4>1. ledger + 1 \in Ledgers /\ rules \in [RuleIds -> Rule]
        BY DEF Ledgers, TypeOK, NetworkTypeOK
      <4> QED
        BY <1>3, <3>2, <4>1 DEF Land, Rule
    <3> QED
      BY <3>1, <3>2
  <2> QED
    BY <2>1, <1>3 DEF Land, TypeOK, NetworkTypeOK
<1> QED
  BY <1>1, <1>2, <1>3 DEF World

(* Every action keeps the types. *)
LEMMA TypeStep ==
  ASSUME IInv, Next
  PROVE  TypeOK'
<1> USE LedgerAssumption, GrantAssumption DEF LedgerAssumption, GrantAssumption
<1>0. TypeOK
  BY DEF IInv
<1>a. /\ reviews \in [ReviewIds -> ReviewRecord] /\ tokens \in [TokenKinds -> Token]
      /\ installs \in [EntryIds -> InstallRecord] /\ task \in Task
  BY <1>0 DEF TypeOK
<1>b. 0 \in Clock /\ (\A e \in EntryIds : e \in 0 .. MaxEntries)
  BY DEF Clock, EntryIds
<1>1. CASE NetworkMoves
  BY <1>0, <1>1, WorldTypes DEF NetworkMoves, backend, TypeOK
<1>2. ASSUME NEW r \in ReviewIds, ReviewGrant(r)
      PROVE  TypeOK'
  <2>1. PICK q \in Reads : reviews' = [reviews EXCEPT ![r] = [NoReview EXCEPT !.approved = StateAt(q)]]
    BY <1>2 DEF ReviewGrant
  <2>2. [NoReview EXCEPT !.approved = StateAt(q)] \in ReviewRecord
    BY <1>0, ReadTypes, BlankTypes DEF NoReview, ReviewRecord
  <2> QED
    BY <1>0, <1>2, <2>1, <2>2 DEF ReviewGrant, TypeOK, NetworkTypeOK, network
<1>3. ASSUME NEW r \in ReviewIds, CheckAccount(r)
      PROVE  TypeOK'
  <2>1. PICK x \in Reads \cup {0} : reviews' = [reviews EXCEPT ![r].captured = x]
    BY <1>3 DEF CheckAccount
  <2>2. x \in Clock
    BY <1>0, ReadTypes DEF Clock
  <2>3. reviews' \in [ReviewIds -> ReviewRecord]
    BY <1>a, <2>1, <2>2 DEF ReviewRecord
  <2> QED
    BY <1>0, <1>3, <2>3 DEF CheckAccount, TypeOK, NetworkTypeOK, network
<1>4. ASSUME NEW r \in ReviewIds, PrepareLive(r)
      PROVE  TypeOK'
  <2>1. reviews' \in [ReviewIds -> ReviewRecord]
    <3>1. reviews' = reviews \/ reviews' = [reviews EXCEPT ![r].live = 0]
      BY <1>4 DEF PrepareLive
    <3> QED
      BY <1>a, <1>b, <3>1 DEF ReviewRecord
  <2>2. tokens' \in [TokenKinds -> Token]
    <3> DEFINE left == [tokens EXCEPT !["live"] = NoToken, !["live_sign"] = NoToken]
    <3>1. left \in [TokenKinds -> Token]
      BY <1>0, BlankTypes DEF TypeOK
    <3>2. ASSUME NEW clock \in Reads, NEW q \in Reads,
                 tokens' = [left EXCEPT !["live"] =
                              [NoToken EXCEPT !.held = TRUE, !.review = r,
                                              !.expiry = clock + LiveTTL, !.seen = StateAt(q)]]
          PROVE  tokens' \in [TokenKinds -> Token]
      <4>1. clock + LiveTTL \in Nat /\ StateAt(q) \in Snapshots
        BY <1>0, ReadTypes
      <4>2. [NoToken EXCEPT !.held = TRUE, !.review = r,
                            !.expiry = clock + LiveTTL, !.seen = StateAt(q)] \in Token
        BY <4>1, BlankTypes DEF NoToken, Token
      <4> QED
        BY <3>1, <3>2, <4>2
    <3>3. tokens' = left \/ \E clock, q \in Reads :
              tokens' = [left EXCEPT !["live"] =
                              [NoToken EXCEPT !.held = TRUE, !.review = r,
                                              !.expiry = clock + LiveTTL, !.seen = StateAt(q)]]
      BY <1>4 DEF PrepareLive
    <3> QED
      BY <3>1, <3>2, <3>3
  <2> QED
    BY <1>0, <1>4, <2>1, <2>2 DEF PrepareLive, TypeOK, NetworkTypeOK, network
<1>5. CASE ConsentLive
  <2> DEFINE Gives(e) ==
        /\ Answers(e)
        /\ Release(e, "live", tokens["live"].expiry, 0, tokens["live"].seen)
        /\ tokens' = [tokens EXCEPT !["live"] = NoToken,
                                    !["live_sign"] = [tokens["live"] EXCEPT !.entry = e]]
  <2>0. \/ /\ tokens' = [tokens EXCEPT !["live"] = NoToken]
           /\ UNCHANGED <<entries, journal, records>>
        \/ \E e \in EntryIds : Gives(e)
    BY <1>5 DEF ConsentLive
  <2>1. CASE tokens' = [tokens EXCEPT !["live"] = NoToken] /\ UNCHANGED <<entries, journal, records>>
    BY <1>0, <1>5, <2>1, BlankTypes DEF ConsentLive, TypeOK, NetworkTypeOK
  <2>2. CASE \E e \in EntryIds : Gives(e)
    <3> DEFINE t == tokens["live"]
    <3>1. PICK e \in EntryIds :
            /\ Answers(e)
            /\ Release(e, "live", t.expiry, 0, t.seen)
            /\ tokens' = [tokens EXCEPT !["live"] = NoToken,
                                        !["live_sign"] = [t EXCEPT !.entry = e]]
      BY <2>2
    <3>2. t \in Token
      BY <1>0 DEF TypeOK, TokenKinds
    <3>3. entries' \in [EntryIds -> Entry]
      BY <1>0, <3>1, <3>2, ReleaseTypes DEF Kinds, Token
    <3>4. [t EXCEPT !.entry = e] \in Token
      BY <1>b, <3>2 DEF Token
    <3>5. tokens' \in [TokenKinds -> Token]
      BY <1>0, <3>1, <3>4, BlankTypes DEF TypeOK
    <3> HIDE DEF t
    <3> QED
      BY <1>0, <1>5, <3>1, <3>3, <3>5 DEF ConsentLive, Answers, TypeOK, NetworkTypeOK
  <2> QED
    BY <2>0, <2>1, <2>2
<1>6. CASE RunLive
  <2>1. reviews' \in [ReviewIds -> ReviewRecord]
    <3> DEFINE t == tokens["live_sign"]
    <3>1. CASE UNCHANGED reviews
      BY <1>0, <3>1 DEF TypeOK
    <3>2. CASE reviews' = [reviews EXCEPT ![t.review].live = 0]
      BY <1>a, <1>b, <3>2 DEF ReviewRecord
    <3>3. ASSUME NEW x \in Reads, reviews' = [reviews EXCEPT ![t.review].live = x]
          PROVE  reviews' \in [ReviewIds -> ReviewRecord]
      <4>1. x \in Clock
        BY <1>0, ReadTypes DEF Clock
      <4> QED
        BY <1>a, <3>3, <4>1 DEF ReviewRecord
    <3> QED
      BY <1>6, <3>1, <3>2, <3>3 DEF RunLive
  <2> QED
    BY <1>0, <1>6, <2>1, BlankTypes DEF RunLive, TypeOK, NetworkTypeOK, network
<1>7. ASSUME NEW r \in ReviewIds, Assemble(r)
      PROVE  TypeOK'
  BY <1>0, <1>7, BlankTypes DEF Assemble, TypeOK, NetworkTypeOK, network, Task, Steps, Idle
<1>8. CASE ReleaseInstall
  <2>1. PICK m \in Reads, q \in Reads, e \in EntryIds :
          /\ Answers(e)
          /\ Release(e, "install", m + InstallTTL - 1, 0, StateAt(q))
          /\ tokens' = [tokens EXCEPT !["install"] =
                          [NoToken EXCEPT !.held = TRUE, !.review = task.review, !.entry = e]]
    BY <1>8 DEF ReleaseInstall
  <2>2. m + InstallTTL - 1 \in Nat /\ StateAt(q) \in Snapshots
    BY <1>0, ReadTypes
  <2>3. entries' \in [EntryIds -> Entry]
    BY <1>0, <2>1, <2>2, ReleaseTypes DEF Kinds
  <2>4. task.review \in ReviewIds \cup {0}
    BY <1>0 DEF TypeOK, Task
  <2>5. [NoToken EXCEPT !.held = TRUE, !.review = task.review, !.entry = e] \in Token
    BY <1>b, <2>4, BlankTypes DEF Token
  <2>6. tokens' \in [TokenKinds -> Token]
    BY <1>0, <2>1, <2>5 DEF TypeOK
  <2> QED
    BY <1>0, <1>8, <2>1, <2>3, <2>6, BlankTypes DEF ReleaseInstall, Answers, TypeOK, NetworkTypeOK
<1>9. CASE Submit
  <2> DEFINE r == tokens["install"].review
  <2>0. tokens["install"] \in Token
    BY <1>a DEF TokenKinds
  <2>1. reviews' \in [ReviewIds -> ReviewRecord]
    <3>1. reviews' = reviews \/ reviews' = [reviews EXCEPT ![r].attempted = TRUE]
      BY <1>9 DEF Submit
    <3>2. r \in ReviewIds
      BY <1>9 DEF Submit, IInv, TaskFacts
    <3>3. reviews[r] \in ReviewRecord
      BY <1>a, <3>2
    <3> HIDE DEF r
    <3>4. [reviews[r] EXCEPT !.attempted = TRUE] \in ReviewRecord
      BY <3>3 DEF ReviewRecord
    <3> QED
      BY <1>a, <3>1, <3>2, <3>4
  <2>2. task' \in Task
    <3>1. task' = task \/ task' = [Idle EXCEPT !.step = "rechecking", !.review = r,
                                               !.entry = tokens["install"].entry]
      BY <1>9 DEF Submit
    <3>2. r \in ReviewIds \cup {0} /\ tokens["install"].entry \in 0 .. MaxEntries
      BY <2>0 DEF Token
    <3> HIDE DEF r
    <3>3. [Idle EXCEPT !.step = "rechecking", !.review = r,
                       !.entry = tokens["install"].entry] \in Task
      BY <3>2, BlankTypes DEF Task, Steps
    <3> QED
      BY <1>a, <3>1, <3>3
  <2>3. attempts' \in Nat
    BY <1>0, <1>9 DEF Submit, TypeOK
  <2>4. tokens' \in [TokenKinds -> Token]
    BY <1>a, <1>9, BlankTypes DEF Submit
  <2> QED
    BY <1>0, <1>9, <2>1, <2>2, <2>3, <2>4 DEF Submit, TypeOK, NetworkTypeOK, network
<1>10. CASE SendInstall
  <2>1. task' \in Task
    BY <1>a, <1>10 DEF SendInstall, Task, Steps
  <2>2. tokens' \in [TokenKinds -> Token]
    BY <1>a, <1>10, BlankTypes DEF SendInstall
  <2>3. ambiguous' \in BOOLEAN /\ sent' \subseteq EntryIds
    BY <1>0, <1>10 DEF SendInstall, Sends, TypeOK, NetworkTypeOK, IInv, TaskFacts
  <2> QED
    BY <1>0, <1>10, <2>1, <2>2, <2>3 DEF SendInstall, TypeOK, NetworkTypeOK
<1>11. CASE ConfirmInstall
  <2>1. task' \in Task
    BY <1>a, <1>11 DEF ConfirmInstall, Task, Steps
  <2>2. installs' \in [EntryIds -> InstallRecord]
    <3>1. PICK i \in RuleIds :
            installs' = [installs EXCEPT ![task.entry] =
              [NoInstall EXCEPT !.status = "confirmed_unverified", !.rule = i, !.at = rules[i].added]]
      BY <1>11 DEF ConfirmInstall
    <3>2. i \in 0 .. MaxRules
      BY DEF RuleIds
    <3>3. rules[i].added \in Ledgers
      BY <1>0 DEF TypeOK, NetworkTypeOK, Rule
    <3>4. [NoInstall EXCEPT !.status = "confirmed_unverified", !.rule = i, !.at = rules[i].added]
            \in InstallRecord
      BY <3>2, <3>3, BlankTypes DEF InstallRecord
    <3> QED
      BY <1>a, <3>1, <3>4
  <2> QED
    BY <1>0, <1>11, <2>1, <2>2 DEF ConfirmInstall, TypeOK, NetworkTypeOK, network
<1>12. CASE VerifyInstall
  <2>1. installs' \in [EntryIds -> InstallRecord]
    <3>1. task.entry \in EntryIds
      BY <1>12 DEF VerifyInstall, IInv, TaskFacts
    <3>2. [installs[task.entry] EXCEPT !.status = "installed"] \in InstallRecord
      BY <1>a, <3>1 DEF InstallRecord
    <3> QED
      BY <1>a, <1>12, <3>1, <3>2 DEF VerifyInstall
  <2> QED
    BY <1>0, <1>12, <2>1, BlankTypes DEF VerifyInstall, Open, TypeOK, NetworkTypeOK, network
<1>13. CASE InstallRefused
  BY <1>0, <1>13, BlankTypes DEF InstallRefused, TypeOK, NetworkTypeOK, network
<1>14. ASSUME NEW e \in EntryIds, MonitorGrant(e)
       PROVE  TypeOK'
  <2>1. PICK x \in Reads \cup {0} : installs' = [installs EXCEPT ![e].drift = x]
    BY <1>14 DEF MonitorGrant
  <2>2. x \in Clock
    BY <1>0, <1>b, ReadTypes DEF Clock
  <2>3. installs' \in [EntryIds -> InstallRecord]
    BY <1>a, <2>1, <2>2 DEF InstallRecord
  <2> QED
    BY <1>0, <1>14, <2>3 DEF MonitorGrant, TypeOK, NetworkTypeOK, network
<1>15. ASSUME NEW e \in EntryIds, PrepareRevoke(e)
       PROVE  TypeOK'
  <2> DEFINE Gives(m, q, f) ==
        /\ Release(f, "remove", m + RemoveTTL - 1, installs[e].rule, NoSnapshot)
        /\ tokens' = [tokens EXCEPT !["revoke"] =
             [NoToken EXCEPT !.held = TRUE, !.install = e, !.entry = f,
                             !.edited = installs[e].rule \in EditedAt(q)]]
  <2>0. \/ /\ tokens' = [tokens EXCEPT !["revoke"] = NoToken]
           /\ UNCHANGED entries
        \/ \E q, m \in Reads, f \in EntryIds : Gives(m, q, f)
    BY <1>15 DEF PrepareRevoke
  <2>1. CASE tokens' = [tokens EXCEPT !["revoke"] = NoToken] /\ UNCHANGED entries
    BY <1>0, <1>15, <2>1, BlankTypes DEF PrepareRevoke, TypeOK, NetworkTypeOK
  <2>2. ASSUME NEW q \in Reads, NEW m \in Reads, NEW f \in EntryIds, Gives(m, q, f)
        PROVE  TypeOK'
    <3>1. installs[e].rule \in 0 .. MaxRules
      BY <1>a DEF InstallRecord
    <3>2. m + RemoveTTL - 1 \in Nat
      BY <1>0, ReadTypes
    <3>3. entries' \in [EntryIds -> Entry]
      BY <1>0, <2>2, <3>1, <3>2, ReleaseTypes, BlankTypes DEF Kinds
    <3>4. (installs[e].rule \in EditedAt(q)) \in BOOLEAN
      OBVIOUS
    <3>5. [NoToken EXCEPT !.held = TRUE, !.install = e, !.entry = f,
                          !.edited = installs[e].rule \in EditedAt(q)] \in Token
      BY <1>b, <3>4, BlankTypes DEF Token
    <3>6. tokens' \in [TokenKinds -> Token]
      BY <1>a, <2>2, <3>5
    <3> QED
      BY <1>0, <1>15, <3>3, <3>6 DEF PrepareRevoke, TypeOK, NetworkTypeOK
  <2> QED
    BY <2>0, <2>1, <2>2
<1>16. CASE ConfirmRevoke
  <2> DEFINE t == tokens["revoke"]
  <2>0. t \in Token
    BY <1>a DEF TokenKinds
  <2>1. installs' = installs \/ installs' = [installs EXCEPT ![t.install].removalAttempted = TRUE]
    BY <1>16 DEF ConfirmRevoke
  <2>2. installs' \in [EntryIds -> InstallRecord]
    <3>1. t.install \in EntryIds
      BY <1>16 DEF ConfirmRevoke, IInv, RemovalFacts, Recorded
    <3>2. installs[t.install] \in InstallRecord
      BY <1>a, <3>1
    <3> HIDE DEF t
    <3>3. [installs[t.install] EXCEPT !.removalAttempted = TRUE] \in InstallRecord
      BY <3>2 DEF InstallRecord
    <3> QED
      BY <1>a, <2>1, <3>1, <3>3
  <2>3. task' = task \/ task' = [Idle EXCEPT !.step = "removing", !.entry = t.entry,
                                             !.install = t.install]
    BY <1>16 DEF ConfirmRevoke
  <2>4. t.entry \in 0 .. MaxEntries /\ t.install \in 0 .. MaxEntries
    BY <2>0 DEF Token
  <2> HIDE DEF t
  <2>5. [Idle EXCEPT !.step = "removing", !.entry = t.entry, !.install = t.install] \in Task
    BY <2>4, BlankTypes DEF Task, Steps
  <2>6. tokens' \in [TokenKinds -> Token]
    BY <1>a, <1>16, BlankTypes DEF ConfirmRevoke
  <2> QED
    BY <1>0, <1>16, <2>2, <2>3, <2>5, <2>6 DEF ConfirmRevoke, TypeOK, NetworkTypeOK, network
<1>17. CASE SendRemoval
  <2>1. task' \in Task
    BY <1>a, <1>17 DEF SendRemoval, Task, Steps
  <2>2. ambiguous' \in BOOLEAN /\ sent' \subseteq EntryIds
    BY <1>0, <1>17 DEF SendRemoval, Sends, TypeOK, NetworkTypeOK, IInv, RemovalFacts
  <2> QED
    BY <1>0, <1>17, <2>1, <2>2 DEF SendRemoval, TypeOK, NetworkTypeOK
<1>18. CASE RemovalFailed
  <2>1. installs' \in [EntryIds -> InstallRecord]
    <3>1. task.install \in EntryIds
      BY <1>18 DEF RemovalFailed, IInv, RemovalFacts, Recorded
    <3>2. installs[task.install] \in InstallRecord
      BY <1>a, <3>1
    <3>3. \A b \in BOOLEAN : [installs[task.install] EXCEPT !.removalAttempted = b] \in InstallRecord
      BY <3>2 DEF InstallRecord
    <3>4. [installs[task.install] EXCEPT !.removalAttempted = ~CanSubmit] \in InstallRecord
      BY <3>3
    <3> QED
      BY <1>a, <1>18, <3>1, <3>4 DEF RemovalFailed
  <2> QED
    BY <1>0, <1>18, <2>1, BlankTypes DEF RemovalFailed, TypeOK, NetworkTypeOK, network
<1>19. CASE ConfirmRemoval
  <2>1. task' \in Task
    BY <1>a, <1>19 DEF ConfirmRemoval, Task, Steps
  <2>2. task.install \in EntryIds /\ installs[task.install].rule \in RuleIds
    BY <1>0, <1>19 DEF ConfirmRemoval, IInv, RemovalFacts, InstallFacts, Recorded, TypeOK,
                       InstallRecord, RuleIds
  <2>3. rules[installs[task.install].rule].removed \in Ledgers
    BY <1>0, <2>2 DEF TypeOK, NetworkTypeOK, Rule
  <2>4. installs' \in [EntryIds -> InstallRecord]
    BY <1>a, <1>19, <2>2, <2>3 DEF ConfirmRemoval, InstallRecord
  <2> QED
    BY <1>0, <1>19, <2>1, <2>4 DEF ConfirmRemoval, TypeOK, NetworkTypeOK, network
<1>20. CASE VerifyRemoval
  <2>1. installs' = installs \/ installs' = [installs EXCEPT ![task.install].removal = "removed"]
    BY <1>20 DEF VerifyRemoval
  <2>2. installs' \in [EntryIds -> InstallRecord]
    BY <1>a, <2>1 DEF InstallRecord
  <2> QED
    BY <1>0, <1>20, <2>2, BlankTypes DEF VerifyRemoval, TypeOK, NetworkTypeOK, network
<1>21. CASE PrepareReplacement
  <2>1. [NoToken EXCEPT !.held = TRUE] \in Token
    BY BlankTypes DEF Token
  <2> QED
    BY <1>0, <1>21, <2>1 DEF PrepareReplacement, TypeOK, NetworkTypeOK, network
<1>22. CASE ConfirmReplacement
  <2>1. /\ tokens' \in [TokenKinds -> Token]
        /\ reviews' \in [ReviewIds -> ReviewRecord]
        /\ allowance' \in Nat
    <3>1. tokens' = [tokens EXCEPT !["replacement"] = NoToken] \/ tokens' = NoTokens
      BY <1>22 DEF ConfirmReplacement
    <3>2. reviews' = reviews \/ reviews' = [r \in ReviewIds |-> NoReview]
      BY <1>22 DEF ConfirmReplacement
    <3>3. allowance' = allowance \/ allowance' = attempts
      BY <1>22 DEF ConfirmReplacement
    <3> QED
      BY <1>0, <3>1, <3>2, <3>3, BlankTypes DEF TypeOK
  <2> QED
    BY <1>0, <1>22, <2>1 DEF ConfirmReplacement, TypeOK, NetworkTypeOK, network
<1>23. CASE Restart
  <2>1. NetworkTypeOK' /\ journal' \subseteq EntryIds
    BY <1>0, <1>23 DEF Restart, TypeOK, NetworkTypeOK, network
  <2>2. session' \in 1 .. MaxSessions
    BY <1>0, <1>23 DEF Restart, TypeOK
  <2>3. reviews' \in [ReviewIds -> ReviewRecord] /\ installs' \in [EntryIds -> InstallRecord]
    BY <1>23, BlankTypes DEF Restart
  <2> QED
    BY <1>23, <2>1, <2>2, <2>3, BlankTypes DEF Restart, TypeOK
<1> QED
  BY <1>1, <1>2, <1>3, <1>4, <1>5, <1>6, <1>7, <1>8, <1>9, <1>10, <1>11, <1>12, <1>13, <1>14,
     <1>15, <1>16, <1>17, <1>18, <1>19, <1>20, <1>21, <1>22, <1>23 DEF Next

-----------------------------------------------------------------------------
(* The network's own steps. *)

(* Once spent, always spent: the nonce is spent or the entry has expired,  *)
(* and rule IDs are not reused.                                            *)
LEMMA SpentStable ==
  ASSUME TypeOK, RuleFacts, World, NEW f \in EntryIds, Spent(f)
  PROVE  Spent(f)'
<1> USE LedgerAssumption DEF LedgerAssumption
<1>0. /\ ledger \in 1 .. MaxLedger /\ rules \in [RuleIds -> Rule] /\ entries \in [EntryIds -> Entry]
      /\ used \subseteq EntryIds /\ f # 0 /\ entries[f].expiry \in Nat
  BY DEF TypeOK, NetworkTypeOK, EntryIds, Entry
<1>1. CASE Tick
  BY <1>0, <1>1 DEF Tick, Spent, Present
<1>2. CASE OwnerElsewhere
  <2>1. \A i \in RuleIds : rules'[i].by = rules[i].by /\ (Present(i)' => Present(i) \/ rules[i].added = 0)
    BY <1>0, <1>2 DEF OwnerElsewhere, Present, Rule
  <2>2. \A i \in RuleIds : rules[i].added = 0 => rules[i].by # f
    BY <1>0 DEF RuleFacts, NoRule
  <2> QED
    BY <1>0, <1>2, <2>1, <2>2 DEF OwnerElsewhere, Spent
<1>3. ASSUME NEW e \in EntryIds, NEW by \in BOOLEAN, Land(e, by)
      PROVE  Spent(f)'
  <2>1. CASE AddsRule(e)
    <3>1. e # f
      BY <1>0, <1>3 DEF Land, Spent
    <3>2. PICK i \in RuleIds :
            /\ rules[i].added = 0
            /\ rules' = [rules EXCEPT ![i] = [NoRule EXCEPT !.by = e, !.added = ledger + 1]]
      BY <1>3, <2>1 DEF Land, AddsRule
    <3>3. \A j \in RuleIds : rules'[j].by = f => rules'[j] = rules[j]
      BY <1>0, <3>1, <3>2 DEF NoRule
    <3> QED
      BY <1>0, <1>3, <3>3 DEF Land, Spent, Present
  <2>2. CASE ~AddsRule(e)
    <3>1. \A i \in RuleIds : rules'[i].by = rules[i].by /\ (Present(i)' => Present(i))
      BY <1>0, <1>3, <2>2 DEF Land, Present, Rule
    <3> QED
      BY <1>0, <1>3, <3>1 DEF Land, Spent
  <2> QED
    BY <2>1, <2>2
<1> QED
  BY <1>1, <1>2, <1>3 DEF World

(* What the rules say about the entries. *)
LEMMA WorldRules ==
  ASSUME TypeOK, RuleFacts, LandedFacts, World,
         \A f \in EntryIds : \A j \in entries[f].seen.present : rules[j].added # 0
  PROVE  /\ RuleFacts' /\ LandedFacts'
         /\ \A i \in RuleIds : rules[i].added # 0 => rules'[i].added # 0 /\ rules'[i].by = rules[i].by
         /\ \A i \in RuleIds : rules[i].removed # 0 => rules'[i].removed # 0
         /\ entries' = entries
<1> USE LedgerAssumption DEF LedgerAssumption
<1>0. /\ ledger \in 1 .. MaxLedger /\ rules \in [RuleIds -> Rule] /\ entries \in [EntryIds -> Entry]
      /\ used \subseteq EntryIds /\ landed \subseteq EntryIds /\ sent \subseteq EntryIds
  BY DEF TypeOK, NetworkTypeOK
<1>1. CASE Tick
  BY <1>0, <1>1 DEF Tick, RuleFacts, LandedFacts, AddsRule, Released
<1>2. CASE OwnerElsewhere
  <2>1. \A i \in RuleIds : rules'[i].by = rules[i].by
    BY <1>0, <1>2 DEF OwnerElsewhere, Rule
  <2>2. \A i \in RuleIds : rules[i].added # 0 => rules'[i].added = rules[i].added
    BY <1>0, <1>2 DEF OwnerElsewhere, Rule
  <2>3. \A i \in RuleIds : rules[i].removed # 0 => rules'[i].removed # 0
    BY <1>0, <1>2 DEF OwnerElsewhere, Rule, Present, Ledgers
  <2>4. \A i \in RuleIds : rules'[i].added = 0 => rules'[i] = rules[i] /\ rules[i].added = 0
    BY <1>0, <1>2 DEF OwnerElsewhere, Rule, Present, Ledgers
  <2>5. \A i \in RuleIds : rules[i].added = 0 => rules[i].by = 0
    BY DEF RuleFacts, NoRule
  <2>6. RuleFacts'
    BY <1>0, <1>2, <2>1, <2>2, <2>4, <2>5 DEF OwnerElsewhere, RuleFacts, AddsRule
  <2>7. \A f \in landed : entries[f].kind = "remove" => entries[f].rule \in RuleIds
    BY <1>0 DEF LandedFacts
  <2> QED
    BY <1>0, <1>2, <2>1, <2>2, <2>3, <2>6, <2>7 DEF OwnerElsewhere, LandedFacts, Released
<1>3. ASSUME NEW e \in EntryIds, NEW by \in BOOLEAN, Land(e, by), AddsRule(e)
      PROVE  /\ RuleFacts' /\ LandedFacts'
             /\ \A i \in RuleIds : rules[i].added # 0 => rules'[i].added # 0 /\ rules'[i].by = rules[i].by
             /\ \A i \in RuleIds : rules[i].removed # 0 => rules'[i].removed # 0
  <2>1. PICK i \in RuleIds :
          /\ rules[i].added = 0
          /\ rules' = [rules EXCEPT ![i] = [NoRule EXCEPT !.by = e, !.added = ledger + 1]]
    BY <1>3 DEF Land, AddsRule
  <2>2. /\ e # 0 /\ e \notin used /\ used' = used \cup {e} /\ entries' = entries
        /\ ledger + 1 <= entries[e].expiry
    BY <1>3 DEF Land, EntryIds
  <2>3. /\ rules'[i] = [by |-> e, added |-> ledger + 1, edited |-> 0, removed |-> 0]
        /\ \A j \in RuleIds \ {i} : rules'[j] = rules[j]
    BY <1>0, <2>1 DEF NoRule
  <2>4. rules[i] = NoRule /\ i \notin entries[e].seen.present
    BY <2>1 DEF RuleFacts
  <2>5. \A j \in RuleIds : rules[j].by # e
    BY <2>2 DEF RuleFacts
  <2>6. RuleFacts'
    <3>1. ASSUME NEW j \in RuleIds
          PROVE  /\ rules'[j].added = 0 => rules'[j] = NoRule
                 /\ rules'[j].by # 0 =>
                      /\ entries'[rules'[j].by].kind \in {"live", "install"}
                      /\ rules'[j].by \in used'
                      /\ rules'[j].added <= entries'[rules'[j].by].expiry
                      /\ j \notin entries'[rules'[j].by].seen.present
      <4>1. CASE j = i
        BY <1>0, <1>3, <2>2, <2>3, <2>4, <4>1 DEF AddsRule
      <4>2. CASE j # i
        BY <2>2, <2>3, <4>2 DEF RuleFacts, AddsRule
      <4> QED
        BY <4>1, <4>2
    <3>2. \A j, k \in RuleIds : rules'[j].by # 0 /\ rules'[j].by = rules'[k].by => j = k
      BY <2>3, <2>5 DEF RuleFacts
    <3> QED
      BY <3>1, <3>2 DEF RuleFacts, AddsRule
  <2>7. LandedFacts'
    BY <1>0, <1>3, <2>2, <2>3, <2>4 DEF Land, LandedFacts, Released, AddsRule, NoRule
  <2> QED
    BY <2>1, <2>3, <2>4, <2>6, <2>7 DEF NoRule
<1>4. ASSUME NEW e \in EntryIds, NEW by \in BOOLEAN, Land(e, by), ~AddsRule(e)
      PROVE  /\ RuleFacts' /\ LandedFacts'
             /\ \A i \in RuleIds : rules[i].added # 0 => rules'[i].added # 0 /\ rules'[i].by = rules[i].by
             /\ \A i \in RuleIds : rules[i].removed # 0 => rules'[i].removed # 0
  <2>1. /\ entries[e].kind = "remove" /\ Present(entries[e].rule) /\ entries[e].rule \in RuleIds
        /\ rules' = [rules EXCEPT ![entries[e].rule].removed = ledger + 1]
        /\ used' = used \cup {e} /\ entries' = entries
    BY <1>4 DEF Land, LandedFacts
  <2>2. /\ \A j \in RuleIds : rules'[j].by = rules[j].by /\ rules'[j].added = rules[j].added
        /\ \A j \in RuleIds : rules[j].removed # 0 => rules'[j].removed # 0
        /\ rules'[entries[e].rule].removed # 0
        /\ \A j \in RuleIds : rules'[j].added = 0 => rules'[j] = rules[j]
    BY <1>0, <2>1 DEF Rule, Present
  <2>3. RuleFacts'
    BY <1>0, <2>1, <2>2 DEF RuleFacts, AddsRule
  <2>4. LandedFacts'
    BY <1>0, <1>4, <2>1, <2>2 DEF Land, LandedFacts, Released
  <2> QED
    BY <2>2, <2>3, <2>4
<1>5. entries' = entries
  BY DEF World, Tick, OwnerElsewhere, Land
<1> QED
  BY <1>1, <1>2, <1>3, <1>4, <1>5 DEF World

LEMMA WorldStep ==
  ASSUME IInv, TypeOK', NetworkMoves
  PROVE  IInv'
<1>0. /\ TypeOK /\ World /\ UNCHANGED <<journal, backend>>
      /\ RuleFacts /\ LandedFacts /\ SeenFacts
  BY DEF IInv, NetworkMoves
<1>1. /\ RuleFacts' /\ LandedFacts'
      /\ \A i \in RuleIds : rules[i].added # 0 => rules'[i].added # 0 /\ rules'[i].by = rules[i].by
      /\ \A i \in RuleIds : rules[i].removed # 0 => rules'[i].removed # 0
      /\ entries' = entries
  BY <1>0, WorldRules DEF SeenFacts
<1>2. \A f \in EntryIds : Spent(f) => Spent(f)'
  BY <1>0, SpentStable
<1>3. /\ journal' = journal /\ records' = records /\ closed' = closed /\ installs' = installs
      /\ tokens' = tokens /\ task' = task /\ reviews' = reviews /\ attempts' = attempts
      /\ allowance' = allowance
  BY <1>0 DEF backend
<1>4. sent' = sent
  BY <1>0 DEF World, Tick, OwnerElsewhere, Land
<1>5. \A f \in EntryIds : (AddsRule(f)' <=> AddsRule(f)) /\ (Released(f)' <=> Released(f))
  BY <1>1 DEF AddsRule, Released
<1>6. SeenFacts'
  <2>1. \A f \in EntryIds : entries[f].seen.present \subseteq RuleIds
    BY <1>0 DEF TypeOK, NetworkTypeOK, Entry, Snapshots
  <2>2. tokens["live"].seen.present \subseteq RuleIds
    BY <1>0 DEF TypeOK, TokenKinds, Token, Snapshots
  <2> QED
    BY <1>0, <1>1, <1>3, <2>1, <2>2 DEF SeenFacts
<1>7. JournalFacts'
  BY <1>3, <1>5 DEF IInv, JournalFacts
<1>8. Recorded' = Recorded
  BY <1>3 DEF Recorded
<1>9. \A e \in Recorded : installs[e].rule \in RuleIds
  BY <1>0, LedgerAssumption DEF IInv, InstallFacts, Recorded, TypeOK, InstallRecord, RuleIds, LedgerAssumption
<1>10. InstallFacts'
  <2>1. \A e \in Recorded : rules[installs[e].rule].added # 0
    <3>1. \A e \in Recorded : e # 0
      BY DEF Recorded, EntryIds
    <3> QED
      BY <1>0, <1>9, <3>1 DEF IInv, InstallFacts, RuleFacts, NoRule
  <2> QED
    BY <1>1, <1>3, <1>8, <1>9, <2>1 DEF IInv, InstallFacts
<1>11. RemovalFacts'
  BY <1>1, <1>3, <1>8, <1>9 DEF IInv, RemovalFacts
<1>12. EarlierSpent' /\ ClosedSpent' /\ SentSpent'
  <2>1. journal \subseteq EntryIds /\ closed \subseteq EntryIds /\ sent \subseteq EntryIds
    BY <1>0 DEF TypeOK, NetworkTypeOK
  <2> QED
    BY <1>2, <1>3, <1>4, <1>5, <1>8, <2>1 DEF IInv, EarlierSpent, ClosedSpent, SentSpent, Reviewed
<1>13. TaskFacts'
  BY <1>2, <1>3, <1>5, <1>8 DEF IInv, TaskFacts
<1> QED
  BY <1>1, <1>6, <1>7, <1>10, <1>11, <1>12, <1>13 DEF IInv

-----------------------------------------------------------------------------
(* When an entry becomes spent. *)

(* A read after the entry expired shows no rule of its own. *)
LEMMA ReadSpent ==
  ASSUME IInv, NEW f \in EntryIds, NEW r \in Reads, entries[f].expiry < r,
         \A i \in PresentAt(r) : rules[i].by # f
  PROVE  Spent(f)
<1>0. /\ TypeOK /\ RuleFacts /\ f # 0 /\ rules \in [RuleIds -> Rule] /\ entries[f].expiry \in Nat
      /\ ledger \in Nat
  BY DEF IInv, TypeOK, NetworkTypeOK, EntryIds, Entry
<1>1. r \in Nat /\ r <= ledger
  BY <1>0, ReadTypes, LedgerAssumption DEF LedgerAssumption
<1>2. ASSUME NEW i \in RuleIds, rules[i].by = f
      PROVE  ~Present(i)
  <2>1. rules[i].added # 0 /\ rules[i].added <= entries[f].expiry
    BY <1>0, <1>2 DEF RuleFacts, NoRule
  <2>2. rules[i].added \in Nat /\ rules[i].removed \in Nat
    BY <1>0, LedgerAssumption DEF Rule, Ledgers, LedgerAssumption
  <2>3. i \notin PresentAt(r)
    BY <1>2
  <2> QED
    BY <1>0, <1>1, <2>1, <2>2, <2>3 DEF PresentAt, Present
<1> QED
  BY <1>0, <1>1, <1>2 DEF Spent

LEMMA ReplaySpent ==
  ASSUME IInv, NEW obligations, Unchanged(obligations), NEW f \in obligations, f \in EntryIds
  PROVE  Spent(f)
<1>1. PICK r \in Reads : entries[f].expiry < r /\ StateAt(r) = entries[f].seen
  BY DEF Unchanged
<1>2. PresentAt(r) = entries[f].seen.present
  BY <1>1 DEF StateAt
<1>3. \A i \in RuleIds : rules[i].by = f => i \notin entries[f].seen.present
  BY DEF IInv, RuleFacts, EntryIds
<1>4. \A i \in PresentAt(r) : rules[i].by # f
  BY <1>2, <1>3 DEF PresentAt
<1> QED
  BY <1>1, <1>4, ReadSpent

LEMMA OperatorSpent ==
  ASSUME IInv, NEW q \in Reads, OperatorWaited(q), NEW f \in journal \ records
  PROVE  Spent(f)
<1>1. f \in EntryIds
  BY DEF IInv, TypeOK
<1> QED
  BY <1>1, ReadSpent DEF OperatorWaited

LEMMA RemovedSpent ==
  ASSUME IInv, NEW e \in Recorded, installs[e].removal # "none"
  PROVE  Spent(e)
<1>1. /\ e \in EntryIds /\ e # 0 /\ RuleFacts /\ InstallFacts
      /\ installs[e].rule \in RuleIds
  BY LedgerAssumption DEF IInv, Recorded, EntryIds, InstallFacts, TypeOK, InstallRecord, RuleIds,
                          LedgerAssumption
<1>2. rules[installs[e].rule].by = e /\ rules[installs[e].rule].removed # 0
  BY <1>1 DEF InstallFacts
<1>3. e \in used /\ \A i \in RuleIds : rules[i].by = e => i = installs[e].rule
  BY <1>1, <1>2 DEF RuleFacts
<1> QED
  BY <1>2, <1>3 DEF Spent, Present

(* While nothing is released and the network rests, entries and rules stay *)
(* as they are.                                                            *)
LEMMA Resting ==
  ASSUME UNCHANGED <<ledger, rules, entries, used>>
  PROVE  /\ RuleFacts => RuleFacts'
         /\ \A f : Spent(f)' <=> Spent(f)
         /\ \A f : AddsRule(f)' <=> AddsRule(f)
         /\ \A f : Released(f)' <=> Released(f)
BY DEF RuleFacts, Spent, Present, AddsRule, Released

LEMMA PreparingStep ==
  ASSUME IInv, TypeOK', NEW r \in ReviewIds, ReviewGrant(r) \/ CheckAccount(r) \/ PrepareLive(r) \/ Assemble(r)
  PROVE  IInv'
<1>0. /\ TypeOK /\ UNCHANGED <<ledger, rules, entries, used, sent, landed, journal, records, closed,
                               attempts, allowance, installs>>
  BY DEF IInv, ReviewGrant, CheckAccount, PrepareLive, Assemble, network
<1>1. /\ RuleFacts' /\ (\A f : Spent(f)' <=> Spent(f)) /\ (\A f : AddsRule(f)' <=> AddsRule(f))
      /\ (\A f : Released(f)' <=> Released(f))
  BY <1>0, Resting DEF IInv
<1>2. LandedFacts' /\ JournalFacts'
  BY <1>0, <1>1 DEF IInv, LandedFacts, JournalFacts
<1>3. Recorded' = Recorded
  BY <1>0 DEF Recorded
<1>4. InstallFacts' /\ ClosedSpent' /\ SentSpent'
  BY <1>0, <1>1, <1>3 DEF IInv, InstallFacts, ClosedSpent, SentSpent
<1>5. /\ \A k \in TokenKinds \ {"live", "live_sign"} : tokens'[k] = tokens[k]
      /\ ~tokens'["live_sign"].held \/ tokens'["live_sign"] = tokens["live_sign"]
      /\ tokens'["live"].held => tokens'["live"].review \in ReviewIds
      /\ tokens'["live"].seen.present \subseteq {j \in RuleIds : rules[j].added # 0}
  <2>1. tokens["live"].seen.present \subseteq {j \in RuleIds : rules[j].added # 0}
    BY <1>0 DEF IInv, SeenFacts, TypeOK, TokenKinds, Token, Snapshots
  <2>2. CASE tokens' = tokens
    BY <2>1, <2>2 DEF IInv, TaskFacts
  <2>3. CASE PrepareLive(r)
    <3> DEFINE left == [tokens EXCEPT !["live"] = NoToken, !["live_sign"] = NoToken]
    <3>0. tokens \in [TokenKinds -> Token]
      BY <1>0 DEF TypeOK
    <3>1. PICK q \in Reads, clock \in Reads :
            \/ tokens' = left
            \/ tokens' = [left EXCEPT !["live"] =
                            [NoToken EXCEPT !.held = TRUE, !.review = r,
                                            !.expiry = clock + LiveTTL, !.seen = StateAt(q)]]
      <4>1. ledger \in Reads
        BY <1>0, LedgerAssumption DEF Reads, TypeOK, NetworkTypeOK, LedgerAssumption
      <4> QED
        BY <2>3, <4>1 DEF PrepareLive
    <3>2. PresentAt(q) \subseteq {j \in RuleIds : rules[j].added # 0}
      BY DEF PresentAt
    <3> QED
      BY <3>0, <3>1, <3>2 DEF NoToken, NoSnapshot, TokenKinds, StateAt
  <2> QED
    BY <2>2, <2>3 DEF ReviewGrant, CheckAccount, Assemble
<1>6. SeenFacts'
  BY <1>0, <1>5 DEF IInv, SeenFacts
<1>7. task = Idle /\ (task' = Idle \/ (task'.step = "assembling" /\ task'.review \in ReviewIds))
  BY DEF ReviewGrant, CheckAccount, PrepareLive, Assemble, Idle
<1>8. RemovalFacts' /\ TaskFacts'
  <2>1. tokens'["revoke"] = tokens["revoke"] /\ tokens'["install"] = tokens["install"]
    BY <1>5 DEF TokenKinds
  <2> QED
    BY <1>0, <1>1, <1>3, <1>5, <1>7, <2>1 DEF IInv, RemovalFacts, TaskFacts, Idle
<1>9. EarlierSpent'
  <2>1. CASE ReviewGrant(r)
    BY <1>0, <1>1, <2>1, OperatorSpent DEF ReviewGrant, EarlierSpent
  <2>2. CASE \A s \in ReviewIds : reviews'[s].approved = reviews[s].approved
    BY <1>0, <1>1, <2>2 DEF IInv, EarlierSpent, Reviewed
  <2>3. CASE ~ReviewGrant(r)
    <3>1. reviews \in [ReviewIds -> ReviewRecord]
      BY <1>0 DEF TypeOK
    <3>2. \/ reviews' = reviews
          \/ \E x : reviews' = [reviews EXCEPT ![r].captured = x]
          \/ reviews' = [reviews EXCEPT ![r].live = 0]
      BY <2>3 DEF CheckAccount, PrepareLive, Assemble
    <3>3. \A s \in ReviewIds : reviews'[s].approved = reviews[s].approved
      BY <3>1, <3>2 DEF ReviewRecord
    <3> QED
      BY <2>2, <3>3
  <2> QED
    BY <2>1, <2>3
<1> QED
  BY <1>1, <1>2, <1>4, <1>6, <1>8, <1>9 DEF IInv

(* A release changes nothing about the entries there are. *)
LEMMA Releasing ==
  ASSUME IInv, NEW e \in EntryIds, FreshEntry(e), NEW k, NEW x, NEW i, NEW sn,
         Release(e, k, x, i, sn), UNCHANGED <<ledger, rules, used>>
  PROVE  /\ entries'[e] = [kind |-> k, expiry |-> x, rule |-> i, seen |-> sn]
         /\ \A f \in EntryIds \ {e} : entries'[f] = entries[f]
         /\ \A f \in EntryIds \ {e} : (Spent(f)' <=> Spent(f)) /\ (AddsRule(f)' <=> AddsRule(f))
                                      /\ (Released(f)' <=> Released(f))
         /\ ~Released(e) /\ ~AddsRule(e)
         /\ e \notin journal /\ e \notin records /\ e \notin closed /\ e \notin sent \cup landed
         /\ RuleFacts'
<1>1. /\ entries \in [EntryIds -> Entry] /\ RuleFacts /\ JournalFacts /\ LandedFacts
      /\ rules \in [RuleIds -> Rule]
  BY DEF IInv, TypeOK, NetworkTypeOK
<1>2. /\ entries'[e] = [kind |-> k, expiry |-> x, rule |-> i, seen |-> sn]
      /\ \A f \in EntryIds \ {e} : entries'[f] = entries[f]
  BY <1>1 DEF Release
<1>3. \A f \in EntryIds \ {e} : (Spent(f)' <=> Spent(f)) /\ (AddsRule(f)' <=> AddsRule(f))
                                /\ (Released(f)' <=> Released(f))
  BY <1>2 DEF Spent, Present, AddsRule, Released
<1>4. ~Released(e) /\ ~AddsRule(e)
  BY DEF FreshEntry, Released, AddsRule
<1>5. e \notin journal /\ e \notin records /\ e \notin closed /\ e \notin sent \cup landed
  BY <1>1, <1>4 DEF JournalFacts, LandedFacts
<1>6. RuleFacts'
  <2>1. \A j \in RuleIds : rules[j].by # 0 => rules[j].by \in EntryIds \ {e}
    BY <1>1, <1>4, LedgerAssumption DEF RuleFacts, Rule, EntryIds, LedgerAssumption
  <2> QED
    BY <1>1, <1>2, <2>1 DEF RuleFacts, AddsRule
<1> QED
  BY <1>2, <1>3, <1>4, <1>5, <1>6

(* The two releases of an entry that adds a rule. *)
LEMMA ReleasingAdd ==
  ASSUME IInv, NEW e \in EntryIds, FreshEntry(e), NEW k \in {"live", "install"}, NEW x, NEW sn,
         sn.present \subseteq {j \in RuleIds : rules[j].added # 0},
         Release(e, k, x, 0, sn), Answers(e),
         UNCHANGED <<ledger, rules, used, sent, landed, reviews, closed, attempts, allowance, installs>>,
         tokens'["revoke"] = tokens["revoke"], tokens'["live"] \in {tokens["live"], NoToken},
         task' = Idle
  PROVE  /\ RuleFacts' /\ SeenFacts' /\ LandedFacts' /\ JournalFacts' /\ InstallFacts' /\ RemovalFacts'
         /\ EarlierSpent' /\ ClosedSpent' /\ SentSpent'
<1>1. /\ entries'[e] = [kind |-> k, expiry |-> x, rule |-> 0, seen |-> sn]
      /\ \A f \in EntryIds \ {e} : entries'[f] = entries[f]
      /\ \A f \in EntryIds \ {e} : (Spent(f)' <=> Spent(f)) /\ (AddsRule(f)' <=> AddsRule(f))
                                   /\ (Released(f)' <=> Released(f))
      /\ ~Released(e) /\ ~AddsRule(e)
      /\ e \notin journal /\ e \notin records /\ e \notin closed /\ e \notin sent \cup landed
      /\ RuleFacts'
  BY Releasing
<1>2. AddsRule(e)' /\ Released(e)'
  BY <1>1 DEF AddsRule, Released
<1>3. /\ journal \subseteq EntryIds /\ records \subseteq journal /\ closed \subseteq records
      /\ sent \subseteq EntryIds /\ landed \subseteq EntryIds
  BY DEF IInv, TypeOK, NetworkTypeOK, JournalFacts
<1>4. SeenFacts'
  BY <1>1 DEF IInv, SeenFacts, NoToken, NoSnapshot
<1>5. LandedFacts'
  BY <1>1, <1>3 DEF IInv, LandedFacts
<1>6. JournalFacts'
  BY <1>1, <1>2, <1>3 DEF IInv, JournalFacts, Answers
<1>7. Recorded' = Recorded
  BY DEF Recorded
<1>8. InstallFacts' /\ ClosedSpent' /\ SentSpent'
  BY <1>1, <1>3, <1>7 DEF IInv, InstallFacts, ClosedSpent, SentSpent
<1>9. RemovalFacts'
  <2>1. tokens["revoke"].held => tokens["revoke"].entry \in EntryIds \ {e}
    BY <1>1 DEF IInv, RemovalFacts, Released
  <2> QED
    BY <1>1, <1>7, <2>1 DEF IInv, RemovalFacts, Idle
<1>10. EarlierSpent'
  <2>1. journal' \ records' = journal \ records
    BY <1>1 DEF Answers
  <2> QED
    BY <1>1, <1>3, <2>1 DEF IInv, EarlierSpent, Reviewed
<1> QED
  BY <1>1, <1>4, <1>5, <1>6, <1>8, <1>9, <1>10

LEMMA ConsentStep ==
  ASSUME IInv, TypeOK', ConsentLive
  PROVE  IInv'
<1> DEFINE t == tokens["live"]
<1>0. /\ task = Idle /\ task' = Idle /\ t.held /\ tokens \in [TokenKinds -> Token]
      /\ UNCHANGED <<ledger, rules, used, sent, landed, reviews, closed, attempts, allowance, installs>>
  BY DEF IInv, TypeOK, ConsentLive
<1>1. CASE tokens' = [tokens EXCEPT !["live"] = NoToken] /\ UNCHANGED <<entries, journal, records>>
  <2>1. /\ RuleFacts' /\ (\A f : Spent(f)' <=> Spent(f)) /\ (\A f : AddsRule(f)' <=> AddsRule(f))
        /\ (\A f : Released(f)' <=> Released(f))
    BY <1>0, <1>1, Resting DEF IInv
  <2>2. tokens'["live"] = NoToken /\ \A k \in TokenKinds \ {"live"} : tokens'[k] = tokens[k]
    BY <1>0, <1>1 DEF TokenKinds
  <2>3. Recorded' = Recorded
    BY <1>0 DEF Recorded
  <2>4. SeenFacts' /\ LandedFacts' /\ JournalFacts' /\ InstallFacts'
    BY <1>0, <1>1, <2>1, <2>2, <2>3
       DEF IInv, SeenFacts, LandedFacts, JournalFacts, InstallFacts, NoToken, NoSnapshot
  <2>5. EarlierSpent' /\ ClosedSpent' /\ SentSpent'
    BY <1>0, <1>1, <2>1, <2>3 DEF IInv, EarlierSpent, ClosedSpent, SentSpent, Reviewed
  <2>6. RemovalFacts' /\ TaskFacts'
    BY <1>0, <1>1, <2>1, <2>2, <2>3 DEF IInv, RemovalFacts, TaskFacts, TokenKinds, NoToken, Idle
  <2> QED
    BY <2>1, <2>4, <2>5, <2>6 DEF IInv
<1>2. ASSUME NEW e \in EntryIds, FreshEntry(e), Answers(e), Release(e, "live", t.expiry, 0, t.seen),
             tokens' = [tokens EXCEPT !["live"] = NoToken, !["live_sign"] = [t EXCEPT !.entry = e]]
      PROVE  IInv'
  <2>1. /\ tokens'["live"] = NoToken /\ tokens'["live_sign"] = [t EXCEPT !.entry = e]
        /\ tokens'["revoke"] = tokens["revoke"] /\ tokens'["install"] = tokens["install"]
    BY <1>0, <1>2 DEF TokenKinds
  <2>2. t.seen.present \subseteq {j \in RuleIds : rules[j].added # 0}
    BY <1>0 DEF IInv, SeenFacts, TokenKinds, Token, Snapshots
  <2>3. tokens'["live_sign"].review = t.review
    BY <1>0, <2>1 DEF TokenKinds, Token
  <2> HIDE DEF t
  <2>4. /\ RuleFacts' /\ SeenFacts' /\ LandedFacts' /\ JournalFacts' /\ InstallFacts' /\ RemovalFacts'
        /\ EarlierSpent' /\ ClosedSpent' /\ SentSpent'
    BY <1>0, <1>2, <2>1, <2>2, ReleasingAdd DEF Idle
  <2>5. TaskFacts'
    <3>1. \A f \in EntryIds : Released(f) => Released(f)'
      BY <1>0, <1>2, Releasing
    <3> QED
      BY <1>0, <2>1, <2>3, <3>1 DEF IInv, TaskFacts, NoToken, Idle, t
  <2> QED
    BY <2>4, <2>5 DEF IInv
<1> QED
  BY <1>1, <1>2 DEF ConsentLive

LEMMA ReleaseInstallStep ==
  ASSUME IInv, TypeOK', ReleaseInstall
  PROVE  IInv'
<1>0. /\ task.step = "assembling" /\ task' = Idle /\ tokens \in [TokenKinds -> Token]
      /\ task.review \in ReviewIds
      /\ UNCHANGED <<ledger, rules, used, sent, landed, reviews, closed, attempts, allowance, installs>>
  BY DEF IInv, TypeOK, ReleaseInstall, TaskFacts
<1>1. PICK m \in Reads, q \in Reads, e \in EntryIds :
        /\ FreshEntry(e) /\ Answers(e)
        /\ Release(e, "install", m + InstallTTL - 1, 0, StateAt(q))
        /\ tokens' = [tokens EXCEPT !["install"] =
                        [NoToken EXCEPT !.held = TRUE, !.review = task.review, !.entry = e]]
  BY DEF ReleaseInstall
<1>2. /\ tokens'["live"] = tokens["live"] /\ tokens'["live_sign"] = tokens["live_sign"]
      /\ tokens'["revoke"] = tokens["revoke"]
      /\ tokens'["install"].review = task.review /\ tokens'["install"].entry = e
  BY <1>0, <1>1 DEF TokenKinds, NoToken
<1>3. StateAt(q).present \subseteq {j \in RuleIds : rules[j].added # 0}
  BY DEF StateAt, PresentAt
<1>4. /\ RuleFacts' /\ SeenFacts' /\ LandedFacts' /\ JournalFacts' /\ InstallFacts' /\ RemovalFacts'
      /\ EarlierSpent' /\ ClosedSpent' /\ SentSpent'
  BY <1>0, <1>1, <1>2, <1>3, ReleasingAdd
<1>5. Released(e)'
  <2>1. entries \in [EntryIds -> Entry]
    BY DEF IInv, TypeOK, NetworkTypeOK
  <2>2. entries'[e].kind = "install"
    BY <1>1, <2>1 DEF Release
  <2> QED
    BY <2>2 DEF Released
<1>6. TaskFacts'
  BY <1>0, <1>2, <1>5 DEF IInv, TaskFacts, Idle
<1> QED
  BY <1>4, <1>6 DEF IInv

-----------------------------------------------------------------------------
(* The steps that neither release an entry nor move the network. *)
LEMMA Bookkeeping ==
  ASSUME IInv, UNCHANGED <<ledger, rules, entries, used, landed, journal, records>>,
         closed' \subseteq records, tokens'["live"] \in {tokens["live"], NoToken},
         \A r \in ReviewIds : Reviewed(r)' => Reviewed(r),
         sent' = sent \/ \E e \in EntryIds : Released(e) /\ sent' = sent \cup {e}
  PROVE  /\ RuleFacts' /\ SeenFacts' /\ LandedFacts' /\ JournalFacts' /\ EarlierSpent'
         /\ (\A f : Spent(f)' <=> Spent(f)) /\ (\A f : AddsRule(f)' <=> AddsRule(f))
         /\ (\A f : Released(f)' <=> Released(f))
         /\ sent' = sent => SentSpent'
<1>1. /\ RuleFacts' /\ (\A f : Spent(f)' <=> Spent(f)) /\ (\A f : AddsRule(f)' <=> AddsRule(f))
      /\ (\A f : Released(f)' <=> Released(f))
  BY Resting DEF IInv
<1>2. SeenFacts' /\ LandedFacts' /\ JournalFacts'
  BY <1>1 DEF IInv, SeenFacts, LandedFacts, JournalFacts, NoToken, NoSnapshot
<1>3. EarlierSpent' /\ (sent' = sent => SentSpent')
  BY <1>1 DEF IInv, EarlierSpent, SentSpent
<1> QED
  BY <1>1, <1>2, <1>3

LEMMA RunLiveStep ==
  ASSUME IInv, TypeOK', RunLive
  PROVE  IInv'
<1>0. /\ tokens \in [TokenKinds -> Token] /\ reviews \in [ReviewIds -> ReviewRecord]
      /\ UNCHANGED <<ledger, rules, entries, used, landed, sent, journal, records, closed,
                     attempts, allowance, installs, task>>
      /\ tokens' = [tokens EXCEPT !["live_sign"] = NoToken]
  BY DEF IInv, TypeOK, RunLive, network
<1>1. tokens'["live_sign"] = NoToken /\ \A k \in TokenKinds \ {"live_sign"} : tokens'[k] = tokens[k]
  BY <1>0 DEF TokenKinds
<1>2. \A r \in ReviewIds : Reviewed(r)' => Reviewed(r)
  <2>1. reviews' = reviews \/ \E x : reviews' = [reviews EXCEPT ![tokens["live_sign"].review].live = x]
    BY DEF RunLive
  <2>2. ASSUME NEW x, reviews' = [reviews EXCEPT ![tokens["live_sign"].review].live = x]
        PROVE  \A r \in ReviewIds : reviews'[r].approved = reviews[r].approved
    BY <1>0, <2>2 DEF ReviewRecord
  <2> QED
    BY <2>1, <2>2 DEF Reviewed
<1>3. /\ RuleFacts' /\ SeenFacts' /\ LandedFacts' /\ JournalFacts' /\ EarlierSpent' /\ SentSpent'
      /\ (\A f : Spent(f)' <=> Spent(f)) /\ (\A f : AddsRule(f)' <=> AddsRule(f))
      /\ (\A f : Released(f)' <=> Released(f))
  BY <1>0, <1>1, <1>2, Bookkeeping DEF IInv, JournalFacts, TokenKinds
<1>4. Recorded' = Recorded
  BY <1>0 DEF Recorded
<1>5. InstallFacts' /\ ClosedSpent'
  BY <1>0, <1>3, <1>4 DEF IInv, InstallFacts, ClosedSpent
<1>6. RemovalFacts' /\ TaskFacts'
  BY <1>0, <1>1, <1>3, <1>4 DEF IInv, RemovalFacts, TaskFacts, TokenKinds, NoToken
<1> QED
  BY <1>3, <1>5, <1>6 DEF IInv

(* After the replay check every other entry is spent: an earlier process's *)
(* before the review, a closed one with the allowance, an open one now.    *)
LEMMA SubmitStep ==
  ASSUME IInv, TypeOK', Submit
  PROVE  IInv'
<1> DEFINE t == tokens["install"]
<1>0. /\ tokens \in [TokenKinds -> Token] /\ reviews \in [ReviewIds -> ReviewRecord]
      /\ UNCHANGED <<ledger, rules, entries, used, landed, sent, journal, records, closed,
                     allowance, installs>>
      /\ tokens' = [tokens EXCEPT !["install"] = NoToken]
      /\ task = Idle /\ t.held /\ attempts \in Nat /\ allowance \in Nat
  BY DEF IInv, TypeOK, Submit, network
<1>1. tokens'["install"] = NoToken /\ \A k \in TokenKinds \ {"install"} : tokens'[k] = tokens[k]
  BY <1>0 DEF TokenKinds
<1>2. \A r \in ReviewIds : Reviewed(r)' => Reviewed(r)
  <2>1. reviews' = reviews \/ reviews' = [reviews EXCEPT ![t.review].attempted = TRUE]
    BY DEF Submit
  <2> QED
    BY <1>0, <2>1 DEF Reviewed, ReviewRecord
<1>3. /\ RuleFacts' /\ SeenFacts' /\ LandedFacts' /\ JournalFacts' /\ EarlierSpent' /\ SentSpent'
      /\ (\A f : Spent(f)' <=> Spent(f)) /\ (\A f : AddsRule(f)' <=> AddsRule(f))
      /\ (\A f : Released(f)' <=> Released(f))
  BY <1>0, <1>1, <1>2, Bookkeeping DEF IInv, JournalFacts, TokenKinds
<1>4. Recorded' = Recorded
  BY <1>0 DEF Recorded
<1>5. InstallFacts' /\ ClosedSpent'
  <2>1. attempts' = attempts \/ attempts' = attempts + 1
    BY DEF Submit
  <2> QED
    BY <1>0, <1>3, <1>4, <2>1 DEF IInv, InstallFacts, ClosedSpent
<1>6. \/ task' = Idle
      \/ /\ task'.step = "rechecking" /\ task'.review = t.review /\ task'.entry = t.entry
         /\ attempts' = attempts + 1 /\ Installable(t.review)
         /\ RequireNoReplay(Open \ {t.entry})
  BY <1>0 DEF Submit, Idle, InstallPreconditions
<1>7. t.review \in ReviewIds /\ t.entry \in EntryIds /\ Released(t.entry)
  BY <1>0 DEF IInv, TaskFacts
<1>8. ASSUME task' # Idle
      PROVE  \A f \in EntryIds \ {t.entry} : AddsRule(f) => Spent(f)
  <2>1. Installable(t.review) /\ RequireNoReplay(Open \ {t.entry})
    BY <1>6, <1>8
  <2>2. SUFFICES ASSUME NEW f \in EntryIds \ {t.entry}, AddsRule(f)
                 PROVE  Spent(f)
    OBVIOUS
  <2>3. f \in journal
    BY <2>2 DEF IInv, JournalFacts
  <2>4. CASE f \notin records
    BY <1>7, <2>1, <2>3, <2>4 DEF IInv, EarlierSpent, Installable
  <2>5. CASE f \in closed
    BY <1>0, <2>1, <2>5 DEF IInv, ClosedSpent, Installable
  <2>6. CASE f \in Open
    BY <2>1, <2>2, <2>6, ReplaySpent DEF RequireNoReplay
  <2> QED
    BY <2>4, <2>5, <2>6 DEF Open
<1> HIDE DEF t
<1>9. RemovalFacts'
  BY <1>0, <1>1, <1>3, <1>4, <1>6 DEF IInv, RemovalFacts, TokenKinds, Idle
<1>10. TaskFacts'
  <2>1. task' # Idle => attempts' > allowance'
    BY <1>0, <1>6 DEF IInv, ClosedSpent
  <2> QED
    BY <1>0, <1>1, <1>3, <1>4, <1>6, <1>7, <1>8, <2>1 DEF IInv, TaskFacts, TokenKinds, NoToken, Idle
<1> QED
  BY <1>3, <1>5, <1>9, <1>10 DEF IInv

(* Steps that only keep books: installations keep their rule, and are      *)
(* marked removed only when the rule is.                                   *)
LEMMA Quiet ==
  ASSUME IInv,
         UNCHANGED <<ledger, rules, entries, used, landed, sent, journal, records, closed,
                     reviews, attempts, allowance>>,
         tokens'["live"] \in {tokens["live"], NoToken},
         \A e \in EntryIds :
           /\ installs'[e].status # "none" <=> installs[e].status # "none"
           /\ installs'[e].rule = installs[e].rule
           /\ installs'[e].removal # "none" =>
                installs[e].removal # "none" \/ rules[installs[e].rule].removed # 0
  PROVE  /\ RuleFacts' /\ SeenFacts' /\ LandedFacts' /\ JournalFacts' /\ InstallFacts'
         /\ EarlierSpent' /\ ClosedSpent' /\ SentSpent'
         /\ Recorded' = Recorded
         /\ (\A f : Spent(f)' <=> Spent(f)) /\ (\A f : AddsRule(f)' <=> AddsRule(f))
         /\ (\A f : Released(f)' <=> Released(f))
<1>1. /\ RuleFacts' /\ SeenFacts' /\ LandedFacts' /\ JournalFacts' /\ EarlierSpent' /\ SentSpent'
      /\ (\A f : Spent(f)' <=> Spent(f)) /\ (\A f : AddsRule(f)' <=> AddsRule(f))
      /\ (\A f : Released(f)' <=> Released(f))
  <2>1. \A r \in ReviewIds : Reviewed(r)' => Reviewed(r)
    BY DEF Reviewed
  <2>2. closed' \subseteq records
    BY DEF IInv, JournalFacts
  <2> QED
    BY <2>1, <2>2, Bookkeeping
<1>2. Recorded' = Recorded
  BY DEF Recorded
<1>3. InstallFacts'
  <2>1. Recorded \subseteq EntryIds
    BY DEF Recorded
  <2> QED
    BY <1>2, <2>1 DEF IInv, InstallFacts
<1>4. ClosedSpent'
  BY <1>1, <1>2 DEF IInv, ClosedSpent
<1> QED
  BY <1>1, <1>2, <1>3, <1>4

(* The fee payer sends: of the others none that adds a rule is unspent. *)
LEMMA SendStep ==
  ASSUME IInv, TypeOK', SendInstall \/ SendRemoval
  PROVE  IInv'
<1>0. /\ tokens \in [TokenKinds -> Token] /\ task \in Task /\ task.entry \in EntryIds
      /\ sent' \in {sent, sent \cup {task.entry}}
      /\ UNCHANGED <<ledger, rules, entries, used, landed, journal, records, closed, reviews,
                     attempts, allowance, installs>>
      /\ \/ task.step = "rechecking" /\ task' = [task EXCEPT !.step = "polling"]
         \/ task.step = "removing" /\ task' = [task EXCEPT !.step = "polling_removal"]
      /\ tokens'["install"] \in {tokens["install"], NoToken}
      /\ \A k \in TokenKinds \ {"install"} : tokens'[k] = tokens[k]
  BY DEF IInv, TypeOK, SendInstall, SendRemoval, Sends, TaskFacts, RemovalFacts, TokenKinds
<1>1. Released(task.entry)
  BY <1>0 DEF IInv, TaskFacts, RemovalFacts, Released
<1>2. /\ RuleFacts' /\ SeenFacts' /\ LandedFacts' /\ JournalFacts' /\ EarlierSpent'
      /\ (\A f : Spent(f)' <=> Spent(f)) /\ (\A f : AddsRule(f)' <=> AddsRule(f))
      /\ (\A f : Released(f)' <=> Released(f))
  <2>1. \A r \in ReviewIds : Reviewed(r)' => Reviewed(r)
    BY <1>0 DEF Reviewed
  <2>2. closed' \subseteq records /\ tokens'["live"] = tokens["live"]
    BY <1>0 DEF IInv, JournalFacts, TokenKinds
  <2> QED
    BY <1>0, <1>1, <2>1, <2>2, Bookkeeping
<1>3. Recorded' = Recorded
  BY <1>0 DEF Recorded
<1>4. InstallFacts' /\ ClosedSpent'
  BY <1>0, <1>2, <1>3 DEF IInv, InstallFacts, ClosedSpent
<1>5. /\ task'.entry = task.entry /\ task'.review = task.review /\ task'.install = task.install
      /\ \/ task.step = "rechecking" /\ task'.step = "polling"
         \/ task.step = "removing" /\ task'.step = "polling_removal"
  BY <1>0 DEF Task
<1>6. RemovalFacts'
  BY <1>0, <1>3, <1>5 DEF IInv, RemovalFacts, TokenKinds
<1>7. TaskFacts'
  BY <1>0, <1>2, <1>3, <1>5 DEF IInv, TaskFacts, TokenKinds, NoToken
<1>8. \A f \in EntryIds \ {task.entry} : AddsRule(f) /\ AddsRule(task.entry) => Spent(f)
  BY <1>0 DEF IInv, TaskFacts, RemovalFacts, AddsRule
<1>9. SentSpent'
  <2>1. sent \subseteq EntryIds
    BY DEF IInv, TypeOK, NetworkTypeOK
  <2> QED
    BY <1>0, <1>2, <1>8, <2>1 DEF IInv, SentSpent
<1> QED
  BY <1>2, <1>4, <1>6, <1>7, <1>9 DEF IInv

(* The receipt makes the entry a recorded installation of the one rule it  *)
(* added.                                                                  *)
LEMMA ConfirmInstallStep ==
  ASSUME IInv, TypeOK', ConfirmInstall
  PROVE  IInv'
<1> DEFINE e == task.entry
<1>0. /\ task \in Task /\ task.step = "polling" /\ e \in EntryIds /\ e # 0
      /\ installs \in [EntryIds -> InstallRecord]
      /\ UNCHANGED <<ledger, rules, entries, used, landed, sent, journal, records, closed, reviews,
                     attempts, allowance, tokens>>
      /\ task' = [task EXCEPT !.step = "verifying"]
  BY DEF IInv, TypeOK, ConfirmInstall, TaskFacts, network, EntryIds
<1>1. PICK i \in RuleIds :
        /\ rules[i].by = e
        /\ installs' = [installs EXCEPT ![e] =
             [NoInstall EXCEPT !.status = "confirmed_unverified", !.rule = i, !.at = rules[i].added]]
  BY DEF ConfirmInstall
<1>2. /\ installs'[e].status = "confirmed_unverified" /\ installs'[e].rule = i
      /\ installs'[e].removal = "none"
      /\ \A f \in EntryIds \ {e} : installs'[f] = installs[f]
  BY <1>0, <1>1 DEF NoInstall
<1>3. Recorded' = Recorded \cup {e}
  BY <1>0, <1>2 DEF Recorded
<1>4. e \in Recorded => installs[e].rule = i
  <2>1. e \in Recorded => installs[e].rule \in RuleIds /\ rules[installs[e].rule].by = e
    BY <1>0, LedgerAssumption DEF IInv, InstallFacts, InstallRecord, RuleIds, LedgerAssumption
  <2> QED
    BY <1>0, <1>1, <2>1 DEF IInv, RuleFacts
<1>5. /\ RuleFacts' /\ SeenFacts' /\ LandedFacts' /\ JournalFacts' /\ EarlierSpent' /\ SentSpent'
      /\ (\A f : Spent(f)' <=> Spent(f)) /\ (\A f : AddsRule(f)' <=> AddsRule(f))
      /\ (\A f : Released(f)' <=> Released(f))
  <2>1. \A r \in ReviewIds : Reviewed(r)' => Reviewed(r)
    BY <1>0 DEF Reviewed
  <2>2. closed' \subseteq records
    BY <1>0 DEF IInv, JournalFacts
  <2> QED
    BY <1>0, <2>1, <2>2, Bookkeeping
<1>6. task'.step = "verifying" /\ task'.entry = e /\ task'.review = task.review
  BY <1>0 DEF Task
<1> HIDE DEF e
<1>7. InstallFacts'
  <2>1. i # 0 /\ Recorded \subseteq EntryIds
    BY DEF RuleIds, Recorded
  <2> QED
    BY <1>0, <1>1, <1>2, <1>3, <2>1 DEF IInv, InstallFacts
<1>8. ClosedSpent'
  BY <1>0, <1>3, <1>5 DEF IInv, ClosedSpent
<1>9. RemovalFacts'
  <2>1. \A f \in Recorded : f \in EntryIds /\ installs'[f].rule = installs[f].rule
    BY <1>2, <1>4 DEF Recorded
  <2> QED
    BY <1>0, <1>3, <1>6, <2>1 DEF IInv, RemovalFacts
<1>10. TaskFacts'
  BY <1>0, <1>3, <1>5, <1>6 DEF IInv, TaskFacts, e
<1> QED
  BY <1>5, <1>7, <1>8, <1>9, <1>10 DEF IInv

(* Closing: every open entry but the installed one was spent when it was   *)
(* sent, and the attempt has used up the allowance.                        *)
LEMMA VerifyInstallStep ==
  ASSUME IInv, TypeOK', VerifyInstall
  PROVE  IInv'
<1> DEFINE e == task.entry
<1>0. /\ task.step = "verifying" /\ task' = Idle /\ e \in EntryIds /\ e \in Recorded
      /\ installs \in [EntryIds -> InstallRecord]
      /\ UNCHANGED <<ledger, rules, entries, used, landed, sent, journal, records, reviews,
                     attempts, allowance, tokens>>
      /\ installs' = [installs EXCEPT ![e].status = "installed"]
      /\ closed' = closed \cup Open
  BY DEF IInv, TypeOK, VerifyInstall, TaskFacts, network
<1>1. \A f \in EntryIds : /\ installs'[f].status # "none" <=> installs[f].status # "none"
                          /\ installs'[f].rule = installs[f].rule
                          /\ installs'[f].removal = installs[f].removal
  BY <1>0 DEF InstallRecord, Recorded
<1>2. Recorded' = Recorded /\ Recorded \subseteq EntryIds
  BY <1>1 DEF Recorded
<1>3. /\ RuleFacts' /\ SeenFacts' /\ LandedFacts' /\ JournalFacts' /\ EarlierSpent' /\ SentSpent'
      /\ (\A f : Spent(f)' <=> Spent(f)) /\ (\A f : AddsRule(f)' <=> AddsRule(f))
      /\ (\A f : Released(f)' <=> Released(f))
  <2>1. \A r \in ReviewIds : Reviewed(r)' => Reviewed(r)
    BY <1>0 DEF Reviewed
  <2>2. closed' \subseteq records
    BY <1>0 DEF IInv, JournalFacts, Open
  <2> QED
    BY <1>0, <2>1, <2>2, Bookkeeping
<1>4. InstallFacts'
  BY <1>0, <1>1, <1>2 DEF IInv, InstallFacts
<1>5. ClosedSpent'
  <2>1. attempts > allowance /\ \A f \in EntryIds \ {e} : AddsRule(f) => Spent(f)
    BY <1>0 DEF IInv, TaskFacts
  <2>2. \A f \in records : f \in EntryIds /\ AddsRule(f)
    BY DEF IInv, TypeOK, JournalFacts
  <2> HIDE DEF e
  <2> QED
    BY <1>0, <1>2, <1>3, <2>1, <2>2 DEF IInv, ClosedSpent, Open
<1>6. RemovalFacts'
  BY <1>0, <1>1, <1>2 DEF IInv, RemovalFacts, Idle
<1>7. TaskFacts'
  BY <1>0, <1>3 DEF IInv, TaskFacts, Idle
<1> QED
  BY <1>3, <1>4, <1>5, <1>6, <1>7 DEF IInv

LEMMA InstallRefusedStep ==
  ASSUME IInv, TypeOK', InstallRefused
  PROVE  IInv'
<1>0. /\ task' = Idle
      /\ UNCHANGED <<ledger, rules, entries, used, landed, sent, journal, records, closed, reviews,
                     attempts, allowance, tokens, installs>>
  BY DEF InstallRefused, network
<1>1. /\ RuleFacts' /\ SeenFacts' /\ LandedFacts' /\ JournalFacts' /\ InstallFacts'
      /\ EarlierSpent' /\ ClosedSpent' /\ SentSpent'
      /\ Recorded' = Recorded
      /\ (\A f : Released(f)' <=> Released(f))
  BY <1>0, Quiet
<1>2. RemovalFacts' /\ TaskFacts'
  BY <1>0, <1>1 DEF IInv, RemovalFacts, TaskFacts, Idle
<1> QED
  BY <1>1, <1>2 DEF IInv

LEMMA MonitorStep ==
  ASSUME IInv, TypeOK', NEW e \in EntryIds, MonitorGrant(e)
  PROVE  IInv'
<1>0. /\ task = Idle /\ installs \in [EntryIds -> InstallRecord]
      /\ UNCHANGED <<ledger, rules, entries, used, landed, sent, journal, records, closed, reviews,
                     attempts, allowance, tokens, task>>
  BY DEF IInv, TypeOK, MonitorGrant, network
<1>1. PICK x : installs' = [installs EXCEPT ![e].drift = x]
  BY DEF MonitorGrant
<1>2. \A f \in EntryIds : /\ installs'[f].status = installs[f].status
                          /\ installs'[f].rule = installs[f].rule
                          /\ installs'[f].removal = installs[f].removal
  BY <1>0, <1>1 DEF InstallRecord
<1>3. /\ RuleFacts' /\ SeenFacts' /\ LandedFacts' /\ JournalFacts' /\ InstallFacts'
      /\ EarlierSpent' /\ ClosedSpent' /\ SentSpent'
      /\ Recorded' = Recorded
      /\ (\A f : Released(f)' <=> Released(f))
  BY <1>0, <1>2, Quiet
<1>4. Recorded \subseteq EntryIds
  BY DEF Recorded
<1>5. RemovalFacts' /\ TaskFacts'
  BY <1>0, <1>2, <1>3, <1>4 DEF IInv, RemovalFacts, TaskFacts, Idle
<1> QED
  BY <1>3, <1>5 DEF IInv

(* The entry of a removal adds no rule, and is not journaled. *)
LEMMA PrepareRevokeStep ==
  ASSUME IInv, TypeOK', NEW e \in EntryIds, PrepareRevoke(e)
  PROVE  IInv'
<1>0. /\ task = Idle /\ task' = Idle /\ tokens \in [TokenKinds -> Token] /\ e \in Recorded
      /\ UNCHANGED <<ledger, rules, used, landed, sent, journal, records, closed, reviews,
                     attempts, allowance, installs>>
  BY DEF IInv, TypeOK, PrepareRevoke
<1>1. CASE tokens' = [tokens EXCEPT !["revoke"] = NoToken] /\ UNCHANGED entries
  <2>1. tokens'["revoke"] = NoToken /\ \A k \in TokenKinds \ {"revoke"} : tokens'[k] = tokens[k]
    BY <1>0, <1>1 DEF TokenKinds
  <2>2. tokens'["live"] = tokens["live"]
    BY <2>1 DEF TokenKinds
  <2>3. /\ RuleFacts' /\ SeenFacts' /\ LandedFacts' /\ JournalFacts' /\ InstallFacts'
        /\ EarlierSpent' /\ ClosedSpent' /\ SentSpent'
        /\ Recorded' = Recorded
        /\ (\A f : Released(f)' <=> Released(f))
    BY <1>0, <1>1, <2>2, Quiet
  <2>4. RemovalFacts' /\ TaskFacts'
    BY <1>0, <2>1, <2>3 DEF IInv, RemovalFacts, TaskFacts, Idle, TokenKinds, NoToken
  <2> QED
    BY <2>3, <2>4 DEF IInv
<1>2. ASSUME NEW f \in EntryIds, FreshEntry(f), NEW x, NEW d,
             Release(f, "remove", x, installs[e].rule, NoSnapshot),
             tokens' = [tokens EXCEPT !["revoke"] =
                          [NoToken EXCEPT !.held = TRUE, !.install = e, !.entry = f, !.edited = d]]
      PROVE  IInv'
  <2>1. /\ tokens'["revoke"].install = e /\ tokens'["revoke"].entry = f
        /\ \A k \in TokenKinds \ {"revoke"} : tokens'[k] = tokens[k]
    BY <1>0, <1>2 DEF TokenKinds, NoToken
  <2>2. /\ entries'[f] = [kind |-> "remove", expiry |-> x, rule |-> installs[e].rule, seen |-> NoSnapshot]
        /\ \A g \in EntryIds \ {f} : entries'[g] = entries[g]
        /\ \A g \in EntryIds \ {f} : (Spent(g)' <=> Spent(g)) /\ (AddsRule(g)' <=> AddsRule(g))
                                     /\ (Released(g)' <=> Released(g))
        /\ ~Released(f) /\ ~AddsRule(f)
        /\ f \notin journal /\ f \notin records /\ f \notin closed /\ f \notin sent \cup landed
        /\ RuleFacts'
    BY <1>0, <1>2, Releasing
  <2>3. ~AddsRule(f)' /\ Released(f)'
    BY <2>2 DEF AddsRule, Released
  <2>4. /\ journal \subseteq EntryIds /\ records \subseteq journal /\ closed \subseteq records
        /\ sent \subseteq EntryIds /\ landed \subseteq EntryIds
    BY DEF IInv, TypeOK, NetworkTypeOK, JournalFacts
  <2>5. SeenFacts'
    <3>1. tokens'["live"] = tokens["live"] /\ NoSnapshot.present = {}
      BY <2>1 DEF TokenKinds, NoSnapshot
    <3> QED
      BY <1>0, <2>2, <3>1 DEF IInv, SeenFacts
  <2>6. LandedFacts'
    <3>1. installs[e].rule \in RuleIds
      BY <1>0, LedgerAssumption DEF IInv, InstallFacts, TypeOK, InstallRecord, RuleIds, LedgerAssumption
    <3> QED
      BY <1>0, <2>2, <2>3, <2>4, <3>1 DEF IInv, LandedFacts
  <2>7. JournalFacts'
    BY <1>0, <2>2, <2>3, <2>4 DEF IInv, JournalFacts
  <2>8. Recorded' = Recorded
    BY <1>0 DEF Recorded
  <2>9. InstallFacts' /\ ClosedSpent' /\ SentSpent' /\ EarlierSpent'
    BY <1>0, <2>2, <2>4, <2>8 DEF IInv, InstallFacts, ClosedSpent, SentSpent, EarlierSpent, Reviewed
  <2>10. RemovalFacts'
    BY <1>0, <2>1, <2>2, <2>8 DEF RemovalFacts, Idle
  <2>11. TaskFacts'
    BY <1>0, <2>1, <2>2, <2>3 DEF IInv, TaskFacts, Idle, TokenKinds
  <2> QED
    BY <2>2, <2>5, <2>6, <2>7, <2>9, <2>10, <2>11 DEF IInv
<1> QED
  BY <1>1, <1>2 DEF PrepareRevoke

LEMMA ConfirmRevokeStep ==
  ASSUME IInv, TypeOK', ConfirmRevoke
  PROVE  IInv'
<1> DEFINE t == tokens["revoke"]
<1>0. /\ task = Idle /\ tokens \in [TokenKinds -> Token] /\ installs \in [EntryIds -> InstallRecord]
      /\ t.held /\ tokens' = [tokens EXCEPT !["revoke"] = NoToken]
      /\ UNCHANGED <<ledger, rules, entries, used, landed, sent, journal, records, closed, reviews,
                     attempts, allowance>>
  BY DEF IInv, TypeOK, ConfirmRevoke, network
<1>1. /\ tokens'["revoke"] = NoToken /\ tokens'["live"] = tokens["live"]
      /\ \A k \in TokenKinds \ {"revoke"} : tokens'[k] = tokens[k]
  BY <1>0 DEF TokenKinds
<1>2. \/ installs' = installs /\ task' = task
      \/ /\ installs' = [installs EXCEPT ![t.install].removalAttempted = TRUE]
         /\ task' = [Idle EXCEPT !.step = "removing", !.entry = t.entry, !.install = t.install]
  BY DEF ConfirmRevoke
<1>3. \A f \in EntryIds : /\ installs'[f].status = installs[f].status
                          /\ installs'[f].rule = installs[f].rule
                          /\ installs'[f].removal = installs[f].removal
  BY <1>0, <1>2 DEF InstallRecord
<1>4. /\ RuleFacts' /\ SeenFacts' /\ LandedFacts' /\ JournalFacts' /\ InstallFacts'
      /\ EarlierSpent' /\ ClosedSpent' /\ SentSpent'
      /\ Recorded' = Recorded
      /\ (\A f : Released(f)' <=> Released(f))
  BY <1>0, <1>1, <1>3, Quiet
<1>5. \/ task' = Idle
      \/ task'.step = "removing" /\ task'.entry = t.entry /\ task'.install = t.install
  BY <1>0, <1>2 DEF Idle
<1>6. RemovalFacts'
  <2>1. Recorded \subseteq EntryIds
    BY DEF Recorded
  <2> QED
    BY <1>0, <1>1, <1>3, <1>4, <1>5, <2>1 DEF IInv, RemovalFacts, Idle, NoToken
<1>7. TaskFacts'
  BY <1>0, <1>1, <1>4, <1>5 DEF IInv, TaskFacts, Idle, TokenKinds
<1> QED
  BY <1>4, <1>6, <1>7 DEF IInv

(* The end of a removal: only a receipt marks the installation removed. *)
LEMMA RemovalStep ==
  ASSUME IInv, TypeOK', RemovalFailed \/ ConfirmRemoval \/ VerifyRemoval
  PROVE  IInv'
<1> DEFINE e == task.install
<1>0. /\ task \in Task /\ installs \in [EntryIds -> InstallRecord]
      /\ task.step \in {"removing", "polling_removal", "verifying_removal"}
      /\ UNCHANGED <<ledger, rules, entries, used, landed, sent, journal, records, closed, reviews,
                     attempts, allowance, tokens>>
  BY DEF IInv, TypeOK, RemovalFailed, ConfirmRemoval, VerifyRemoval, network
<1>1. /\ e \in Recorded /\ e \in EntryIds /\ task.entry \in EntryIds
      /\ entries[task.entry].kind = "remove"
      /\ entries[task.entry].rule = installs[e].rule
  BY <1>0 DEF IInv, RemovalFacts, Recorded
<1>2. ConfirmRemoval \/ task.step = "verifying_removal" => rules[installs[e].rule].removed # 0
  BY <1>1 DEF IInv, RemovalFacts, LandedFacts, ConfirmRemoval
<1>3. /\ \A f \in EntryIds : /\ installs'[f].status = installs[f].status
                             /\ installs'[f].rule = installs[f].rule
      /\ \A f \in EntryIds : installs'[f].removal = installs[f].removal
                             \/ (f = e /\ rules[installs[f].rule].removed # 0)
  <2>1. CASE RemovalFailed
    BY <1>0, <1>1, <2>1 DEF RemovalFailed, InstallRecord
  <2>2. CASE ConfirmRemoval
    BY <1>0, <1>1, <1>2, <2>2 DEF ConfirmRemoval, InstallRecord
  <2>3. CASE VerifyRemoval
    BY <1>0, <1>1, <1>2, <2>3 DEF VerifyRemoval, InstallRecord
  <2> QED
    BY <2>1, <2>2, <2>3
<1>4. /\ RuleFacts' /\ SeenFacts' /\ LandedFacts' /\ JournalFacts' /\ InstallFacts'
      /\ EarlierSpent' /\ ClosedSpent' /\ SentSpent'
      /\ Recorded' = Recorded
      /\ (\A f : Released(f)' <=> Released(f))
  BY <1>0, <1>3, Quiet
<1>5. \/ task' = Idle
      \/ /\ ConfirmRemoval /\ task'.step = "verifying_removal" /\ task'.entry = task.entry
         /\ task'.install = e
  BY <1>0 DEF RemovalFailed, ConfirmRemoval, VerifyRemoval, Task
<1>6. RemovalFacts'
  <2>1. Recorded \subseteq EntryIds
    BY DEF Recorded
  <2> HIDE DEF e
  <2> QED
    BY <1>0, <1>1, <1>2, <1>3, <1>4, <1>5, <2>1 DEF IInv, RemovalFacts, Idle
<1>7. TaskFacts'
  BY <1>0, <1>4, <1>5 DEF IInv, TaskFacts, Idle
<1> QED
  BY <1>4, <1>6, <1>7 DEF IInv

LEMMA PrepareReplacementStep ==
  ASSUME IInv, TypeOK', PrepareReplacement
  PROVE  IInv'
<1>0. /\ task = Idle /\ task' = Idle /\ tokens \in [TokenKinds -> Token]
      /\ UNCHANGED <<ledger, rules, entries, used, landed, sent, journal, records, closed, reviews,
                     attempts, allowance, installs>>
  BY DEF IInv, TypeOK, PrepareReplacement, network
<1>1. /\ \A k \in TokenKinds \ {"replacement"} : tokens'[k] = tokens[k]
      /\ tokens'["live"] = tokens["live"]
  BY <1>0 DEF PrepareReplacement, TokenKinds
<1>2. /\ RuleFacts' /\ SeenFacts' /\ LandedFacts' /\ JournalFacts' /\ InstallFacts'
      /\ EarlierSpent' /\ ClosedSpent' /\ SentSpent'
      /\ Recorded' = Recorded
      /\ (\A f : Released(f)' <=> Released(f))
  BY <1>0, <1>1, Quiet
<1>3. RemovalFacts' /\ TaskFacts'
  BY <1>0, <1>1, <1>2 DEF IInv, RemovalFacts, TaskFacts, Idle, TokenKinds
<1> QED
  BY <1>2, <1>3 DEF IInv

(* The fresh allowance: a closed entry that was not spent is a recorded    *)
(* installation, and all of those are removed.                             *)
LEMMA ConfirmReplacementStep ==
  ASSUME IInv, TypeOK', ConfirmReplacement
  PROVE  IInv'
<1>0. /\ task = Idle /\ task' = Idle /\ tokens \in [TokenKinds -> Token]
      /\ UNCHANGED <<ledger, rules, entries, used, landed, sent, journal, records, closed,
                     attempts, installs>>
  BY DEF IInv, TypeOK, ConfirmReplacement, network
<1>1. CASE tokens' = [tokens EXCEPT !["replacement"] = NoToken] /\ UNCHANGED <<reviews, allowance>>
  <2>1. /\ \A k \in TokenKinds \ {"replacement"} : tokens'[k] = tokens[k]
        /\ tokens'["live"] = tokens["live"]
    BY <1>0, <1>1 DEF TokenKinds
  <2>2. /\ RuleFacts' /\ SeenFacts' /\ LandedFacts' /\ JournalFacts' /\ InstallFacts'
        /\ EarlierSpent' /\ ClosedSpent' /\ SentSpent'
        /\ Recorded' = Recorded
        /\ (\A f : Released(f)' <=> Released(f))
    BY <1>0, <1>1, <2>1, Quiet
  <2>3. RemovalFacts' /\ TaskFacts'
    BY <1>0, <2>1, <2>2 DEF IInv, RemovalFacts, TaskFacts, Idle, TokenKinds
  <2> QED
    BY <2>2, <2>3 DEF IInv
<1>2. CASE /\ ReadyToReplace /\ tokens' = NoTokens /\ allowance' = attempts
           /\ reviews' = [r \in ReviewIds |-> NoReview]
  <2>1. \A k \in TokenKinds : tokens'[k] = NoToken
    BY <1>2 DEF NoTokens
  <2>2. \A r \in ReviewIds : ~Reviewed(r)'
    BY <1>2 DEF Reviewed, NoReview
  <2>3. /\ RuleFacts' /\ SeenFacts' /\ LandedFacts' /\ JournalFacts' /\ EarlierSpent' /\ SentSpent'
        /\ (\A f : Spent(f)' <=> Spent(f))
    <3>1. tokens'["live"] = NoToken /\ closed' \subseteq records
      BY <1>0, <2>1 DEF TokenKinds, IInv, JournalFacts
    <3> QED
      BY <1>0, <2>2, <3>1, Bookkeeping
  <2>4. Recorded' = Recorded
    BY <1>0 DEF Recorded
  <2>5. InstallFacts'
    BY <1>0, <2>4 DEF IInv, InstallFacts
  <2>6. ClosedSpent'
    <3>1. \A f \in Recorded : Spent(f)
      BY <1>2, RemovedSpent DEF ReadyToReplace, Replaceable
    <3>2. attempts \in Nat
      BY DEF IInv, TypeOK
    <3> QED
      BY <1>0, <1>2, <2>3, <3>1, <3>2 DEF IInv, ClosedSpent
  <2>7. RemovalFacts' /\ TaskFacts'
    BY <1>0, <2>1 DEF RemovalFacts, TaskFacts, Idle, TokenKinds, NoToken
  <2> QED
    BY <2>3, <2>5, <2>6, <2>7 DEF IInv
<1> QED
  BY <1>1, <1>2 DEF ConfirmReplacement

LEMMA RestartStep ==
  ASSUME IInv, TypeOK', Restart
  PROVE  IInv'
<1>0. /\ task' = Idle /\ tokens' = NoTokens /\ records' = {} /\ closed' = {}
      /\ attempts' = 0 /\ allowance' = 0
      /\ reviews' = [r \in ReviewIds |-> NoReview]
      /\ installs' = [e \in EntryIds |-> NoInstall]
      /\ UNCHANGED <<ledger, rules, entries, used, landed, sent, journal>>
  BY DEF Restart, network
<1>1. \A k \in TokenKinds : tokens'[k] = NoToken
  BY <1>0 DEF NoTokens
<1>2. \A r \in ReviewIds : ~Reviewed(r)'
  BY <1>0 DEF Reviewed, NoReview
<1>3. /\ RuleFacts' /\ (\A f : Spent(f)' <=> Spent(f)) /\ (\A f : AddsRule(f)' <=> AddsRule(f))
      /\ (\A f : Released(f)' <=> Released(f))
  BY <1>0, Resting DEF IInv
<1>4. SeenFacts' /\ LandedFacts' /\ JournalFacts'
  BY <1>0, <1>1, <1>3 DEF IInv, SeenFacts, LandedFacts, JournalFacts, NoToken, NoSnapshot, TokenKinds
<1>5. Recorded' = {}
  BY <1>0 DEF Recorded, NoInstall
<1>6. InstallFacts' /\ EarlierSpent' /\ ClosedSpent' /\ SentSpent'
  BY <1>0, <1>2, <1>3, <1>5 DEF IInv, InstallFacts, EarlierSpent, ClosedSpent, SentSpent
<1>7. RemovalFacts' /\ TaskFacts'
  BY <1>0, <1>1 DEF RemovalFacts, TaskFacts, Idle, TokenKinds, NoToken
<1> QED
  BY <1>3, <1>4, <1>6, <1>7 DEF IInv

-----------------------------------------------------------------------------
LEMMA InitIInv == Init => IInv
<1> SUFFICES ASSUME Init PROVE IInv
  OBVIOUS
<1> USE LedgerAssumption, GrantAssumption DEF LedgerAssumption, GrantAssumption
<1>1. TypeOK
  <2>1. NetworkTypeOK
    BY BlankTypes DEF Init, NetworkInit, NetworkTypeOK
  <2>2. /\ session = 1 /\ attempts = 0 /\ allowance = 0
        /\ journal = {} /\ records = {} /\ closed = {}
        /\ ambiguous = FALSE
    BY Zenon DEF Init, FreshBackend
  <2>b. ambiguous \in BOOLEAN
    BY <2>2, Zenon
  <2>n. /\ session \in 1 .. MaxSessions /\ attempts \in Nat /\ allowance \in Nat
        /\ journal \subseteq EntryIds /\ records \subseteq EntryIds /\ closed \subseteq EntryIds
    BY <2>2
  <2>3. /\ reviews \in [ReviewIds -> ReviewRecord] /\ installs \in [EntryIds -> InstallRecord]
        /\ tokens \in [TokenKinds -> Token] /\ task \in Task
    BY BlankTypes DEF Init, FreshBackend
  <2> QED
    BY <2>1, <2>b, <2>n, <2>3, Zenon DEF TypeOK
<1>2. RuleFacts
  BY DEF Init, NetworkInit, RuleFacts, NoRule
<1>3. /\ \A f \in EntryIds : entries[f] = NoEntry
      /\ \A k \in TokenKinds : tokens[k] = NoToken
      /\ \A f \in EntryIds : ~AddsRule(f)
      /\ Recorded = {}
      /\ \A r \in ReviewIds : ~Reviewed(r)
      /\ sent = {} /\ landed = {} /\ journal = {} /\ records = {} /\ closed = {}
      /\ attempts = 0 /\ allowance = 0 /\ task = Idle
  BY DEF Init, NetworkInit, FreshBackend, NoEntry, NoTokens, AddsRule, Recorded, NoInstall, Reviewed, NoReview
<1>4. SeenFacts /\ LandedFacts /\ JournalFacts
  BY <1>3 DEF SeenFacts, LandedFacts, JournalFacts, NoEntry, NoToken, NoSnapshot, TokenKinds
<1>5. InstallFacts /\ RemovalFacts /\ TaskFacts
  BY <1>3 DEF InstallFacts, RemovalFacts, TaskFacts, NoToken, Idle, TokenKinds
<1>6. EarlierSpent /\ ClosedSpent /\ SentSpent
  BY <1>3 DEF EarlierSpent, ClosedSpent, SentSpent
<1> QED
  BY <1>1, <1>2, <1>4, <1>5, <1>6 DEF IInv

LEMMA NextIInv == IInv /\ [Next]_vars => IInv'
<1> SUFFICES ASSUME IInv, [Next]_vars PROVE IInv'
  OBVIOUS
<1>1. CASE Next
  <2>1. TypeOK'
    BY <1>1, TypeStep
  <2>2. CASE NetworkMoves
    BY <2>1, <2>2, WorldStep
  <2>3. CASE \E r \in ReviewIds : ReviewGrant(r) \/ CheckAccount(r) \/ PrepareLive(r) \/ Assemble(r)
    BY <2>1, <2>3, PreparingStep
  <2>4. CASE ConsentLive \/ RunLive
    BY <2>1, <2>4, ConsentStep, RunLiveStep
  <2>5. CASE ReleaseInstall \/ Submit \/ SendInstall \/ ConfirmInstall \/ VerifyInstall \/ InstallRefused
    BY <2>1, <2>5, ReleaseInstallStep, SubmitStep, SendStep, ConfirmInstallStep, VerifyInstallStep,
       InstallRefusedStep
  <2>6. CASE \E e \in EntryIds : MonitorGrant(e) \/ PrepareRevoke(e)
    BY <2>1, <2>6, MonitorStep, PrepareRevokeStep
  <2>7. CASE ConfirmRevoke \/ SendRemoval \/ RemovalFailed \/ ConfirmRemoval \/ VerifyRemoval
    BY <2>1, <2>7, ConfirmRevokeStep, SendStep, RemovalStep
  <2>8. CASE PrepareReplacement \/ ConfirmReplacement \/ Restart
    BY <2>1, <2>8, PrepareReplacementStep, ConfirmReplacementStep, RestartStep
  <2> QED
    BY <1>1, <2>2, <2>3, <2>4, <2>5, <2>6, <2>7, <2>8 DEF Next
<1>2. CASE UNCHANGED vars
  BY <1>2 DEF vars, network, backend, IInv, TypeOK, NetworkTypeOK, RuleFacts, SeenFacts, LandedFacts,
              JournalFacts, InstallFacts, RemovalFacts, EarlierSpent, ClosedSpent, TaskFacts, SentSpent,
              Spent, Present, AddsRule, Released, Recorded, Reviewed
<1> QED
  BY <1>1, <1>2

LEMMA Inductive == Spec => []IInv
BY InitIInv, NextIInv, PTL DEF Spec

(* The grant lifecycle keeps its types, and never two grants the fee payer *)
(* sent are on the account at a time: of two it sent one is spent, and a   *)
(* spent one has no rule there.                                            *)
THEOREM GrantSafe == Spec => [](TypeOK /\ OneGrantInForce)
<1>1. IInv => TypeOK /\ OneGrantInForce
  <2> SUFFICES ASSUME IInv PROVE TypeOK /\ OneGrantInForce
    OBVIOUS
  <2>1. SUFFICES ASSUME NEW i \in RuleIds, NEW j \in RuleIds, Present(i), Present(j),
                        rules[i].by \in sent, rules[j].by \in sent
                 PROVE  i = j
    BY DEF IInv, OneGrantInForce
  <2>2. sent \subseteq EntryIds
    BY DEF IInv, TypeOK, NetworkTypeOK
  <2>3. rules[i].by # 0 /\ rules[j].by # 0
    BY <2>1, <2>2 DEF EntryIds
  <2>4. ~Spent(rules[i].by) /\ ~Spent(rules[j].by)
    BY <2>1 DEF Spent
  <2>5. AddsRule(rules[i].by) /\ AddsRule(rules[j].by)
    BY <2>3 DEF IInv, RuleFacts
  <2>6. rules[i].by = rules[j].by
    BY <2>1, <2>4, <2>5 DEF IInv, SentSpent
  <2> QED
    BY <2>3, <2>6 DEF IInv, RuleFacts
<1> QED
  BY <1>1, Inductive, PTL

(* The fee payer sends an installation only when every other signature the *)
(* wallet released for the grant is spent.                                 *)
THEOREM GrantAlone == Spec => SubmitsAlone
<1> DEFINE Alone == \A e \in sent' \ sent : entries[e].kind = "install" => OthersSpent(e)
<1>1. IInv /\ [Next]_vars => [Alone]_vars
  <2> SUFFICES ASSUME IInv, Next, NEW e \in sent' \ sent, entries[e].kind = "install"
               PROVE  OthersSpent(e)
    OBVIOUS
  <2>1. CASE SendInstall
    <3>1. e = task.entry /\ task.step = "rechecking"
      BY <2>1 DEF SendInstall, Sends
    <3>2. \A f \in EntryIds \ {e} : AddsRule(f) => Spent(f)
      BY <3>1 DEF IInv, TaskFacts
    <3> QED
      BY <3>2 DEF OthersSpent, Spent
  <2>2. CASE SendRemoval
    <3>1. e = task.entry /\ task.step = "removing"
      BY <2>2 DEF SendRemoval, Sends
    <3> QED
      BY <3>1 DEF IInv, RemovalFacts
  <2>3. CASE sent' = sent
    BY <2>3
  <2>4. SendInstall \/ SendRemoval \/ sent' = sent
    BY DEF Next, NetworkMoves, World, Tick, OwnerElsewhere, Land, ReviewGrant, CheckAccount, PrepareLive,
           Assemble, ConsentLive, RunLive, ReleaseInstall, Submit, ConfirmInstall, VerifyInstall,
           InstallRefused, MonitorGrant, PrepareRevoke, ConfirmRevoke, RemovalFailed, ConfirmRemoval,
           VerifyRemoval, PrepareReplacement, ConfirmReplacement, Restart, network
  <2> QED
    BY <2>1, <2>2, <2>3, <2>4
<1> QED
  BY <1>1, Inductive, PTL DEF Spec, SubmitsAlone

-----------------------------------------------------------------------------
(* A removal is sent once per rule.  The flag removalAttempted is kept per *)
(* recorded installation and forgotten by a restart, so the argument needs *)
(* that an installation is recorded once and never by a later process.     *)

(* What is being submitted is of this process and not recorded yet. *)
ConfirmsOnce ==
  /\ Recorded \subseteq records
  /\ tokens["install"].held => tokens["install"].entry \in records \ Recorded
  /\ task.step \in {"rechecking", "polling"} =>
       task.entry \in records \ Recorded /\ ~tokens["install"].held

(* The rule of a sent removal was added by an installation that is marked  *)
(* attempted, or that an earlier process answered for.                     *)
RemovalAccount ==
  /\ \A f \in sent : entries[f].kind = "remove" =>
       LET e == rules[entries[f].rule].by IN
       /\ e # 0
       /\ e \in records => /\ e \in Recorded /\ installs[e].removalAttempted
                           /\ ~(task.step = "removing" /\ task.install = e)
  /\ task.step = "removing" => installs[task.install].removalAttempted
  /\ task.step = "polling_removal" => ambiguous

RInv == ConfirmsOnce /\ RemovalAccount /\ RemovalSentOnce

(* Released entries never change, and a rule keeps the entry that added it. *)
LEMMA LastingFacts ==
  ASSUME IInv, Next
  PROVE  /\ \A f \in EntryIds : Released(f) => entries'[f] = entries[f]
         /\ \A i \in RuleIds : rules[i].by # 0 => rules'[i].by = rules[i].by
<1>1. CASE NetworkMoves
  <2>1. /\ \A i \in RuleIds : rules[i].added # 0 => rules'[i].by = rules[i].by
        /\ entries' = entries
    BY <1>1, WorldRules DEF IInv, NetworkMoves, SeenFacts
  <2>2. \A i \in RuleIds : rules[i].by # 0 => rules[i].added # 0
    BY DEF IInv, RuleFacts, NoRule
  <2> QED
    BY <2>1, <2>2
<1>2. ASSUME NEW e \in EntryIds, FreshEntry(e), NEW k, NEW x, NEW i, NEW sn, Release(e, k, x, i, sn),
             rules' = rules
      PROVE  /\ \A f \in EntryIds : Released(f) => entries'[f] = entries[f]
             /\ \A j \in RuleIds : rules[j].by # 0 => rules'[j].by = rules[j].by
  BY <1>2 DEF IInv, TypeOK, NetworkTypeOK, FreshEntry, Release
<1>3. CASE entries' = entries /\ rules' = rules
  BY <1>3
<1>4. CASE ConsentLive
  BY <1>2, <1>3, <1>4 DEF ConsentLive
<1>5. CASE ReleaseInstall
  BY <1>2, <1>5 DEF ReleaseInstall
<1>6. ASSUME NEW e \in EntryIds, PrepareRevoke(e)
      PROVE  /\ \A f \in EntryIds : Released(f) => entries'[f] = entries[f]
             /\ \A j \in RuleIds : rules[j].by # 0 => rules'[j].by = rules[j].by
  BY <1>2, <1>3, <1>6 DEF PrepareRevoke
<1>7. \/ NetworkMoves \/ ConsentLive \/ ReleaseInstall \/ \E e \in EntryIds : PrepareRevoke(e)
      \/ entries' = entries /\ rules' = rules
  BY DEF Next, ReviewGrant, CheckAccount, PrepareLive, Assemble, RunLive, Submit, SendInstall,
         ConfirmInstall, VerifyInstall, InstallRefused, MonitorGrant, ConfirmRevoke, SendRemoval,
         RemovalFailed, ConfirmRemoval, VerifyRemoval, PrepareReplacement, ConfirmReplacement,
         Restart, network
<1> QED
  BY <1>1, <1>3, <1>4, <1>5, <1>6, <1>7

(* What the facts about sent removals rest on stays what it was. *)
LEMMA SentRemovals ==
  ASSUME IInv, Next
  PROVE  /\ \A f \in sent : /\ f \in EntryIds /\ entries'[f] = entries[f]
                            /\ entries[f].kind = "remove" => entries[f].rule \in RuleIds
         /\ \A f \in sent : entries[f].kind = "remove" /\ rules[entries[f].rule].by # 0 =>
              rules'[entries[f].rule].by = rules[entries[f].rule].by
<1>1. sent \subseteq EntryIds /\ \A f \in sent : Released(f)
  BY DEF IInv, TypeOK, NetworkTypeOK, LandedFacts
<1>2. \A f \in sent : entries[f].kind = "remove" => entries[f].rule \in RuleIds
  BY <1>1 DEF IInv, LandedFacts
<1> QED
  BY <1>1, <1>2, LastingFacts

(* Steps that send nothing and neither submit, confirm nor attempt: new    *)
(* records are of fresh entries, which added no rule.                      *)
LEMMA CalmStep ==
  ASSUME IInv, RInv, Next, sent' = sent,
         records \subseteq records', \A e \in records' \ records : e \in EntryIds /\ ~Released(e),
         \A e \in EntryIds : /\ installs'[e].status # "none" <=> installs[e].status # "none"
                             /\ installs'[e].removalAttempted = installs[e].removalAttempted,
         tokens'["install"].held => \/ tokens'["install"] = tokens["install"]
                                    \/ tokens'["install"].entry \in records' \ records,
         \/ /\ task' = task /\ ambiguous' = ambiguous
            /\ tokens'["install"] = tokens["install"] \/ ~tokens'["install"].held
         \/ task'.step \in {"idle", "assembling", "verifying", "verifying_removal"}
  PROVE  RInv'
<1>1. Recorded' = Recorded /\ Recorded \subseteq EntryIds
  BY DEF Recorded
<1>2. ConfirmsOnce'
  BY <1>1 DEF RInv, ConfirmsOnce
<1>3. /\ \A f \in sent : /\ f \in EntryIds /\ entries'[f] = entries[f]
                         /\ entries[f].kind = "remove" => entries[f].rule \in RuleIds
      /\ \A f \in sent : entries[f].kind = "remove" /\ rules[entries[f].rule].by # 0 =>
           rules'[entries[f].rule].by = rules[entries[f].rule].by
  BY SentRemovals
<1>4. \A i \in RuleIds : rules[i].by # 0 => rules[i].by \in EntryIds /\ Released(rules[i].by)
  BY LedgerAssumption DEF IInv, TypeOK, NetworkTypeOK, Rule, EntryIds, RuleFacts, AddsRule, Released,
     LedgerAssumption
<1>5. ASSUME NEW f \in sent', entries'[f].kind = "remove"
      PROVE  LET e == rules'[entries'[f].rule].by IN
             /\ e # 0
             /\ e \in records' => /\ e \in Recorded' /\ installs'[e].removalAttempted
                                  /\ ~(task'.step = "removing" /\ task'.install = e)
  <2> DEFINE e == rules[entries[f].rule].by
  <2>1. f \in sent /\ entries[f].kind = "remove" /\ entries[f].rule \in RuleIds /\ e # 0
        /\ rules'[entries'[f].rule].by = e
    BY <1>3, <1>5 DEF RInv, RemovalAccount
  <2>2. e \in EntryIds /\ Released(e)
    BY <1>4, <2>1
  <2>3. e \in records' => /\ e \in Recorded /\ installs[e].removalAttempted
                          /\ ~(task.step = "removing" /\ task.install = e)
    BY <2>1, <2>2 DEF RInv, RemovalAccount
  <2> QED
    BY <1>1, <2>1, <2>2, <2>3
<1>6. task'.step = "removing" => installs'[task'.install].removalAttempted
  <2>1. task.step = "removing" => task.install \in EntryIds
    BY <1>1 DEF IInv, RemovalFacts
  <2> QED
    BY <2>1 DEF RInv, RemovalAccount
<1>7. task'.step = "polling_removal" => ambiguous'
  BY DEF RInv, RemovalAccount
<1>8. RemovalSentOnce'
  BY <1>3 DEF RInv, RemovalSentOnce
<1> QED
  BY <1>2, <1>5, <1>6, <1>7, <1>8 DEF RInv, RemovalAccount

(* The calm steps, one by one. *)
LEMMA CalmSteps ==
  ASSUME IInv, RInv, Next,
         \/ NetworkMoves
         \/ \E r \in ReviewIds : ReviewGrant(r) \/ CheckAccount(r) \/ PrepareLive(r) \/ Assemble(r)
         \/ ConsentLive \/ RunLive \/ ReleaseInstall \/ VerifyInstall \/ InstallRefused
         \/ \E e \in EntryIds : MonitorGrant(e) \/ PrepareRevoke(e)
         \/ ConfirmRemoval \/ VerifyRemoval \/ PrepareReplacement \/ ConfirmReplacement
  PROVE  RInv'
<1>0. /\ tokens \in [TokenKinds -> Token] /\ installs \in [EntryIds -> InstallRecord] /\ task \in Task
      /\ "install" \in TokenKinds /\ NoToken.held = FALSE /\ NoTokens["install"] = NoToken
  BY DEF IInv, TypeOK, TokenKinds, NoToken, NoTokens
<1>1. CASE NetworkMoves
  <2>1. sent' = sent
    BY <1>1 DEF NetworkMoves, World, Tick, OwnerElsewhere, Land
  <2>2. UNCHANGED <<records, installs, tokens, task, ambiguous>>
    BY <1>1 DEF NetworkMoves, backend
  <2> QED
    BY <2>1, <2>2, CalmStep
<1>2. ASSUME NEW r \in ReviewIds, ReviewGrant(r) \/ CheckAccount(r) \/ PrepareLive(r)
      PROVE  RInv'
  <2>1. UNCHANGED <<sent, records, installs, task, ambiguous>>
    BY <1>2 DEF ReviewGrant, CheckAccount, PrepareLive, network
  <2>2. tokens'["install"] = tokens["install"]
    BY <1>0, <1>2 DEF ReviewGrant, CheckAccount, PrepareLive
  <2> QED
    BY <2>1, <2>2, CalmStep
<1>3. ASSUME NEW r \in ReviewIds, Assemble(r) PROVE RInv'
  <2>1. UNCHANGED <<sent, records, installs, tokens>> /\ task'.step = "assembling"
    BY <1>3 DEF Assemble, network, Idle
  <2> QED
    BY <2>1, CalmStep
<1>4. CASE ConsentLive
  <2>1. UNCHANGED <<sent, installs, task, ambiguous>>
    BY <1>4 DEF ConsentLive
  <2>2. tokens'["install"] = tokens["install"]
    BY <1>0, <1>4 DEF ConsentLive
  <2>3. records \subseteq records' /\ \A e \in records' \ records : e \in EntryIds /\ ~Released(e)
    BY <1>4 DEF ConsentLive, Answers, FreshEntry
  <2> QED
    BY <2>1, <2>2, <2>3, CalmStep
<1>5. CASE RunLive
  <2>1. UNCHANGED <<sent, records, installs, task, ambiguous>>
    BY <1>5 DEF RunLive, network
  <2>2. tokens'["install"] = tokens["install"]
    BY <1>0, <1>5 DEF RunLive
  <2> QED
    BY <2>1, <2>2, CalmStep
<1>6. CASE ReleaseInstall
  <2>1. UNCHANGED <<sent, installs>> /\ task'.step = "idle"
    BY <1>6 DEF ReleaseInstall, Idle
  <2>2. PICK e \in EntryIds : /\ FreshEntry(e) /\ Answers(e)
                              /\ \E r : tokens' = [tokens EXCEPT !["install"] =
                                    [NoToken EXCEPT !.held = TRUE, !.review = r, !.entry = e]]
    BY <1>6 DEF ReleaseInstall
  <2>3. tokens'["install"].entry = e
    BY <1>0, <2>2 DEF NoToken
  <2>4. e \notin records
    BY <2>2 DEF FreshEntry, IInv, JournalFacts, AddsRule, Released
  <2>5. records' = records \cup {e} /\ ~Released(e)
    BY <2>2 DEF Answers, FreshEntry
  <2> QED
    BY <2>1, <2>3, <2>4, <2>5, CalmStep
<1>7. CASE VerifyInstall
  <2>1. UNCHANGED <<sent, records, tokens>> /\ task'.step = "idle"
    BY <1>7 DEF VerifyInstall, network, Idle
  <2>2. task.entry \in Recorded /\ task.entry \in EntryIds
    BY <1>7 DEF VerifyInstall, IInv, TaskFacts
  <2>3. \A e \in EntryIds : /\ installs'[e].status # "none" <=> installs[e].status # "none"
                            /\ installs'[e].removalAttempted = installs[e].removalAttempted
    BY <1>0, <1>7, <2>2 DEF VerifyInstall, InstallRecord, Recorded
  <2> QED
    BY <2>1, <2>3, CalmStep
<1>8. CASE InstallRefused
  <2>1. UNCHANGED <<sent, records, installs, tokens>> /\ task'.step = "idle"
    BY <1>8 DEF InstallRefused, network, Idle
  <2> QED
    BY <2>1, CalmStep
<1>9. ASSUME NEW e \in EntryIds, MonitorGrant(e) PROVE RInv'
  <2>1. UNCHANGED <<sent, records, tokens, task, ambiguous>>
    BY <1>9 DEF MonitorGrant, network
  <2>2. \A f \in EntryIds : /\ installs'[f].status # "none" <=> installs[f].status # "none"
                            /\ installs'[f].removalAttempted = installs[f].removalAttempted
    BY <1>0, <1>9 DEF MonitorGrant, InstallRecord
  <2> QED
    BY <2>1, <2>2, CalmStep
<1>10. ASSUME NEW e \in EntryIds, PrepareRevoke(e) PROVE RInv'
  <2>1. UNCHANGED <<sent, records, installs, task, ambiguous>>
    BY <1>10 DEF PrepareRevoke
  <2>2. tokens'["install"] = tokens["install"]
    BY <1>0, <1>10 DEF PrepareRevoke
  <2> QED
    BY <2>1, <2>2, CalmStep
<1>11. CASE ConfirmRemoval \/ VerifyRemoval
  <2>1. UNCHANGED <<sent, records, tokens>> /\ task'.step \in {"idle", "verifying_removal"}
    BY <1>0, <1>11 DEF ConfirmRemoval, VerifyRemoval, network, Idle, Task
  <2>2. \A f \in EntryIds : /\ installs'[f].status # "none" <=> installs[f].status # "none"
                            /\ installs'[f].removalAttempted = installs[f].removalAttempted
    BY <1>0, <1>11 DEF ConfirmRemoval, VerifyRemoval, InstallRecord
  <2> QED
    BY <2>1, <2>2, CalmStep
<1>12. CASE PrepareReplacement \/ ConfirmReplacement
  <2>1. UNCHANGED <<sent, records, installs, task, ambiguous>>
    BY <1>12 DEF PrepareReplacement, ConfirmReplacement, network
  <2>2. tokens'["install"] \in {tokens["install"], NoToken}
    BY <1>0, <1>12 DEF PrepareReplacement, ConfirmReplacement
  <2> QED
    BY <1>0, <2>1, <2>2, CalmStep
<1> QED
  BY <1>1, <1>2, <1>3, <1>4, <1>5, <1>6, <1>7, <1>8, <1>9, <1>10, <1>11, <1>12

(* submit takes the entry of the pending action into its handler; the send *)
(* is of an installation, and its receipt records it for the first time.   *)
LEMMA SubmittingSteps ==
  ASSUME IInv, RInv, Next, Submit \/ SendInstall \/ ConfirmInstall
  PROVE  RInv'
<1>0. /\ tokens \in [TokenKinds -> Token] /\ installs \in [EntryIds -> InstallRecord] /\ task \in Task
      /\ "install" \in TokenKinds /\ NoToken.held = FALSE
      /\ UNCHANGED <<records, entries, rules>>
  BY DEF IInv, TypeOK, TokenKinds, NoToken, Submit, SendInstall, ConfirmInstall, network
<1>1. CASE Submit
  <2>1. UNCHANGED <<sent, installs, ambiguous>> /\ task = Idle
        /\ tokens["install"].held /\ ~tokens'["install"].held
    BY <1>0, <1>1 DEF Submit, network
  <2>2. task' = task \/ (task'.step = "rechecking" /\ task'.entry = tokens["install"].entry)
    BY <1>1 DEF Submit, Idle
  <2>3. Recorded' = Recorded
    BY <2>1 DEF Recorded
  <2> QED
    BY <1>0, <2>1, <2>2, <2>3 DEF RInv, ConfirmsOnce, RemovalAccount, RemovalSentOnce, Idle
<1>2. CASE SendInstall
  <2>1. /\ task.step = "rechecking" /\ task'.step = "polling" /\ task'.entry = task.entry
        /\ installs' = installs /\ ~tokens'["install"].held
        /\ sent' \in {sent, sent \cup {task.entry}}
    BY <1>0, <1>2 DEF SendInstall, Sends, Task
  <2>2. Recorded' = Recorded
    BY <2>1 DEF Recorded
  <2>3. task.entry \in records \ Recorded
    BY <2>1 DEF RInv, ConfirmsOnce
  <2>4. entries[task.entry].kind # "remove"
    BY <2>3 DEF IInv, TypeOK, JournalFacts, AddsRule
  <2> QED
    BY <1>0, <2>1, <2>2, <2>3, <2>4 DEF RInv, ConfirmsOnce, RemovalAccount, RemovalSentOnce
<1>3. CASE ConfirmInstall
  <2> DEFINE e == task.entry
  <2>1. /\ task.step = "polling" /\ task'.step = "verifying" /\ UNCHANGED <<sent, tokens>>
    BY <1>0, <1>3 DEF ConfirmInstall, network, Task
  <2>2. e \in records \ Recorded /\ ~tokens["install"].held /\ e \in EntryIds
    BY <2>1 DEF RInv, ConfirmsOnce, IInv, TaskFacts
  <2>3. \A f \in EntryIds \ {e} : installs'[f] = installs[f]
    BY <1>0, <1>3 DEF ConfirmInstall
  <2>4. Recorded' \subseteq Recorded \cup {e} /\ Recorded \subseteq Recorded'
    BY <2>2, <2>3 DEF Recorded
  <2>5. Recorded \subseteq EntryIds
    BY DEF Recorded
  <2>6. ConfirmsOnce'
    BY <1>0, <2>1, <2>2, <2>4 DEF RInv, ConfirmsOnce
  <2>7. RemovalAccount'
    BY <1>0, <2>1, <2>2, <2>3, <2>4, <2>5 DEF RInv, RemovalAccount
  <2> QED
    BY <1>0, <2>1, <2>6, <2>7 DEF RInv, RemovalSentOnce
<1> QED
  BY <1>1, <1>2, <1>3

(* confirm-revoke marks the attempt before it sends, and takes the mark    *)
(* back only when nothing was sent.                                        *)
LEMMA RevokingSteps ==
  ASSUME IInv, RInv, Next, ConfirmRevoke \/ SendRemoval \/ RemovalFailed
  PROVE  RInv'
<1>0. /\ tokens \in [TokenKinds -> Token] /\ installs \in [EntryIds -> InstallRecord] /\ task \in Task
      /\ TokenKinds = {"live", "live_sign", "install", "revoke", "replacement"}
      /\ UNCHANGED <<records, entries, rules>>
  BY DEF IInv, TypeOK, TokenKinds, ConfirmRevoke, SendRemoval, RemovalFailed, network
<1>1. Recorded \subseteq EntryIds
  BY DEF Recorded
<1>2. \A e \in Recorded : rules[installs[e].rule].by = e
  BY DEF IInv, InstallFacts
<1>3. CASE ConfirmRevoke
  <2> DEFINE t == tokens["revoke"]
  <2>1. /\ task = Idle /\ UNCHANGED <<sent, ambiguous>> /\ t.held
        /\ tokens'["install"] = tokens["install"]
    BY <1>0, <1>3 DEF ConfirmRevoke, network
  <2>2. CASE UNCHANGED <<installs, task>>
    BY <1>0, <2>1, <2>2, CalmStep
  <2>3. CASE /\ ~installs[t.install].removalAttempted
             /\ installs' = [installs EXCEPT ![t.install].removalAttempted = TRUE]
             /\ task' = [Idle EXCEPT !.step = "removing", !.entry = t.entry, !.install = t.install]
    <3>1. t.install \in Recorded
      BY <2>1 DEF IInv, RemovalFacts
    <3>2. /\ \A f \in EntryIds : installs'[f].status = installs[f].status
          /\ \A f \in EntryIds \ {t.install} : installs'[f] = installs[f]
          /\ installs'[t.install].removalAttempted
      BY <1>0, <1>1, <2>3, <3>1 DEF InstallRecord
    <3>3. Recorded' = Recorded
      BY <3>2 DEF Recorded
    <3>4. task'.step = "removing" /\ task'.install = t.install
      BY <2>3 DEF Idle
    <3>5. \A f \in sent : entries[f].kind = "remove" => rules[entries[f].rule].by # t.install
      BY <2>3, <3>1 DEF RInv, RemovalAccount, ConfirmsOnce
    <3>6. ConfirmsOnce'
      BY <1>0, <2>1, <3>3, <3>4 DEF RInv, ConfirmsOnce
    <3>7. RemovalAccount'
      <4> HIDE DEF t
      <4> QED
        BY <1>0, <1>1, <2>1, <3>2, <3>3, <3>4, <3>5 DEF RInv, RemovalAccount
    <3> QED
      BY <1>0, <2>1, <3>6, <3>7 DEF RInv, RemovalSentOnce
  <2> QED
    BY <1>3, <2>2, <2>3 DEF ConfirmRevoke
<1>4. CASE SendRemoval
  <2> DEFINE e == task.install
  <2>1. /\ task.step = "removing" /\ task'.step = "polling_removal" /\ UNCHANGED <<installs, tokens>>
        /\ ambiguous' = TRUE /\ sent' \in {sent, sent \cup {task.entry}}
    BY <1>0, <1>4 DEF SendRemoval, Sends, Task
  <2>2. /\ e \in Recorded /\ entries[task.entry].rule = installs[e].rule
        /\ rules[entries[task.entry].rule].by = e
    BY <1>2, <2>1 DEF IInv, RemovalFacts
  <2>3. e \in records /\ e # 0 /\ installs[e].removalAttempted
    <3>1. e \in records
      BY <2>2 DEF RInv, ConfirmsOnce
    <3>2. e # 0
      BY <1>1, <2>2 DEF EntryIds
    <3>3. installs[e].removalAttempted
      BY <2>1 DEF RInv, RemovalAccount
    <3> QED
      BY <3>1, <3>2, <3>3
  <2>4. \A f \in sent : entries[f].kind = "remove" => entries[f].rule # entries[task.entry].rule
    BY <2>1, <2>2, <2>3 DEF RInv, RemovalAccount
  <2>5. Recorded' = Recorded
    BY <2>1 DEF Recorded
  <2>6. ConfirmsOnce'
    BY <1>0, <2>1, <2>5 DEF RInv, ConfirmsOnce
  <2>7. RemovalAccount'
    <3>1. \A f \in sent' : entries[f].kind = "remove" =>
            LET x == rules[entries[f].rule].by IN
            x # 0 /\ (x \in records => x \in Recorded /\ installs[x].removalAttempted)
      BY <2>1, <2>2, <2>3 DEF RInv, RemovalAccount
    <3> QED
      BY <1>0, <2>1, <2>5, <3>1 DEF RemovalAccount
  <2>8. RemovalSentOnce'
    BY <1>0, <2>1, <2>4 DEF RInv, RemovalSentOnce
  <2> QED
    BY <2>6, <2>7, <2>8 DEF RInv
<1>5. CASE RemovalFailed
  <2> DEFINE e == task.install
  <2>1. /\ task.step \in {"removing", "polling_removal"} /\ task'.step = "idle"
        /\ UNCHANGED <<sent, tokens, ambiguous>>
        /\ installs' = [installs EXCEPT ![e].removalAttempted = ~CanSubmit]
    BY <1>5 DEF RemovalFailed, network, Idle
  <2>2. e \in Recorded
    BY <2>1 DEF IInv, RemovalFacts
  <2>3. /\ \A f \in EntryIds : installs'[f].status = installs[f].status
        /\ \A f \in EntryIds \ {e} : installs'[f] = installs[f]
        /\ installs'[e].removalAttempted = ~CanSubmit
    BY <1>0, <1>1, <2>1, <2>2 DEF InstallRecord
  <2>4. Recorded' = Recorded
    BY <2>3 DEF Recorded
  <2>5. ConfirmsOnce'
    BY <1>0, <2>1, <2>4 DEF RInv, ConfirmsOnce
  <2>6. RemovalAccount'
    <3> HIDE DEF e
    <3>1. task.install = e
      BY DEF e
    <3> QED
      BY <1>0, <1>1, <2>1, <2>2, <2>3, <2>4, <3>1 DEF RInv, RemovalAccount, CanSubmit
  <2> QED
    BY <1>0, <2>1, <2>5, <2>6 DEF RInv, RemovalSentOnce
<1> QED
  BY <1>3, <1>4, <1>5

LEMMA NextRInv == IInv /\ RInv /\ [Next]_vars => RInv'
<1> SUFFICES ASSUME IInv, RInv, [Next]_vars PROVE RInv'
  OBVIOUS
<1>1. CASE Next
  <2>1. CASE Restart
    <3>1. /\ records' = {} /\ installs' = [e \in EntryIds |-> NoInstall] /\ tokens' = NoTokens
          /\ task' = Idle /\ UNCHANGED <<sent, entries, rules>>
      BY <2>1 DEF Restart, network
    <3>2. Recorded' = {} /\ ~tokens'["install"].held /\ task'.step = "idle"
      BY <3>1 DEF Recorded, NoInstall, NoTokens, NoToken, TokenKinds, Idle
    <3> QED
      BY <3>1, <3>2 DEF RInv, ConfirmsOnce, RemovalAccount, RemovalSentOnce
  <2>2. CASE Submit \/ SendInstall \/ ConfirmInstall
    BY <1>1, <2>2, SubmittingSteps
  <2>3. CASE ConfirmRevoke \/ SendRemoval \/ RemovalFailed
    BY <1>1, <2>3, RevokingSteps
  <2> QED
    BY <1>1, <2>1, <2>2, <2>3, CalmSteps DEF Next
<1>2. CASE UNCHANGED vars
  BY <1>2 DEF vars, network, backend, RInv, ConfirmsOnce, RemovalAccount, RemovalSentOnce, Recorded
<1> QED
  BY <1>1, <1>2

(* At most one removal of a rule is ever sent, over refusals, uncertain    *)
(* results, stale reads, new drafts and restarts of the backend.           *)
THEOREM RemovedOnce == Spec => []RemovalSentOnce
<1>1. Init => RInv
  <2> SUFFICES ASSUME Init PROVE RInv
    OBVIOUS
  <2>1. sent = {} /\ records = {} /\ Recorded = {} /\ ~tokens["install"].held /\ task.step = "idle"
    BY DEF Init, NetworkInit, FreshBackend, Recorded, NoInstall, NoTokens, NoToken, TokenKinds, Idle
  <2> QED
    BY <2>1 DEF RInv, ConfirmsOnce, RemovalAccount, RemovalSentOnce
<1>2. RInv => RemovalSentOnce
  BY DEF RInv
<1> QED
  BY <1>1, <1>2, NextRInv, Inductive, PTL DEF Spec

-----------------------------------------------------------------------------
(* The agent handoff *)


(* The pairing, connection, draft and receipts of one instant, in order:   *)
(* DraftAccounting with what a claim relies on, the draft's addressee.     *)
InOrder(pg, cn, pd, sn) ==
  /\ pg \in Pairings \cup {None}
  /\ cn \in Connections \cup {None}
  /\ pd \in Drafts \cup {None}
  /\ sn \in [Proposals -> Statuses]
  /\ pd # None =>
       /\ cn # None
       /\ pd.capability = cn.capability
       /\ pd.expires <= cn.expires
       /\ sn[pd.deliveryId] = "pending"
       /\ pd.wallet = cn.wallet /\ pd.delegate = cn.delegate
       /\ Grant[pd.deliveryId].account = ContractId[cn.wallet]
       /\ Grant[pd.deliveryId].delegate = cn.delegate
       /\ Grant[pd.deliveryId].max_calls <= MaxCalls
  /\ \A p \in Proposals : sn[p] = "pending" => pd # None /\ pd.deliveryId = p
  /\ cn = None => sn = NoReceipts
  /\ Cardinality(Receipts(sn)) <= MaxReceipts
  /\ cn # None => pg = None

HandoffInv ==
  /\ HandoffTypeOK
  /\ InOrder(pairing, connection, pending, seen)
  /\ ClaimsAuthentic
  /\ NoAgentDuringKeyCreation

LEMMA NoReceiptsCounted == Cardinality(Receipts(NoReceipts)) = 0
<1>1. Receipts(NoReceipts) = {}
  BY DEF Receipts, NoReceipts
<1> QED
  BY <1>1, FS_EmptySet

(* A status that moves from one value other than "none" to another leaves  *)
(* the number of receipts alone; a first receipt adds at most one.         *)
LEMMA ReceiptsCounted ==
  ASSUME NEW sn \in [Proposals -> Statuses], NEW p \in Proposals, NEW st \in Statuses \ {"none"}
  PROVE  /\ Cardinality(Receipts(sn)) \in Nat
         /\ LET n == Cardinality(Receipts([sn EXCEPT ![p] = st]))
            IN  n = IF sn[p] = "none" THEN Cardinality(Receipts(sn)) + 1
                                      ELSE Cardinality(Receipts(sn))
<1>1. IsFiniteSet(Receipts(sn))
  BY FS_Subset, HandoffAssumption DEF Receipts, HandoffAssumption
<1>2. Receipts([sn EXCEPT ![p] = st]) = Receipts(sn) \cup {p}
  BY DEF Receipts, Statuses
<1>3. p \in Receipts(sn) <=> sn[p] # "none"
  BY DEF Receipts
<1> QED
  BY <1>1, <1>2, <1>3, FS_AddElement, FS_CardinalityType

(* #expire() leaves the handoff in order.                                  *)
LEMMA LiveKeepsOrder ==
  ASSUME HandoffTypeOK, InOrder(pairing, connection, pending, seen)
  PROVE  InOrder(LivePairing, LiveConnection, LivePending, LiveSeen)
<1> USE HandoffAssumption DEF HandoffAssumption
<1>1. CASE ConnectionOver
  <2>1. NoReceipts \in [Proposals -> Statuses] /\ \A p \in Proposals : NoReceipts[p] # "pending"
    BY DEF NoReceipts, Statuses
  <2> QED
    BY <1>1, <2>1, NoReceiptsCounted
       DEF InOrder, LivePairing, LiveConnection, LivePending, LiveSeen
<1>2. CASE ~ConnectionOver /\ ~DraftOver
  BY <1>2 DEF InOrder, LivePairing, LiveConnection, LivePending, LiveSeen
<1>3. CASE ~ConnectionOver /\ DraftOver
  <2> DEFINE d == pending.deliveryId
  <2>1. pending # None /\ pending \in Drafts /\ d \in Proposals /\ seen[d] = "pending"
    BY <1>3 DEF DraftOver, InOrder, Drafts
  <2>2. /\ LivePairing \in {pairing, None} /\ LiveConnection = connection
        /\ LivePending = None /\ LiveSeen = [seen EXCEPT ![d] = "expired"]
    BY <1>3 DEF LivePairing, LiveConnection, LivePending, LiveSeen
  <2>3. seen \in [Proposals -> Statuses] /\ "expired" \in Statuses \ {"none"}
    BY DEF InOrder, Statuses
  <2>4. Cardinality(Receipts(LiveSeen)) = Cardinality(Receipts(seen))
    BY <2>1, <2>2, <2>3, ReceiptsCounted
  <2>5. LiveSeen \in [Proposals -> Statuses] /\ \A p \in Proposals : LiveSeen[p] # "pending"
    BY <2>1, <2>2, <2>3 DEF InOrder
  <2> QED
    BY <2>1, <2>2, <2>4, <2>5 DEF InOrder
<1> QED
  BY <1>1, <1>2, <1>3

LEMMA InitEstablishesIInv == HandoffInit => HandoffInv
<1> USE HandoffAssumption DEF HandoffAssumption
<1> SUFFICES ASSUME HandoffInit PROVE HandoffInv
  OBVIOUS
<1>1. HandoffTypeOK
  BY DEF HandoffInit, HandoffTypeOK, NoReceipts, Statuses, FreeSlot, Stages, Claims
<1>2. InOrder(pairing, connection, pending, seen)
  BY <1>1, NoReceiptsCounted DEF HandoffInit, InOrder, HandoffTypeOK, NoReceipts
<1> QED
  BY <1>1, <1>2 DEF HandoffInit, HandoffInv, ClaimsAuthentic, NoAgentDuringKeyCreation

(* What is common to the actions: the handoff stays in order because it is *)
(* left alone, only expires, or is cleared.                                *)
LEMMA QuietSteps ==
  ASSUME HandoffInv, UNCHANGED handoff \/ Expire \/ Disconnect
  PROVE  InOrder(pairing, connection, pending, seen)'
<1> USE HandoffAssumption DEF HandoffAssumption
<1>1. CASE UNCHANGED handoff
  BY <1>1 DEF handoff, HandoffInv, InOrder
<1>2. CASE Expire
  <2>1. InOrder(LivePairing, LiveConnection, LivePending, LiveSeen)
    BY LiveKeepsOrder DEF HandoffInv
  <2> QED
    BY <1>2, <2>1 DEF Expire, InOrder
<1>3. CASE Disconnect
  BY <1>3, NoReceiptsCounted DEF Disconnect, InOrder, NoReceipts, Statuses
<1> QED
  BY <1>1, <1>2, <1>3

(* claim and dismiss take the draft out of the inbox.                      *)
LEMMA SettleKeepsOrder ==
  ASSUME HandoffInv, NEW p \in Proposals, NEW outcome \in {"claimed", "dismissed"}, Settle(p, outcome)
  PROVE  InOrder(pairing, connection, pending, seen)'
<1> USE HandoffAssumption DEF HandoffAssumption
<1>1. InOrder(LivePairing, LiveConnection, LivePending, LiveSeen)
  BY LiveKeepsOrder DEF HandoffInv
<1>2. LiveSeen \in [Proposals -> Statuses] /\ LiveSeen[p] = "pending"
  BY <1>1 DEF InOrder, Settle
<1>3. outcome \in Statuses \ {"none"} /\ outcome # "pending"
  BY DEF Statuses
<1>4. Cardinality(Receipts(seen')) = Cardinality(Receipts(LiveSeen))
  <2>1. seen' = [LiveSeen EXCEPT ![p] = outcome]
    BY DEF Settle
  <2>2. Cardinality(Receipts([LiveSeen EXCEPT ![p] = outcome])) = Cardinality(Receipts(LiveSeen))
    BY <1>2, <1>3, ReceiptsCounted
  <2> QED
    BY <2>1, <2>2
<1>5. seen' \in [Proposals -> Statuses] /\ \A q \in Proposals : seen'[q] # "pending"
  BY <1>1, <1>2, <1>3 DEF Settle, InOrder
<1>6. pairing' = LivePairing /\ connection' = LiveConnection /\ pending' = None
  BY DEF Settle
<1>7. LiveConnection # None
  BY <1>1 DEF InOrder, Settle
<1> QED
  BY <1>1, <1>4, <1>5, <1>6, <1>7 DEF InOrder

(* Every step of the backend and of the agents keeps the inductive         *)
(* invariant: one case per action.                                         *)
THEOREM IInvInductive == HandoffInv /\ [HandoffNext]_handoffVars => HandoffInv'
<1> USE HandoffAssumption DEF HandoffAssumption
<1> SUFFICES ASSUME HandoffInv, [HandoffNext]_handoffVars PROVE HandoffInv'
  OBVIOUS
<1> DEFINE Order == InOrder(pairing, connection, pending, seen)
<1>a. HandoffTypeOK /\ Order /\ ClaimsAuthentic /\ NoAgentDuringKeyCreation
  BY DEF HandoffInv
<1>b. InOrder(LivePairing, LiveConnection, LivePending, LiveSeen)
  BY <1>a, LiveKeepsOrder
<1> USE DEF HandoffTypeOK, Stages
<1> HIDE DEF Order
<1>q. ASSUME Order', (HandoffTypeOK /\ ClaimsAuthentic /\ NoAgentDuringKeyCreation)'
      PROVE  HandoffInv'
  BY <1>q DEF HandoffInv, Order
<1>u. ASSUME UNCHANGED claims PROVE ClaimsAuthentic'
  BY <1>u, <1>a DEF ClaimsAuthentic
<1>h. ASSUME Order' PROVE /\ pairing' \in Pairings \cup {None} /\ connection' \in Connections \cup {None}
                         /\ pending' \in Drafts \cup {None} /\ seen' \in [Proposals -> Statuses]
  BY <1>h DEF Order, InOrder
<1>1. CASE UNCHANGED handoffVars
  <2>1. Order'
    BY <1>1, QuietSteps DEF handoffVars, handoff, Order
  <2> QED
    BY <1>1, <1>a, <1>q, <1>u, <2>1 DEF handoffVars, handoff, NoAgentDuringKeyCreation
<1>2. CASE ClockTicks
  <2>1. Order'
    BY <1>2, QuietSteps DEF ClockTicks, Order
  <2> QED
    BY <1>2, <1>a, <1>q, <1>u, <2>1 DEF ClockTicks, handoff, NoAgentDuringKeyCreation
<1>3. ASSUME NEW s \in Slots, AgentConnectArrives(s) PROVE HandoffInv'
  <2>1. Order'
    BY <1>3, QuietSteps DEF AgentConnectArrives, Order
  <2> QED
    BY <1>3, <1>a, <1>q, <1>u, <2>1
       DEF AgentConnectArrives, handoff, NoAgentDuringKeyCreation
<1>4. ASSUME NEW s \in Slots, AgentDropped(s) PROVE HandoffInv'
  <2>1. Order'
    BY <1>4, QuietSteps DEF AgentDropped, Order
  <2> QED
    BY <1>4, <1>a, <1>q, <1>u, <2>1
       DEF AgentDropped, ReleaseSlot, FreeSlot, handoff, NoAgentDuringKeyCreation
<1>5. ASSUME NEW s \in Slots, NEW id \in Ids, AgentProposalArrives(s, id) PROVE HandoffInv'
  <2>1. Order'
    BY <1>5, QuietSteps DEF AgentProposalArrives, Order
  <2>2. NoAgentDuringKeyCreation'
    BY <1>5, <1>a DEF AgentProposalArrives, Expire, LivePairing, LiveConnection, NoAgentDuringKeyCreation
  <2> QED
    BY <1>5, <1>a, <1>q, <1>u, <1>h, <2>1, <2>2 DEF AgentProposalArrives, Ids
<1>6. ASSUME NEW s \in Slots, NEW code \in Ids, AgentConnect(s, code) PROVE HandoffInv'
  <2> DEFINE pairs == LivePairing # None /\ LivePairing.code = code /\ request = "idle" /\ drawn < MaxIds
  <2>1. CASE ~pairs
    <3>1. Expire /\ UNCHANGED <<now, drawn, delegates, account, request, claims>>
      BY <1>6, <2>1 DEF AgentConnect
    <3>2. Order'
      BY <3>1, QuietSteps DEF Order
    <3>3. NoAgentDuringKeyCreation'
      BY <3>1, <1>a DEF Expire, LivePairing, LiveConnection, NoAgentDuringKeyCreation
    <3> QED
      BY <1>6, <3>1, <1>a, <1>q, <1>u, <1>h, <3>2, <3>3 DEF AgentConnect, ReleaseSlot, FreeSlot
  <2>2. CASE pairs
    <3>1. /\ pairing' = None /\ pending' = LivePending /\ seen' = LiveSeen
          /\ connection' = [capability |-> drawn + 1, wallet |-> LivePairing.wallet,
                            delegate |-> LivePairing.delegate, expires |-> now + ConnectionTTL]
          /\ UNCHANGED <<now, delegates, account, request, claims>>
          /\ drawn' = drawn + 1
      BY <1>6, <2>2 DEF AgentConnect
    <3>2. LivePairing \in Pairings /\ LiveConnection = None
      BY <1>b, <2>2 DEF InOrder
    <3>3. LivePending = None /\ LiveSeen = NoReceipts
      BY <1>b, <3>2 DEF InOrder
    <3>4. connection' \in Connections
      BY <3>1, <3>2, <1>a, <2>2 DEF Connections, Pairings, Ids
    <3>5. \A p \in Proposals : NoReceipts[p] = "none"
      BY DEF NoReceipts
    <3>6. Order'
      BY <3>1, <3>3, <3>4, <3>5, NoReceiptsCounted, <1>b DEF InOrder, Order
    <3> QED
      BY <1>6, <3>1, <1>a, <1>q, <1>u, <1>h, <3>6, <2>2
         DEF AgentConnect, ReleaseSlot, FreeSlot, NoAgentDuringKeyCreation
  <2> QED
    BY <2>1, <2>2
<1>7. ASSUME NEW s \in Slots, NEW p \in Proposals, AgentDeliver(s, p) PROVE HandoffInv'
  <2> DEFINE noted == Authorized(slots[s].capability) /\ Recordable(p)
  <2>0. UNCHANGED <<now, drawn, delegates, account, request, claims>> /\ request = "idle"
    BY <1>7 DEF AgentDeliver
  <2>1. Order'
    <3>1. CASE ~noted
      BY <1>7, <3>1, QuietSteps DEF AgentDeliver, Order
    <3>2. CASE noted
      <4>1. /\ pairing' = LivePairing /\ connection' = LiveConnection
            /\ pending' = [deliveryId |-> p, capability |-> slots[s].capability,
                           wallet |-> LiveConnection.wallet, delegate |-> LiveConnection.delegate,
                           expires |-> Earlier(now + DraftTTL, LiveConnection.expires)]
            /\ seen' = [LiveSeen EXCEPT ![p] = "pending"]
        BY <1>7, <3>2 DEF AgentDeliver
      <4>2. LiveConnection \in Connections /\ LiveConnection # None /\ LivePairing = None
            /\ slots[s].capability = LiveConnection.capability
        BY <1>b, <3>2 DEF InOrder, Authorized
      <4>3. pending' \in Drafts /\ pending' # None
        BY <4>1, <4>2, <1>a, NoneAssumption DEF Drafts, Connections, Earlier
      <4>4. LiveSeen \in [Proposals -> Statuses] /\ LiveSeen[p] = "none"
            /\ \A q \in Proposals : LiveSeen[q] # "pending"
        BY <1>b, <3>2 DEF InOrder, Recordable
      <4>5. seen' \in [Proposals -> Statuses] /\ seen'[p] = "pending"
            /\ \A q \in Proposals : seen'[q] = "pending" => q = p
        BY <4>1, <4>4 DEF Statuses
      <4>6. Cardinality(Receipts([LiveSeen EXCEPT ![p] = "pending"])) <= MaxReceipts
        <5>1. "pending" \in Statuses \ {"none"}
          BY DEF Statuses
        <5>2. /\ Cardinality(Receipts(LiveSeen)) \in Nat
              /\ Cardinality(Receipts([LiveSeen EXCEPT ![p] = "pending"]))
                   = Cardinality(Receipts(LiveSeen)) + 1
          BY <4>4, <5>1, ReceiptsCounted
        <5>3. Cardinality(Receipts(LiveSeen)) < MaxReceipts
          BY <3>2 DEF Recordable
        <5> QED
          BY <5>2, <5>3
      <4>7. Cardinality(Receipts(seen')) <= MaxReceipts
        BY <4>1, <4>6
      <4>8. /\ pending'.deliveryId = p /\ pending'.capability = connection'.capability
            /\ pending'.expires <= connection'.expires
            /\ pending'.wallet = connection'.wallet /\ pending'.delegate = connection'.delegate
        BY <4>1, <4>2, <1>a DEF Earlier, Connections
      <4>9. /\ Grant[p].account = ContractId[connection'.wallet]
            /\ Grant[p].delegate = connection'.delegate
            /\ Grant[p].max_calls <= MaxCalls
        BY <4>1, <3>2 DEF Recordable, Acceptable
      <4> QED
        BY <4>1, <4>2, <4>3, <4>5, <4>7, <4>8, <4>9 DEF Order, InOrder
    <3> QED
      BY <3>1, <3>2
  <2> QED
    BY <1>7, <2>0, <1>a, <1>q, <1>u, <1>h, <2>1
       DEF AgentDeliver, ReleaseSlot, FreeSlot, NoAgentDuringKeyCreation
<1>8. CASE WalletArrives \/ WalletDropped
  <2>1. Order'
    BY <1>8, QuietSteps DEF WalletArrives, WalletDropped, Order
  <2> QED
    BY <1>8, <1>a, <1>q, <1>u, <2>1
       DEF WalletArrives, WalletDropped, handoff, NoAgentDuringKeyCreation
<1>9. CASE WalletReads \/ DisconnectAgent
  <2>1. Order'
    BY <1>9, QuietSteps DEF WalletReads, DisconnectAgent, Order
  <2> QED
    BY <1>9, <1>a, <1>q, <1>u, <1>h, <2>1
       DEF WalletReads, DisconnectAgent, NoAgentDuringKeyCreation
<1>10. ASSUME NEW w \in Wallets, NEW d \in Delegates, PairAgent(w, d) PROVE HandoffInv'
  <2>1. pairing' \in Pairings /\ connection' = None /\ pending' = None /\ seen' = NoReceipts
    BY <1>10, <1>a DEF PairAgent, Pairings, Ids
  <2>2. NoReceipts \in [Proposals -> Statuses] /\ \A p \in Proposals : NoReceipts[p] = "none"
    BY DEF NoReceipts, Statuses
  <2>3. Order'
    BY <2>1, <2>2, NoReceiptsCounted DEF InOrder, Order
  <2> QED
    BY <1>10, <1>a, <1>q, <1>u, <1>h, <2>3 DEF PairAgent, NoAgentDuringKeyCreation
<1>11. CASE PrepareAccount \/ ConfirmAccount
  <2>1. Order'
    BY <1>11, QuietSteps DEF PrepareAccount, ConfirmAccount, Order
  <2>2. NoAgentDuringKeyCreation'
    BY <1>11 DEF PrepareAccount, ConfirmAccount, Expire, Unpaired, NoAgentDuringKeyCreation
  <2> QED
    BY <1>11, <1>a, <1>q, <1>u, <1>h, <2>1, <2>2 DEF PrepareAccount, ConfirmAccount
<1>12. ASSUME NEW d \in Delegates, CreateDelegate(d) PROVE HandoffInv'
  <2>1. Order'
    BY <1>12, QuietSteps DEF CreateDelegate, Order
  <2>2. NoAgentDuringKeyCreation'
    BY <1>12 DEF CreateDelegate, Expire, Unpaired, NoAgentDuringKeyCreation
  <2> QED
    BY <1>12, <1>a, <1>q, <1>u, <1>h, <2>1, <2>2 DEF CreateDelegate
<1>13. CASE HandlerEnds
  <2>1. Order'
    BY <1>13, QuietSteps DEF HandlerEnds, Order
  <2> QED
    BY <1>13, <1>a, <1>q, <1>u, <2>1 DEF HandlerEnds, handoff, NoAgentDuringKeyCreation
<1>14. ASSUME NEW p \in Proposals, DismissProposal(p) PROVE HandoffInv'
  <2>1. Order'
    BY <1>14, SettleKeepsOrder DEF DismissProposal, Order
  <2> QED
    BY <1>14, <1>a, <1>q, <1>u, <1>h, <2>1 DEF DismissProposal, NoAgentDuringKeyCreation
<1>15. ASSUME NEW p \in Proposals, NEW w \in Wallets, NEW d \in Delegates, ReviewProposal(p, w, d)
       PROVE  HandoffInv'
  <2>1. Order'
    BY <1>15, SettleKeepsOrder DEF ReviewProposal, Order
  <2>2. /\ LivePending # None /\ LivePending \in Drafts /\ LivePending.deliveryId = p
        /\ LiveConnection.wallet = w /\ LiveConnection.delegate = d /\ LiveConnection # None
    BY <1>15, <1>b DEF ReviewProposal, Settle, InOrder
  <2>3. now < LivePending.expires
    BY <2>2, <1>a DEF LivePending, DraftOver, Drafts
  <2> DEFINE new == [draft |-> LivePending, wallet |-> w, delegate |-> d, at |-> now]
  <2>4. claims' = claims \cup {new} /\ new \in Claims
    BY <1>15, <2>2, <1>a DEF ReviewProposal, Claims
  <2>5. /\ new.wallet = new.draft.wallet /\ new.delegate = new.draft.delegate
        /\ Grant[new.draft.deliveryId].account = ContractId[new.wallet]
        /\ Grant[new.draft.deliveryId].delegate = new.delegate
        /\ Grant[new.draft.deliveryId].max_calls <= MaxCalls
        /\ new.at < new.draft.expires
    BY <2>2, <2>3, <1>b DEF InOrder
  <2>6. ClaimsAuthentic'
    BY <2>4, <2>5, <1>a DEF ClaimsAuthentic
  <2> QED
    BY <1>15, <1>a, <1>q, <1>h, <2>1, <2>4, <2>6 DEF ReviewProposal, NoAgentDuringKeyCreation
<1> QED
  BY <1>1, <1>2, <1>3, <1>4, <1>5, <1>6, <1>7, <1>8, <1>9, <1>10, <1>11, <1>12, <1>13, <1>14, <1>15
     DEF HandoffNext, WalletStep, AgentStep

(* Types, and the order of drafts, receipts and claims, hold always.       *)
THEOREM HandoffSafe ==
  HandoffSpec => [](HandoffTypeOK /\ DraftAccounting /\ ClaimsAuthentic /\ NoAgentDuringKeyCreation)
<1>1. HandoffInv => HandoffTypeOK /\ DraftAccounting /\ ClaimsAuthentic /\ NoAgentDuringKeyCreation
  BY DEF HandoffInv, InOrder, DraftAccounting
<1> QED
  BY <1>1, InitEstablishesIInv, IInvInductive, PTL DEF HandoffSpec

Outcomes == {"claimed", "dismissed", "expired"}

(* While a connection goes on, #expire() leaves every outcome as it is: it *)
(* only writes the receipt of the waiting draft, which has none yet.       *)
LEMMA LiveKeepsOutcomes ==
  ASSUME HandoffInv, connection # None, LiveConnection = connection,
         NEW p \in Proposals, seen[p] \in Outcomes
  PROVE  LiveSeen[p] = seen[p]
<1>1. ~ConnectionOver
  BY DEF LiveConnection
<1>2. CASE ~DraftOver
  BY <1>1, <1>2 DEF LiveSeen
<1>3. CASE DraftOver
  <2>1. pending # None /\ seen \in [Proposals -> Statuses] /\ seen[pending.deliveryId] = "pending"
    BY <1>3 DEF DraftOver, HandoffInv, InOrder
  <2>2. pending.deliveryId # p
    BY <2>1 DEF Outcomes
  <2> QED
    BY <1>1, <1>3, <2>1, <2>2 DEF LiveSeen
<1> QED
  BY <1>2, <1>3

(* A step under one connection writes no receipt that has an outcome: only *)
(* a delivery, whose receipt was none, and a settlement, whose receipt was *)
(* pending, write one.                                                     *)
LEMMA StepKeepsOutcomes ==
  ASSUME HandoffInv, HandoffNext, connection # None, connection' = connection,
         NEW p \in Proposals, seen[p] \in Outcomes
  PROVE  seen'[p] = seen[p]
<1>a. InOrder(LivePairing, LiveConnection, LivePending, LiveSeen)
  BY LiveKeepsOrder DEF HandoffInv
<1>b. pairing = None
  BY DEF HandoffInv, InOrder
<1>e. ASSUME Expire PROVE seen'[p] = seen[p]
  BY <1>e, LiveKeepsOutcomes DEF Expire
<1>1. CASE UNCHANGED handoff
  BY <1>1 DEF handoff
<1>2. ASSUME NEW s \in Slots, NEW id \in Ids, AgentProposalArrives(s, id) PROVE seen'[p] = seen[p]
  BY <1>2, <1>e DEF AgentProposalArrives
<1>3. ASSUME NEW s \in Slots, NEW code \in Ids, AgentConnect(s, code) PROVE seen'[p] = seen[p]
  <2>1. LivePairing = None
    BY <1>b DEF LivePairing
  <2> QED
    BY <1>3, <2>1, <1>e DEF AgentConnect
<1>4. ASSUME NEW s \in Slots, NEW q \in Proposals, AgentDeliver(s, q) PROVE seen'[p] = seen[p]
  <2>1. CASE Authorized(slots[s].capability) /\ Recordable(q)
    <3>1. connection' = LiveConnection /\ seen' = [LiveSeen EXCEPT ![q] = "pending"]
      BY <1>4, <2>1 DEF AgentDeliver
    <3>2. LiveSeen[p] = seen[p]
      BY <3>1, LiveKeepsOutcomes
    <3>3. LiveSeen \in [Proposals -> Statuses] /\ LiveSeen[q] = "none"
      BY <1>a, <2>1 DEF InOrder, Recordable
    <3> QED
      BY <3>1, <3>2, <3>3 DEF Outcomes
  <2>2. CASE ~(Authorized(slots[s].capability) /\ Recordable(q))
    BY <1>4, <2>2, <1>e DEF AgentDeliver
  <2> QED
    BY <2>1, <2>2
<1>5. ASSUME NEW q \in Proposals, NEW outcome, Settle(q, outcome) PROVE seen'[p] = seen[p]
  <2>1. connection' = LiveConnection /\ seen' = [LiveSeen EXCEPT ![q] = outcome]
    BY <1>5 DEF Settle
  <2>2. LiveSeen[p] = seen[p]
    BY <2>1, LiveKeepsOutcomes
  <2>3. LiveSeen \in [Proposals -> Statuses] /\ LiveSeen[q] = "pending"
    BY <1>5, <1>a DEF InOrder, Settle
  <2> QED
    BY <2>1, <2>2, <2>3 DEF Outcomes
<1>6. CASE WalletReads \/ PrepareAccount \/ ConfirmAccount
  BY <1>6, <1>e DEF WalletReads, PrepareAccount, ConfirmAccount
<1>7. ASSUME NEW d \in Delegates, CreateDelegate(d) PROVE seen'[p] = seen[p]
  BY <1>7, <1>e DEF CreateDelegate
<1>8. ASSUME NEW q \in Proposals, DismissProposal(q) PROVE seen'[p] = seen[p]
  BY <1>8, <1>5 DEF DismissProposal
<1>9. ASSUME NEW q \in Proposals, NEW w \in Wallets, NEW d \in Delegates, ReviewProposal(q, w, d)
      PROVE  seen'[p] = seen[p]
  BY <1>9, <1>5 DEF ReviewProposal
<1>10. CASE ClockTicks \/ WalletArrives \/ WalletDropped \/ HandlerEnds
            \/ \E s \in Slots : AgentConnectArrives(s) \/ AgentDropped(s)
  BY <1>10, <1>1 DEF ClockTicks, WalletArrives, WalletDropped, HandlerEnds, AgentConnectArrives, AgentDropped
<1>11. CASE DisconnectAgent \/ \E w \in Wallets, d \in Delegates : PairAgent(w, d)
  BY <1>11 DEF DisconnectAgent, Disconnect, PairAgent
<1> QED
  BY <1>2, <1>3, <1>4, <1>6, <1>7, <1>8, <1>9, <1>10, <1>11 DEF HandoffNext, WalletStep, AgentStep

(* An outcome is final for as long as its connection lasts: no retry, no   *)
(* expiry and no other request puts a settled draft back into the inbox.   *)
THEOREM OutcomesAreFinal == HandoffSpec => OutcomeFinal
<1>1. HandoffInv /\ [HandoffNext]_handoffVars =>
        [\A p \in Proposals :
           (/\ connection # None /\ connection' = connection
            /\ seen[p] \in {"claimed", "dismissed", "expired"}) => seen'[p] = seen[p]]_handoffVars
  BY StepKeepsOutcomes DEF Outcomes
<1> QED
  BY <1>1, InitEstablishesIInv, IInvInductive, PTL DEF HandoffSpec, OutcomeFinal

=============================================================================
