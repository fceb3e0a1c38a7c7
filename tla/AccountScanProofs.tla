-------------------------- MODULE AccountScanProofs --------------------------
(***************************************************************************)
(* AcceptedIsOneLedger for every account, endpoint and bound.              *)
(***************************************************************************)
EXTENDS AccountScan, FiniteSetTheorems, TLAPS

\* Some of the entries of s, unchanged.
Part(f, s) == DOMAIN f \subseteq DOMAIN s /\ \A k \in DOMAIN f : f[k] = s[k]

\* What AccountsAssumption says of a store.
IsAccount(s) ==
    /\ DOMAIN s \subseteq Keys
    /\ Instance \in DOMAIN s =>
           /\ s[Instance].val.next \in Nat
           /\ s[Instance].val.count = Cardinality(SlotKeys(s) \cap DOMAIN s)
           /\ \A k \in SlotKeys(s) \cap DOMAIN s : s[k].val.entries \subseteq Entries
    /\ \A k \in Entries \cap DOMAIN s : s[k].val.names \subseteq Leaves

RulesOK(f) == \A k \in SlotKeys(f) : ~Archived(f, k)

\* A set of entries that passes every check.
Checked(f) ==
    /\ Present(f, Instance) /\ RulesOK(f)
    /\ \A k \in EntryKeys(f) : Present(f, k)
    /\ \A k \in LeafKeys(f) \cap Contracts : Present(f, k)
    /\ Reconciled(f)

\* A part of an account that passes every check holds the account's whole
\* closure: the stored count leaves no room for a missing rule.
LEMMA CheckedIsWhole ==
    ASSUME NEW f, NEW s, IsAccount(s), Part(f, s), Checked(f)
    PROVE  /\ ClosureKeys(f) = ClosureKeys(s)
           /\ ClosureKeys(s) \cap DOMAIN s \subseteq DOMAIN f \cup Classics
           /\ Whole(s)
<1>1. Instance \in DOMAIN f /\ f[Instance] = s[Instance] /\ Instance \in DOMAIN s
  BY DEF Part, Checked, Present
<1>2. SlotKeys(f) = SlotKeys(s)
  BY <1>1 DEF SlotKeys
<1> DEFINE rf == SlotKeys(f) \cap DOMAIN f
           rs == SlotKeys(s) \cap DOMAIN s
<1>3. rf = rs
  <2>1. rf \in SUBSET rs
    BY <1>2 DEF Part
  <2>2. IsFiniteSet(rs)
    BY KeyKinds, FS_Subset DEF IsAccount
  <2>3. Cardinality(rs) = Cardinality(rf)
    BY <1>1 DEF IsAccount, Checked, Reconciled
  <2> QED BY <2>1, <2>2, <2>3, FS_Subset
<1>4. \A k \in rf : f[k] = s[k]
  BY DEF Part
<1>5. EntryKeys(f) = EntryKeys(s)
  BY <1>3, <1>4 DEF EntryKeys
<1>6. \A k \in EntryKeys(s) : k \in DOMAIN f /\ k \in DOMAIN s /\ f[k] = s[k]
  BY <1>5 DEF Checked, Present, Part
<1>7. LeafKeys(f) = LeafKeys(s)
  BY <1>5, <1>6 DEF LeafKeys
<1>8. ClosureKeys(f) = ClosureKeys(s)
  BY <1>2, <1>5, <1>7 DEF ClosureKeys
<1>9. EntryKeys(s) \subseteq Entries
  BY <1>1 DEF EntryKeys, IsAccount
<1>10. LeafKeys(s) \subseteq Leaves
  BY <1>6, <1>9, KeyKinds DEF LeafKeys, IsAccount
<1>11. ClosureKeys(s) \cap DOMAIN s \subseteq DOMAIN f \cup Classics
  <2> SUFFICES ASSUME NEW k \in ClosureKeys(s), k \in DOMAIN s, k \notin Classics
              PROVE  k \in DOMAIN f
    OBVIOUS
  <2>1. CASE k = Instance
    BY <2>1, <1>1
  <2>2. CASE k \in SlotKeys(s)
    BY <2>2, <1>3
  <2>3. CASE k \in EntryKeys(s)
    BY <2>3, <1>6
  <2>4. CASE k \in LeafKeys(s)
    BY <2>4, <1>7, <1>10 DEF Checked, Present, Leaves
  <2> QED BY <2>1, <2>2, <2>3, <2>4 DEF ClosureKeys
<1>12. Whole(s)
  <2>1. Present(s, Instance)
    BY <1>1 DEF Checked, Present
  <2>2. \A k \in SlotKeys(s) : ~Archived(s, k)
    <3> SUFFICES ASSUME NEW k \in SlotKeys(s), k \in DOMAIN s PROVE s[k].live
      BY DEF Archived
    <3>1. k \in rf
      BY <1>3
    <3> QED BY <3>1, <1>4 DEF Checked, RulesOK, Archived
  <2>3. \A k \in EntryKeys(s) : Present(s, k)
    BY <1>5, <1>6 DEF Checked, Present
  <2>4. \A k \in LeafKeys(s) \cap Contracts : Present(s, k)
    BY <1>7 DEF Checked, Present, Part
  <2>5. Reconciled(s)
    <3>1. s[Instance].val.count = Cardinality(rs)
      BY <1>1 DEF IsAccount
    <3>2. ASSUME NEW e \in EntryKeys(s)
          PROVE  s[e].val.refs = Cardinality({k \in rs : e \in s[k].val.entries})
      <4>1. {k \in rs : e \in s[k].val.entries} = {k \in rf : e \in f[k].val.entries}
        BY <1>3, <1>4
      <4>2. f[e].val.refs = Cardinality({k \in rf : e \in f[k].val.entries})
        BY <1>5 DEF Checked, Reconciled
      <4> QED BY <4>1, <4>2, <1>6
    <3> QED BY <3>1, <3>2 DEF Reconciled
  <2> QED BY <2>1, <2>2, <2>3, <2>4, <2>5 DEF Whole
<1> QED BY <1>8, <1>11, <1>12

-----------------------------------------------------------------------------
(***************************************************************************)
(* Facts about responses and about pages that are put together.            *)
(***************************************************************************)

RuleKeys == {Rule[i] : i \in Slots}

\* A response holds entries of the ledger it reports, of the keys asked for.
LEMMA ResponseIsPart ==
    ASSUME NEW asked, NEW r \in Responses(asked)
    PROVE  /\ r.ledger \in 1 .. Len(chain)
           /\ Part(r.found, chain[r.ledger]) /\ DOMAIN r.found \subseteq asked
<1>1. PICK l \in 1 .. Len(chain), o \in SUBSET asked : r = Answer(asked, l, o)
  BY DEF Responses
<1> QED BY <1>1 DEF Part, Only, Answer

\* The kinds of the keys a part of an account names.
LEMMA NamedKinds ==
    ASSUME NEW f, NEW s, IsAccount(s), Part(f, s), Instance \in DOMAIN f,
           NEW b \in Bounds, f[Instance].val.next <= b.ids
    PROVE  /\ SlotKeys(f) \subseteq RuleKeys
           /\ EntryKeys(f) \subseteq Entries
           /\ LeafKeys(f) \subseteq Leaves
<1>1. f[Instance] = s[Instance] /\ Instance \in DOMAIN s /\ SlotKeys(f) = SlotKeys(s)
  BY DEF Part, SlotKeys
<1>2. f[Instance].val.next \in Nat
  BY <1>1 DEF IsAccount
<1>3. b.ids \in Nat /\ b.ids - 1 \in Slots
  BY BoundsAssumption
<1>4. Cardinality(Slots) \in Nat /\ Slots = 0 .. Cardinality(Slots) - 1
  BY KeyKinds, FS_CardinalityType
<1>5. 0 .. f[Instance].val.next - 1 \subseteq Slots
  BY <1>2, <1>3, <1>4
<1>6. SlotKeys(f) \subseteq RuleKeys
  BY <1>5 DEF SlotKeys, RuleKeys
<1>7. EntryKeys(f) \subseteq Entries
  BY <1>1 DEF EntryKeys, IsAccount, Part
<1>8. LeafKeys(f) \subseteq Leaves
  BY <1>7, KeyKinds DEF LeafKeys, IsAccount, Part
<1> QED BY <1>6, <1>7, <1>8

\* Two parts of one store put together.
LEMMA MergeIsPart ==
    ASSUME NEW f, NEW g, NEW s, Part(f, s), Part(g, s)
    PROVE  /\ Part(Merge(f, g), s)
           /\ DOMAIN Merge(f, g) = DOMAIN f \cup DOMAIN g
           /\ \A k \in DOMAIN f : Merge(f, g)[k] = f[k]
           /\ \A k \in DOMAIN g : Merge(f, g)[k] = g[k]
BY DEF Merge, Part

\* Entries that are no rules leave the rules and what they name as they are.
LEMMA SameRules ==
    ASSUME NEW f, NEW h, NEW s, Part(f, s), Part(h, s), Instance \in DOMAIN f,
           DOMAIN f \subseteq DOMAIN h, SlotKeys(f) \cap DOMAIN h \subseteq DOMAIN f
    PROVE  /\ SlotKeys(h) = SlotKeys(f)
           /\ SlotKeys(h) \cap DOMAIN h = SlotKeys(f) \cap DOMAIN f
           /\ EntryKeys(h) = EntryKeys(f)
           /\ RulesOK(f) => RulesOK(h)
<1>1. \A k \in DOMAIN f : h[k] = f[k]
  BY DEF Part
<1>2. SlotKeys(h) = SlotKeys(f)
  BY <1>1 DEF SlotKeys
<1>3. SlotKeys(h) \cap DOMAIN h = SlotKeys(f) \cap DOMAIN f
  BY <1>2
<1>4. EntryKeys(h) = EntryKeys(f)
  BY <1>1, <1>3 DEF EntryKeys
<1>5. RulesOK(f) => RulesOK(h)
  BY <1>1, <1>2, <1>3 DEF RulesOK, Archived
<1> QED BY <1>2, <1>3, <1>4, <1>5

\* With all signers and policies read, what they name stays as it is as well.
LEMMA SameLeaves ==
    ASSUME NEW f, NEW h, NEW s, Part(f, s), Part(h, s), Instance \in DOMAIN f,
           DOMAIN f \subseteq DOMAIN h, SlotKeys(f) \cap DOMAIN h \subseteq DOMAIN f,
           EntryKeys(f) \subseteq DOMAIN f
    PROVE  /\ LeafKeys(h) = LeafKeys(f)
           /\ Reconciled(f) => Reconciled(h)
<1>1. \A k \in DOMAIN f : h[k] = f[k]
  BY DEF Part
<1>2. /\ SlotKeys(h) \cap DOMAIN h = SlotKeys(f) \cap DOMAIN f
      /\ EntryKeys(h) = EntryKeys(f)
  BY SameRules
<1>3. LeafKeys(h) = LeafKeys(f)
  BY <1>1, <1>2 DEF LeafKeys
<1>4. ASSUME Reconciled(f) PROVE Reconciled(h)
  <2>1. h[Instance].val.count = Cardinality(SlotKeys(h) \cap DOMAIN h)
    BY <1>1, <1>2, <1>4 DEF Reconciled
  <2>2. ASSUME NEW e \in EntryKeys(h)
        PROVE  h[e].val.refs
                 = Cardinality({k \in SlotKeys(h) \cap DOMAIN h : e \in h[k].val.entries})
    <3>1. {k \in SlotKeys(h) \cap DOMAIN h : e \in h[k].val.entries}
            = {k \in SlotKeys(f) \cap DOMAIN f : e \in f[k].val.entries}
      BY <1>1, <1>2
    <3>2. f[e].val.refs = Cardinality({k \in SlotKeys(f) \cap DOMAIN f : e \in f[k].val.entries})
      BY <1>2, <1>4 DEF Reconciled
    <3> QED BY <1>1, <1>2, <3>1, <3>2
  <2> QED BY <2>1, <2>2 DEF Reconciled
<1> QED BY <1>3, <1>4

\* A response that passes derive and names nothing outside its request.
LEMMA ClosedIsChecked ==
    ASSUME NEW f, NEW asked, NEW b, derive(f, asked, b) = "none", ClosureKeys(f) \subseteq asked
    PROVE  Checked(f)
<1>1. /\ InstanceError(f, b) = "none" /\ RulesError(f, asked) = "none"
      /\ EntriesError(f, asked) = "none" /\ CountsError(f, asked) = "none"
      /\ CodeError(f, asked) = "none"
  BY DEF derive, \oplus
<1>2. Present(f, Instance)
  BY <1>1 DEF InstanceError
<1>3. RulesOK(f)
  BY <1>1 DEF RulesError, RulesOK, ClosureKeys
<1>4. \A k \in EntryKeys(f) : Present(f, k)
  BY <1>1 DEF EntriesError, ClosureKeys
<1>5. \A k \in LeafKeys(f) \cap Contracts : Present(f, k)
  BY <1>1 DEF CodeError, ClosureKeys
<1>6. Reconciled(f)
  BY <1>1 DEF CountsError, ClosureKeys
<1> QED BY <1>2, <1>3, <1>4, <1>5, <1>6 DEF Checked

\* Only the entries of the closure count.
LEMMA ClosureSuffices ==
    ASSUME NEW f, NEW s, Part(f, s), Instance \in DOMAIN f
    PROVE  LET h == Only(f, ClosureKeys(f) \cap DOMAIN f)
           IN  /\ Part(h, s) /\ DOMAIN h \subseteq ClosureKeys(f)
               /\ \A k \in ClosureKeys(f) \cap DOMAIN f : k \in DOMAIN h
BY DEF Only, Part

-----------------------------------------------------------------------------
(***************************************************************************)
(* The inductive invariant: every ledger's store is an account, and what a *)
(* staged read has so far is a part of the one store of its ledger that    *)
(* passed the checks of the stages behind it.                              *)
(***************************************************************************)

ChainOK ==
    /\ \E S : chain \in Seq(S)
    /\ \A l \in 1 .. Len(chain) : IsAccount(chain[l])

\* The instance is read and the stages after it are not over.
PastInstance ==
    \/ phase = "instance" /\ request = {}
    \/ phase \in {"rules", "entries", "code", "classic", "last"}

PartOfLedger ==
    PastInstance =>
        /\ ledger \in 1 .. Len(chain) /\ Part(found, chain[ledger])
        /\ Present(found, Instance) /\ found[Instance].val.next <= bounds.ids
        /\ RulesOK(found) /\ DOMAIN found \subseteq ClosureKeys(found)

Stages ==
    /\ phase = "round" => found = NoEntries
    /\ phase = "instance" /\ request # {} => found = NoEntries /\ request = {Instance}
    /\ phase = "instance" /\ request = {} => DOMAIN found = {Instance}
    /\ phase = "rules" =>
           /\ request \subseteq SlotKeys(found)
           /\ DOMAIN found \subseteq {Instance} \cup SlotKeys(found)
    /\ phase = "entries" =>
           /\ request \subseteq EntryKeys(found)
           /\ DOMAIN found \subseteq {Instance} \cup SlotKeys(found) \cup EntryKeys(found)
           /\ \A k \in EntryKeys(found) \ request : Present(found, k)
    /\ phase \in {"code", "classic", "last"} =>
           /\ \A k \in EntryKeys(found) : Present(found, k)
           /\ Reconciled(found)
    /\ phase = "code" =>
           /\ request \subseteq LeafKeys(found) \cap Contracts
           /\ \A k \in (LeafKeys(found) \cap Contracts) \ request : Present(found, k)
    /\ phase = "classic" => request \subseteq LeafKeys(found) \cap Classics
    /\ phase \in {"classic", "last"} =>
           \A k \in LeafKeys(found) \cap Contracts : Present(found, k)

IInv ==
    /\ ChainOK /\ bounds \in Bounds
    /\ phase # "done" => outcome = "none"
    /\ PartOfLedger /\ Stages
    /\ outcome = "ok" => ledger \in 1 .. Len(chain) /\ AcceptedIsOneLedger

\* A store from Accounts is an account, whatever its last_modified ledgers.
LEMMA StoreIsAccount ==
    ASSUME NEW s \in Accounts, NEW t, DOMAIN t = DOMAIN s,
           \A k \in DOMAIN s : t[k].val = s[k].val
    PROVE  IsAccount(t)
<1>1. Instance \in DOMAIN s => SlotKeys(t) = SlotKeys(s)
  BY DEF SlotKeys
<1> QED BY <1>1, AccountsAssumption DEF IsAccount

\* No check answers "ok".
LEMMA ErrorsAreErrors ==
    /\ \A f, asked, b : derive(f, asked, b) # "ok"
    /\ \A f, asked : PageError(f, asked) # "ok"
    /\ \A f, b : IdsError(f, b) # "ok" /\ ClassicIdsError(f, b) # "ok"
    /\ \A f, asked, b : (CountsError(f, asked) \oplus CodeIdsError(f, b)) # "ok"
<1>1. \A f, b : InstanceError(f, b) # "ok"
  BY DEF InstanceError
<1>2. \A f, asked : RulesError(f, asked) # "ok" /\ EntriesError(f, asked) # "ok"
                    /\ CountsError(f, asked) # "ok" /\ CodeError(f, asked) # "ok"
  BY DEF RulesError, EntriesError, CountsError, CodeError
<1>3. \A f, b : IdsError(f, b) # "ok" /\ CodeIdsError(f, b) # "ok" /\ ClassicIdsError(f, b) # "ok"
  BY DEF IdsError, CodeIdsError, ClassicIdsError
<1> QED BY <1>1, <1>2, <1>3 DEF derive, PageError, \oplus

\* A step that ends the scan with an error, or starts it over, keeps IInv.
LEMMA EndsOrRestarts ==
    ASSUME IInv, UNCHANGED chain, phase # "done", NEW used,
           Changed(used) \/ \E e : e # "ok" /\ Finish(e, used)
    PROVE  IInv'
<1>1. ChainOK' /\ bounds' \in Bounds
  BY DEF IInv, ChainOK, IsAccount, Changed, Finish
<1>2. CASE phase' = "done" /\ outcome' # "ok"
  BY <1>1, <1>2 DEF IInv, PartOfLedger, PastInstance, Stages
<1>3. CASE phase' = "round" /\ outcome' = outcome /\ found' = NoEntries
  BY <1>1, <1>3 DEF IInv, PartOfLedger, PastInstance, Stages
<1> QED BY <1>2, <1>3 DEF Changed, Finish

-----------------------------------------------------------------------------
(***************************************************************************)
(* One lemma per action.                                                   *)
(***************************************************************************)

LEMMA InitIInv == Init => IInv
<1> SUFFICES ASSUME Init PROVE IInv
  OBVIOUS
<1>1. PICK s \in Accounts :
          chain = << [k \in DOMAIN s |-> [val |-> s[k].val, live |-> s[k].live, mod |-> 1]] >>
  BY DEF Init
<1> DEFINE t == [k \in DOMAIN s |-> [val |-> s[k].val, live |-> s[k].live, mod |-> 1]]
<1>2. IsAccount(t)
  BY StoreIsAccount
<1>3. chain = <<t>>
  BY <1>1
<1> HIDE DEF t
<1>4. chain \in Seq({t}) /\ Len(chain) = 1 /\ chain[1] = t
  BY <1>3
<1>5. ChainOK
  BY <1>2, <1>4 DEF ChainOK
<1> QED BY <1>5 DEF Init, IInv, PartOfLedger, PastInstance, Stages

LEMMA CloseLedgerIInv == IInv /\ CloseLedger => IInv'
<1> SUFFICES ASSUME IInv, CloseLedger PROVE IInv'
  OBVIOUS
<1>1. PICK s \in Accounts : \E t :
          /\ DOMAIN t = DOMAIN s /\ \A k \in DOMAIN s : t[k].val = s[k].val
          /\ chain' = Append(chain, t)
  BY DEF CloseLedger
<1>2. PICK t : /\ DOMAIN t = DOMAIN s /\ \A k \in DOMAIN s : t[k].val = s[k].val
               /\ chain' = Append(chain, t)
  BY <1>1
<1>3. IsAccount(t)
  BY <1>2, StoreIsAccount
<1>4. PICK S : chain \in Seq(S)
  BY DEF IInv, ChainOK
<1>5. chain \in Seq(S \cup {t}) /\ t \in S \cup {t}
  BY <1>4
<1>6. /\ chain' \in Seq(S \cup {t}) /\ Len(chain') = Len(chain) + 1 /\ Len(chain) \in Nat
      /\ chain'[Len(chain) + 1] = t
      /\ \A l \in 1 .. Len(chain) : chain'[l] = chain[l]
  BY <1>2, <1>5
<1>7. ChainOK'
  <2>1. ASSUME NEW l \in 1 .. Len(chain') PROVE IsAccount(chain'[l])
    BY <1>3, <1>6 DEF IInv, ChainOK
  <2> QED BY <1>6, <2>1 DEF ChainOK, IsAccount
<1>8. 1 .. Len(chain) \subseteq 1 .. Len(chain')
  BY <1>6
<1> QED BY <1>6, <1>7, <1>8
        DEF IInv, PartOfLedger, PastInstance, Stages, CloseLedger, scan

\* What an accepted set of entries has to be.
LEMMA AcceptIInv ==
    ASSUME IInv, UNCHANGED chain, NEW l \in 1 .. Len(chain), NEW f, NEW h, Accept(l, h),
           Part(f, chain[l]), Checked(f), Part(h, chain[l]),
           DOMAIN h \subseteq ClosureKeys(f), ClosureKeys(f) \cap DOMAIN f \subseteq DOMAIN h
    PROVE  IInv'
<1>1. IsAccount(chain[l])
  BY DEF IInv, ChainOK
<1>2. /\ ClosureKeys(f) = ClosureKeys(chain[l])
      /\ ClosureKeys(chain[l]) \cap DOMAIN chain[l] \subseteq DOMAIN f \cup Classics
      /\ Whole(chain[l])
  BY <1>1, CheckedIsWhole
<1>3. /\ DOMAIN h \subseteq ClosureKeys(chain[l])
      /\ ClosureKeys(chain[l]) \cap DOMAIN chain[l] \subseteq DOMAIN h \cup Classics
      /\ \A k \in DOMAIN h : k \in DOMAIN chain[l] /\ h[k] = chain[l][k]
  BY <1>2 DEF Part
<1>4. ledger' = l /\ found' = h /\ chain' = chain /\ phase' = "done"
  BY DEF Accept
<1>5. AcceptedIsOneLedger'
  BY <1>2, <1>3, <1>4 DEF AcceptedIsOneLedger
<1>6. ChainOK' /\ bounds' \in Bounds
  BY DEF IInv, ChainOK, IsAccount, Accept
<1> QED BY <1>4, <1>5, <1>6 DEF IInv, PartOfLedger, PastInstance, Stages

LEMMA RoundIInv == IInv /\ Round => IInv'
<1> SUFFICES ASSUME IInv, Round PROVE IInv'
  OBVIOUS
<1>1. PICK r \in Responses(request) :
          LET error == derive(r.found, request, bounds)
          IN  \/ error # "none" /\ Finish(error, batches + 1)
              \/ error = "none" /\ Closed(r)
                 /\ Accept(r.ledger, Only(r.found, ClosureKeys(r.found) \cap DOMAIN r.found))
              \/ error = "none" /\ ~Closed(r) /\ Continue(r)
  BY DEF Round
<1>2. phase = "round" /\ UNCHANGED chain
  BY DEF Round
<1>3. CASE Finish(derive(r.found, request, bounds), batches + 1)
  BY <1>2, <1>3, ErrorsAreErrors, EndsOrRestarts
<1>4. CASE /\ derive(r.found, request, bounds) = "none" /\ Closed(r)
           /\ Accept(r.ledger, Only(r.found, ClosureKeys(r.found) \cap DOMAIN r.found))
  <2>1. Checked(r.found)
    BY <1>4, ClosedIsChecked DEF Closed
  <2>2. r.ledger \in 1 .. Len(chain) /\ Part(r.found, chain[r.ledger])
    BY ResponseIsPart
  <2> DEFINE h == Only(r.found, ClosureKeys(r.found) \cap DOMAIN r.found)
  <2>3. /\ Part(h, chain[r.ledger]) /\ DOMAIN h \subseteq ClosureKeys(r.found)
        /\ ClosureKeys(r.found) \cap DOMAIN r.found \subseteq DOMAIN h
    BY <2>1, <2>2, ClosureSuffices DEF Checked, Present
  <2>4. Accept(r.ledger, h)
    BY <1>4
  <2> HIDE DEF h
  <2> QED BY <1>2, <2>1, <2>2, <2>3, <2>4, AcceptIInv
<1>5. CASE Continue(r)
  <2>1. /\ phase' = "round" /\ outcome' = outcome /\ found' = found /\ ledger' = ledger
        /\ bounds' = bounds /\ chain' = chain
    BY <1>2, <1>5 DEF Continue
  <2>2. ChainOK'
    BY <2>1 DEF IInv, ChainOK, IsAccount
  <2> QED BY <1>2, <2>1, <2>2 DEF IInv, PartOfLedger, PastInstance, Stages
<1> QED BY <1>1, <1>3, <1>4, <1>5

LEMMA EndingsIInv == IInv /\ (OutOfBatches \/ RequestFails \/ NoBatchLeft) => IInv'
<1> SUFFICES ASSUME IInv, OutOfBatches \/ RequestFails \/ NoBatchLeft PROVE IInv'
  OBVIOUS
<1>1. UNCHANGED chain /\ phase # "done"
  BY DEF OutOfBatches, RequestFails, NoBatchLeft, Reading
<1>2. \E used : Changed(used) \/ \E e : e # "ok" /\ Finish(e, used)
  BY DEF OutOfBatches, RequestFails, NoBatchLeft
<1> QED BY <1>1, <1>2, EndsOrRestarts

LEMMA EnterStagedIInv == IInv /\ EnterStaged => IInv'
<1> SUFFICES ASSUME IInv, EnterStaged PROVE IInv'
  OBVIOUS
<1>1. /\ phase = "round" /\ phase' = "instance" /\ request' = {Instance}
      /\ UNCHANGED <<chain, bounds, outcome, ledger, found>>
  BY DEF EnterStaged
<1>2. ChainOK'
  BY <1>1 DEF IInv, ChainOK, IsAccount
<1> QED BY <1>1, <1>2 DEF IInv, PartOfLedger, PastInstance, Stages

LEMMA ReadLastIInv == IInv /\ ReadLast => IInv'
<1> SUFFICES ASSUME IInv, ReadLast PROVE IInv'
  OBVIOUS
<1>1. phase = "last" /\ UNCHANGED chain
  BY DEF ReadLast
<1>2. CASE Changed(batches + 1)
  BY <1>1, <1>2, EndsOrRestarts
<1>3. CASE Accept(ledger, found)
  <2>1. /\ ledger \in 1 .. Len(chain) /\ Part(found, chain[ledger])
        /\ DOMAIN found \subseteq ClosureKeys(found)
    BY <1>1 DEF IInv, PartOfLedger, PastInstance
  <2>2. Checked(found)
    BY <1>1 DEF IInv, PartOfLedger, PastInstance, Stages, Checked
  <2> QED BY <1>1, <1>3, <2>1, <2>2, AcceptIInv
<1> QED BY <1>2, <1>3 DEF ReadLast

LEMMA NextStageIInv == IInv /\ NextStage => IInv'
<1> SUFFICES ASSUME IInv, NextStage PROVE IInv'
  OBVIOUS
<1>1. UNCHANGED chain /\ request = {} /\ phase \in {"instance", "rules", "entries", "code", "classic"}
  BY DEF NextStage
<1>2. PastInstance
  BY <1>1 DEF PastInstance
<1>3. /\ ledger \in 1 .. Len(chain) /\ Part(found, chain[ledger])
      /\ Present(found, Instance) /\ found[Instance].val.next <= bounds.ids
      /\ RulesOK(found) /\ DOMAIN found \subseteq ClosureKeys(found)
  BY <1>2 DEF IInv, PartOfLedger
<1>4. CASE \E e : e # "ok" /\ Finish(e, batches)
  BY <1>1, <1>4, EndsOrRestarts
<1>5. ASSUME UNCHANGED <<bounds, attempt, batches, growing, previous, outcome, ledger, found>>,
             phase' \in {"rules", "entries", "code", "classic", "last"}, Stages'
      PROVE  IInv'
  <2>1. ChainOK'
    BY <1>1 DEF IInv, ChainOK, IsAccount
  <2>2. PartOfLedger'
    BY <1>1, <1>3, <1>5
       DEF PartOfLedger, Part, Present, RulesOK, Archived, SlotKeys, EntryKeys, LeafKeys, ClosureKeys
  <2> QED BY <1>1, <1>5, <2>1, <2>2 DEF IInv
<1>6. CASE phase = "instance" /\ Stage("rules", SlotKeys(found), "none")
  <2>1. /\ phase' = "rules" /\ request' = SlotKeys(found)
        /\ UNCHANGED <<bounds, attempt, batches, growing, previous, outcome, ledger, found>>
    BY <1>6 DEF Stage
  <2>2. DOMAIN found = {Instance}
    BY <1>1, <1>6 DEF IInv, Stages
  <2>3. Stages'
    BY <2>1, <2>2 DEF Stages, SlotKeys
  <2> QED BY <1>5, <2>1, <2>3
<1>7. CASE phase = "rules" /\ Stage("entries", EntryKeys(found), IdsError(found, bounds))
  <2>1. CASE Finish(IdsError(found, bounds), batches)
    BY <1>4, <2>1, ErrorsAreErrors
  <2>2. CASE /\ phase' = "entries" /\ request' = EntryKeys(found)
             /\ UNCHANGED <<bounds, attempt, batches, growing, previous, outcome, ledger, found>>
    <3>1. DOMAIN found \subseteq {Instance} \cup SlotKeys(found)
      BY <1>7 DEF IInv, Stages
    <3>2. Stages'
      BY <2>2, <3>1 DEF Stages, SlotKeys, EntryKeys
    <3> QED BY <1>5, <2>2, <3>2
  <2> QED BY <1>7, <2>1, <2>2 DEF Stage
<1>8. CASE phase = "entries"
           /\ Stage("code", LeafKeys(found) \cap Contracts,
                    CountsError(found, Keys) \oplus CodeIdsError(found, bounds))
  <2> DEFINE error == CountsError(found, Keys) \oplus CodeIdsError(found, bounds)
  <2>1. CASE Finish(error, batches)
    BY <1>4, <2>1, ErrorsAreErrors
  <2>2. CASE /\ error = "none" /\ phase' = "code" /\ request' = LeafKeys(found) \cap Contracts
             /\ UNCHANGED <<bounds, attempt, batches, growing, previous, outcome, ledger, found>>
    <3>1. \A k \in EntryKeys(found) : Present(found, k)
      BY <1>1, <1>8 DEF IInv, Stages
    <3>2. SlotKeys(found) \cup EntryKeys(found) \subseteq Keys
      <4>1. IsAccount(chain[ledger]) /\ bounds \in Bounds /\ Instance \in DOMAIN found
        BY <1>3 DEF IInv, ChainOK, Present
      <4>2. SlotKeys(found) \subseteq RuleKeys /\ EntryKeys(found) \subseteq Entries
        BY <1>3, <4>1, NamedKinds
      <4> QED BY <4>2 DEF Keys, RuleKeys
    <3>3. Reconciled(found)
      BY <2>2, <3>2 DEF CountsError, \oplus
    <3>4. Stages'
      BY <2>2, <3>1, <3>3
         DEF Stages, SlotKeys, EntryKeys, LeafKeys, Present, Reconciled
    <3> QED BY <1>5, <2>2, <3>4
  <2> QED BY <1>8, <2>1, <2>2 DEF Stage
<1>9. CASE phase = "code"
           /\ Stage("classic", LeafKeys(found) \cap Classics, ClassicIdsError(found, bounds))
  <2>1. CASE Finish(ClassicIdsError(found, bounds), batches)
    BY <1>4, <2>1, ErrorsAreErrors
  <2>2. CASE /\ phase' = "classic" /\ request' = LeafKeys(found) \cap Classics
             /\ UNCHANGED <<bounds, attempt, batches, growing, previous, outcome, ledger, found>>
    <3>1. /\ \A k \in EntryKeys(found) : Present(found, k)
          /\ Reconciled(found)
          /\ \A k \in LeafKeys(found) \cap Contracts : Present(found, k)
      BY <1>1, <1>9 DEF IInv, Stages
    <3>2. Stages'
      BY <2>2, <3>1 DEF Stages, SlotKeys, EntryKeys, LeafKeys, Present, Reconciled
    <3> QED BY <1>5, <2>2, <3>2
  <2> QED BY <1>9, <2>1, <2>2 DEF Stage
<1>10. CASE phase = "classic" /\ Stage("last", {Instance}, "none")
  <2>1. /\ phase' = "last" /\ request' = {Instance}
        /\ UNCHANGED <<bounds, attempt, batches, growing, previous, outcome, ledger, found>>
    BY <1>10 DEF Stage
  <2>2. /\ \A k \in EntryKeys(found) : Present(found, k)
        /\ Reconciled(found)
        /\ \A k \in LeafKeys(found) \cap Contracts : Present(found, k)
    BY <1>10 DEF IInv, Stages
  <2>3. Stages'
    BY <2>1, <2>2 DEF Stages, SlotKeys, EntryKeys, LeafKeys, Present, Reconciled
  <2> QED BY <1>5, <2>1, <2>3
<1> QED BY <1>6, <1>7, <1>8, <1>9, <1>10 DEF NextStage

\* A page that a staged read adds: h is what it has afterwards.
LEMMA PageAdded ==
    ASSUME IInv, UNCHANGED <<chain, bounds, phase, outcome>>,
           NEW chunk \in SUBSET request, NEW g, NEW l \in 1 .. Len(chain),
           Part(g, chain[l]), DOMAIN g \subseteq chunk,
           phase \in {"instance", "rules", "entries", "code", "classic"}, request # {},
           phase # "instance" => l = ledger,
           PageError(Merge(found, g), chunk) = "none",
           phase = "code" => CodeError(Merge(found, g), chunk) = "none",
           request' = request \ chunk, ledger' = l, found' = Merge(found, g)
    PROVE  IInv'
<1> DEFINE h == Merge(found, g)
           s == chain[l]
<1>1. IsAccount(s) /\ bounds \in Bounds /\ outcome = "none"
  BY DEF IInv, ChainOK
<1>2. ChainOK'
  BY DEF IInv, ChainOK, IsAccount
<1>3. SUFFICES PartOfLedger' /\ Stages'
  BY <1>1, <1>2 DEF IInv
<1>4. CASE phase = "instance"
  <2>1. found = NoEntries /\ request = {Instance}
    BY <1>4 DEF IInv, Stages
  <2>2. DOMAIN h = DOMAIN g /\ \A k \in DOMAIN g : h[k] = g[k]
    BY <2>1 DEF Merge, NoEntries
  <2>3. Part(h, s)
    BY <2>2 DEF Part
  <2>4. Present(h, Instance) /\ ~(h[Instance].val.next > bounds.ids)
    BY <1>4 DEF PageError, InstanceError
  <2>5. DOMAIN h = {Instance} /\ request' = {}
    BY <2>1, <2>2, <2>4 DEF Present
  <2>6. h[Instance].val.next <= bounds.ids
    <3>1. h[Instance].val.next \in Nat
      BY <1>1, <2>3, <2>5 DEF Part, IsAccount
    <3>2. bounds.ids \in Nat
      BY <1>1, BoundsAssumption
    <3> QED BY <2>4, <3>1, <3>2
  <2>7. SlotKeys(h) \subseteq RuleKeys
    BY <1>1, <2>3, <2>5, <2>6, NamedKinds
  <2>8. RulesOK(h)
    BY <2>5, <2>7, KeyKinds DEF RulesOK, Archived, RuleKeys
  <2>9. DOMAIN h \subseteq ClosureKeys(h)
    BY <2>5 DEF ClosureKeys
  <2> HIDE DEF h
  <2>10. found' = h
    BY DEF h
  <2>11. PartOfLedger'
    BY <2>3, <2>4, <2>6, <2>8, <2>9, <2>10 DEF PartOfLedger
  <2>12. Stages'
    BY <1>4, <2>5, <2>10 DEF Stages
  <2> QED BY <2>11, <2>12
<1>5. CASE phase # "instance"
  <2>1. /\ l = ledger /\ Part(found, s) /\ Present(found, Instance)
        /\ found[Instance].val.next <= bounds.ids
        /\ RulesOK(found) /\ DOMAIN found \subseteq ClosureKeys(found)
    BY <1>5 DEF IInv, PartOfLedger, PastInstance
  <2>2. /\ Part(h, s) /\ DOMAIN h = DOMAIN found \cup DOMAIN g
        /\ \A k \in DOMAIN found : h[k] = found[k]
    BY <2>1, MergeIsPart
  <2>3. Instance \in DOMAIN found
    BY <2>1 DEF Present
  <2>4. /\ SlotKeys(found) \subseteq RuleKeys
        /\ EntryKeys(found) \subseteq Entries /\ LeafKeys(found) \subseteq Leaves
    BY <1>1, <2>1, <2>3, NamedKinds
  <2>5. /\ Present(h, Instance) /\ h[Instance].val.next <= bounds.ids
        /\ SlotKeys(h) = SlotKeys(found)
    BY <2>1, <2>2, <2>3 DEF Present, SlotKeys
  <2>6. found' = h /\ ledger' = l /\ Part(h, s)
    BY <2>2
  <2> HIDE DEF h
  <2>7. SUFFICES RulesOK(h) /\ DOMAIN h \subseteq ClosureKeys(h) /\ Stages'
    BY <2>5, <2>6 DEF PartOfLedger
  <2>8. CASE phase = "rules"
    <3>1. request \subseteq SlotKeys(found) /\ DOMAIN found \subseteq {Instance} \cup SlotKeys(found)
      BY <2>8 DEF IInv, Stages
    <3>2. DOMAIN h \subseteq {Instance} \cup SlotKeys(h)
      BY <2>2, <2>5, <3>1
    <3>3. RulesOK(h)
      <4>1. \A k \in SlotKeys(h) \cap chunk : ~Archived(h, k)
        BY <2>8 DEF PageError, RulesError, h
      <4>2. \A k \in SlotKeys(h) : k \in DOMAIN found => ~Archived(h, k)
        BY <2>1, <2>2, <2>5 DEF RulesOK, Archived
      <4> QED BY <2>2, <4>1, <4>2 DEF RulesOK, Archived
    <3>4. DOMAIN h \subseteq ClosureKeys(h)
      BY <3>2 DEF ClosureKeys
    <3>5. Stages'
      BY <2>5, <2>6, <2>8, <3>1, <3>2 DEF Stages
    <3> QED BY <3>3, <3>4, <3>5
  <2>9. CASE phase # "rules"
    <3>1. chunk \subseteq Entries \cup Leaves
      BY <1>5, <2>4, <2>9 DEF IInv, Stages, Leaves
    <3>2. SlotKeys(found) \cap DOMAIN h \subseteq DOMAIN found
      BY <2>2, <2>4, <3>1, KeyKinds DEF RuleKeys
    <3>3. EntryKeys(h) = EntryKeys(found) /\ RulesOK(h)
      BY <2>1, <2>2, <2>3, <3>2, SameRules
    <3>4. CASE phase = "entries"
      <4>1. /\ request \subseteq EntryKeys(found)
            /\ DOMAIN found \subseteq {Instance} \cup SlotKeys(found) \cup EntryKeys(found)
            /\ \A k \in EntryKeys(found) \ request : Present(found, k)
        BY <3>4 DEF IInv, Stages
      <4>2. DOMAIN h \subseteq {Instance} \cup SlotKeys(h) \cup EntryKeys(h)
        BY <2>2, <2>5, <3>3, <4>1
      <4>3. \A k \in EntryKeys(h) \cap chunk : Present(h, k)
        BY <3>4 DEF PageError, EntriesError, h
      <4>4. \A k \in EntryKeys(h) \ request : Present(h, k)
        BY <2>2, <3>3, <4>1 DEF Present
      <4>5. Stages'
        BY <2>6, <3>3, <3>4, <4>1, <4>2, <4>3, <4>4 DEF Stages
      <4> QED BY <3>3, <4>2, <4>5 DEF ClosureKeys
    <3>5. CASE phase \in {"code", "classic"}
      <4>1. /\ \A k \in EntryKeys(found) : Present(found, k)
            /\ Reconciled(found)
        BY <3>5 DEF IInv, Stages
      <4>2. LeafKeys(h) = LeafKeys(found) /\ Reconciled(h)
        BY <2>1, <2>2, <2>3, <3>2, <4>1, SameLeaves DEF Present
      <4>3. \A k \in EntryKeys(h) : Present(h, k)
        BY <2>2, <3>3, <4>1 DEF Present
      <4>4. request \subseteq LeafKeys(found)
        BY <3>5 DEF IInv, Stages
      <4>5. DOMAIN h \subseteq ClosureKeys(h)
        BY <2>1, <2>2, <2>5, <3>3, <4>2, <4>4 DEF ClosureKeys
      <4>6. Stages'
        <5>1. CASE phase = "code"
          <6>1. /\ request \subseteq LeafKeys(found) \cap Contracts
                /\ \A k \in (LeafKeys(found) \cap Contracts) \ request : Present(found, k)
            BY <5>1 DEF IInv, Stages
          <6>2. \A k \in LeafKeys(h) \cap Contracts \cap chunk : Present(h, k)
            BY <5>1 DEF CodeError, h
          <6>3. \A k \in (LeafKeys(h) \cap Contracts) \ request : Present(h, k)
            BY <2>2, <4>2, <6>1 DEF Present
          <6> QED BY <2>6, <4>2, <4>3, <5>1, <6>1, <6>2, <6>3 DEF Stages
        <5>2. CASE phase = "classic"
          <6>1. /\ request \subseteq LeafKeys(found) \cap Classics
                /\ \A k \in LeafKeys(found) \cap Contracts : Present(found, k)
            BY <5>2 DEF IInv, Stages
          <6>2. \A k \in LeafKeys(h) \cap Contracts : Present(h, k)
            BY <2>2, <4>2, <6>1 DEF Present
          <6> QED BY <2>6, <4>2, <4>3, <5>2, <6>1, <6>2 DEF Stages
        <5> QED BY <3>5, <5>1, <5>2
      <4> QED BY <3>3, <4>5, <4>6
    <3> QED BY <1>5, <2>9, <3>4, <3>5
  <2> QED BY <2>8, <2>9
<1> QED BY <1>4, <1>5

LEMMA ReadPageIInv == IInv /\ ReadPage => IInv'
<1> SUFFICES ASSUME IInv, ReadPage PROVE IInv'
  OBVIOUS
<1>1. /\ phase \in {"instance", "rules", "entries", "code", "classic"} /\ request # {}
      /\ UNCHANGED chain
  BY DEF ReadPage, Reading
<1>2. PICK chunk \in SUBSET request : \E r \in Responses(chunk) : Page(chunk, r)
  BY DEF ReadPage, Chunks
<1>3. PICK r \in Responses(chunk) : Page(chunk, r)
  BY <1>2
<1>4. /\ r.ledger \in 1 .. Len(chain)
      /\ Part(r.found, chain[r.ledger]) /\ DOMAIN r.found \subseteq chunk
  BY ResponseIsPart
<1>5. CASE Finish("incomplete", batches + 1) \/ Changed(batches + 1)
  BY <1>1, <1>5, EndsOrRestarts
<1>6. CASE Finish(PageError(Merge(found, r.found), chunk), batches + 1)
  BY <1>1, <1>6, EndsOrRestarts, ErrorsAreErrors
<1>7. CASE /\ ~(phase = "code" /\ CodeError(Merge(found, r.found), chunk) # "none")
           /\ SameLedger(r) /\ PageError(Merge(found, r.found), chunk) = "none"
           /\ request' = request \ chunk /\ ledger' = r.ledger /\ found' = Merge(found, r.found)
           /\ UNCHANGED <<bounds, phase, outcome>>
  <2>1. phase # "instance" => r.ledger = ledger
    BY <1>7 DEF SameLedger
  <2> QED BY <1>1, <1>4, <1>7, <2>1, PageAdded
<1> QED BY <1>3, <1>5, <1>6, <1>7 DEF Page

LEMMA StepIInv == IInv /\ [Next]_vars => IInv'
<1> SUFFICES ASSUME IInv, [Next]_vars PROVE IInv'
  OBVIOUS
<1>1. CASE UNCHANGED vars
  <2>1. UNCHANGED <<chain, bounds, phase, request, outcome, ledger, found>>
    BY <1>1 DEF vars, scan
  <2> QED BY <2>1
          DEF IInv, ChainOK, IsAccount, PartOfLedger, PastInstance, Stages, AcceptedIsOneLedger
<1> QED BY <1>1, CloseLedgerIInv, RoundIInv, EndingsIInv, EnterStagedIInv, ReadPageIInv,
           NextStageIInv, ReadLastIInv DEF Next, Scan

\* A scan of any account, through any number of lagging nodes that may leave
\* entries out, accepts only the account as it was at the reported ledger.
THEOREM ScanSound == Spec => []AcceptedIsOneLedger
<1>1. IInv => AcceptedIsOneLedger
  BY DEF IInv, AcceptedIsOneLedger
<1> QED BY InitIInv, StepIInv, <1>1, PTL DEF Spec
=============================================================================
