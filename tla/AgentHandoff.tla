---------------------------- MODULE AgentHandoff ----------------------------
(***************************************************************************)
(* The draft-only channel through which an agent hands grant proposals to  *)
(* the wallet backend: wallet/server/agent-handoff.mjs, the two /agent/    *)
(* routes and the admission flag of wallet/server/http.mjs, and the wallet *)
(* actions of wallet/server/actions.mjs that pair, read, claim, dismiss,   *)
(* or are refused while an agent is paired.                                *)
(*                                                                         *)
(* The backend is one event loop.  An action is one turn of it: everything *)
(* a handler does up to its next await.  A request whose body is still     *)
(* arriving, or whose handler awaits the network, is recorded in `slots`   *)
(* (agent requests) or in `request` (the single admitted wallet request),  *)
(* and time passes between turns.                                          *)
(***************************************************************************)
EXTENDS Integers, FiniteSets

CONSTANTS
  Accounts,      \* account contracts
  Wallets,       \* wallet identities (contract, credential, key, verifier)
  Delegates,     \* delegate keys, each with its address and capability ID
  Proposals,     \* proposal texts; a text stands for its own hash, the delivery ID
  ContractId,    \* the account contract of each wallet identity
  Grant,         \* what a proposal asks for: account, delegate, max_calls, well_formed
  Slots,         \* the places for agent request bodies (four in the code)
  None,          \* the null of the code
  PairTTL, ConnectionTTL, DraftTTL,
  MaxReceipts,   \* receipts kept per connection (eight)
  MaxDelegates,  \* delegate keys held at once
  MaxCalls,      \* NATIVE_LIMITS.maxCalls
  MaxNow,        \* bound: the last instant of the model's clock
  MaxIds         \* bound: pairing codes and capabilities ever drawn

ASSUME HandoffAssumption ==
  /\ PairTTL \in Nat /\ ConnectionTTL \in Nat /\ DraftTTL \in Nat
  /\ MaxReceipts \in Nat /\ MaxDelegates \in Nat /\ MaxCalls \in Nat
  /\ MaxNow \in Nat /\ MaxIds \in Nat
  /\ ContractId \in [Wallets -> Accounts]
  /\ Grant \in [Proposals -> [account : Accounts, delegate : Delegates,
                              max_calls : Nat, well_formed : BOOLEAN]]
  /\ IsFiniteSet(Proposals) /\ IsFiniteSet(Delegates)

VARIABLES
  now,         \* performance.now()
  drawn,       \* random identifiers drawn so far; each is fresh
  pairing,     \* the outstanding one-time pairing, or None
  connection,  \* the paired agent, or None
  pending,     \* the one draft waiting for the owner, or None
  seen,        \* receipt status of each delivery of this connection
  delegates,   \* the delegate keys of this process
  account,     \* whether the account offer was made, and used
  slots,       \* agent requests whose body is arriving
  request,     \* the admitted wallet request; `busy` is request # "idle"
  claims       \* history: what the owner took into review, and for whom

handoff == <<pairing, connection, pending, seen>>
handoffVars == <<now, drawn, handoff, delegates, account, slots, request, claims>>

Ids == 1 .. MaxIds
Statuses == {"none", "pending", "claimed", "dismissed", "expired"}
NoReceipts == [p \in Proposals |-> "none"]
FreeSlot == [route |-> "free", capability |-> 0]
Stages == {"idle", "body", "importing", "creating_account", "creating_delegate"}

Pairings == [code : Ids, wallet : Wallets, delegate : Delegates, expires : Nat]
Connections == [capability : Ids, wallet : Wallets, delegate : Delegates, expires : Nat]
\* The last three fields of a draft are history: the connection it was delivered under.
Drafts == [deliveryId : Proposals, expires : Nat,
           capability : Ids, wallet : Wallets, delegate : Delegates]
ASSUME NoneAssumption == None \notin Drafts
Claims == [draft : Drafts, wallet : Wallets, delegate : Delegates, at : Nat]

HandoffTypeOK ==
  /\ now \in 0 .. MaxNow
  /\ drawn \in 0 .. MaxIds
  /\ pairing \in Pairings \cup {None}
  /\ connection \in Connections \cup {None}
  /\ pending \in Drafts \cup {None}
  /\ seen \in [Proposals -> Statuses]
  /\ delegates \in [Delegates -> {"unminted", "creating", "held", "released"}]
  /\ account \in {"none", "offered", "attempted"}
  /\ slots \in [Slots -> [route : {"free", "connect", "proposal"}, capability : 0 .. MaxIds]]
  /\ request \in Stages
  /\ claims \subseteq Claims

HandoffInit ==
  /\ now = 0 /\ drawn = 0
  /\ pairing = None /\ connection = None /\ pending = None /\ seen = NoReceipts
  /\ delegates = [d \in Delegates |-> "unminted"]
  /\ account = "none"
  /\ slots = [s \in Slots |-> FreeSlot]
  /\ request = "idle"
  /\ claims = {}

-----------------------------------------------------------------------------
(* #expire() runs lazily, at the start of most methods: what a method sees *)
(* is the state after it, and that state is kept whatever the answer.      *)

ConnectionOver == connection # None /\ connection.expires <= now
DraftOver == pending # None /\ pending.expires <= now

LivePairing ==
  IF ConnectionOver \/ (pairing # None /\ pairing.expires <= now) THEN None ELSE pairing
LiveConnection == IF ConnectionOver THEN None ELSE connection
LivePending == IF ConnectionOver \/ DraftOver THEN None ELSE pending
LiveSeen ==
  IF ConnectionOver THEN NoReceipts
  ELSE IF DraftOver THEN [seen EXCEPT ![pending.deliveryId] = "expired"]
  ELSE seen

Expire ==
  /\ pairing' = LivePairing
  /\ connection' = LiveConnection
  /\ pending' = LivePending
  /\ seen' = LiveSeen

Disconnect ==
  /\ pairing' = None /\ connection' = None /\ pending' = None /\ seen' = NoReceipts

Authorized(capability) ==
  LiveConnection # None /\ LiveConnection.capability = capability

ClockTicks ==
  /\ now < MaxNow
  /\ now' = now + 1
  /\ UNCHANGED <<drawn, handoff, delegates, account, slots, request, claims>>

-----------------------------------------------------------------------------
(* Agent requests.                                                         *)

\* Mutant: no finally block gives the slot back.
ReleaseSlot_Forgotten(s) == UNCHANGED slots

ReleaseSlot(s) == slots' = [slots EXCEPT ![s] = FreeSlot]

(* A connect request takes a body slot; its code is in the body.           *)
AgentConnectArrives(s) ==
  /\ slots[s] = FreeSlot
  /\ slots' = [slots EXCEPT ![s] = [route |-> "connect", capability |-> 0]]
  /\ UNCHANGED <<now, drawn, handoff, delegates, account, request, claims>>

(* A proposal request shows its capability before its body is read.        *)
AgentProposalArrives(s, capability) ==
  /\ slots[s] = FreeSlot
  /\ Authorized(capability)
  /\ Expire
  /\ slots' = [slots EXCEPT ![s] = [route |-> "proposal", capability |-> capability]]
  /\ UNCHANGED <<now, drawn, delegates, account, request, claims>>

(* A body that does not parse, breaks off or times out, or a proposal met  *)
(* by a busy wallet, gives its slot back and touches nothing.              *)
AgentDropped(s) ==
  /\ slots[s] # FreeSlot
  /\ ReleaseSlot(s)
  /\ UNCHANGED <<now, drawn, handoff, delegates, account, request, claims>>

(* connect(code): one use; refused unless the code is the outstanding one. *)
AgentConnect(s, code) ==
  /\ slots[s].route = "connect"
  /\ ReleaseSlot(s)
  /\ IF LivePairing # None /\ LivePairing.code = code /\ request = "idle" /\ drawn < MaxIds
     THEN /\ drawn' = drawn + 1
          /\ pairing' = None
          /\ connection' = [capability |-> drawn + 1, wallet |-> LivePairing.wallet,
                            delegate |-> LivePairing.delegate, expires |-> now + ConnectionTTL]
          /\ pending' = LivePending /\ seen' = LiveSeen
     ELSE Expire /\ UNCHANGED drawn
  /\ UNCHANGED <<now, delegates, account, request, claims>>

(* The proposal is well formed, names the paired account and delegate and  *)
(* stays within the call limit.                                            *)
Acceptable(p) ==
  /\ Grant[p].well_formed
  /\ Grant[p].account = ContractId[LiveConnection.wallet]
  /\ Grant[p].delegate = LiveConnection.delegate
  /\ Grant[p].max_calls <= MaxCalls

Receipts(statuses) == {p \in Proposals : statuses[p] # "none"}

\* Mutant: a retry is not looked up among the receipts.
Recordable_Again(p) ==
  /\ Acceptable(p) /\ LivePending = None
  /\ Cardinality(Receipts(LiveSeen)) < MaxReceipts + 1

(* A new draft is recorded only when none waits and receipts remain.  An   *)
(* identical retry falls to the other branch: it reads its old receipt.    *)
Recordable(p) ==
  /\ Acceptable(p)
  /\ LiveSeen[p] = "none"
  /\ LivePending = None
  /\ Cardinality(Receipts(LiveSeen)) < MaxReceipts

Earlier(a, b) == IF a <= b THEN a ELSE b

(* deliver(): the capability is checked again after the body has arrived.  *)
AgentDeliver(s, p) ==
  /\ slots[s].route = "proposal"
  /\ request = "idle"
  /\ ReleaseSlot(s)
  /\ IF Authorized(slots[s].capability) /\ Recordable(p)
     THEN /\ pairing' = LivePairing /\ connection' = LiveConnection
          /\ pending' = [deliveryId |-> p, capability |-> slots[s].capability,
                         wallet |-> LiveConnection.wallet, delegate |-> LiveConnection.delegate,
                         expires |-> Earlier(now + DraftTTL, LiveConnection.expires)]
          /\ seen' = [LiveSeen EXCEPT ![p] = "pending"]
     ELSE Expire
  /\ UNCHANGED <<now, drawn, delegates, account, request, claims>>

-----------------------------------------------------------------------------
(* Wallet requests: one at a time, from admission to reply.                *)

WalletArrives ==
  /\ request = "idle"
  /\ request' = "body"
  /\ UNCHANGED <<now, drawn, handoff, delegates, account, slots, claims>>

(* The body does not parse, or its action leaves the handoff alone.        *)
WalletDropped ==
  /\ request = "body"
  /\ request' = "idle"
  /\ UNCHANGED <<now, drawn, handoff, delegates, account, slots, claims>>

(* agent-inbox, and every handler below that reads the handoff and refuses *)
WalletReads ==
  /\ request = "body"
  /\ Expire
  /\ request' = "idle"
  /\ UNCHANGED <<now, drawn, delegates, account, slots, claims>>

\* Mutant: pairing does not start from a disconnected state.
PairAgent_KeepsDraft(w, d) ==
  /\ request = "body"
  /\ delegates[d] = "held"
  /\ drawn < MaxIds
  /\ drawn' = drawn + 1
  /\ pairing' = [code |-> drawn + 1, wallet |-> w, delegate |-> d, expires |-> now + PairTTL]
  /\ connection' = None
  /\ request' = "idle"
  /\ UNCHANGED <<now, delegates, account, slots, claims, pending, seen>>

PairAgent(w, d) ==
  /\ request = "body"
  /\ delegates[d] = "held"
  /\ drawn < MaxIds
  /\ drawn' = drawn + 1
  /\ pairing' = [code |-> drawn + 1, wallet |-> w, delegate |-> d, expires |-> now + PairTTL]
  /\ connection' = None /\ pending' = None /\ seen' = NoReceipts
  /\ request' = "idle"
  /\ UNCHANGED <<now, delegates, account, slots, claims>>

DisconnectAgent ==
  /\ request = "body"
  /\ Disconnect
  /\ request' = "idle"
  /\ UNCHANGED <<now, drawn, delegates, account, slots, claims>>

(* The waiting draft leaves the inbox for good with this outcome.          *)
Settle(p, outcome) ==
  /\ LivePending # None /\ LivePending.deliveryId = p
  /\ pairing' = LivePairing /\ connection' = LiveConnection
  /\ pending' = None
  /\ seen' = [LiveSeen EXCEPT ![p] = outcome]

DismissProposal(p) ==
  /\ request = "body"
  /\ Settle(p, "dismissed")
  /\ request' = "idle"
  /\ UNCHANGED <<now, drawn, delegates, account, slots, claims>>

(* review-agent-proposal: the claim, after which the import awaits the     *)
(* network and the toolchain.                                              *)
ReviewProposal(p, w, d) ==
  /\ request = "body"
  /\ delegates[d] = "held"
  /\ LiveConnection # None
  /\ LiveConnection.wallet = w /\ LiveConnection.delegate = d
  /\ Settle(p, "claimed")
  /\ claims' = claims \cup {[draft |-> LivePending, wallet |-> w, delegate |-> d, at |-> now]}
  /\ request' = "importing"
  /\ UNCHANGED <<now, drawn, delegates, account, slots>>

Unpaired == LivePairing = None /\ LiveConnection = None

PrepareAccount ==
  /\ request = "body"
  /\ Unpaired /\ account # "attempted"
  /\ Expire
  /\ account' = "offered"
  /\ request' = "idle"
  /\ UNCHANGED <<now, drawn, delegates, slots, claims>>

ConfirmAccount ==
  /\ request = "body"
  /\ Unpaired /\ account = "offered"
  /\ Expire
  /\ account' = "attempted"
  /\ request' = "creating_account"
  /\ UNCHANGED <<now, drawn, delegates, slots, claims>>

(* create-delegate: the key is drawn first, its account made afterwards.   *)
CreateDelegate(d) ==
  /\ request = "body"
  /\ Unpaired
  /\ delegates[d] = "unminted"
  /\ Cardinality({e \in Delegates : delegates[e] \in {"creating", "held"}}) < MaxDelegates
  /\ Expire
  /\ delegates' = [delegates EXCEPT ![d] = "creating"]
  /\ request' = "creating_delegate"
  /\ UNCHANGED <<now, drawn, account, slots, claims>>

(* The awaited work of a handler ends; a delegate whose account could not  *)
(* be made is released.                                                    *)
HandlerEnds ==
  /\ request \in {"importing", "creating_account", "creating_delegate"}
  /\ \E end \in {"held", "released"} :
       delegates' = [d \in Delegates |-> IF delegates[d] = "creating" THEN end ELSE delegates[d]]
  /\ request' = "idle"
  /\ UNCHANGED <<now, drawn, handoff, account, slots, claims>>

WalletStep ==
  \/ WalletArrives \/ WalletDropped \/ WalletReads \/ DisconnectAgent
  \/ PrepareAccount \/ ConfirmAccount \/ HandlerEnds
  \/ \E d \in Delegates : CreateDelegate(d) \/ \E w \in Wallets : PairAgent(w, d)
  \/ \E p \in Proposals : DismissProposal(p)
  \/ \E p \in Proposals, w \in Wallets, d \in Delegates : ReviewProposal(p, w, d)

AgentStep ==
  \E s \in Slots :
    \/ AgentConnectArrives(s) \/ AgentDropped(s)
    \/ \E id \in Ids : AgentProposalArrives(s, id) \/ AgentConnect(s, id)
    \/ \E p \in Proposals : AgentDeliver(s, p)

HandoffNext == ClockTicks \/ WalletStep \/ AgentStep

(* Every admitted request ends: bodies are cut off by requestTimeout, and  *)
(* every network or tool call a handler awaits has a deadline.             *)
Fairness ==
  /\ WF_handoffVars(WalletDropped) /\ WF_handoffVars(HandlerEnds)
  /\ \A s \in Slots : WF_handoffVars(AgentDropped(s))

HandoffSpec == HandoffInit /\ [][HandoffNext]_handoffVars /\ Fairness

-----------------------------------------------------------------------------
(* The draft, its receipt and its connection agree: a waiting draft        *)
(* belongs to the current connection and cannot outlive it, exactly the    *)
(* waiting draft has the receipt "pending", receipts exist only under a    *)
(* connection and never exceed the limit, and a code is never outstanding  *)
(* while an agent is connected.                                            *)
DraftAccounting ==
  /\ pending # None =>
       /\ connection # None
       /\ pending.capability = connection.capability
       /\ pending.expires <= connection.expires
       /\ seen[pending.deliveryId] = "pending"
  /\ \A p \in Proposals : seen[p] = "pending" => pending # None /\ pending.deliveryId = p
  /\ connection = None => seen = NoReceipts
  /\ Cardinality(Receipts(seen)) <= MaxReceipts
  /\ connection # None => pairing = None

(* What the owner takes into review was delivered under the very pairing   *)
(* the owner reviews it with, names that account and delegate, and was     *)
(* still fresh - however pairings, deliveries and requests interleave.     *)
ClaimsAuthentic ==
  \A c \in claims :
    /\ c.wallet = c.draft.wallet /\ c.delegate = c.draft.delegate
    /\ Grant[c.draft.deliveryId].account = ContractId[c.wallet]
    /\ Grant[c.draft.deliveryId].delegate = c.delegate
    /\ Grant[c.draft.deliveryId].max_calls <= MaxCalls
    /\ c.at < c.draft.expires

(* While an account or a delegate key is being made nobody is paired.      *)
NoAgentDuringKeyCreation ==
  request \in {"creating_account", "creating_delegate"} => pairing = None /\ connection = None

(* Under one connection an outcome is final: a retried delivery can never  *)
(* put a claimed, dismissed or expired draft back into the inbox           *)
(* (docs/AGENT-WALLET-HANDOFF.md).                                         *)
OutcomeFinal ==
  [][\A p \in Proposals :
       (/\ connection # None /\ connection' = connection
        /\ seen[p] \in {"claimed", "dismissed", "expired"}) => seen'[p] = seen[p]]_handoffVars

(* Admission is always given back: the wallet is never busy for good and   *)
(* no agent body holds its slot for ever.                                  *)
AdmissionReleased ==
  /\ (request # "idle") ~> (request = "idle")
  /\ \A s \in Slots : (slots[s] # FreeSlot) ~> (slots[s] = FreeSlot)
=============================================================================
