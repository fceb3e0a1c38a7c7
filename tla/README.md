# Verification of the OZ policy builder

The repository turns a recorded Stellar call into a narrow, expiring grant on a
smart account: a policy specification is synthesized from the recording, a
contract is generated and built from it, the result is checked against the
account's present authority, and a wallet installs, watches and revokes it. The
code makes security-relevant promises that cross several programs: a Soroban
contract, a Rust tool server, a Python launcher, a JavaScript wallet backend and
nodes of a network none of them controls. This directory keeps TLA+ models of
those programs, the TLC configurations that check them on small instances, and
TLAPS proofs of the properties that matter most for every instance.

Paths below are relative to the repository root. `PROJECT.json` gives the source
lines of every definition (a short named part of a definition, on lines of that
definition's entry, has no entry of its own), the hazards the properties are for,
and one mutation of the code per property under which TLC finds that property
violated.

    tlc -workers 2 -config AgentHandoff.cfg MCAgentHandoff     # any row of "Runs"
    tlapm WalletProofs.tla                                     # any *Proofs module

## 1. The system

| component | where | state it keeps | operations | talks to |
|---|---|---|---|---|
| agent handoff | `wallet/server/agent-handoff.mjs`, `/agent/` routes of `http.mjs` | one pairing, one connection, one waiting draft, a receipt per delivery, body slots, the admission flag | pair, connect, propose, inbox, claim, dismiss, disconnect; refused while a key is made | agent (HTTP), owner's page, grant lifecycle |
| grant lifecycle | `wallet/server/actions.mjs`, `live-check.mjs`, `install.mjs`, `monitor.mjs` | reviews with evidence, released signatures and their bounds, install attempts and allowance, installations, one token per kind, the fee payer's doubt | review, check-account, prepare/consent/run-live, assemble, submit, monitor, prepare/confirm-revoke, prepare/confirm-replacement | network through the RPC client; tool server; owner |
| approval tokens | `wallet/server/session.mjs` | up to 16 tokens, 120 s each, a busy flag | issue, consume | grant lifecycle |
| fee payer and RPC client | `wallet/server/network.mjs` | sequence number, uncertain results | simulate, send, poll, read | RPC endpoint |
| dry run | `crates/cli/src/dry_run`, `crates/toolkit/src/dry_run*.rs`, `execution-runtime`; the wallet drives the same worker from `wallet/server/native-*.mjs` | a worker process with its pipes and threads, the signer's position in its list of requests | prepare, sign, execute, judge, report | execution worker, RPC captures |
| browser controller | `wallet/overlay/.../client` | what the owner was shown and what may have happened | every button of the page | wallet backend |
| generated policy | `contracts/golden-transfer-policy`, `contracts/soroswap-swap-policy` (emitted by `crates/codegen`) | marker and call count per installation, entry lifetimes | install, enforce, uninstall, remaining_calls, is_installed | smart account, host |
| evaluator | `crates/evaluator` | none | decide a call under a rule | harness, tests |
| authoring: recorder, synthesizer, spec, harness | `crates/recorder-core`, `synthesizer`, `policy-spec`, `harness` | none; the documents travel through the caller | record and verify; derive a spec; validate; derive and judge denial cases | each other, in this order |
| build runner | `crates/build-runner`, `deployment/worker-launcher.py` | slots, processes, containers | build, cancel, stop, remove, confirm | tool server, container runtime |
| account scan | `crates/source-rpc/src/account_*.rs` | batches and attempts used, responses | read the authority closure | RPC endpoint, authority check |
| other RPC acquisition | `crates/source-rpc` | the responses of one capture | transaction, footprint and target captures, preflight, install assembly | RPC endpoint |
| policy check | `crates/toolkit/src/policy_check.rs`, `crates/source-rpc/src/policy_state_capture.rs` | the responses of one capture | predict what an installed rule does with a call | RPC endpoint, evaluator |
| authority check | `crates/call-surface-core`, `toolkit/src/call_surface*.rs`; the wallet's decision in `wallet/shared/authority.mjs`, `approval.mjs`, `wallet/server/monitor.mjs` | the approval, the record of an installation | who can change the account, reset a policy or reach the target; approve, re-check, monitor | account scan, registry, owner |
| registry | `crates/registry` | version floor, checkpoint | accept a signed snapshot | authority check |
| tool server | `crates/mcp-server` | the read permit, build slots, quotas, a session's artifacts | tool calls with deadline and cancellation | every core above |
| toolkit, CLI, types | `crates/toolkit`, `cli`, `domain`, `api-types` | none | translation and orchestration | |

How they meet: an agent drafts a grant through the handoff; the owner claims it
and the wallet reviews it, asking the tool server to build the policy and to
check the account; the wallet checks the grant against captured state and, with
signatures that must stay unusable, against the live network; it releases one
owner entry, submits it, reads the account back, and later removes the rule. On
chain the account calls the generated policy on every use.

### What is hard here

- *Interleaving.* The wallet backend is one event loop, but bodies arrive and
  the network moves between its awaits; a released signature can be used by
  anyone until it expires; API thread, reader thread, launcher, runtime client
  and container of one build run side by side.
- *Stale and partial reads.* The RPC endpoint is several nodes at different
  ledgers; an account changes while it is read; an entry can be missing.
- *Uncertain results and restarts.* A send that failed may land; a poll gives
  up; the backend stops after it released a signature and forgets it.
- *Atomicity and lifetimes.* A permit counted in a transaction that fails, two
  storage entries with their own lifetimes, a window shorter than the minimum
  lifetime the host gives an entry.
- *Two programs that must agree.* The contract and the evaluator were written
  independently and must permit the same calls.
- *Cancellation and deadlines.* A stop signal before its handler exists or after
  the confirmation was written; a process that never becomes ready or never ends.

`PROJECT.json` lists each of these at the line where it bites.

### What makes each component correct

| component | correct when |
|---|---|
| agent handoff | what the owner reviews was delivered under the pairing it is reviewed with; outcomes are final; nobody is paired while a key is made; the single admission always comes back |
| grant lifecycle | an installation is sent only when every other released signature is spent; never two grants in force; a removal is sent once; a fresh allowance only after a known removal |
| generated policy | the cap holds across rollback, archival and reinstallation; rent is bought only for use; a used installation stays live |
| contract and evaluator | the same calls are permitted, with the same reason where the rule applies |
| build worker | never more containers than slots; a cancelled build costs no capacity; no answer before a confirmed removal; every request is answered |
| account scan | an accepted result is the account at one ledger; an error names what happened; the scan ends |
| tool server | recordings apart, one call at a time works through an operator source, also after its caller was answered; no more process groups of builders than slots, what a builder that ended by itself leaves not counted; a quota holds across its windows; a manifest names the tools that built; every call is answered and the permit comes back |
| registry | what an operator ever persisted lies on one history, over restarts and revocations |
| authoring pipeline | a recording holds what the evidence shows; a rule is no wider than the decisions; the denial suite is sound and refutes every weakened rule |
| authority check and wallet decision | when the wallet signs, nobody but the owner can manage the account or call a bound policy, and no rule lets the agent past its limit; an approval covers exactly the power that was shown; "unchanged" is true |
| dry run | an accepted report means the policy keeps its rule; the right policy is accepted; a run leaves nothing behind and ends |
| RPC acquisition | a capture is of one ledger, a recording is true of its transaction, an assembled installation fits its bounds |
| policy check | a prediction names a ledger at which it is what the network does |

## 2. Modules

| module | models | checked by |
|---|---|---|
| `AgentHandoff` | the handoff, the `/agent/` routes, the admission flag | `MCAgentHandoff`, `WalletProofs` |
| `AccountLedger` | external: the network as the wallet sees it | through `WalletGrant` |
| `WalletGrant` | the grant lifecycle, extends `AccountLedger` | two configurations, `WalletProofs` |
| `PolicyRule` | a rule, the generated checks, the evaluator | through its users |
| `GeneratedPolicy` | the deployed contract with its host, extends `PolicyRule` | `MCGeneratedPolicy`, `PolicyProofs` |
| `BuildCapacity` | abstract: at most `Limit` builds run at a time, each of them once | refined by `BuildWorker` |
| `BuildWorker` | API thread, reader, launcher, runtime client, container | its configuration, `BuildWorkerProofs` |
| `AccountScan` | the scan, external account and endpoint | `MCAccountScan`, `AccountScanProofs` |
| `Verdicts` | lists of checks: the first that fails, or all that fail | through its users |
| `Recorder`, `Synthesis`, `SpecValidation`, `DenySuite` | the steps of authoring as operators | through `Authoring` |
| `Registry` | signed snapshots, their acceptance and resolution | through `Authoring` and `InstallCheck` |
| `Authoring` | composes the four steps and the registry: one action per tool call, documents editable in between | `MCAuthoring` |
| `LocalBuild` | settings, crate contents and manifest of a local build, as operators | through `ToolServer` |
| `ToolServer` | HTTP guard, quotas, handlers and their blocking work, permit, builds, artifacts | `MCToolServer`, `ToolServerProofs` |
| `CallSurface`, `SurfaceRequest`, `WalletDecision` | the authority check, the toolkit's request around it, the wallet's decision, as operators | through `InstallCheck` |
| `InstallCheck` | composes them with `Registry`: plan, read, approve, re-read, install, monitor, over a changing account | `MCInstallCheck`, `InstallCheckProofs` |
| `NativeExecution`, `CapturedExecution` | what the execution worker runs and reports | through `DryRun` |
| `DryRunReport` | the coordinator's expectations and acceptance; the delegate's signer | through `DryRun` |
| `DryRun` | one command with its worker runs: threads, a child, a descendant | `MCDryRun`, `DryRunProofs` |
| `RpcEndpoint` | external: nodes each at a ledger of its own, one defective reply | through `RpcReads` |
| `RpcReads` | the acquisitions, one action per request | `MCRpcReads`, `RpcReadsProofs` |
| `PolicyCheck` | discovery, confirmation, prediction; extends `PolicyRule` | `MCPolicyCheck`, `PolicyProofs` |

An `MC` module gives the constants of one configuration their values.

**AgentHandoff.** An action is one turn of the event loop: everything a handler
does up to its next await. `pairing`, `connection`, `pending` and `seen` are the
fields of the handoff object; `slots` are agent bodies still arriving and
`request` the one admitted wallet request with the stage it has reached. Expiry
is lazy as in the code: each method first prunes, `now` only ticks. `claims` and
the last three fields of a draft are history.

**AccountLedger and WalletGrant.** `rules` remembers which entry added a rule and
when it came, changed and went; `entries` are the owner entries the wallet
released, `used` those whose nonce is spent, `sent` those the fee payer
submitted. Any entry that left the backend may be used once by anyone until its
expiry (`NetworkMoves`), and every read is answered as of any of the last `Lag`
ledgers. A handler that only reads before its one turn of writes is one action;
`assemble`, `submit` and `confirm-revoke` write in several turns and are split
there, `task` saying where the handler stands. `Restart` clears everything but
the journal; a new process may act once the operator has waited as
`docs/POLLYWALLET-INTEGRATION.md:599-617` prescribes (`OperatorWaited`).
Sequence numbers are left out: a send step may refuse at will instead. The
checks that a fresh observation is not older than the approved one and that a
replacement token counts the same attempts are implied in the model. A token
that expires after 120 s is one that is never consumed.

**PolicyRule and GeneratedPolicy.** An optional value is a set of at most one
element. The two deciders are sequences of refusals in the program's own order;
a decision is the first whose condition holds. `store` is what is committed,
`work` what the running transaction sees: a transaction may make several calls
and `RollBack` undoes all of them. `until` is the last ledger of each entry;
`Restore` brings an archived one back. Arguments are canonical values as
`crates/toolkit/src/policy_check.rs:88-125` admits them. Events are left out.
The host (minimum and maximum lifetime, archival, atomicity) is external.

**BuildWorker.** Each request has a thread state `api`, a `launcher` state named
by what SIGTERM does to it there, a runtime `client` in a session of its own
that survives a killed launcher, and a `container`. Time is left out: a deadline
is a step that may happen wherever the code waits with one. The launcher's
client can be killed by a stop, a deadline or an output limit (`KillClient`). What the
worker computed is a choice. `fault` is history: a deadline passed, a process
died by itself, or a removal failed. `BuildWorker` refines `BuildCapacity` with
`running` mapped to the builds whose client or container may run.

**AccountScan.** `request` is what is asked next, `previous` the last response,
`growing` the code's flag that no response contradicted its predecessor; the
staged read collects into `found`. `chain` is the account's store at each
ledger: any sequence over `Accounts`, answered by nodes up to `Lag` behind with
up to `MaxOmit` entries missing. A malformed or undecodable answer is a failed
request; the budget of retained bytes is left out; signers and policies are one
kind of entry; an account that is its own target is left out. The absence of a
classic account is an answer, so an omitted one cannot be told from a missing
one: `AcceptedIsOneLedger` excludes exactly that.

**Authoring.** Recordings and specifications are documents: between two tool
calls the caller may edit them (`EditBundle`, `EditSpec`), so each tool verifies
again what it is given, as in the code. XDR is abstract: a blob parses, is
garbage, or is too deep for the decoder. The denial suite has the evaluator of
`PolicyRule` and a matcher of its own, and is judged on every rule that is weaker
in one constraint. Rationale text and the JSON layout of cases are left out.

**ToolServer.** `st` holds, per call, the handler a client waits for and the
blocking work it started; a cancellation or a deadline answers the first and
leaves the second running. A permit for operator reads (`permits`) is held by the
work; a recording takes none, though it too may read through an operator source
(`source`). A build slot (`in_use`) is held from its taking until the output is
collected and the manifest made. `proc` is the builder, the leader of its process
group, and `kin` the descendants it has in the group and beyond it: the group is
killed only on a timeout, a cancellation or a wait error, so the kin of a builder
that ended by itself run on after the slot was given back. `quota` keeps the age of each window and its count;
`admitted` is history. `installed` is the operator's toolchain, which may be
exchanged at any step of a build; `store` keeps a session's artifacts, each with
the tools its manifest declares and, as history, those that built it.

**InstallCheck.** `chain` is the account with its rules, signers, policies, code
and classic accounts; it changes between any two steps. `job` goes from a plan
through the reading and the answer to the wallet's approval, the re-read before
signing, the record of the installation and the reads of one monitoring round,
which may be made at different ledgers. What a set of keys can do (`CanCall`,
`Powers`) is stated over the chain with the account contract's own rules, and not
with the check's operators. `reg` is a long-lived registry of the operator's and
`trust` what was pinned or persisted for it, which survives a restart.

**DryRun.** The coordinator takes the events of its reader, writer and watchdog
threads from one channel. The child follows the script of the mode it was
started in, or departs from it in one way; a descendant may hold its pipes or
leave its process group. The policy under test is its rule or a single departure
from it. The Soroban host is external.

**RpcReads.** An acquisition is sequential; every request is an action and every
reply is taken from any ledger the endpoint serves, with at most `Faults`
defects. **PolicyCheck** is the same for the state of one rule, with nodes up to
`Lag` behind and entries left out; what the network would do is stated with the
contracts' own rules over the whole ledger state.

## 3. Runs

| run | instance | shows |
|---|---|---|
| `handoff` | 2 wallets on one contract, 4 proposals (one for another account, one with too many calls), 2 body slots, lifetimes 1 to 2 of a clock of 3 | `ClaimsAuthentic`, `OutcomeFinal`, `AdmissionReleased` |
| `grant_cycle` | nodes 2 ledgers behind, one foreign change, 3 entries | `SubmitsAlone` under lag |
| `grant_replacement` | 5 entries, 2 rules, 2 processes, 7 ledgers | `OneGrantInForce`, `RemovalSentOnce` over removal, replacement and restart |
| `policy_lifecycle` | 2 accounts on one deployment, a rule with window and cap, a rule with neither, calls that miss each constraint | `CallBudget`, `UseKeepsAlive`, `PermitsAgree`, `RentOnlyForUse` |
| `build_worker` | 2 requests, 1 slot | `SlotNotStranded`, `ImplementsCapacity`, `EveryBuildAnswered` |
| `account_scan` | 6 stores, 2 ledgers with lag 1, one missing entry per response, 5 bounds | `AcceptedIsOneLedger`, `ScanEnds` |
| `authoring` | two recordings of one account on a token and on a router with a reviewed adapter, edited documents, every kind of decision | `GroundedEvidence`, `NoWiderThanDecided`, `SuiteSound`, `SuiteRefutesWeaker` |
| `tool_server` | 2 sessions, 1 slot, 1 kept artifact, 2 toolchains that differ in the CLI's revision, windows of 3 ticks | `OnePermittedRead`, `BuildersBounded`, `DeclaredToolsBuilt`, `QuotaAcrossWindows`, `EveryCallAnswered`, `PermitComesBack` |
| `install_check` | every shape of a second rule beside the owner's; an account that changes during approval, signing and monitoring; a registry history | `OnlyTrustedControl`, `LimitIsTheOnlyWay`, `CommitmentCoversPower`, `UnchangedIsTrue`, `OneRegistryHistory` |
| `dry_run` | each single departure of a policy with a steady worker; the right policy with each departure of a worker or descendant in one of four runs | `AcceptedIsSound`, `CorrectPolicyMeets`, `RunEndsClean`, `CoordinatorEnds` |
| `rpc_reads` | ledgers 3, 4, 5 and 17 of at most 18, one change, one expiring entry, one defect anywhere | `CapturedIsOneLedger`, `RecordingIsTrue`, `AssembledFits` |
| `policy_check` | 2 ledgers, lag 1, one omission, spending histories of up to 3 entries | `PredictionIsOfItsLedger`, `CaptureIsWhole`, `CheckEnds` |

The type invariants are conjuncts of the inductive invariants of section 4; the
runs check what the code promises.

### Bounds

- *handoff.* Lifetimes of 1 and 2 in a clock of 3 let pairing, connection and
  draft expire in every order; one receipt per connection makes the limit bite
  on the second distinct proposal; four identifiers allow two complete pairings.
- *grants.* `Lag` 2 exceeds `LiveTTL` 1, so a read older than a signature's
  expiry is possible, the case the replay check exists for. Five entries are the
  fewest for install, live check, removal, and a second install after either;
  two rules are what `OneGrantInForce` speaks of. The code's other counts (eight
  reviews) change how much is stored, not what a review allows. `grant_cycle` has
  one process, so that a restart never makes an installation unsafe is shown by
  `GrantAlone` only, and rests on `OperatorWaited`; `grant_replacement` reads
  without lag, and `RemovedOnce` covers every lag.
- *policy.* The window closes at ledger 5 of 6 and exceeds `MaxTtl` 3, so an
  extension recurs before it closes; `MinTtl` 2 is below that, so an entry can be
  archived while the policy is in use. `PermitBound` 2 only bounds the history of
  a rule without a cap.
- *builds.* Two requests for one slot are needed for a second container; a
  refused request is answered at once, so more of them add nothing. The proof
  covers any number.
- *scan.* `FirstSlots` 1 and three slots need up to four rounds; `KeyLimit` 6 is
  exceeded only by the largest account, so both reads happen; the bounds records
  make each budget run out. Two ledgers with lag 1 let nodes alternate in any
  order.
- *authoring.* Two recordings are the fewest that differ in an argument, a target
  or the code; evidence is acquired from transactions, simulations and imports
  with matching, missing and contradicting results, some past the recorder's
  limits. No checked rule has a lower bound (`ge_i128`), so `SuiteSound` and
  `SuiteRefutesWeaker` say nothing of lower bounds.
- *tool server.* Two calls suffice to compete for the permit and the slot; the
  quota needs time and more requests, so the instance is two calls with one
  toolchain, one call while the toolchain changes twice, or five requests with
  five ticks (`MCBounds`): two windows meet inside a span shorter than one. Only
  the window of the HTTP guard fills there; `QuotaHolds` covers each tool's. The
  proofs cover any number.
- *install check.* One rule beside the owner's is enough for every path the
  check distinguishes (delegated, external, aliased and classic keys, recognized
  and unknown policies, expiry). In the changing setup one of ten changes (a rule
  added, removed, extended or renamed, a classic account, a policy's or
  verifier's code) happens at any moment. The proofs cover any number of rules
  and changes. `UnchangedIsTrue` speaks of the account at the ledger of the
  authority read; the other seven reads may be of other ledgers.
- *dry run.* Departures come one at a time, so that each is refused for what it
  is. `VIEW View` only leaves out `work`, which the number of the setup
  determines.
- *reads.* The ledger 17 is one below `MAX_U32` 18, so additions to it meet the
  limit; the key limit 7 forces a second batch; two attempts are the fewest at
  which a retry happens. The refusal of an archived declared key does not occur
  in this instance, nor a bound past `MAX_U32`, which `AssembledCanLand` covers.
- *policy check.* `MAX_I128` 8 with histories of up to three entries lets a sum
  overflow, fill a limit exactly and leave the window at its edge.

`CHECK_DEADLOCK FALSE` appears where a behaviour really ends: the ledger bound
of the grants, all requests answered, the scan, the command or the monitoring
round done.

### Fairness

- `AgentHandoff`: weak fairness of dropping a request whose body never ends, and
  of the end of an admitted handler. The server sets request and header
  timeouts, and every await of a handler has a deadline of its own.
- `BuildWorker`: `PromptSpec` assumes only that the API's own threads run.
  `EveryBuildAnswered` adds that its timers fire (`Timers`) and assumes nothing
  of the launcher.
- `AccountScan`, `PolicyCheck`, `RpcReads`: weak fairness of the request's own
  thread; each request has a timeout, so a reply or a failure comes.
- `ToolServer`: weak fairness per call of its handler, its deadline, its blocking
  work and the steps of its build. A builder's descendant is never forced to
  leave: the reader's grace period ends the wait (`Collect`). Nothing is assumed
  of clients, of the operator or of a builder.
- `DryRun`: weak fairness of the coordinator, of the grace period, of the writer
  and reader threads, and of the child or its deadline. A descendant owes
  nothing.

The network, the owner, agents and clients are never assumed to act.

## 4. Proofs

All proofs hold for every value of the constants under the named assumptions of
the modules. Each safety theorem is Init => Inv, Inv /\ [Next]_vars => Inv' with
the invariant in the second column, and Inv => property.

| theorem | says | invariant and argument |
|---|---|---|
| `HandoffSafe` (`WalletProofs`) | `HandoffTypeOK`, `DraftAccounting`, `ClaimsAuthentic`, `NoAgentDuringKeyCreation` | `HandoffInv` adds what a waiting draft and a connection were delivered under: a claim is authentic because the draft, not the claim, already was. |
| `OutcomesAreFinal` | `OutcomeFinal` | From `HandoffInv`: only a waiting draft changes its outcome, and one connection has one receipt per delivery. |
| `GrantSafe`, `GrantAlone` (`WalletProofs`) | `OneGrantInForce`; `SubmitsAlone` | That a signature is *spent* (expired or used, and its rule gone) is stable. Each entry of an earlier process is spent before the first review, by `OperatorWaited`; one that is open is spent at the replay check; an installed one at replacement. `IInv` says at which step of the handler in flight which entries are spent; with nothing else open, the entry being sent can add the only rule. |
| `RemovedOnce` | `RemovalSentOnce` | `RInv`: the rule of a sent removal was added by an installation that is marked attempted, or that an earlier process answered for; an installation is recorded once and never by a later process. The mark is taken back only where nothing was sent. |
| `BudgetSafe` (`PolicyProofs`) | `CallBudget` | `IInv`: stored count equals permit history, in `store` and in `work` at once, since a rollback exchanges them; a count exists exactly where a capped marker does. |
| `EvaluatorIsContract` | `PermitsAgree` | Both deciders permit exactly when no refusal holds (`PermitIffNoneFails`), so only the sets of conditions are compared: the counting of signers (`CountsAgree`) and the strict comparison (`StrictAgrees`) are the two that differ in form. |
| `ReasonsAreTheEvaluators` | `ReasonsAgreeInScope` | Where the account passes a call on and the contract is the rule's, the two lists have the same first refusal. |
| `RentIsForUse`, `UsedStaysAlive` | `RentOnlyForUse`; `UseKeepsAlive` | `RentInv`: an installed policy has every entry it depends on, one that is not installed has none of its own, and an entry lives at least half the target past each use, stated as a bound on its last ledger so that time cannot falsify it; in `store` and `work`. |
| `WorkerSafe` (`BuildWorkerProofs`) | `TypeOK`, `SlotNotStranded`, `AnswerAfterRemoval` | `in_use` counts the holders of a slot; launcher, pipe and thread agree on what was confirmed; each retained slot has an explanation in `fault`. |
| `WorkerImplementsCapacity` | `BuildWorker` implements `BuildCapacity` | What may run belongs to a request that holds a slot, so there are at most `in_use` of them; each step maps to an abstract step or a stutter. |
| `ScanSound` (`AccountScanProofs`) | `AcceptedIsOneLedger` | Each stored response is a part of one ledger's store, and a staged read passed the checks of the stages behind it. `CheckedIsWhole`: a part whose rule count reconciles has every rule, so everything the rules name was asked for. |
| `OnePermittedReadAtATime`, `BuildersFitSlots` (`ToolServerProofs`) | `OnePermittedRead`; `BuildersBounded` | `SharedInv`: a free permit is held by no work and at most one work holds it, and only a recording works through an operator source without it; `in_use` is the number of calls whose work is in a build, whatever became of their callers, and within the limit. A builder runs only in a build, and one that was killed took its group with it. |
| `QuotaHolds` | `QuotaAcrossWindows` | `WellCounted`: admissions are numbered within their window, up to the limit and without repetition among those on the same side of the present window's start; a span shorter than a window meets at most two. |
| `KeptManifestsAreTrue` | `DeclaredToolsBuilt` | `DeclaredInv`: a manifest that passed the comparison with the metadata states the identities of the tools that ran, although the operator may exchange them between probe and build. |
| `PersistedIsOneHistory` (`InstallCheckProofs`) | `OneRegistryHistory` | `HistoryInv`: the last checkpoint is of a snapshot that extends all that was persisted, and a registry holds a snapshot that does, or has just been started from that checkpoint. |
| `ControlIsTrusted` | `OnlyTrustedControl` | `ShapeInv`: the chain keeps the shape of the account contract, its lists lists until the wallet signed. The re-check that clears the wallet answers over the account as it is at that step. Every live rule that reaches the account or a bound policy is described in the answer; where the re-check raises nothing, each of them needs a key only the owner has. |
| `LimitIsExclusive` | `LimitIsTheOnlyWay` | `ShapeInv` and `RequestInv`. A rule that reaches the target with the agent's keys alone would be listed: keys with the same head are one key, a classic account with one signer is its key, and a rule is excused only by a limit the registry lists. |
| `ApprovalCoversPower` | `CommitmentCoversPower` | `ApprovalInv`: a reading *mirrors* the chain it was taken of (`Mirrors`), and two readings with one commitment are the *same* in all that authorization looks at (`Same`); so what a set of keys can do is equal rule by rule. |
| `ReportIsTrue` | `UnchangedIsTrue` | `MonitorInv` = `ShapeInv`, `ApprovalInv`, `RecordInv` (the record has the approved commitment and the grant's context), `WatchInv` (where the authority read reports *observed*, the rule stands at its ledger and the answer mirrors the rest of the account), `ReportInv`. |
| `CaptureWhole` (`PolicyProofs`) | `CaptureIsWhole` | `CaptureInv`: the values read are a part of one ledger's state, whole if nothing was left out; at the end the headers before and after name that ledger and the keys asked for are the closure of what was found. |
| `PredictionIsTrue` | `PredictionIsOfItsLedger` | `CaptureInv` and `Attributed`: everything the call touches exists, is live and runs the recognized code at the ledger named, and a complete capture has that ledger's own value under every key the prediction looks up. So the candidates it tries are the account's live signers, the policy state it evaluates is the contract's (then `EvaluatorIsContract` applies), and its sum over the spending history is the sum the limit contract would form. |
| `CaptureIsOneLedger`, `RecordingHolds`, `AssembledCanLand` (`RpcReadsProofs`) | `CapturedIsOneLedger`; `RecordingIsTrue`; `AssembledFits` | `ReadInv` says at each request what the acquisition has kept of the earlier replies: of a recording the contracts of the batches so far, each dated by its own reply; of a native capture the keys the simulated ledger's call names, then those keys' values at that ledger, alive in the next; of an assembly the payer's sequence at the lower bound and an inclusion fee read no earlier. It rests on lemmas about the endpoint: every row of any reply, defective or not, is *honest* (`Honest`: it differs from the ledger's row in one field at most), and each reader's checks leave only rows that are the ledger's (`AcceptedRow`). A reply with as many rows as keys and no key twice has every key, by counting (`OneOfEach`). |
| `CleanEnd` (`DryRunProofs`) | `RunEndsClean` | `RunInv`: the channel has exactly the lines the child wrote and nobody has seen, in order and once each (`LinesInOrder`), so a line that is taken is the next; the first was the preparation and was accepted, the result was the last; an observed status is the dead child's; a child was killed only if the run is refused or the deadline passed; the end of the output is reported once nobody holds the pipe. At the end of the drain nothing is left in the channel, so what was seen is all that was written. Every thread's step is one case of `ThreadStep`, every step of the coordinator and the watchdog one of `CoordinatorStep`. |

Assumptions beyond types:

- `AccountsAssumption`: the account contract keeps its rule count in step with
  its rules and names keys of the closure only. `SetupAssumption`: the accounts,
  changes and requests of `InstallCheck` have their fields, rule identifiers are
  below the next one, and lists are lists; `JobsAssumption` is the like for the
  requests and ledger states of `PolicyCheck`: policies, signer and policy
  identifiers are lists, a stored signer is of one of the contract's three kinds,
  a spending state is well formed, a lifetime is a number, and a request that is
  not malformed names a validated rule and a generated policy.
  `SetupsAssumption` is the like for the requests of `RpcReads`, and says that a
  classic account has no lifetime.
- `WorkersAssumption`: a setup names a command, and its processes behave in one
  of the ways `Behaviours` lists. That a worker's own exit is not the status of
  a kill is not assumed but proved of the scripts.
- `RulesValidated` (the shapes `crates/policy-spec` admits) and
  `RequestsFromAccount` (a context rule lists no signer twice).
- `FirstTrustAssumption`: the checkpoint an operator pins first is of a snapshot
  he trusted.
- `ReviewAssumption`: code whose verifier scheme was reviewed does what the
  review says, and a spending limit the registry lists is one.
- `AddressAssumption`: a classic address is its 32-byte Ed25519 key.
- `ServerStarts`, `ServerAssumption`: the configuration with which the server
  starts at all. Not an assumption of a module but of `terminate_process_group`:
  a builder runs as the server's user, so `killpg` does reach it and its group; a
  descendant that changed its user counts as beyond the group.

TLC evaluates each of them on the instance of a run.

A loop a proof is about is written as a recursive function of the index, never
as a RECURSIVE operator. What such a loop computes is proved from the
least-number principle (`Least`, `UpTo`): an index at which the claim fails has
a least one, and there the step of the loop gives the contradiction.

Only model-checked:

- *Liveness*, which the prover does not reach: `AdmissionReleased`,
  `EveryBuildAnswered`, `ScanEnds`, `EveryCallAnswered`, `PermitComesBack`,
  `CoordinatorEnds`, `CheckEnds`.
- *Authoring*: `GroundedEvidence`, `NoWiderThanDecided`, `SuiteSound` and
  `SuiteRefutesWeaker` speak of lists that are filtered, folded and compared.
- *Dry run*: `AcceptedIsSound` and `CorrectPolicyMeets` speak of the same suites,
  what a whole suite of cases tells of a policy.

## 5. Where a text and the code differ

Met while modelling; none of them breaks a property above. Of the first,
`OnePermittedRead` states the part that holds.

1. `docs/DEVELOPERS.md:434-438` says that every tool that names an
   operator-configured source shares a limit of one operation, and
   `docs/CAPTURED-TARGET-EXECUTION.md:88-89` that one read runs through an operator
   source at a time. `record_transaction` and `record_simulation` resolve a
   configured source (`crates/mcp-server/src/main.rs:224`) and read it without the
   permit, beside a call that holds it or beside each other: without its exception
   for recordings `OnePermittedRead` is violated in the `tool_server` instance.
2. `docs/POLLYWALLET-INTEGRATION.md:463` says a new live check is refused while a
   recorded signature is valid. `wallet/server/actions.mjs:571` checks this when
   a live check is prepared, not when it is consented to: prepare-live, assemble,
   consent-live releases a second one. The later submit refuses, so nothing is
   installed.
3. `crates/evaluator/src/lib.rs:8` says its order of checks mirrors the generated
   contract. It refuses another contract before it looks at the signers, the
   contract after; the verdict is the same, the reason is not. Where the contract
   is the rule's, `ReasonsAreTheEvaluators` proves the reasons equal.
4. `docs/ECOSYSTEM-CONFORMANCE.md:460` says entries live no longer than the
   policy can permit. An installation shortly before the end of the window
   leaves entries with the host's minimum lifetime. What the policy itself buys
   ends with the window (`RentIsForUse`).

## 6. What is left

1. Of `Authoring`, a proof that a synthesized constraint is wider than the
   observation only by a decision.
2. The wallet session's capacity and busy flag, and the fee payer's sequence
   numbers, as part of `WalletGrant`; account creation, the recording sample,
   generation and deployment, which share its file.
3. The browser controller over a backend that answers, loses answers and
   restarts.

## 7. Not modelled

XDR and JSON encoding, hashing, signatures as cryptography, text production of
the generator, rendering of the page, start-up configuration and pinned-binary
checks, schema types, the command line apart from its dry run, the testnet
scripts and the deployment files: they keep no state between operations, or only
formatting would be restated. The wallet's pure validators appear as the guards
of its actions; its own driver of the execution worker does what `DryRun` models
for the command line. The browser controller is left out: the backend's models
let a client send any request at any time. The network, the account contract,
the host, the container runtime and the operator are external and modelled by
what the code relies on. `PROJECT.json` lists every component with its status.
