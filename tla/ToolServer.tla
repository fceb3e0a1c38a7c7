----------------------------- MODULE ToolServer -----------------------------
(***************************************************************************)
(* A hosted MCP server (crates/mcp-server): the HTTP guard, the per-tool   *)
(* quotas, the tool handlers, the blocking work each of them starts and    *)
(* the local builds (crates/build-runner) that this work runs.             *)
(*                                                                         *)
(* A handler is a future that waits for blocking work; the two go on       *)
(* separately, so a caller may be answered while its work still runs.      *)
(* Everything that is shared between sessions is here: the request quotas, *)
(* the one permit for reads through an operator's RPC source, the build    *)
(* slots.  A session has only its generated artifacts to itself.           *)
(*                                                                         *)
(* A caller id is used for one call after another; it is idle again when   *)
(* the call is answered and its blocking work is over.  What an answer     *)
(* says is left out, but for the artifacts a session keeps.                *)
(***************************************************************************)
EXTENDS LocalBuild, SequencesExt

CONSTANTS
    Callers,       \* the concurrent calls
    Sessions,
    SessionOf,     \* the session of each caller id
    Tools,         \* the tools that are called
    Specs,         \* the specifications a client may have built
    Toolchains,    \* the toolchains that may be installed, one after another
    Identity,      \* what each of them says of itself, as LocalBuild has it
    KEPT_ARTIFACTS,
    HttpLimit,     \* OZPB_HTTP_REQUESTS_PER_MINUTE
    Metered,       \* the tools whose quota is small enough to be met here
    DefaultPerMinute,  \* OZPB_HTTP_TOOL_REQUESTS_PER_MINUTE
    Overrides,     \* OZPB_HTTP_TOOL_LIMITS_JSON: the limits of some tools
    Window,        \* the quota window, in clock ticks
    Config,        \* the operator's build settings
    BuildLimit,    \* BuildSlots.limit: OZPB_HTTP_MAX_CONCURRENCY
    Cpus,
    Bounds,        \* bounds: how many requests are made, how many of them
                   \* reach a tool, how often the clock ticks and how often the
                   \* operator changes the toolchain, together
    MaxBuilds,     \* bound: the generated rules of one request
    MaxReads       \* bound: the RPC calls of one request

\* serve refuses to start on anything else.
ASSUME ServerStarts ==
    /\ validated(Config)
    /\ FitsMachine(BuildLimit, Config.jobs, Cpus)
    /\ BuildLimit \in Nat
    /\ HttpLimit \in Nat \ {0} /\ DefaultPerMinute \in Nat \ {0}
    /\ \A t \in DOMAIN Overrides : Overrides[t] \in Nat \ {0}

ASSUME ServerAssumption ==
    /\ SessionOf \in [Callers -> Sessions]
    /\ KEPT_ARTIFACTS \in Nat \ {0}
    /\ Window \in Nat \ {0}
    /\ \A t \in Toolchains : \A k \in MetaKeys : DOMAIN Identity[t][k] = {"version", "revision"}

(***************************************************************************)
(* The tools, by what their handlers do.  slot: the permit that the tools  *)
(* which name an operator's source share, which goes with a deadline (the  *)
(* recordings read a configured source without it); refers:                *)
(* resolve_generated_artifact; needs: what is resolved before the work;    *)
(* builds, reads: how many the blocking work may run; keeps: the artifact  *)
(* is kept for the session.  The pure tools keep no state but their quota  *)
(* and are left out.                                                       *)
(***************************************************************************)
Tool(slot, refers, needs, nb, nr, keeps) ==
    [slot |-> slot, refers |-> refers, needs |-> needs, builds |-> nb, reads |-> nr, keeps |-> keeps]

generate_code == Tool(FALSE, FALSE, "nothing", {1}, {0}, TRUE)
verify == Tool(FALSE, TRUE, "nothing", {1}, {0}, FALSE)
prepare_dry_run == Tool(TRUE, TRUE, "authority", 1..MaxBuilds, {0}, FALSE)
check_policy_call_surface == Tool(TRUE, FALSE, "authority", 0..MaxBuilds, 1..MaxReads, FALSE)
prepare_install_intent == Tool(TRUE, FALSE, "authority", 0..MaxBuilds, 1..MaxReads, FALSE)
assemble_install_transaction == Tool(TRUE, FALSE, "authority", 0..MaxBuilds, 1..MaxReads, FALSE)
check_against_policy == Tool(TRUE, FALSE, "authority", 0..MaxBuilds, 1..MaxReads, FALSE)
capture_target == Tool(TRUE, FALSE, "source", {0}, 1..MaxReads, FALSE)
record_transaction == Tool(FALSE, FALSE, "endpoint", {0}, 1..MaxReads, FALSE)
record_simulation == Tool(FALSE, FALSE, "endpoint", {0}, 1..MaxReads, FALSE)
preflight_transaction == Tool(FALSE, FALSE, "unsigned", {0}, 1..MaxReads, FALSE)

Shape == [
    generate_code |-> generate_code,
    verify |-> verify,
    prepare_dry_run |-> prepare_dry_run,
    check_policy_call_surface |-> check_policy_call_surface,
    prepare_install_intent |-> prepare_install_intent,
    assemble_install_transaction |-> assemble_install_transaction,
    check_against_policy |-> check_against_policy,
    capture_target |-> capture_target,
    record_transaction |-> record_transaction,
    record_simulation |-> record_simulation,
    preflight_transaction |-> preflight_transaction]

\* ToolLimitConfig::limit: all of these build or read an endpoint (HEAVY; its
\* other two, connect_wallet and send_wallet_proposal, a hosted server refuses).
HEAVY == DOMAIN Shape
ToolLimit(t) ==
    IF t \in DOMAIN Overrides THEN Overrides[t]
    ELSE IF t \in HEAVY /\ DefaultPerMinute > 4 THEN 4
    ELSE DefaultPerMinute

ASSUME ToolsAssumption == Tools \subseteq DOMAIN Shape /\ Metered \subseteq Tools

VARIABLES
    quota,      \* "http" and each tool: RequestQuota.state, as the age of the
                \* window and its count; one that is over has age Window and
                \* its count means nothing
    admitted,   \* history: the calls "http" and each tool admitted less than
                \* a Window ago, by age and by their number in their window
    left,       \* the requests, calls, ticks and upgrades that are left
    st,         \* each call: its handler, its tokens, its blocking work
    permits,    \* authority_slots: the permits that are free
    in_use,     \* BuildSlots.in_use
    installed,  \* the toolchain that is installed
    store       \* GeneratedArtifacts of each session, the oldest first

limits == <<quota, admitted, left>>
vars == <<limits, st, permits, in_use, installed, store>>

Windows == {"http"} \cup Metered

(***************************************************************************)
(* A call: pc, its handler; cancelled, the request's token; stopped, the   *)
(* work's token, a child of it; work, the blocking closure, and its        *)
(* outcome; builds and reads it has still to run; source, its endpoint is  *)
(* an operator's; proc, the process of its last build; kin, what that      *)
(* process started and is still there: "group", in its process group, and  *)
(* "beyond", where killpg does not reach (in a group of its own, or of     *)
(* another user); built, the toolchain that produced the last Wasm;        *)
(* declared, the one its manifest names.                                   *)
(***************************************************************************)
Idle == [pc |-> "idle", tool |-> "none", spec |-> "none", cancelled |-> FALSE, stopped |-> FALSE,
         work |-> "none", outcome |-> "none", builds |-> 0, reads |-> 0, source |-> FALSE,
         proc |-> "none", kin |-> {}, built |-> "none", declared |-> "none"]

Init ==
    /\ quota = [w \in Windows |-> [age |-> 0, count |-> 0]]
    /\ admitted = [w \in Windows |-> {}]
    /\ left \in Bounds
    /\ st = [c \in Callers |-> Idle]
    /\ permits = 1
    /\ in_use = 0
    /\ installed \in Toolchains
    /\ store = [s \in Sessions |-> <<>>]

-----------------------------------------------------------------------------
(***************************************************************************)
(* Admission.                                                              *)
(***************************************************************************)
\* A tick of the monotonic clock.
Tick ==
    /\ left.ticks > 0
    /\ quota' = [w \in Windows |-> 
                   IF quota[w].age + 1 < Window
                   THEN [quota[w] EXCEPT !.age = @ + 1]
                   ELSE [age |-> Window, count |-> 0]]
    /\ admitted' = [w \in Windows |->
                      {[a EXCEPT !.age = @ + 1] : a \in {b \in admitted[w] : b.age + 1 < Window}}]
    /\ left' = [left EXCEPT !.ticks = @ - 1]
    /\ UNCHANGED <<st, permits, in_use, installed, store>>

\* Mutant: a new window forgets to move its start.
WindowNow_KeepsStart(q) == q

\* RequestQuota::admit_at: the window that a call is counted in ...
WindowNow(q) == IF q.age >= Window THEN [age |-> 0, count |-> 0] ELSE q

\* ... whether it is admitted, and what that leaves.  A refused call spends
\* nothing.
Admits(q, limit) == WindowNow(q).count < limit
Admit(q, limit) ==
    LET w == WindowNow(q)
    IN  IF Admits(q, limit) THEN [w EXCEPT !.count = @ + 1] ELSE w
Admission(q) == [age |-> 0, number |-> WindowNow(q).count + 1]

\* enforce_http_security: the bearer token, the quota of all requests, the
\* body.  A call without the token spends nothing; one with too large a body
\* has spent its admission.
enforce_http_security(c, t, sp, authorized, body) ==
    /\ st[c].pc = "idle"
    /\ left.requests > 0
    /\ \/ /\ ~authorized
          /\ left' = [left EXCEPT !.requests = @ - 1]
          /\ UNCHANGED <<quota, admitted, st>>
       \/ /\ authorized
          /\ ~Admits(quota["http"], HttpLimit)
          /\ quota' = [quota EXCEPT !["http"] = Admit(@, HttpLimit)]
          /\ left' = [left EXCEPT !.requests = @ - 1]
          /\ UNCHANGED <<admitted, st>>
       \/ /\ authorized
          /\ Admits(quota["http"], HttpLimit)
          /\ quota' = [quota EXCEPT !["http"] = Admit(@, HttpLimit)]
          /\ admitted' = [admitted EXCEPT !["http"] = @ \cup {Admission(quota["http"])}]
          /\ IF body = "fits"
             THEN /\ left.calls > 0
                  /\ left' = [left EXCEPT !.requests = @ - 1, !.calls = @ - 1]
                  /\ st' = [st EXCEPT ![c] = [Idle EXCEPT !.pc = "called", !.tool = t, !.spec = sp]]
             ELSE left' = [left EXCEPT !.requests = @ - 1] /\ UNCHANGED st
    /\ UNCHANGED <<permits, in_use, installed, store>>

\* A client cancels, or its session ends: the request's token and with it the
\* child token that the work looks at.
Cancel(c) ==
    /\ st[c].pc \in {"called", "waiting"}
    /\ ~st[c].cancelled
    /\ st' = [st EXCEPT ![c].cancelled = TRUE, ![c].stopped = TRUE]
    /\ UNCHANGED <<limits, permits, in_use, installed, store>>

-----------------------------------------------------------------------------
(***************************************************************************)
(* The handlers.                                                           *)
(***************************************************************************)

\* resolve_generated_artifact: a reference is one this session still keeps,
\* and comes instead of the claimed files.
resolve_generated_artifact(c, reference) ==
    \/ reference = "claimed"
    \/ \E a \in ToSet(store[SessionOf[c]]) : a.spec = reference

\* RpcEndpointPolicy: an absolute HTTPS URL, without credentials, on the list.
normalize(url) == url.https /\ ~url.credentials
authorize(url) == normalize(url) /\ url.listed

\* authority_setup up to the permit; a request is what it names, and what the
\* operator configured.
resolve_rpc_source(i) == i.named = "known" /\ i.network = "same"
authority_setup(i) == i.trust /\ resolve_rpc_source(i) /\ authorize(i.url)

\* record_endpoint: a configured source by name, the only one when nothing is
\* named, or a URL of the caller's with its passphrase, but not both.
record_endpoint(i) ==
    /\ i.named = "url" => i.network # "unstated"
    /\ i.named \in {"url", "known", "only"}
    /\ i.network # "other"
    /\ authorize(i.url)

\* What a tool resolves before its work; a hosted server simulates no envelope
\* that carries signatures.
Resolved(c, reference, i) ==
    LET s == Shape[st[c].tool]
    IN  /\ s.refers => resolve_generated_artifact(c, reference)
        /\ CASE s.needs = "nothing"   -> TRUE
             [] s.needs = "authority" -> authority_setup(i)
             [] s.needs = "source"    -> resolve_rpc_source(i) /\ authorize(i.url)
             [] s.needs = "endpoint"  -> record_endpoint(i)
             [] s.needs = "unsigned"  -> authorize(i.url) /\ ~i.signed

\* Whether the endpoint is one the operator configured: wherever a source is
\* named, and for a recording unless the caller gave a URL.
OperatorSource(needs, i) ==
    needs \in {"authority", "source"} \/ (needs = "endpoint" /\ i.named # "url")

\* call_tool and the handler up to its first await: the tool's own quota, then
\* what it resolves, then the permit, which is tried and never waited for.
call_tool(c, reference, setup, nb, nr) ==
    LET t == st[c].tool
        s == Shape[t]
        refuse == st' = [st EXCEPT ![c] = Idle] /\ UNCHANGED permits
    IN
    /\ st[c].pc = "called"
    /\ nb \in s.builds /\ nr \in s.reads
    /\ quota' = IF t \in Metered THEN [quota EXCEPT ![t] = Admit(@, ToolLimit(t))] ELSE quota
    /\ IF t \in Metered => Admits(quota[t], ToolLimit(t))
       THEN /\ admitted' = IF t \in Metered
                           THEN [admitted EXCEPT ![t] = @ \cup {Admission(quota[t])}]
                           ELSE admitted
            /\ IF Resolved(c, reference, setup) /\ (s.slot => permits > 0)
               THEN /\ permits' = IF s.slot THEN permits - 1 ELSE permits
                    /\ st' = [st EXCEPT ![c].pc = "waiting", ![c].work = "plan",
                                        ![c].builds = nb, ![c].reads = nr,
                                        ![c].source = OperatorSource(s.needs, setup)]
               ELSE refuse
       ELSE refuse /\ UNCHANGED admitted
    /\ UNCHANGED <<left, in_use, installed, store>>

\* GeneratedArtifacts::keep: one that is kept already moves to the end, and
\* retain finds it once at most.
keep(q, a) ==
    LET rest == RemoveFirst(q, a)
    IN  Append(IF Len(rest) = KEPT_ARTIFACTS THEN Tail(rest) ELSE rest, a)

\* The handler when its work is over: unless_cancelled first, whatever the
\* work returned; generate_code keeps what it returns.
finish(c) ==
    LET s == SessionOf[c]
        a == [spec |-> st[c].spec, declared |-> st[c].declared, built |-> st[c].built]
    IN
    /\ st[c].pc = "waiting"
    /\ st[c].work = "ended"
    /\ IF Shape[st[c].tool].keeps /\ ~st[c].cancelled /\ st[c].outcome = "ok"
       THEN store' = [store EXCEPT ![s] = keep(@, a)]
       ELSE UNCHANGED store
    /\ st' = [st EXCEPT ![c] = Idle]
    /\ UNCHANGED <<limits, permits, in_use, installed>>

\* Mutant: the permit belongs to the waiting handler.
deadline_FreesPermit(c) ==
    /\ st[c].pc = "waiting"
    /\ Shape[st[c].tool].slot
    /\ st[c].work # "ended"
    /\ st' = [st EXCEPT ![c].pc = "answered", ![c].stopped = TRUE]
    /\ permits' = 1
    /\ UNCHANGED <<limits, in_use, installed, store>>

\* The deadline of a tool that holds the permit: the caller is answered and
\* the work is told to stop, but keeps its permit until it has.
deadline(c) ==
    /\ st[c].pc = "waiting"
    /\ Shape[st[c].tool].slot
    /\ st[c].work # "ended"
    /\ st' = [st EXCEPT ![c].pc = "answered", ![c].stopped = TRUE]
    /\ UNCHANGED <<limits, permits, in_use, installed, store>>

-----------------------------------------------------------------------------
(***************************************************************************)
(* The blocking work: its builds, then its reads.                          *)
(***************************************************************************)

\* The closure returns, and drops the permit that travelled with it.  Nobody
\* waits for it when the caller was answered at the deadline.
EndWork(c, o) ==
    /\ st' = [st EXCEPT ![c] = IF @.pc = "answered" THEN Idle
                               ELSE [@ EXCEPT !.work = "ended", !.outcome = o]]
    /\ permits' = IF Shape[st[c].tool].slot THEN permits + 1 ELSE permits

\* build: the slot first, then what can be refused before a process exists
\* (the crate, the cache directory, the spawn).
build(c, crate, cache, spawns) ==
    /\ st[c].work = "plan"
    /\ st[c].builds > 0
    /\ IF /\ in_use < BuildLimit
          /\ validate_generated(crate)
          /\ prepare_cache_dir(cache)
          /\ spawns
       THEN /\ in_use' = in_use + 1
            /\ st' = [st EXCEPT ![c].builds = @ - 1, ![c].work = "build", ![c].proc = "running",
                                ![c].kin = {}, ![c].built = installed]
            /\ UNCHANGED permits
       ELSE EndWork(c, "failed") /\ UNCHANGED in_use
    /\ UNCHANGED <<limits, installed, store>>

\* The builder ends by itself, whatever it started runs on; one that hangs
\* never ends.
BuilderExits(c) ==
    /\ st[c].proc = "running"
    /\ st' = [st EXCEPT ![c].proc = "exited"]
    /\ UNCHANGED <<limits, permits, in_use, installed, store>>

\* The builder starts a process (cargo, a compiler), which inherits its pipe
\* ends; it stays in the builder's group or goes where killpg does not reach
\* it, and may run for ever.
DescendantStarts(c, k) ==
    /\ st[c].proc = "running"
    /\ k \notin st[c].kin
    /\ st' = [st EXCEPT ![c].kin = @ \cup {k}]
    /\ UNCHANGED <<limits, permits, in_use, installed, store>>

\* The operator changes the installed toolchain.
Upgrade(t) ==
    /\ left.upgrades > 0
    /\ t # installed
    /\ installed' = t
    /\ left' = [left EXCEPT !.upgrades = @ - 1]
    /\ UNCHANGED <<quota, admitted, st, permits, in_use, store>>

\* Mutant: only the direct child is killed.
terminate_process_group_ChildOnly(x) == [x EXCEPT !.proc = "killed"]

\* terminate_process_group, and child.wait after it.  The builder runs as the
\* server's user, so the signal reaches it at least: killpg fails only when it
\* can signal nobody, and the error it then leaves ends the build as the
\* timeout or the cancellation does.
terminate_process_group(x) == [x EXCEPT !.proc = "killed", !.kin = @ \ {"group"}]

\* Mutant: the wait for the builder has no deadline.
MayStopWaiting_NoDeadline(c, why) ==
    \/ why = "cancelled" /\ st[c].stopped
    \/ why = "exited" /\ st[c].proc = "exited"

\* wait_until polls the token, then its deadline, then the child; an error of
\* that poll is treated as the deadline is.
MayStopWaiting(c, why) ==
    \/ why = "cancelled" /\ st[c].stopped
    \/ why = "timeout"
    \/ why = "exited" /\ st[c].proc = "exited"

\* run_bounded_until after the wait: what is not an exit ends in the group's
\* termination; after an exit nothing is killed.
wait_until(c, why) ==
    /\ st[c].work = "build"
    /\ MayStopWaiting(c, why)
    /\ LET x == [st[c] EXCEPT !.work = "collect", !.outcome = why]
       IN  st' = [st EXCEPT ![c] = IF why = "exited" THEN x ELSE terminate_process_group(x)]
    /\ UNCHANGED <<limits, permits, in_use, installed, store>>

\* Mutant: the reader threads are joined.
collect_reader_Joins(c) == st[c].kin = {}

\* collect_reader: the pipe is at its end, or READER_GRACE has passed and the
\* thread is abandoned.
collect_reader(c) == TRUE

\* The rest of run_bounded_until: the output is collected and the wait's
\* result reported.  Only an exit with success leads on to the probes; in any
\* other case the build returns and drops its slot.
Collected(c, success) ==
    /\ st[c].work = "collect"
    /\ collect_reader(c)
    /\ IF st[c].outcome = "exited" /\ success
       THEN st' = [st EXCEPT ![c].work = "probe"] /\ UNCHANGED <<permits, in_use>>
       ELSE EndWork(c, "failed") /\ in_use' = in_use - 1
    /\ UNCHANGED <<limits, installed, store>>

\* The Wasm is read, the tools that are installed now are asked for their
\* versions (command_version), and the manifest is made; the slot is dropped.
Probe(c, file) ==
    /\ st[c].work = "probe"
    /\ in_use' = in_use - 1
    /\ IF manifest_for(Identity[installed], [file EXCEPT !.meta = MetaOf(Identity[st[c].built])])
       THEN /\ st' = [st EXCEPT ![c].work = "plan", ![c].outcome = "none", ![c].declared = installed]
            /\ UNCHANGED permits
       ELSE EndWork(c, "failed")
    /\ UNCHANGED <<limits, installed, store>>

\* Cancellable::call: no RPC call starts once the token is set.
Cancellable_call(c) ==
    /\ st[c].work = "plan"
    /\ st[c].builds = 0
    /\ st[c].reads > 0
    /\ IF st[c].stopped
       THEN EndWork(c, "failed")
       ELSE st' = [st EXCEPT ![c].work = "call"] /\ UNCHANGED permits
    /\ UNCHANGED <<limits, in_use, installed, store>>

\* The call in flight is answered, or ends on its transport timeout.
CallReturns(c, good) ==
    /\ st[c].work = "call"
    /\ IF good
       THEN st' = [st EXCEPT ![c].reads = @ - 1, ![c].work = "plan"] /\ UNCHANGED permits
       ELSE EndWork(c, "failed")
    /\ UNCHANGED <<limits, in_use, installed, store>>

\* Nothing is left to do.
WorkDone(c) ==
    /\ st[c].work = "plan"
    /\ st[c].builds = 0
    /\ st[c].reads = 0
    /\ EndWork(c, "ok")
    /\ UNCHANGED <<limits, in_use, installed, store>>

-----------------------------------------------------------------------------
\* What a step may be given.
AllNormal == {[name |-> f, components |-> {"normal"}] : f \in RequiredFiles}
Crates ==
    {[count |-> "fits", size |-> "fits", files |-> AllNormal],
     [count |-> "fits", size |-> "over", files |-> AllNormal],
     [count |-> "fits", size |-> "fits",
      files |-> {p \in AllNormal : p.name # "rust-toolchain.toml"}]}
Files == {[empty |-> FALSE, size |-> "fits", readable |-> TRUE, meta |-> <<>>],
          [empty |-> FALSE, size |-> "over", readable |-> TRUE, meta |-> <<>>]}

\* At most one thing is wrong with a build before its process exists.
OwnCache == [kind |-> "directory", owner |-> "self", groupWritable |-> FALSE, ownerMayUse |-> TRUE]
Good == [crate |-> CHOOSE x \in Crates : validate_generated(x), cache |-> OwnCache, spawns |-> TRUE]
BuildInputs ==
    {Good, [Good EXCEPT !.spawns = FALSE]}
    \cup {[Good EXCEPT !.crate = x] : x \in Crates}
    \cup {[Good EXCEPT !.cache = x] : x \in
             {[OwnCache EXCEPT !.kind = k] : k \in {"absent", "symlink", "file"}}
             \cup {[OwnCache EXCEPT !.owner = "other"], [OwnCache EXCEPT !.groupWritable = TRUE],
                   [OwnCache EXCEPT !.ownerMayUse = FALSE]}}

\* A request that resolves, and ones with one thing wrong.
Listed == [https |-> TRUE, credentials |-> FALSE, listed |-> TRUE]
Named == [trust |-> TRUE, named |-> "known", network |-> "same", url |-> Listed, signed |-> FALSE]
Setups == {Named, [Named EXCEPT !.named = "url"], [Named EXCEPT !.named = "unknown"], [Named EXCEPT !.network = "other"],
           [Named EXCEPT !.url = [@ EXCEPT !.listed = FALSE]]}

\* Only what a tool builds from matters of a specification.
Inputs == {i \in [tool : Tools, spec : Specs \cup {"none"}] : Shape[i.tool].keeps <=> i.spec # "none"}

Arrive(c) == \E i \in Inputs, au \in BOOLEAN, b \in {"fits", "over"} :
                enforce_http_security(c, i.tool, i.spec, au, b)
Call(c) == \E rf \in Specs \cup {"claimed"}, su \in Setups, nb \in 0..MaxBuilds, nr \in 0..MaxReads :
                call_tool(c, rf, su, nb, nr)
Build(c) == \E i \in BuildInputs : build(c, i.crate, i.cache, i.spawns)
Descends(c) == \E k \in {"group", "beyond"} : DescendantStarts(c, k)
WaitEnds(c) == \E why \in {"cancelled", "timeout", "exited"} : wait_until(c, why)
Collect(c) == \E ok \in BOOLEAN : Collected(c, ok)
Probes(c) == \E f \in Files : Probe(c, f)
Returns(c) == \E good \in BOOLEAN : CallReturns(c, good)

Next ==
    \/ Tick
    \/ \E t \in Toolchains : Upgrade(t)
    \/ \E c \in Callers :
          \/ Arrive(c) \/ Cancel(c)
          \/ Call(c) \/ finish(c) \/ deadline(c)
          \/ Build(c) \/ BuilderExits(c) \/ Descends(c)
          \/ WaitEnds(c) \/ Collect(c) \/ Probes(c)
          \/ Cancellable_call(c) \/ Returns(c) \/ WorkDone(c)

(***************************************************************************)
(* Handlers and blocking threads are scheduled, timers fire, a call in     *)
(* flight ends on its transport timeout.  Nothing is assumed of clients,   *)
(* of the operator, of a builder or of what it started.                    *)
(***************************************************************************)
Fairness == \A c \in Callers :
    /\ WF_vars(Call(c)) /\ WF_vars(finish(c)) /\ WF_vars(deadline(c))
    /\ WF_vars(Build(c)) /\ WF_vars(WaitEnds(c)) /\ WF_vars(Collect(c)) /\ WF_vars(Probes(c))
    /\ WF_vars(Cancellable_call(c)) /\ WF_vars(Returns(c)) /\ WF_vars(WorkDone(c))

Spec == Init /\ [][Next]_vars /\ Fairness

-----------------------------------------------------------------------------
AtWork(c) == st[c].work \notin {"none", "ended"}

ReadsSource(c) == AtWork(c) /\ st[c].source
Recordings == {"record_transaction", "record_simulation"}

\* Recordings apart, at most one call at any time works through an RPC source
\* that the operator configured, the ones whose caller was answered at the
\* deadline or cancelled included (authority_slots, held by the blocking work).
\* A recording takes no permit and reads a configured source beside it
\* (record_endpoint), against docs/DEVELOPERS.md:434-438 and
\* docs/CAPTURED-TARGET-EXECUTION.md:88-89, which say one at a time of all.
OnePermittedRead ==
    Cardinality({c \in Callers : ReadsSource(c) /\ st[c].tool \notin Recordings}) <= 1

\* A builder's process group runs while its process does, and after that
\* process was killed as long as a member is left that could have been killed.
\* What a builder that ended by itself leaves in its group is not counted: it
\* runs on without a slot, and nothing in the code bounds it.
GroupRuns(x) ==
    \/ x.proc = "running"
    \/ x.proc = "killed" /\ "group" \in x.kin

\* No more builder process groups run than there are build slots, whatever
\* was cancelled or timed out before (BuildSlots with run_bounded_until), what
\* builders leave behind that ended by themselves not counted.
BuildersBounded == Cardinality({c \in Callers : GroupRuns(st[c])}) <= BuildLimit

\* What a kept manifest declares of its tools is what the tools that produced
\* the Wasm were, although they are asked only after the build.
Stated(t) == <<Identity[t].rsver.version, Identity[t].cliver.version,
               Identity[t].cliver.revision, Identity[t].rssdkver.version>>
DeclaredToolsBuilt ==
    \A s \in Sessions : \A a \in ToSet(store[s]) : Stated(a.declared) = Stated(a.built)

\* In any span shorter than a window, at most twice the limit is admitted, by
\* the HTTP guard and by each tool, over all sessions (RequestQuota).
LimitOf(w) == IF w = "http" THEN HttpLimit ELSE ToolLimit(w)
QuotaAcrossWindows == \A w \in Windows : Cardinality(admitted[w]) <= 2 * LimitOf(w)

\* Every call is answered: nothing a builder or a descendant does keeps its
\* caller waiting for ever.
EveryCallAnswered ==
    \A c \in Callers : st[c].pc \in {"called", "waiting"} ~> st[c].pc \in {"answered", "idle"}

\* The permit comes back, also when its caller is long gone and the builder
\* left processes behind.
PermitComesBack == permits = 0 ~> permits = 1
=============================================================================
