-------------------------- MODULE ToolServerProofs --------------------------
(***************************************************************************)
(* For any number of calls, sessions, tools and build slots, any limits    *)
(* and any length of the quota window: recordings apart, one call at a     *)
(* time works through an operator's RPC source, no more process groups of  *)
(* builders run than there are slots, a span shorter than a window admits  *)
(* at most twice a limit, and a kept manifest names the tools that built.  *)
(***************************************************************************)
EXTENDS ToolServer, FiniteSetTheorems, WellFoundedInduction, TLAPS

-----------------------------------------------------------------------------
(* The calls *)

Calls ==
    [pc        : {"idle", "called", "waiting", "answered"},
     tool      : Tools \cup {"none"},
     spec      : Specs \cup {"none"},
     cancelled : BOOLEAN,
     stopped   : BOOLEAN,
     work      : {"none", "plan", "build", "collect", "probe", "call", "ended"},
     outcome   : {"none", "ok", "failed", "cancelled", "timeout", "exited"},
     builds    : Nat,
     reads     : Nat,
     source    : BOOLEAN,
     proc      : {"none", "running", "exited", "killed"},
     kin       : SUBSET {"group", "beyond"},
     built     : Toolchains \cup {"none"},
     declared  : Toolchains \cup {"none"}]

(* Blocking work exists only between the handler's start and its answer, or *)
(* after the answer until it ends; a builder's group runs only while its    *)
(* call waits for it; a read in flight is one that was left to make; an     *)
(* operator's endpoint is a recording's or goes with the permit.            *)
Control(x) ==
    /\ x.pc \in {"idle", "called"} => x.work = "none"
    /\ x.pc # "idle" => x.tool \in Tools
    /\ GroupRuns(x) => x.work = "build"
    /\ x.work = "call" => x.reads > 0
    /\ x.source => x.tool \in Recordings \/ Shape[x.tool].slot

CallsOK ==
    /\ st \in [Callers -> Calls]
    /\ installed \in Toolchains
    /\ \A c \in Callers : Control(st[c])

Holds(c) == AtWork(c) /\ Shape[st[c].tool].slot

Builds(c) == st[c].work \in {"build", "collect", "probe"}

(* All the steps of one call. *)
CallStep(c) ==
    \/ Arrive(c) \/ Cancel(c)
    \/ Call(c) \/ finish(c) \/ deadline(c)
    \/ Build(c) \/ BuilderExits(c) \/ Descends(c)
    \/ WaitEnds(c) \/ Collect(c) \/ Probes(c)
    \/ Cancellable_call(c) \/ Returns(c) \/ WorkDone(c)

(***************************************************************************)
(* What a step of one call may do to what the calls share: the permit and  *)
(* the slots are taken and given back by the work that holds them, one at  *)
(* a time.                                                                 *)
(***************************************************************************)
PermitMoves(c) ==
    \/ permits' = permits /\ (Holds(c)' <=> Holds(c))
    \/ permits > 0 /\ permits' = permits - 1 /\ ~Holds(c) /\ Holds(c)'
    \/ permits' = permits + 1 /\ Holds(c) /\ ~Holds(c)'

SlotMoves(c) ==
    \/ in_use' = in_use /\ (Builds(c)' <=> Builds(c))
    \/ in_use < BuildLimit /\ in_use' = in_use + 1 /\ ~Builds(c) /\ Builds(c)'
    \/ in_use' = in_use - 1 /\ Builds(c) /\ ~Builds(c)'

Moves(c) ==
    /\ \E x \in Calls : Control(x) /\ st' = [st EXCEPT ![c] = x]
    /\ PermitMoves(c)
    /\ SlotMoves(c)

LEMMA IdleIsCall == Idle \in Calls /\ Control(Idle)
BY DEF Idle, Calls, Control, GroupRuns

(* The end of the work, wherever it ends. *)
LEMMA EndMoves ==
    ASSUME CallsOK, NEW c \in Callers, AtWork(c), st[c].work # "build",
           NEW o \in {"ok", "failed"}, EndWork(c, o)
    PROVE  /\ \E x \in Calls : /\ Control(x) /\ x.work \in {"none", "ended"}
                               /\ st' = [st EXCEPT ![c] = x]
           /\ PermitMoves(c)
<1> DEFINE x == IF st[c].pc = "answered" THEN Idle
                ELSE [st[c] EXCEPT !.work = "ended", !.outcome = o]
<1>1. st[c] \in Calls /\ Control(st[c]) /\ st \in [Callers -> Calls]
    BY DEF CallsOK
<1>2. st' = [st EXCEPT ![c] = x]
    BY DEF EndWork
<1>3. x \in Calls /\ Control(x) /\ x.work \in {"none", "ended"}
    <2>1. CASE st[c].pc = "answered"
        BY <2>1, IdleIsCall DEF Idle
    <2>2. CASE st[c].pc # "answered"
        <3>1. x \in Calls /\ x.work = "ended"
            BY <1>1, <2>2 DEF Calls
        <3>2. Control(x)
            BY <1>1, <2>2 DEF Calls, Control, GroupRuns, AtWork
        <3> QED BY <3>1, <3>2
    <2> QED BY <2>1, <2>2
<1> HIDE DEF x
<1>4. st'[c] = x
    BY <1>1, <1>2
<1>5. ~Holds(c)'
    BY <1>3, <1>4 DEF Holds, AtWork
<1>6. PermitMoves(c)
    BY <1>5 DEF EndWork, PermitMoves, Holds
<1> QED BY <1>2, <1>3, <1>6

(* A step that changes one call, takes no permit and no slot, and leaves    *)
(* its work where the shared parts do not see it.                           *)
LEMMA QuietMoves ==
    ASSUME CallsOK, NEW c \in Callers, NEW x \in Calls, Control(x),
           st' = [st EXCEPT ![c] = x], UNCHANGED <<permits, in_use>>,
           \/ /\ x.tool = st[c].tool
              /\ x.work \in {"none", "ended"} <=> st[c].work \in {"none", "ended"}
           \/ x.work \in {"none", "ended"} /\ st[c].work \in {"none", "ended"},
           x.work \in {"build", "collect", "probe"}
             <=> st[c].work \in {"build", "collect", "probe"}
    PROVE  Moves(c)
<1>1. st'[c] = x
    BY DEF CallsOK
<1>2. Holds(c)' <=> Holds(c)
    BY <1>1 DEF Holds, AtWork
<1>3. Builds(c)' <=> Builds(c)
    BY <1>1 DEF Builds
<1> QED BY <1>2, <1>3 DEF Moves, PermitMoves, SlotMoves

LEMMA HandlerMoves ==
    ASSUME CallsOK, NEW c \in Callers,
           Arrive(c) \/ Cancel(c) \/ finish(c) \/ deadline(c)
    PROVE  Moves(c)
<1>1. st[c] \in Calls /\ Control(st[c]) /\ st \in [Callers -> Calls]
    BY DEF CallsOK
<1>2. CASE Arrive(c)
    <2>1. PICK i \in Inputs, au \in BOOLEAN, b \in {"fits", "over"} :
            enforce_http_security(c, i.tool, i.spec, au, b)
        BY <1>2 DEF Arrive
    <2>2. i.tool \in Tools /\ i.spec \in Specs \cup {"none"}
        BY DEF Inputs
    <2>3. st[c].pc = "idle" /\ UNCHANGED <<permits, in_use>>
        BY <2>1 DEF enforce_http_security
    <2> DEFINE x == [Idle EXCEPT !.pc = "called", !.tool = i.tool, !.spec = i.spec]
    <2>4. CASE st' = [st EXCEPT ![c] = x]
        <3>1. x \in Calls /\ Control(x) /\ x.work = "none"
            BY <2>2 DEF Idle, Calls, Control, GroupRuns
        <3>2. st[c].work = "none"
            BY <1>1, <2>3 DEF Control
        <3> HIDE DEF x
        <3> QED BY <2>3, <2>4, <3>1, <3>2, QuietMoves
    <2>5. CASE UNCHANGED st
        <3>1. st' = [st EXCEPT ![c] = st[c]]
            BY <1>1, <2>5
        <3> QED BY <1>1, <2>3, <3>1, QuietMoves
    <2> QED BY <2>1, <2>4, <2>5 DEF enforce_http_security
<1>3. CASE Cancel(c)
    <2> DEFINE x == [st[c] EXCEPT !.cancelled = TRUE, !.stopped = TRUE]
    <2>1. st' = [st EXCEPT ![c] = x] /\ UNCHANGED <<permits, in_use>>
        BY <1>1, <1>3 DEF Cancel
    <2>2. x \in Calls /\ Control(x) /\ x.work = st[c].work /\ x.tool = st[c].tool
        <3>1. x \in Calls
            BY <1>1 DEF Calls
        <3>2. /\ x.work = st[c].work /\ x.tool = st[c].tool /\ x.reads = st[c].reads
              /\ x.pc = st[c].pc /\ x.source = st[c].source
              /\ GroupRuns(x) => GroupRuns(st[c])
            BY <1>1 DEF Calls, GroupRuns
        <3> QED BY <1>1, <3>1, <3>2 DEF Control
    <2> HIDE DEF x
    <2> QED BY <2>1, <2>2, QuietMoves
<1>4. CASE finish(c)
    <2>1. st' = [st EXCEPT ![c] = Idle] /\ st[c].work = "ended"
          /\ UNCHANGED <<permits, in_use>>
        BY <1>4 DEF finish
    <2>2. Idle.work = "none"
        BY DEF Idle
    <2> QED BY <2>1, <2>2, IdleIsCall, QuietMoves
<1>5. CASE deadline(c)
    <2> DEFINE x == [st[c] EXCEPT !.pc = "answered", !.stopped = TRUE]
    <2>1. st' = [st EXCEPT ![c] = x] /\ UNCHANGED <<permits, in_use>>
        BY <1>1, <1>5 DEF deadline
    <2>2. x \in Calls /\ x.work = st[c].work /\ x.tool = st[c].tool
        BY <1>1 DEF Calls
    <2>3. Control(x)
        BY <1>1, <1>5 DEF Calls, Control, GroupRuns, deadline
    <2> HIDE DEF x
    <2> QED BY <2>1, <2>2, <2>3, QuietMoves
<1> QED BY <1>2, <1>3, <1>4, <1>5

(* A tool that resolves an operator's source is a recording or takes the    *)
(* permit.                                                                  *)
LEMMA SourcesArePermitted ==
    ASSUME NEW t \in Tools, NEW i, OperatorSource(Shape[t].needs, i)
    PROVE  t \in Recordings \/ Shape[t].slot
<1>1. t \in DOMAIN Shape
    BY ToolsAssumption
<1> QED BY <1>1 DEF OperatorSource, Recordings, Shape, Tool, generate_code, verify,
        prepare_dry_run, check_policy_call_surface, prepare_install_intent,
        assemble_install_transaction, check_against_policy, capture_target,
        record_transaction, record_simulation, preflight_transaction

(* The permit is taken by the call whose work it goes with. *)
LEMMA CallMoves ==
    ASSUME CallsOK, NEW c \in Callers, Call(c)
    PROVE  Moves(c)
<1>1. st[c] \in Calls /\ Control(st[c]) /\ st \in [Callers -> Calls]
    BY DEF CallsOK
<1>2. PICK rf \in Specs \cup {"claimed"}, su \in Setups,
           nb \in 0 .. MaxBuilds, nr \in 0 .. MaxReads : call_tool(c, rf, su, nb, nr)
    BY DEF Call
<1>3. /\ st[c].pc = "called" /\ st[c].work = "none" /\ st[c].tool \in Tools
      /\ in_use' = in_use
    BY <1>1, <1>2 DEF call_tool, Control
<1> DEFINE slot == Shape[st[c].tool].slot
           source == OperatorSource(Shape[st[c].tool].needs, su)
           x == [st[c] EXCEPT !.pc = "waiting", !.work = "plan", !.builds = nb, !.reads = nr,
                              !.source = source]
<1>4. CASE st' = [st EXCEPT ![c] = Idle] /\ UNCHANGED permits
    <2>1. Idle.work = "none"
        BY DEF Idle
    <2> QED BY <1>3, <1>4, <2>1, IdleIsCall, QuietMoves
<1>5. CASE /\ slot => permits > 0
           /\ permits' = IF slot THEN permits - 1 ELSE permits
           /\ st' = [st EXCEPT ![c].pc = "waiting", ![c].work = "plan",
                               ![c].builds = nb, ![c].reads = nr, ![c].source = source]
    <2>1. st' = [st EXCEPT ![c] = x]
        BY <1>1, <1>5
    <2>2. source \in BOOLEAN /\ (source => st[c].tool \in Recordings \/ slot)
        BY <1>3, SourcesArePermitted DEF OperatorSource
    <2> HIDE DEF source
    <2>3. /\ x \in Calls /\ x.work = "plan" /\ x.tool = st[c].tool /\ Control(x)
        <3>1. nb \in Nat /\ nr \in Nat
            OBVIOUS
        <3>2. /\ x.work = "plan" /\ x.tool = st[c].tool /\ x.pc = "waiting"
              /\ x.source = source /\ x.proc = st[c].proc /\ x.kin = st[c].kin
            BY <1>1 DEF Calls
        <3>3. x \in Calls
            BY <1>1, <2>2, <3>1 DEF Calls
        <3>4. ~GroupRuns(x)
            BY <1>1, <1>3, <3>2 DEF Control, GroupRuns
        <3> HIDE DEF x
        <3>5. Control(x)
            BY <1>3, <2>2, <3>2, <3>4 DEF Control
        <3> QED BY <3>2, <3>3, <3>5
    <2> HIDE DEF x
    <2>4. st'[c] = x
        BY <1>1, <2>1
    <2>5. ~Holds(c) /\ (Holds(c)' <=> slot) /\ ~Builds(c) /\ ~Builds(c)'
        BY <1>3, <2>3, <2>4 DEF Holds, AtWork, Builds
    <2> HIDE DEF slot
    <2>6. PermitMoves(c) /\ SlotMoves(c)
        BY <1>3, <1>5, <2>5 DEF PermitMoves, SlotMoves
    <2> QED BY <2>1, <2>3, <2>6 DEF Moves
<1> QED BY <1>2, <1>4, <1>5 DEF call_tool

(* A build takes its slot before its process exists, and gives it back when *)
(* its output is collected or its manifest made.                            *)
LEMMA BuildMoves ==
    ASSUME CallsOK, NEW c \in Callers,
           Build(c) \/ BuilderExits(c) \/ Descends(c) \/ WaitEnds(c)
    PROVE  Moves(c)
<1>1. st[c] \in Calls /\ Control(st[c]) /\ st \in [Callers -> Calls] /\ installed \in Toolchains
    BY DEF CallsOK
<1>2. CASE Build(c)
    <2>1. PICK i \in BuildInputs : build(c, i.crate, i.cache, i.spawns)
        BY <1>2 DEF Build
    <2>2. st[c].work = "plan" /\ st[c].builds > 0
        BY <2>1 DEF build
    <2>3. CASE EndWork(c, "failed") /\ UNCHANGED in_use
        <3>1. AtWork(c) /\ st[c].work # "build"
            BY <2>2 DEF AtWork
        <3>2. PICK x \in Calls : /\ Control(x) /\ x.work \in {"none", "ended"}
                                 /\ st' = [st EXCEPT ![c] = x]
            BY <2>3, <3>1, EndMoves
        <3>3. PermitMoves(c)
            BY <2>3, <3>1, EndMoves
        <3>4. st'[c] = x
            BY <1>1, <3>2
        <3>5. SlotMoves(c)
            BY <2>2, <2>3, <3>2, <3>4 DEF SlotMoves, Builds
        <3> QED BY <3>2, <3>3, <3>5 DEF Moves
    <2>4. CASE /\ in_use < BuildLimit /\ in_use' = in_use + 1 /\ UNCHANGED permits
               /\ st' = [st EXCEPT ![c].builds = @ - 1, ![c].work = "build",
                                   ![c].proc = "running", ![c].kin = {},
                                   ![c].built = installed]
        <3> DEFINE n == st[c].builds - 1
                   x == [st[c] EXCEPT !.builds = n, !.work = "build", !.proc = "running",
                                      !.kin = {}, !.built = installed]
        <3>1. st' = [st EXCEPT ![c] = x]
            BY <1>1, <2>4
        <3>2. x \in Calls /\ x.work = "build" /\ x.tool = st[c].tool
            <4>1. n \in Nat
                BY <1>1, <2>2 DEF Calls
            <4> DEFINE y == [st[c] EXCEPT !.builds = n, !.work = "build"]
                       z == [y EXCEPT !.proc = "running", !.kin = {}]
            <4> HIDE DEF n
            <4>2. x.work = "build" /\ x.tool = st[c].tool /\ x = [z EXCEPT !.built = installed]
                BY <1>1 DEF Calls
            <4>3. y \in Calls
                BY <1>1, <4>1 DEF Calls
            <4> HIDE DEF y, x
            <4>4. z \in Calls
                BY <4>3 DEF Calls
            <4> HIDE DEF z
            <4>5. x \in Calls
                BY <1>1, <4>2, <4>4 DEF Calls
            <4> QED BY <4>2, <4>5
        <3>3. Control(x)
            BY <1>1, <2>2 DEF Calls, Control, GroupRuns
        <3> HIDE DEF x
        <3>4. st'[c] = x
            BY <1>1, <3>1
        <3>5. (Holds(c)' <=> Holds(c)) /\ ~Builds(c) /\ Builds(c)'
            BY <2>2, <3>2, <3>4 DEF Holds, AtWork, Builds
        <3>6. PermitMoves(c) /\ SlotMoves(c)
            BY <2>4, <3>5 DEF PermitMoves, SlotMoves
        <3> QED BY <3>1, <3>2, <3>3, <3>6 DEF Moves
    <2> QED BY <2>1, <2>3, <2>4 DEF build
<1>3. CASE BuilderExits(c)
    <2> DEFINE x == [st[c] EXCEPT !.proc = "exited"]
    <2>1. st' = [st EXCEPT ![c] = x] /\ UNCHANGED <<permits, in_use>>
        BY <1>1, <1>3 DEF BuilderExits
    <2>2. x \in Calls /\ Control(x) /\ x.work = st[c].work /\ x.tool = st[c].tool
        <3>1. x \in Calls
            BY <1>1 DEF Calls
        <3>2. /\ x.work = st[c].work /\ x.tool = st[c].tool /\ x.reads = st[c].reads
              /\ x.pc = st[c].pc /\ x.source = st[c].source
              /\ GroupRuns(x) => GroupRuns(st[c])
            BY <1>1 DEF Calls, GroupRuns
        <3> QED BY <1>1, <3>1, <3>2 DEF Control
    <2> HIDE DEF x
    <2> QED BY <2>1, <2>2, QuietMoves
<1>4. CASE Descends(c)
    <2>0. PICK k \in {"group", "beyond"} : DescendantStarts(c, k)
        BY <1>4 DEF Descends
    <2> DEFINE kin == st[c].kin \cup {k}
               x == [st[c] EXCEPT !.kin = kin]
    <2>1. /\ st' = [st EXCEPT ![c] = x] /\ UNCHANGED <<permits, in_use>>
          /\ st[c].proc = "running"
        BY <1>1, <2>0 DEF DescendantStarts
    <2>2. x \in Calls /\ Control(x) /\ x.work = st[c].work /\ x.tool = st[c].tool
        <3>1. kin \in SUBSET {"group", "beyond"}
            BY <1>1 DEF Calls
        <3> HIDE DEF kin
        <3>2. x \in Calls
            BY <1>1, <3>1 DEF Calls
        <3>3. /\ x.work = st[c].work /\ x.tool = st[c].tool /\ x.reads = st[c].reads
              /\ x.pc = st[c].pc /\ x.source = st[c].source
            BY <1>1 DEF Calls
        <3>4. GroupRuns(st[c])
            BY <2>1 DEF GroupRuns
        <3> QED BY <1>1, <3>2, <3>3, <3>4 DEF Control
    <2> HIDE DEF x
    <2> QED BY <2>1, <2>2, QuietMoves
<1>5. CASE WaitEnds(c)
    <2>1. PICK why \in {"cancelled", "timeout", "exited"} : wait_until(c, why)
        BY <1>5 DEF WaitEnds
    <2> DEFINE y == [st[c] EXCEPT !.work = "collect", !.outcome = why]
               x == IF why = "exited" THEN y ELSE terminate_process_group(y)
    <2>2. /\ st[c].work = "build" /\ UNCHANGED <<permits, in_use>>
          /\ st' = [st EXCEPT ![c] = x]
        BY <1>1, <2>1 DEF wait_until
    <2>3. /\ y \in Calls /\ y.work = "collect" /\ y.tool = st[c].tool /\ y.pc = st[c].pc
          /\ y.proc = st[c].proc /\ y.source = st[c].source /\ y.reads = st[c].reads
        <3>1. why \in {"none", "ok", "failed", "cancelled", "timeout", "exited"}
            OBVIOUS
        <3> DEFINE z == [st[c] EXCEPT !.work = "collect"]
        <3>2. /\ z \in Calls /\ z.work = "collect" /\ z.tool = st[c].tool /\ z.pc = st[c].pc
              /\ z.proc = st[c].proc /\ z.source = st[c].source /\ z.reads = st[c].reads
            BY <1>1 DEF Calls
        <3>3. y = [z EXCEPT !.outcome = why]
            BY <1>1 DEF Calls
        <3> HIDE DEF y, z
        <3> QED BY <3>1, <3>2, <3>3 DEF Calls
    <2> HIDE DEF y
    <2>4. /\ x \in Calls /\ x.work = "collect" /\ x.tool = st[c].tool /\ x.pc = st[c].pc
          /\ x.source = st[c].source /\ x.reads = st[c].reads /\ ~GroupRuns(x)
        <3>1. CASE why = "exited"
            <4>1. st[c].proc = "exited"
                BY <2>1, <3>1 DEF wait_until, MayStopWaiting
            <4> QED BY <2>3, <3>1, <4>1 DEF GroupRuns
        <3>2. CASE why # "exited"
            <4> DEFINE kin == y.kin \ {"group"}
            <4>1. kin \in SUBSET {"group", "beyond"} /\ "group" \notin kin
                BY <2>3 DEF Calls
            <4>2. x = [y EXCEPT !.proc = "killed", !.kin = kin]
                BY <2>3, <3>2 DEF Calls, terminate_process_group
            <4> HIDE DEF kin, x
            <4>3. x.proc = "killed" /\ x.kin = kin
                BY <2>3, <4>2 DEF Calls
            <4>4. ~GroupRuns(x)
                BY <4>1, <4>3 DEF GroupRuns
            <4>5. x \in Calls
                BY <2>3, <4>1, <4>2 DEF Calls
            <4>6. /\ x.work = "collect" /\ x.tool = st[c].tool /\ x.pc = st[c].pc
                  /\ x.source = st[c].source /\ x.reads = st[c].reads
                BY <2>3, <4>2 DEF Calls
            <4> QED BY <4>4, <4>5, <4>6
        <3> QED BY <3>1, <3>2
    <2> HIDE DEF x
    <2>5. Control(x)
        BY <1>1, <2>2, <2>4 DEF Control
    <2> QED BY <2>2, <2>4, <2>5, QuietMoves
<1> QED BY <1>2, <1>3, <1>4, <1>5

LEMMA WorkMoves ==
    ASSUME CallsOK, NEW c \in Callers,
           Collect(c) \/ Probes(c) \/ Cancellable_call(c) \/ Returns(c) \/ WorkDone(c)
    PROVE  Moves(c)
<1>1. st[c] \in Calls /\ Control(st[c]) /\ st \in [Callers -> Calls] /\ installed \in Toolchains
    BY DEF CallsOK
<1>2. st[c].work \in {"plan", "collect", "probe", "call"}
    BY DEF Collect, Collected, Probes, Probe, Cancellable_call, Returns, CallReturns, WorkDone
<1>3. ~GroupRuns(st[c]) /\ AtWork(c) /\ st[c].work # "build"
    BY <1>1, <1>2 DEF Control, AtWork
<1>4. ASSUME NEW o \in {"ok", "failed"}, EndWork(c, o), SlotMoves(c) PROVE Moves(c)
    BY <1>3, <1>4, EndMoves DEF Moves
<1>5. ASSUME NEW o \in {"ok", "failed"}, EndWork(c, o) PROVE ~Builds(c)'
    <2>1. PICK x \in Calls : x.work \in {"none", "ended"} /\ st' = [st EXCEPT ![c] = x]
        BY <1>3, <1>5, EndMoves
    <2>2. st'[c] = x
        BY <1>1, <2>1
    <2> QED BY <2>1, <2>2 DEF Builds
<1>6. CASE Collect(c)
    <2>1. PICK ok \in BOOLEAN : Collected(c, ok)
        BY <1>6 DEF Collect
    <2>2. CASE EndWork(c, "failed") /\ in_use' = in_use - 1
        BY <1>4, <1>5, <2>1, <2>2 DEF SlotMoves, Builds, Collected
    <2>3. CASE st' = [st EXCEPT ![c].work = "probe"] /\ UNCHANGED <<permits, in_use>>
        <3> DEFINE x == [st[c] EXCEPT !.work = "probe"]
        <3>1. st' = [st EXCEPT ![c] = x] /\ st[c].work = "collect"
            BY <1>1, <2>1, <2>3 DEF Collected
        <3>2. x \in Calls /\ x.work = "probe" /\ x.tool = st[c].tool
            BY <1>1 DEF Calls
        <3>3. Control(x)
            BY <1>1, <1>3, <3>1 DEF Calls, Control, GroupRuns
        <3> HIDE DEF x
        <3> QED BY <2>3, <3>1, <3>2, <3>3, QuietMoves
    <2> QED BY <2>1, <2>2, <2>3 DEF Collected
<1>7. CASE Probes(c)
    <2>1. PICK f \in Files : Probe(c, f)
        BY <1>7 DEF Probes
    <2>2. st[c].work = "probe" /\ in_use' = in_use - 1
        BY <2>1 DEF Probe
    <2>3. CASE EndWork(c, "failed")
        BY <1>4, <1>5, <2>2, <2>3 DEF SlotMoves, Builds
    <2>4. CASE /\ UNCHANGED permits
               /\ st' = [st EXCEPT ![c].work = "plan", ![c].outcome = "none",
                                   ![c].declared = installed]
        <3> DEFINE x == [st[c] EXCEPT !.work = "plan", !.outcome = "none",
                                      !.declared = installed]
        <3>1. st' = [st EXCEPT ![c] = x]
            BY <1>1, <2>4
        <3>2. x.work = "plan" /\ x.tool = st[c].tool
            BY <1>1 DEF Calls
        <3>6. x \in Calls
            <4> DEFINE y == [st[c] EXCEPT !.work = "plan", !.outcome = "none"]
            <4>1. x = [y EXCEPT !.declared = installed] /\ y \in Calls
                BY <1>1 DEF Calls
            <4> HIDE DEF x, y
            <4> QED BY <1>1, <4>1 DEF Calls
        <3>3. Control(x)
            BY <1>1, <1>3, <2>2 DEF Calls, Control, GroupRuns
        <3> HIDE DEF x
        <3>4. st'[c] = x
            BY <1>1, <3>1
        <3>5. (Holds(c)' <=> Holds(c)) /\ Builds(c) /\ ~Builds(c)'
            BY <2>2, <3>2, <3>4 DEF Holds, AtWork, Builds
        <3> QED BY <2>2, <2>4, <3>1, <3>2, <3>6, <3>3, <3>5 DEF Moves, PermitMoves, SlotMoves
    <2> QED BY <2>1, <2>3, <2>4 DEF Probe
<1>8. ASSUME NEW o \in {"ok", "failed"}, EndWork(c, o), UNCHANGED in_use,
             st[c].work \in {"plan", "call"}
      PROVE  Moves(c)
    BY <1>4, <1>5, <1>8 DEF SlotMoves, Builds
<1>9. CASE Cancellable_call(c)
    <2>1. st[c].work = "plan" /\ UNCHANGED in_use
        BY <1>9 DEF Cancellable_call
    <2>2. CASE EndWork(c, "failed")
        BY <1>8, <2>1, <2>2
    <2>3. CASE st' = [st EXCEPT ![c].work = "call"] /\ UNCHANGED permits
        <3> DEFINE x == [st[c] EXCEPT !.work = "call"]
        <3>1. st' = [st EXCEPT ![c] = x]
            BY <1>1, <2>3
        <3>2. x \in Calls /\ x.work = "call" /\ x.tool = st[c].tool
            BY <1>1 DEF Calls
        <3>3. Control(x)
            BY <1>1, <1>3, <1>9, <2>1 DEF Calls, Control, GroupRuns, Cancellable_call
        <3> HIDE DEF x
        <3> QED BY <2>1, <2>3, <3>1, <3>2, <3>3, QuietMoves
    <2> QED BY <1>9, <2>2, <2>3 DEF Cancellable_call
<1>10. CASE Returns(c)
    <2>1. PICK good \in BOOLEAN : CallReturns(c, good)
        BY <1>10 DEF Returns
    <2>2. st[c].work = "call" /\ UNCHANGED in_use
        BY <2>1 DEF CallReturns
    <2>3. CASE EndWork(c, "failed")
        BY <1>8, <2>2, <2>3
    <2>4. CASE st' = [st EXCEPT ![c].reads = @ - 1, ![c].work = "plan"] /\ UNCHANGED permits
        <3> DEFINE n == st[c].reads - 1
                   x == [st[c] EXCEPT !.reads = n, !.work = "plan"]
        <3>1. st' = [st EXCEPT ![c] = x]
            BY <1>1, <2>4
        <3>2. x \in Calls /\ x.work = "plan" /\ x.tool = st[c].tool
            <4>1. n \in Nat
                BY <1>1, <2>2 DEF Calls, Control, GroupRuns
            <4> HIDE DEF n
            <4> QED BY <1>1, <4>1 DEF Calls
        <3>3. Control(x)
            BY <1>1, <1>3, <2>2 DEF Calls, Control, GroupRuns
        <3> HIDE DEF x
        <3> QED BY <2>2, <2>4, <3>1, <3>2, <3>3, QuietMoves
    <2> QED BY <2>1, <2>3, <2>4 DEF CallReturns
<1>11. CASE WorkDone(c)
    BY <1>8, <1>11 DEF WorkDone
<1> QED BY <1>6, <1>7, <1>9, <1>10, <1>11

LEMMA StepMoves ==
    ASSUME CallsOK, NEW c \in Callers, CallStep(c)
    PROVE  Moves(c)
BY HandlerMoves, CallMoves, BuildMoves, WorkMoves DEF CallStep

(* Every step is a step of one call, or leaves the calls alone. *)
LEMMA StepsOfCalls ==
    ASSUME [Next]_vars
    PROVE  \/ \E c \in Callers : CallStep(c) /\ installed' = installed
           \/ UNCHANGED <<st, permits, in_use>> /\ installed' \in {installed} \cup Toolchains
<1>1. CASE Tick \/ (\E t \in Toolchains : Upgrade(t)) \/ UNCHANGED vars
    BY <1>1 DEF Tick, Upgrade, vars
<1>2. ASSUME NEW c \in Callers, CallStep(c) PROVE installed' = installed
    BY <1>2 DEF CallStep, Arrive, enforce_http_security, Cancel, Call, call_tool, finish,
                deadline, Build, build, BuilderExits, Descends, DescendantStarts, WaitEnds, wait_until,
                Collect, Collected, Probes, Probe, Cancellable_call, Returns, CallReturns,
                WorkDone
<1> QED BY <1>1, <1>2 DEF Next, CallStep

-----------------------------------------------------------------------------
(***************************************************************************)
(* What makes the two bounds inductive: the permit is free exactly when no *)
(* work holds it, and as many slots are in use as there are calls whose    *)
(* work is in a build, from the slot taken to the output collected and the *)
(* manifest made.                                                          *)
(***************************************************************************)
PermitHeld ==
    /\ permits \in {0, 1}
    /\ permits = 1 => \A c \in Callers : ~Holds(c)
    /\ \A c, d \in Callers : Holds(c) /\ Holds(d) => c = d

SlotsHeld ==
    LET building == {c \in Callers : Builds(c)}
    IN  /\ IsFiniteSet(building)
        /\ in_use = Cardinality(building)
        /\ in_use <= BuildLimit

SharedInv == CallsOK /\ PermitHeld /\ SlotsHeld

LEMMA InitShared == Init => SharedInv
<1> SUFFICES ASSUME Init PROVE SharedInv
    OBVIOUS
<1>1. \A c \in Callers : st[c] = Idle
    BY DEF Init
<1>2. CallsOK
    BY <1>1, IdleIsCall DEF Init, CallsOK
<1>3. \A c \in Callers : ~Holds(c) /\ ~Builds(c)
    BY <1>1 DEF Holds, AtWork, Builds, Idle
<1>4. PermitHeld
    BY <1>3 DEF Init, PermitHeld
<1>5. {c \in Callers : Builds(c)} = {}
    BY <1>3
<1>6. SlotsHeld
    <2> DEFINE building == {c \in Callers : Builds(c)}
    <2>1. BuildLimit \in Nat /\ in_use = 0
        BY ServerStarts DEF Init
    <2>2. IsFiniteSet(building) /\ Cardinality(building) = 0
        <3> HIDE DEF building
        <3> QED BY <1>5, FS_EmptySet DEF building
    <2> QED BY <2>1, <2>2 DEF SlotsHeld
<1> QED BY <1>2, <1>4, <1>6 DEF SharedInv

LEMMA NextShared == SharedInv /\ [Next]_vars => SharedInv'
<1> SUFFICES ASSUME SharedInv, [Next]_vars PROVE SharedInv'
    OBVIOUS
<1>0. CallsOK /\ PermitHeld /\ SlotsHeld
    BY DEF SharedInv
<1>1. CASE UNCHANGED <<st, permits, in_use>> /\ installed' \in {installed} \cup Toolchains
    <2>1. CallsOK'
        BY <1>0, <1>1 DEF CallsOK
    <2>2. \A c \in Callers : (Holds(c)' <=> Holds(c)) /\ (Builds(c)' <=> Builds(c))
        BY <1>1 DEF Holds, AtWork, Builds
    <2>3. PermitHeld'
        BY <1>0, <1>1, <2>2 DEF PermitHeld
    <2>4. {c \in Callers : Builds(c)}' = {c \in Callers : Builds(c)}
        BY <2>2
    <2>5. SlotsHeld'
        BY <1>0, <1>1, <2>4 DEF SlotsHeld
    <2> QED BY <2>1, <2>3, <2>5 DEF SharedInv
<1>2. ASSUME NEW c \in Callers, CallStep(c), installed' = installed PROVE SharedInv'
    <2>1. Moves(c)
        BY <1>0, <1>2, StepMoves
    <2>2. PICK x \in Calls : Control(x) /\ st' = [st EXCEPT ![c] = x]
        BY <2>1 DEF Moves
    <2>3. CallsOK'
        BY <1>0, <1>2, <2>2 DEF CallsOK
    <2>4. \A d \in Callers : d # c => st'[d] = st[d]
        BY <1>0, <2>2 DEF CallsOK
    <2>5. \A d \in Callers : d # c => (Holds(d)' <=> Holds(d)) /\ (Builds(d)' <=> Builds(d))
        BY <2>4 DEF Holds, AtWork, Builds
    <2>6. PermitHeld'
        <3>1. CASE permits' = permits /\ (Holds(c)' <=> Holds(c))
            BY <1>0, <2>5, <3>1 DEF PermitHeld
        <3>2. CASE permits > 0 /\ permits' = permits - 1 /\ ~Holds(c) /\ Holds(c)'
            BY <1>0, <2>5, <3>2 DEF PermitHeld
        <3>3. CASE permits' = permits + 1 /\ Holds(c) /\ ~Holds(c)'
            BY <1>0, <2>5, <3>3 DEF PermitHeld
        <3> QED BY <2>1, <3>1, <3>2, <3>3 DEF Moves, PermitMoves
    <2>7. SlotsHeld'
        <3> DEFINE building == {d \in Callers : Builds(d)}
                   after == {d \in Callers : Builds(d)'}
        <3>1. /\ IsFiniteSet(building) /\ in_use = Cardinality(building)
              /\ in_use <= BuildLimit /\ Cardinality(building) \in Nat
            BY <1>0, FS_CardinalityType DEF SlotsHeld
        <3>2. SUFFICES IsFiniteSet(after) /\ in_use' = Cardinality(after) /\ in_use' <= BuildLimit
            BY DEF SlotsHeld
        <3>3. CASE in_use' = in_use /\ (Builds(c)' <=> Builds(c))
            <4>1. after = building
                BY <2>5, <3>3
            <4> HIDE DEF after, building
            <4> QED BY <3>1, <3>3, <4>1
        <3>4. CASE in_use < BuildLimit /\ in_use' = in_use + 1 /\ ~Builds(c) /\ Builds(c)'
            <4>1. after = building \cup {c} /\ c \notin building
                BY <2>5, <3>4
            <4> HIDE DEF after, building
            <4>2. IsFiniteSet(after) /\ Cardinality(after) = Cardinality(building) + 1
                BY <3>1, <4>1, FS_AddElement
            <4> QED BY <3>1, <3>4, <4>2, ServerStarts
        <3>5. CASE in_use' = in_use - 1 /\ Builds(c) /\ ~Builds(c)'
            <4>1. after = building \ {c} /\ c \in building
                BY <2>5, <3>5
            <4> HIDE DEF after, building
            <4>2. IsFiniteSet(after) /\ Cardinality(after) = Cardinality(building) - 1
                BY <3>1, <4>1, FS_RemoveElement
            <4> QED BY <3>1, <3>5, <4>2, ServerStarts
        <3> QED BY <2>1, <3>3, <3>4, <3>5 DEF Moves, SlotMoves
    <2> QED BY <2>3, <2>6, <2>7 DEF SharedInv
<1> QED BY <1>1, <1>2, StepsOfCalls

LEMMA SharedAlways == Spec => []SharedInv
BY InitShared, NextShared, PTL DEF Spec

(***************************************************************************)
(* For any number of callers and tools: of the calls at work through an    *)
(* RPC source that the operator configured at most one is no recording,    *)
(* those of callers who were already answered at their deadline or who     *)
(* cancelled included.                                                     *)
(***************************************************************************)
THEOREM OnePermittedReadAtATime == Spec => []OnePermittedRead
<1>1. SharedInv => OnePermittedRead
    <2> SUFFICES ASSUME SharedInv PROVE OnePermittedRead
        OBVIOUS
    <2> DEFINE readers == {c \in Callers : ReadsSource(c) /\ st[c].tool \notin Recordings}
    <2>1. \A c \in readers : Holds(c)
        BY DEF SharedInv, CallsOK, Control, ReadsSource, Holds
    <2>2. \A c, d \in readers : c = d
        BY <2>1 DEF SharedInv, PermitHeld
    <2>3. CASE readers = {}
        <3> HIDE DEF readers
        <3> QED BY <2>3, FS_EmptySet DEF OnePermittedRead, readers
    <2>4. CASE readers # {}
        <3>1. PICK c \in readers : TRUE
            BY <2>4
        <3>2. readers = {c}
            BY <2>2, <3>1
        <3>3. Cardinality(readers) = 1
            <4> HIDE DEF readers
            <4> QED BY <3>2, FS_Singleton
        <3> QED BY <3>3 DEF OnePermittedRead
    <2> QED BY <2>3, <2>4
<1> QED BY <1>1, SharedAlways, PTL

(***************************************************************************)
(* For any number of callers and any number of slots, and whatever the     *)
(* builders start inside or outside their process groups: the groups that  *)
(* run are never more than the slots, whatever was cancelled, timed out or *)
(* answered before.  A killed builder leaves nobody in its group; what one *)
(* that ended by itself leaves there is not counted, the code lets it run. *)
(***************************************************************************)
THEOREM BuildersFitSlots == Spec => []BuildersBounded
<1>1. SharedInv => BuildersBounded
    <2> SUFFICES ASSUME SharedInv PROVE BuildersBounded
        OBVIOUS
    <2> DEFINE building == {c \in Callers : Builds(c)}
               running == {c \in Callers : GroupRuns(st[c])}
    <2>1. running \in SUBSET building
        BY DEF SharedInv, CallsOK, Control, Builds
    <2>2. IsFiniteSet(building) /\ Cardinality(building) <= BuildLimit
        BY DEF SharedInv, SlotsHeld
    <2> HIDE DEF building, running
    <2>3. /\ Cardinality(running) <= Cardinality(building) /\ IsFiniteSet(running)
        BY <2>1, <2>2, FS_Subset
    <2>4. Cardinality(running) \in Nat /\ Cardinality(building) \in Nat
        BY <2>2, <2>3, FS_CardinalityType
    <2> QED BY <2>2, <2>3, <2>4, ServerStarts DEF BuildersBounded, running
<1> QED BY <1>1, SharedAlways, PTL

-----------------------------------------------------------------------------
(***************************************************************************)
(* Quotas.  A call admitted within the last Window was counted in the      *)
(* window that is open now or in the one before it: its number tells it    *)
(* from the others of the same window, and is within the limit.  When the  *)
(* open window is over, everything older has left, and what remains was    *)
(* admitted before this tick.                                              *)
(***************************************************************************)
WellCounted(q, A, limit) ==
    /\ q \in [age : 0 .. Window, count : 0 .. limit]
    /\ A \subseteq [age : 0 .. (Window - 1), number : 1 .. limit]
    /\ \A a, b \in A :
         a.number = b.number /\ (a.age <= q.age <=> b.age <= q.age) => a = b
    /\ q.age < Window => \A a \in A : a.age <= q.age => a.number <= q.count
    /\ q.age = Window => \A a \in A : a.age >= 1

QuotasOK ==
    /\ quota \in [Windows -> [age : 0 .. Window, count : Nat]]
    /\ admitted \in [Windows -> SUBSET [age : Nat, number : Nat]]
    /\ \A w \in Windows : WellCounted(quota[w], admitted[w], LimitOf(w))

LEMMA LimitsPositive == \A w \in Windows : LimitOf(w) \in Nat \ {0}
<1>1. \A t : ToolLimit(t) \in Nat \ {0}
    BY ServerStarts DEF ToolLimit
<1> QED BY <1>1, ServerStarts DEF LimitOf

LEMMA ToolsAreNotHttp == \A t \in Metered : t # "http" /\ LimitOf(t) = ToolLimit(t)
<1>1. "http" \notin DOMAIN Shape
    BY DEF Shape
<1> QED BY <1>1, ToolsAssumption DEF LimitOf

(* The numbers of one window are all different, so there are at most as     *)
(* many of them as the limit.                                               *)
LEMMA OneWindow ==
    ASSUME NEW limit \in Nat, NEW B, \A a \in B : a.number \in 1 .. limit,
           \A a, b \in B : a.number = b.number => a = b
    PROVE  IsFiniteSet(B) /\ Cardinality(B) \in Nat /\ Cardinality(B) <= limit
<1> DEFINE f == [a \in B |-> a.number]
           T == 1 .. limit
<1>1. f \in [B -> T] /\ \A a, b \in B : f[a] = f[b] => a = b
    OBVIOUS
<1>2. IsFiniteSet(T) /\ Cardinality(T) = limit
    <2>1. IsFiniteSet(1 .. limit) /\ Cardinality(1 .. limit) = IF 1 > limit THEN 0 ELSE limit - 1 + 1
        BY FS_Interval
    <2> QED BY <2>1
<1> HIDE DEF f, T
<1>3. f \in Injection(B, T)
    BY <1>1 DEF Injection, IsInjective
<1>4. IsFiniteSet(B) /\ Cardinality(B) <= limit
    BY <1>2, <1>3, FS_Injection
<1> QED BY <1>4, FS_CardinalityType

LEMMA AtMostTwice ==
    ASSUME NEW limit \in Nat, NEW q, NEW A, WellCounted(q, A, limit)
    PROVE  Cardinality(A) <= 2 * limit
<1> DEFINE now == {a \in A : a.age <= q.age}
           before == {a \in A : ~(a.age <= q.age)}
<1>1. /\ \A a \in A : a.number \in 1 .. limit
      /\ \A a, b \in now : a.number = b.number => a = b
      /\ \A a, b \in before : a.number = b.number => a = b
    BY DEF WellCounted
<1>2. A = now \cup before /\ now \cap before = {}
    OBVIOUS
<1>3. IsFiniteSet(now) /\ Cardinality(now) \in Nat /\ Cardinality(now) <= limit
    BY <1>1, OneWindow
<1>4. IsFiniteSet(before) /\ Cardinality(before) \in Nat /\ Cardinality(before) <= limit
    BY <1>1, OneWindow
<1> HIDE DEF now, before
<1>5. Cardinality(A) = Cardinality(now) + Cardinality(before)
    <2>1. Cardinality(now \cup before)
            = Cardinality(now) + Cardinality(before) - Cardinality(now \cap before)
        BY <1>3, <1>4, FS_Union
    <2>2. Cardinality(now \cap before) = 0
        BY <1>2, FS_EmptySet
    <2> QED BY <1>2, <1>3, <1>4, <2>1, <2>2
<1> QED BY <1>3, <1>4, <1>5

LEMMA AdmissionCounts ==
    ASSUME NEW limit \in Nat \ {0}, NEW q, NEW A, WellCounted(q, A, limit)
    PROVE  IF Admits(q, limit)
           THEN WellCounted(Admit(q, limit), A \cup {Admission(q)}, limit)
           ELSE WellCounted(Admit(q, limit), A, limit)
<1>0. /\ q.age \in 0 .. Window /\ q.count \in 0 .. limit /\ Window \in Nat \ {0}
      /\ q = [age |-> q.age, count |-> q.count]
    BY ServerAssumption DEF WellCounted
<1>1. \A a \in A : a.age \in 0 .. (Window - 1) /\ a.number \in 1 .. limit
    BY DEF WellCounted
<1>2. CASE q.age = Window
    <2> DEFINE n == [age |-> 0, number |-> 1]
               p == [age |-> 0, count |-> 1]
    <2>1. Admits(q, limit) /\ Admit(q, limit) = p /\ Admission(q) = n
        BY <1>0, <1>2 DEF Admits, Admit, Admission, WindowNow
    <2>2. \A a \in A : a.age >= 1 /\ a.age <= q.age
        BY <1>0, <1>1, <1>2 DEF WellCounted
    <2>3. \A a, b \in A : a.number = b.number => a = b
        BY <2>2 DEF WellCounted
    <2>4. WellCounted(p, A \cup {n}, limit)
        <3>1. p \in [age : 0 .. Window, count : 0 .. limit]
            BY <1>0
        <3>2. A \cup {n} \subseteq [age : 0 .. (Window - 1), number : 1 .. limit]
            BY <1>0 DEF WellCounted
        <3>3. \A a \in A \cup {n} : a.age <= p.age <=> a = n
            BY <1>0, <1>1, <2>2
        <3> QED BY <1>0, <2>3, <3>1, <3>2, <3>3 DEF WellCounted
    <2> QED BY <2>1, <2>4
<1>3. CASE q.age # Window
    <2>1. WindowNow(q) = q /\ q.age < Window
        BY <1>0, <1>3 DEF WindowNow
    <2>2. CASE ~(q.count < limit)
        BY <2>1, <2>2 DEF Admits, Admit
    <2>3. CASE q.count < limit
        <3> DEFINE n == [age |-> 0, number |-> q.count + 1]
                   p == [q EXCEPT !.count = q.count + 1]
        <3>1. Admits(q, limit) /\ Admit(q, limit) = p /\ Admission(q) = n
            BY <1>0, <2>1, <2>3 DEF Admits, Admit, Admission
        <3>2. p \in [age : 0 .. Window, count : 0 .. limit] /\ p.age = q.age
              /\ p.count = q.count + 1
            BY <1>0, <2>3 DEF WellCounted
        <3>3. A \cup {n} \subseteq [age : 0 .. (Window - 1), number : 1 .. limit]
            BY <1>0, <2>3 DEF WellCounted
        <3>4. \A a \in A : a.age <= q.age => a.number <= q.count
            BY <2>1 DEF WellCounted
        <3>5. \A a \in A : a.age <= q.age => a.number # n.number /\ a.number <= p.count
            BY <1>0, <1>1, <3>2, <3>4
        <3>6. n.age <= q.age /\ n.number <= p.count
            BY <1>0, <3>2
        <3> HIDE DEF n, p
        <3>7. \A a, b \in A \cup {n} :
                a.number = b.number /\ (a.age <= p.age <=> b.age <= p.age) => a = b
            BY <3>2, <3>5, <3>6 DEF WellCounted
        <3>8. \A a \in A \cup {n} : a.age <= p.age => a.number <= p.count
            BY <3>2, <3>5, <3>6
        <3>9. p.age # Window
            BY <1>3, <3>2
        <3> QED BY <3>1, <3>2, <3>3, <3>7, <3>8, <3>9 DEF WellCounted
    <2> QED BY <2>2, <2>3
<1> QED BY <1>2, <1>3

(* What a tick of the clock makes of a window and of what it admitted. *)
Older(A) == {[a EXCEPT !.age = @ + 1] : a \in {b \in A : b.age + 1 < Window}}

LEMMA TickCounts ==
    ASSUME NEW limit \in Nat \ {0}, NEW q, NEW A, WellCounted(q, A, limit)
    PROVE  WellCounted(IF q.age + 1 < Window THEN [q EXCEPT !.age = @ + 1]
                       ELSE [age |-> Window, count |-> 0],
                       Older(A), limit)
<1>0. q.age \in 0 .. Window /\ q.count \in 0 .. limit /\ Window \in Nat \ {0}
    BY ServerAssumption DEF WellCounted
<1>1. \A a \in A : /\ a = [age |-> a.age, number |-> a.number]
                   /\ a.age \in 0 .. (Window - 1) /\ a.number \in 1 .. limit
    BY DEF WellCounted
<1>2. \A x \in Older(A) : \E a \in A : /\ x = [age |-> a.age + 1, number |-> a.number]
                                       /\ a.age + 1 < Window
    BY <1>1 DEF Older
<1>3. Older(A) \subseteq [age : 0 .. (Window - 1), number : 1 .. limit]
    BY <1>0, <1>1, <1>2
<1>4. \A x \in Older(A) : x.age >= 1
    BY <1>1, <1>2
<1>5. CASE q.age + 1 < Window
    <2> DEFINE p == [q EXCEPT !.age = @ + 1]
    <2>1. p \in [age : 0 .. Window, count : 0 .. limit] /\ p.age = q.age + 1
          /\ p.count = q.count
        BY <1>0, <1>5 DEF WellCounted
    <2> HIDE DEF p
    <2>2. \A x, y \in Older(A) :
            x.number = y.number /\ (x.age <= p.age <=> y.age <= p.age) => x = y
        <3> SUFFICES ASSUME NEW x \in Older(A), NEW y \in Older(A), x.number = y.number,
                            x.age <= p.age <=> y.age <= p.age
                     PROVE  x = y
            OBVIOUS
        <3>1. PICK a \in A : x = [age |-> a.age + 1, number |-> a.number]
            BY <1>2
        <3>2. PICK b \in A : y = [age |-> b.age + 1, number |-> b.number]
            BY <1>2
        <3>3. a.number = b.number /\ (a.age <= q.age <=> b.age <= q.age)
            BY <1>0, <1>1, <2>1, <3>1, <3>2
        <3>4. a = b
            BY <3>3 DEF WellCounted
        <3> QED BY <3>1, <3>2, <3>4
    <2>3. \A x \in Older(A) : x.age <= p.age => x.number <= p.count
        <3> SUFFICES ASSUME NEW x \in Older(A), x.age <= p.age PROVE x.number <= p.count
            OBVIOUS
        <3>1. PICK a \in A : x = [age |-> a.age + 1, number |-> a.number]
            BY <1>2
        <3>2. a.age <= q.age
            BY <1>0, <1>1, <2>1, <3>1
        <3>3. a.number <= q.count
            BY <1>0, <1>5, <3>2 DEF WellCounted
        <3> QED BY <2>1, <3>1, <3>3
    <2>4. p.age # Window
        BY <1>0, <1>5, <2>1
    <2> QED BY <1>3, <1>5, <2>1, <2>2, <2>3, <2>4 DEF WellCounted, p
<1>6. CASE ~(q.age + 1 < Window)
    <2> DEFINE p == [age |-> Window, count |-> 0]
    <2>1. \A x, y \in Older(A) : x.number = y.number => x = y
        <3> SUFFICES ASSUME NEW x \in Older(A), NEW y \in Older(A), x.number = y.number
                     PROVE  x = y
            OBVIOUS
        <3>1. PICK a \in A : x = [age |-> a.age + 1, number |-> a.number]
            BY <1>2
        <3>2. PICK b \in A : y = [age |-> b.age + 1, number |-> b.number]
            BY <1>2
        <3>3. a.number = b.number /\ a.age <= q.age /\ b.age <= q.age
            BY <1>0, <1>1, <1>6, <3>1, <3>2
        <3>4. a = b
            BY <3>3 DEF WellCounted
        <3> QED BY <3>1, <3>2, <3>4
    <2>2. p \in [age : 0 .. Window, count : 0 .. limit] /\ p.age = Window
        BY <1>0
    <2> HIDE DEF p
    <2>3. WellCounted(p, Older(A), limit)
        BY <1>0, <1>3, <1>4, <2>1, <2>2 DEF WellCounted
    <2> QED BY <1>6, <2>3 DEF p
<1> QED BY <1>5, <1>6

LEMMA InitQuotas == Init => QuotasOK
<1> SUFFICES ASSUME Init PROVE QuotasOK
    OBVIOUS
<1>1. \A w \in Windows : quota[w] = [age |-> 0, count |-> 0] /\ admitted[w] = {}
    BY DEF Init
<1>2. Window \in Nat \ {0}
    BY ServerAssumption
<1>3. \A w \in Windows : WellCounted(quota[w], admitted[w], LimitOf(w))
    BY <1>1, <1>2, LimitsPositive DEF WellCounted
<1> QED BY <1>2, <1>3 DEF Init, QuotasOK

(* One window admits or refuses a call; the others do not change. *)
LEMMA OneAdmission ==
    ASSUME QuotasOK, NEW w \in Windows,
           quota' = [quota EXCEPT ![w] = Admit(@, LimitOf(w))],
           IF Admits(quota[w], LimitOf(w))
           THEN admitted' = [admitted EXCEPT ![w] = @ \cup {Admission(quota[w])}]
           ELSE admitted' = admitted
    PROVE  QuotasOK'
<1>1. quota \in [Windows -> [age : 0 .. Window, count : Nat]]
      /\ admitted \in [Windows -> SUBSET [age : Nat, number : Nat]]
    BY DEF QuotasOK
<1>2. \A v \in Windows : LimitOf(v) \in Nat \ {0}
    BY LimitsPositive
<1>3. WellCounted(quota[w], admitted[w], LimitOf(w))
    BY DEF QuotasOK
<1> DEFINE q == Admit(quota[w], LimitOf(w))
           A == IF Admits(quota[w], LimitOf(w)) THEN admitted[w] \cup {Admission(quota[w])}
                ELSE admitted[w]
<1>4. WellCounted(q, A, LimitOf(w))
    BY <1>2, <1>3, AdmissionCounts
<1>5. quota' = [quota EXCEPT ![w] = q] /\ admitted' = [admitted EXCEPT ![w] = A]
    BY <1>1
<1> HIDE DEF q, A
<1>6. q \in [age : 0 .. Window, count : Nat] /\ A \in SUBSET [age : Nat, number : Nat]
    <2>1. Window \in Nat
        BY ServerAssumption
    <2> QED BY <1>2, <1>4, <2>1 DEF WellCounted
<1>7. /\ quota' \in [Windows -> [age : 0 .. Window, count : Nat]]
      /\ admitted' \in [Windows -> SUBSET [age : Nat, number : Nat]]
    BY <1>1, <1>5, <1>6
<1>8. ASSUME NEW v \in Windows PROVE WellCounted(quota'[v], admitted'[v], LimitOf(v))
    BY <1>1, <1>4, <1>5 DEF QuotasOK
<1> QED BY <1>7, <1>8 DEF QuotasOK

LEMMA NextQuotas == QuotasOK /\ [Next]_vars => QuotasOK'
<1> SUFFICES ASSUME QuotasOK, [Next]_vars PROVE QuotasOK'
    OBVIOUS
<1>0. /\ quota \in [Windows -> [age : 0 .. Window, count : Nat]]
      /\ admitted \in [Windows -> SUBSET [age : Nat, number : Nat]]
    BY DEF QuotasOK
<1>1. CASE UNCHANGED <<quota, admitted>>
    BY <1>1 DEF QuotasOK
<1>2. CASE Tick
    <2>1. /\ quota' = [w \in Windows |-> IF quota[w].age + 1 < Window
                                         THEN [quota[w] EXCEPT !.age = @ + 1]
                                         ELSE [age |-> Window, count |-> 0]]
          /\ admitted' = [w \in Windows |-> Older(admitted[w])]
        BY <1>2 DEF Tick, Older
    <2>2. ASSUME NEW w \in Windows PROVE WellCounted(quota'[w], admitted'[w], LimitOf(w))
        <3>1. WellCounted(quota[w], admitted[w], LimitOf(w)) /\ LimitOf(w) \in Nat \ {0}
            BY LimitsPositive DEF QuotasOK
        <3>2. WellCounted(IF quota[w].age + 1 < Window THEN [quota[w] EXCEPT !.age = @ + 1]
                          ELSE [age |-> Window, count |-> 0],
                          Older(admitted[w]), LimitOf(w))
            BY <3>1, TickCounts
        <3> QED BY <2>1, <3>2
    <2>3. /\ quota' \in [Windows -> [age : 0 .. Window, count : Nat]]
          /\ admitted' \in [Windows -> SUBSET [age : Nat, number : Nat]]
        <3>1. ASSUME NEW w \in Windows
              PROVE  /\ quota'[w] \in [age : 0 .. Window, count : Nat]
                     /\ admitted'[w] \in SUBSET [age : Nat, number : Nat]
            <4>1. Window \in Nat /\ LimitOf(w) \in Nat
                BY ServerAssumption, LimitsPositive
            <4> QED BY <2>2, <4>1 DEF WellCounted
        <3> QED BY <2>1, <3>1
    <2> QED BY <2>2, <2>3 DEF QuotasOK
<1>3. ASSUME NEW c \in Callers, Arrive(c) PROVE QuotasOK'
    <2>1. PICK i \in Inputs, au \in BOOLEAN, b \in {"fits", "over"} :
            enforce_http_security(c, i.tool, i.spec, au, b)
        BY <1>3 DEF Arrive
    <2>2. "http" \in Windows /\ LimitOf("http") = HttpLimit
        BY DEF Windows, LimitOf
    <2>3. CASE quota' = [quota EXCEPT !["http"] = Admit(@, HttpLimit)]
               /\ IF Admits(quota["http"], HttpLimit)
                  THEN admitted' = [admitted EXCEPT !["http"] = @ \cup {Admission(quota["http"])}]
                  ELSE admitted' = admitted
        BY <2>2, <2>3, OneAdmission
    <2> QED BY <1>1, <2>1, <2>3 DEF enforce_http_security
<1>4. ASSUME NEW c \in Callers, Call(c) PROVE QuotasOK'
    <2>1. PICK rf \in Specs \cup {"claimed"}, su \in Setups,
               nb \in 0 .. MaxBuilds, nr \in 0 .. MaxReads : call_tool(c, rf, su, nb, nr)
        BY <1>4 DEF Call
    <2> DEFINE t == st[c].tool
    <2>2. CASE t \notin Metered
        BY <1>1, <2>1, <2>2 DEF call_tool
    <2>3. CASE t \in Metered
        <3>1. t \in Windows /\ LimitOf(t) = ToolLimit(t)
            BY <2>3, ToolsAreNotHttp DEF Windows
        <3>2. quota' = [quota EXCEPT ![t] = Admit(@, ToolLimit(t))]
            BY <2>1, <2>3 DEF call_tool
        <3>3. IF Admits(quota[t], ToolLimit(t))
              THEN admitted' = [admitted EXCEPT ![t] = @ \cup {Admission(quota[t])}]
              ELSE admitted' = admitted
            BY <2>1, <2>3 DEF call_tool
        <3> HIDE DEF t
        <3> QED BY <3>1, <3>2, <3>3, OneAdmission
    <2> QED BY <2>2, <2>3
<1>5. ASSUME NEW c \in Callers,
             \/ Cancel(c) \/ finish(c) \/ deadline(c)
             \/ Build(c) \/ BuilderExits(c) \/ Descends(c)
             \/ WaitEnds(c) \/ Collect(c) \/ Probes(c)
             \/ Cancellable_call(c) \/ Returns(c) \/ WorkDone(c)
      PROVE  UNCHANGED <<quota, admitted>>
    BY <1>5 DEF Cancel, finish, deadline, Build, build, BuilderExits, Descends,
                DescendantStarts,
                WaitEnds, wait_until, Collect, Collected, Probes, Probe, Cancellable_call,
                Returns, CallReturns, WorkDone, limits
<1>6. CASE (\E t \in Toolchains : Upgrade(t)) \/ UNCHANGED vars
    BY <1>1, <1>6 DEF Upgrade, vars, limits
<1> QED BY <1>1, <1>2, <1>3, <1>4, <1>5, <1>6 DEF Next

(***************************************************************************)
(* For every limit, override and window length: the HTTP guard and each    *)
(* tool admit at most twice their limit in any span shorter than a window, *)
(* bursts on both sides of a window's end included.                        *)
(***************************************************************************)
THEOREM QuotaHolds == Spec => []QuotaAcrossWindows
<1>1. QuotasOK => QuotaAcrossWindows
    BY LimitsPositive, AtMostTwice DEF QuotasOK, QuotaAcrossWindows
<1> QED BY <1>1, InitQuotas, NextQuotas, PTL DEF Spec

-----------------------------------------------------------------------------
(***************************************************************************)
(* What a manifest declares.                                               *)
(***************************************************************************)
SameTools(x) == Stated(x.declared) = Stated(x.built)

(* A manifest is made only when the tools asked now are the ones whose      *)
(* metadata the Wasm carries.                                               *)
LEMMA ManifestAgrees ==
    ASSUME NEW d \in Toolchains, NEW b \in Toolchains, NEW file \in Files,
           manifest_for(Identity[d], [file EXCEPT !.meta = MetaOf(Identity[b])])
    PROVE  Stated(d) = Stated(b)
<1> DEFINE wasm == [file EXCEPT !.meta = MetaOf(Identity[b])]
           meta == MetaOf(Identity[b])
           entries == {meta[i] : i \in DOMAIN meta}
           told == wasm_contract_meta(wasm)
<1>1. wasm.meta = meta
    BY DEF Files
<1>2. \A k \in MetaKeys : ClaimAgrees(k, Identity[d][k], told[k])
    BY DEF manifest_for, reconcile_declared_toolchain
<1> DEFINE rs == [key |-> "rsver", value |-> [Identity[b].rsver EXCEPT !.revision = "none"]]
           sdk == [key |-> "rssdkver", value |-> Identity[b].rssdkver]
           cli == [key |-> "cliver", value |-> Identity[b].cliver]
<1>3. meta = <<rs, sdk, cli>>
    BY DEF MetaOf
<1>4. entries = {rs, sdk, cli}
    <2> HIDE DEF rs, sdk, cli, meta
    <2>1. DOMAIN meta = 1 .. 3 /\ meta[1] = rs /\ meta[2] = sdk /\ meta[3] = cli
        BY <1>3
    <2>2. \A i \in 1 .. 3 : i = 1 \/ i = 2 \/ i = 3
        OBVIOUS
    <2> QED BY <2>1, <2>2
<1>5. /\ (CHOOSE e \in entries : e.key = "rsver") = rs
      /\ (CHOOSE e \in entries : e.key = "rssdkver") = sdk
      /\ (CHOOSE e \in entries : e.key = "cliver") = cli
    <2>1. rs.key = "rsver" /\ sdk.key = "rssdkver" /\ cli.key = "cliver"
        OBVIOUS
    <2> HIDE DEF rs, sdk, cli, entries
    <2> QED BY <1>4, <2>1
<1>6. \A k \in {"rsver", "rssdkver", "cliver"} : told[k] = (CHOOSE e \in entries : e.key = k).value
    <2>1. told = [k \in {e.key : e \in entries} |-> (CHOOSE e \in entries : e.key = k).value]
        <3>1. {wasm.meta[i].key : i \in DOMAIN wasm.meta} = {e.key : e \in entries}
            BY <1>1
        <3>2. {wasm.meta[i] : i \in DOMAIN wasm.meta} = entries
            BY <1>1
        <3> QED BY <3>1, <3>2 DEF wasm_contract_meta
    <2>2. {e.key : e \in entries} = {"rsver", "rssdkver", "cliver"}
        <3>1. rs.key = "rsver" /\ sdk.key = "rssdkver" /\ cli.key = "cliver"
            OBVIOUS
        <3> HIDE DEF rs, sdk, cli, entries
        <3> QED BY <1>4, <3>1
    <2> HIDE DEF entries, told
    <2> QED BY <2>1, <2>2
<1>7. /\ told["rsver"] = [Identity[b].rsver EXCEPT !.revision = "none"]
      /\ told["rssdkver"] = Identity[b].rssdkver
      /\ told["cliver"] = Identity[b].cliver
    <2>1. /\ rs.value = [Identity[b].rsver EXCEPT !.revision = "none"]
          /\ sdk.value = Identity[b].rssdkver /\ cli.value = Identity[b].cliver
        OBVIOUS
    <2> HIDE DEF rs, sdk, cli, entries, told
    <2> QED BY <1>5, <1>6, <2>1
<1>8. told["rsver"].version = Identity[b].rsver.version
    <2>1. DOMAIN Identity[b].rsver = {"version", "revision"}
        BY ServerAssumption DEF MetaKeys
    <2> HIDE DEF told
    <2> QED BY <1>7, <2>1
<1> HIDE DEF told
<1>9. /\ Identity[d].rsver.version = told["rsver"].version
      /\ Identity[d].rssdkver.version = told["rssdkver"].version
      /\ Identity[d].cliver.version = told["cliver"].version
      /\ Identity[d].cliver.revision = told["cliver"].revision
    BY <1>2 DEF MetaKeys, ClaimAgrees, RevisionStated
<1> QED BY <1>7, <1>8, <1>9 DEF Stated

(* The one tool that keeps what it built builds once. *)
LEMMA KeepersBuildOnce == \A t \in DOMAIN Shape : Shape[t].keeps => Shape[t].builds = {1}
BY DEF Shape, Tool, generate_code, verify, prepare_dry_run, check_policy_call_surface,
       prepare_install_intent, assemble_install_transaction, check_against_policy,
       capture_target, record_transaction, record_simulation, preflight_transaction

(***************************************************************************)
(* What makes it inductive.  A call whose artifact will be kept has one    *)
(* build: before it nothing is declared, after it the declared tools are   *)
(* those that built, and its work ends well only then.                     *)
(***************************************************************************)
Declares(x) ==
    /\ x.work \in {"build", "collect", "probe"} => x.built \in Toolchains
    /\ Shape[x.tool].keeps =>
         /\ x.work \in {"build", "collect", "probe"} => x.builds = 0
         /\ x.work \in {"plan", "call"} => x.builds = 1 \/ (x.builds = 0 /\ SameTools(x))
         /\ x.work = "ended" /\ x.outcome = "ok" => SameTools(x)

Artifacts ==
    {a \in [spec : Specs \cup {"none"}, declared : Toolchains \cup {"none"},
            built : Toolchains \cup {"none"}] : SameTools(a)}

DeclaredInv ==
    /\ CallsOK
    /\ \A c \in Callers : Declares(st[c])
    /\ store \in [Sessions -> Seq(Artifacts)]

(* A call that a step leaves as the declaration sees it. *)
LEMMA SeenAlike ==
    ASSUME NEW x \in Calls, NEW y \in Calls, Declares(x),
           y.tool = x.tool, y.work = x.work, y.outcome = x.outcome, y.builds = x.builds,
           y.built = x.built, y.declared = x.declared
    PROVE  Declares(y)
BY DEF Declares, SameTools

LEMMA IdleDeclares == ASSUME NEW x \in Calls, x.work = "none" PROVE Declares(x)
BY DEF Declares

(* Work that ends. *)
LEMMA EndDeclares ==
    ASSUME CallsOK, NEW c \in Callers, NEW o \in {"ok", "failed"}, EndWork(c, o),
           o = "ok" /\ Shape[st[c].tool].keeps => SameTools(st[c])
    PROVE  Declares(st'[c])
<1>1. st[c] \in Calls /\ st \in [Callers -> Calls]
    BY DEF CallsOK
<1>2. CASE st[c].pc = "answered"
    <2>1. st'[c] = Idle
        BY <1>1, <1>2 DEF EndWork
    <2>2. Idle.work = "none"
        BY DEF Idle
    <2> QED BY <2>1, <2>2, IdleIsCall, IdleDeclares
<1>3. CASE st[c].pc # "answered"
    <2> DEFINE x == [st[c] EXCEPT !.work = "ended", !.outcome = o]
    <2>1. st'[c] = x
        BY <1>1, <1>3 DEF EndWork
    <2>2. /\ x.tool = st[c].tool /\ x.work = "ended" /\ x.outcome = o
          /\ x.built = st[c].built /\ x.declared = st[c].declared
        BY <1>1 DEF Calls
    <2> HIDE DEF x
    <2>3. Declares(x)
        BY <2>2 DEF Declares, SameTools
    <2> QED BY <2>1, <2>3
<1> QED BY <1>2, <1>3

LEMMA HandlerDeclares ==
    ASSUME CallsOK, NEW c \in Callers, Declares(st[c]),
           Arrive(c) \/ Cancel(c) \/ Call(c) \/ finish(c) \/ deadline(c)
    PROVE  Declares(st'[c])
<1>1. st[c] \in Calls /\ Control(st[c]) /\ st \in [Callers -> Calls]
    BY DEF CallsOK
<1>2. CASE Arrive(c)
    <2>1. PICK i \in Inputs, au \in BOOLEAN, b \in {"fits", "over"} :
            enforce_http_security(c, i.tool, i.spec, au, b)
        BY <1>2 DEF Arrive
    <2> DEFINE x == [Idle EXCEPT !.pc = "called", !.tool = i.tool, !.spec = i.spec]
    <2>2. st'[c] = st[c] \/ st'[c] = x
        BY <1>1, <2>1 DEF enforce_http_security
    <2>3. x.work = "none"
        BY DEF Idle
    <2>4. Declares(x)
        <3> HIDE DEF x
        <3> QED BY <2>3 DEF Declares
    <2> HIDE DEF x
    <2> QED BY <2>2, <2>4
<1>3. CASE Cancel(c)
    <2> DEFINE x == [st[c] EXCEPT !.cancelled = TRUE, !.stopped = TRUE]
    <2>1. st'[c] = x
        BY <1>1, <1>3 DEF Cancel
    <2>2. x \in Calls
        BY <1>1 DEF Calls
    <2>3. /\ x.tool = st[c].tool /\ x.work = st[c].work /\ x.outcome = st[c].outcome
          /\ x.builds = st[c].builds /\ x.built = st[c].built /\ x.declared = st[c].declared
        BY <1>1 DEF Calls
    <2> HIDE DEF x
    <2> QED BY <1>1, <2>1, <2>2, <2>3, SeenAlike
<1>4. CASE Call(c)
    <2>1. PICK rf \in Specs \cup {"claimed"}, su \in Setups,
               nb \in 0 .. MaxBuilds, nr \in 0 .. MaxReads : call_tool(c, rf, su, nb, nr)
        BY <1>4 DEF Call
    <2>2. st[c].tool \in DOMAIN Shape /\ nb \in Shape[st[c].tool].builds
        BY <1>1, <2>1, ToolsAssumption DEF call_tool, Control
    <2> DEFINE x == [st[c] EXCEPT !.pc = "waiting", !.work = "plan", !.builds = nb, !.reads = nr,
                                  !.source = OperatorSource(Shape[st[c].tool].needs, su)]
    <2>3. st'[c] = Idle \/ st'[c] = x
        BY <1>1, <2>1 DEF call_tool
    <2>4. x.tool = st[c].tool /\ x.work = "plan" /\ x.builds = nb
        BY <1>1 DEF Calls
    <2> HIDE DEF x
    <2>5. Declares(x)
        BY <2>2, <2>4, KeepersBuildOnce DEF Declares
    <2>6. Declares(Idle)
        <3>1. Idle.work = "none"
            BY DEF Idle
        <3> QED BY <3>1, IdleIsCall, IdleDeclares
    <2> QED BY <2>3, <2>5, <2>6
<1>5. CASE finish(c)
    <2>1. st'[c] = Idle
        BY <1>1, <1>5 DEF finish
    <2>2. Idle.work = "none"
        BY DEF Idle
    <2> QED BY <2>1, <2>2, IdleIsCall, IdleDeclares
<1>6. CASE deadline(c)
    <2> DEFINE x == [st[c] EXCEPT !.pc = "answered", !.stopped = TRUE]
    <2>1. st'[c] = x
        BY <1>1, <1>6 DEF deadline
    <2>2. x \in Calls
        BY <1>1 DEF Calls
    <2>3. /\ x.tool = st[c].tool /\ x.work = st[c].work /\ x.outcome = st[c].outcome
          /\ x.builds = st[c].builds /\ x.built = st[c].built /\ x.declared = st[c].declared
        BY <1>1 DEF Calls
    <2> HIDE DEF x
    <2> QED BY <1>1, <2>1, <2>2, <2>3, SeenAlike
<1> QED BY <1>2, <1>3, <1>4, <1>5, <1>6

(* The builder is started with the tools that are installed then; the       *)
(* manifest is made with the tools that are installed when it is made.      *)
LEMMA BuildDeclares ==
    ASSUME CallsOK, NEW c \in Callers, Declares(st[c]),
           Build(c) \/ BuilderExits(c) \/ Descends(c) \/ WaitEnds(c)
           \/ Collect(c) \/ Probes(c)
    PROVE  Declares(st'[c])
<1>1. st[c] \in Calls /\ Control(st[c]) /\ st \in [Callers -> Calls] /\ installed \in Toolchains
    BY DEF CallsOK
<1>2. ASSUME EndWork(c, "failed") PROVE Declares(st'[c])
    BY <1>2, EndDeclares
<1>3. CASE Build(c)
    <2>1. PICK i \in BuildInputs : build(c, i.crate, i.cache, i.spawns)
        BY <1>3 DEF Build
    <2>2. st[c].work = "plan" /\ st[c].builds > 0
        BY <2>1 DEF build
    <2> DEFINE n == st[c].builds - 1
               x == [st[c] EXCEPT !.builds = n, !.work = "build", !.proc = "running",
                                  !.kin = {}, !.built = installed]
    <2>3. EndWork(c, "failed") \/ st'[c] = x
        BY <1>1, <2>1 DEF build
    <2>4. x.tool = st[c].tool /\ x.work = "build" /\ x.builds = n /\ x.built = installed
        BY <1>1 DEF Calls
    <2>5. Shape[st[c].tool].keeps => n = 0
        BY <1>1, <2>2 DEF Declares, Calls
    <2> HIDE DEF n, x
    <2>6. Declares(x)
        BY <1>1, <2>4, <2>5 DEF Declares
    <2> QED BY <1>2, <2>3, <2>6
<1>4. CASE BuilderExits(c)
    <2> DEFINE x == [st[c] EXCEPT !.proc = "exited"]
    <2>1. st'[c] = x
        BY <1>1, <1>4 DEF BuilderExits
    <2>2. x \in Calls
        BY <1>1 DEF Calls
    <2>3. /\ x.tool = st[c].tool /\ x.work = st[c].work /\ x.outcome = st[c].outcome
          /\ x.builds = st[c].builds /\ x.built = st[c].built /\ x.declared = st[c].declared
        BY <1>1 DEF Calls
    <2> HIDE DEF x
    <2> QED BY <1>1, <2>1, <2>2, <2>3, SeenAlike
<1>5. CASE Descends(c)
    <2>0. PICK k \in {"group", "beyond"} : DescendantStarts(c, k)
        BY <1>5 DEF Descends
    <2> DEFINE kin == st[c].kin \cup {k}
               x == [st[c] EXCEPT !.kin = kin]
    <2>1. st'[c] = x
        BY <1>1, <2>0 DEF DescendantStarts
    <2>2. x \in Calls
        <3>1. kin \in SUBSET {"group", "beyond"}
            BY <1>1 DEF Calls
        <3> HIDE DEF kin
        <3> QED BY <1>1, <3>1 DEF Calls
    <2>3. /\ x.tool = st[c].tool /\ x.work = st[c].work /\ x.outcome = st[c].outcome
          /\ x.builds = st[c].builds /\ x.built = st[c].built /\ x.declared = st[c].declared
        BY <1>1 DEF Calls
    <2> HIDE DEF x
    <2> QED BY <1>1, <2>1, <2>2, <2>3, SeenAlike
<1>6. CASE WaitEnds(c)
    <2>1. PICK why \in {"cancelled", "timeout", "exited"} : wait_until(c, why)
        BY <1>6 DEF WaitEnds
    <2> DEFINE y == [st[c] EXCEPT !.work = "collect", !.outcome = why]
               x == IF why = "exited" THEN y ELSE terminate_process_group(y)
    <2>2. st[c].work = "build" /\ st'[c] = x
        BY <1>1, <2>1 DEF wait_until
    <2>3. /\ x.tool = st[c].tool /\ x.work = "collect"
          /\ x.builds = st[c].builds /\ x.built = st[c].built
        BY <1>1 DEF Calls, terminate_process_group
    <2> HIDE DEF x
    <2>4. Declares(x)
        BY <1>1, <2>2, <2>3 DEF Declares
    <2> QED BY <2>2, <2>4
<1>7. CASE Collect(c)
    <2>1. PICK ok \in BOOLEAN : Collected(c, ok)
        BY <1>7 DEF Collect
    <2> DEFINE x == [st[c] EXCEPT !.work = "probe"]
    <2>2. st[c].work = "collect" /\ (EndWork(c, "failed") \/ st'[c] = x)
        BY <1>1, <2>1 DEF Collected
    <2>3. /\ x.tool = st[c].tool /\ x.work = "probe"
          /\ x.builds = st[c].builds /\ x.built = st[c].built
        BY <1>1 DEF Calls
    <2> HIDE DEF x
    <2>4. Declares(x)
        BY <1>1, <2>2, <2>3 DEF Declares
    <2> QED BY <1>2, <2>2, <2>4
<1>8. CASE Probes(c)
    <2>1. PICK f \in Files : Probe(c, f)
        BY <1>8 DEF Probes
    <2>2. st[c].work = "probe" /\ st[c].built \in Toolchains
        BY <2>1 DEF Probe, Declares
    <2> DEFINE made == manifest_for(Identity[installed],
                                    [f EXCEPT !.meta = MetaOf(Identity[st[c].built])])
               x == [st[c] EXCEPT !.work = "plan", !.outcome = "none", !.declared = installed]
    <2>3. CASE ~made
        BY <1>2, <2>1, <2>3 DEF Probe
    <2>4. CASE made
        <3>1. st'[c] = x
            BY <1>1, <2>1, <2>4 DEF Probe
        <3>2. Stated(installed) = Stated(st[c].built)
            BY <1>1, <2>2, <2>4, ManifestAgrees
        <3>3. /\ x.tool = st[c].tool /\ x.work = "plan" /\ x.builds = st[c].builds
              /\ x.built = st[c].built /\ x.declared = installed
            BY <1>1 DEF Calls
        <3> HIDE DEF x
        <3>4. Declares(x)
            BY <2>2, <3>2, <3>3 DEF Declares, SameTools
        <3> QED BY <3>1, <3>4
    <2> QED BY <2>3, <2>4
<1> QED BY <1>3, <1>4, <1>5, <1>6, <1>7, <1>8

LEMMA ReadDeclares ==
    ASSUME CallsOK, NEW c \in Callers, Declares(st[c]),
           Cancellable_call(c) \/ Returns(c) \/ WorkDone(c)
    PROVE  Declares(st'[c])
<1>1. st[c] \in Calls /\ Control(st[c]) /\ st \in [Callers -> Calls]
    BY DEF CallsOK
<1>2. ASSUME EndWork(c, "failed") PROVE Declares(st'[c])
    BY <1>2, EndDeclares
<1>3. CASE Cancellable_call(c)
    <2> DEFINE x == [st[c] EXCEPT !.work = "call"]
    <2>1. st[c].work = "plan" /\ (EndWork(c, "failed") \/ st'[c] = x)
        BY <1>1, <1>3 DEF Cancellable_call
    <2>2. /\ x.tool = st[c].tool /\ x.work = "call" /\ x.builds = st[c].builds
          /\ x.built = st[c].built /\ x.declared = st[c].declared
        BY <1>1 DEF Calls
    <2> HIDE DEF x
    <2>3. Declares(x)
        BY <2>1, <2>2 DEF Declares, SameTools
    <2> QED BY <1>2, <2>1, <2>3
<1>4. CASE Returns(c)
    <2>1. PICK good \in BOOLEAN : CallReturns(c, good)
        BY <1>4 DEF Returns
    <2> DEFINE n == st[c].reads - 1
               x == [st[c] EXCEPT !.reads = n, !.work = "plan"]
    <2>2. st[c].work = "call" /\ (EndWork(c, "failed") \/ st'[c] = x)
        BY <1>1, <2>1 DEF CallReturns
    <2> HIDE DEF n
    <2>3. /\ x.tool = st[c].tool /\ x.work = "plan" /\ x.builds = st[c].builds
          /\ x.built = st[c].built /\ x.declared = st[c].declared
        BY <1>1 DEF Calls
    <2> HIDE DEF x
    <2>4. Declares(x)
        BY <2>2, <2>3 DEF Declares, SameTools
    <2> QED BY <1>2, <2>2, <2>4
<1>5. CASE WorkDone(c)
    <2>1. st[c].work = "plan" /\ st[c].builds = 0 /\ EndWork(c, "ok")
        BY <1>5 DEF WorkDone
    <2>2. Shape[st[c].tool].keeps => SameTools(st[c])
        BY <2>1 DEF Declares
    <2> QED BY <2>1, <2>2, EndDeclares
<1> QED BY <1>3, <1>4, <1>5

(* Keeping an artifact, the same one again or one too many included, keeps  *)
(* a list of artifacts.                                                     *)
LEMMA KeepType ==
    ASSUME NEW S, NEW q \in Seq(S), NEW a \in S
    PROVE  keep(q, a) \in Seq(S)
<1> DEFINE rest == RemoveFirst(q, a)
<1>1. rest \in Seq(S)
    <2>1. CASE ~\E i \in 1 .. Len(q) : q[i] = a
        BY <2>1 DEF RemoveFirst
    <2>2. CASE \E i \in 1 .. Len(q) : q[i] = a
        <3> DEFINE I == {i \in 1 .. Len(q) : q[i] = a}
                   n == Min(I)
        <3>1. rest = SubSeq(q, 1, n - 1) \o SubSeq(q, n + 1, Len(q))
            BY <2>2 DEF RemoveFirst, RemoveAt, SelectInSeq
        <3>2. n \in 1 .. Len(q)
            <4>1. I \subseteq Nat /\ I # {}
                BY <2>2
            <4>2. PICK x \in I : \A y \in I : ~(<<y, x>> \in OpToRel(<, Nat))
                BY <4>1, WFMin, NatLessThanWellFounded
            <4>3. \A y \in I : ~(y < x)
                <5> HIDE DEF I
                <5> QED BY <4>1, <4>2 DEF OpToRel
            <4>4. n \in I
                <5>1. \A y \in I : x <= y
                    BY <4>3
                <5> QED BY <5>1 DEF Min
            <4> QED BY <4>4
        <3> HIDE DEF rest, n
        <3>3. SubSeq(q, 1, n - 1) \in Seq(S) /\ SubSeq(q, n + 1, Len(q)) \in Seq(S)
            BY <3>2
        <3> QED BY <3>1, <3>3
    <2> QED BY <2>1, <2>2
<1>2. Len(rest) = KEPT_ARTIFACTS => Tail(rest) \in Seq(S)
    <2> HIDE DEF rest
    <2>1. KEPT_ARTIFACTS # 0
        BY ServerAssumption
    <2> QED BY <1>1, <2>1
<1> HIDE DEF rest
<1> QED BY <1>1, <1>2 DEF keep, rest

LEMMA InitDeclared == Init => DeclaredInv
<1> SUFFICES ASSUME Init PROVE DeclaredInv
    OBVIOUS
<1>1. CallsOK
    BY InitShared DEF SharedInv
<1>2. \A c \in Callers : st[c] = Idle
    BY DEF Init
<1>3. Idle.work = "none"
    BY DEF Idle
<1>4. Declares(Idle)
    BY <1>3, IdleIsCall, IdleDeclares
<1>5. store \in [Sessions -> Seq(Artifacts)]
    BY DEF Init
<1> QED BY <1>1, <1>2, <1>4, <1>5 DEF DeclaredInv

LEMMA NextDeclared == CallsOK' /\ DeclaredInv /\ [Next]_vars => DeclaredInv'
<1> SUFFICES ASSUME CallsOK', DeclaredInv, [Next]_vars PROVE DeclaredInv'
    OBVIOUS
<1>0. /\ CallsOK /\ (\A c \in Callers : Declares(st[c]))
      /\ store \in [Sessions -> Seq(Artifacts)]
    BY DEF DeclaredInv
<1>1. \A c \in Callers : Declares(st'[c])
    <2>1. CASE UNCHANGED st
        BY <1>0, <2>1
    <2>2. ASSUME NEW c \in Callers, CallStep(c), NEW d \in Callers PROVE Declares(st'[d])
        <3>1. Declares(st'[c])
            BY <1>0, <2>2, HandlerDeclares, BuildDeclares, ReadDeclares DEF CallStep
        <3>2. PICK x \in Calls : st' = [st EXCEPT ![c] = x]
            BY <1>0, <2>2, StepMoves DEF Moves
        <3>3. d # c => st'[d] = st[d]
            BY <1>0, <3>2 DEF CallsOK
        <3> QED BY <1>0, <3>1, <3>3
    <2> QED BY <2>1, <2>2, StepsOfCalls
<1>2. store' \in [Sessions -> Seq(Artifacts)]
    <2>1. CASE UNCHANGED store
        BY <1>0, <2>1
    <2>2. ASSUME NEW c \in Callers, finish(c) PROVE store' \in [Sessions -> Seq(Artifacts)]
        <3> DEFINE s == SessionOf[c]
                   a == [spec |-> st[c].spec, declared |-> st[c].declared, built |-> st[c].built]
        <3>1. st[c] \in Calls /\ Declares(st[c]) /\ s \in Sessions /\ st[c].work = "ended"
            BY <1>0, <2>2, ServerAssumption DEF CallsOK, finish
        <3>2. CASE Shape[st[c].tool].keeps /\ st[c].outcome = "ok"
                   /\ store' = [store EXCEPT ![s] = keep(@, a)]
            <4>1. SameTools(st[c])
                BY <3>1, <3>2 DEF Declares
            <4>2. a \in Artifacts
                BY <3>1, <4>1 DEF Artifacts, Calls, SameTools
            <4> HIDE DEF a, s
            <4>3. keep(store[s], a) \in Seq(Artifacts)
                BY <1>0, <3>1, <4>2, KeepType
            <4> QED BY <1>0, <3>1, <3>2, <4>3
        <3> QED BY <2>1, <2>2, <3>2 DEF finish
    <2>3. ASSUME NEW c \in Callers,
                 \/ Arrive(c) \/ Cancel(c) \/ Call(c) \/ deadline(c)
                 \/ Build(c) \/ BuilderExits(c) \/ Descends(c)
                 \/ WaitEnds(c) \/ Collect(c) \/ Probes(c)
                 \/ Cancellable_call(c) \/ Returns(c) \/ WorkDone(c)
          PROVE  UNCHANGED store
        BY <2>3 DEF Arrive, enforce_http_security, Cancel, Call, call_tool, deadline, Build,
                    build, BuilderExits, Descends, DescendantStarts, WaitEnds, wait_until, Collect,
                    Collected, Probes, Probe, Cancellable_call, Returns, CallReturns, WorkDone
    <2>4. CASE Tick \/ (\E t \in Toolchains : Upgrade(t)) \/ UNCHANGED vars
        BY <2>1, <2>4 DEF Tick, Upgrade, vars
    <2> QED BY <2>1, <2>2, <2>3, <2>4 DEF Next
<1> QED BY <1>1, <1>2 DEF DeclaredInv

(***************************************************************************)
(* For every toolchain and any change of the installed one at any moment:  *)
(* what a kept manifest declares of its tools is what the tools that       *)
(* produced the Wasm were, although they are asked only after the build.   *)
(***************************************************************************)
THEOREM KeptManifestsAreTrue == Spec => []DeclaredToolsBuilt
<1>1. DeclaredInv => DeclaredToolsBuilt
    <2> SUFFICES ASSUME DeclaredInv, NEW s \in Sessions, NEW a \in ToSet(store[s])
                 PROVE  Stated(a.declared) = Stated(a.built)
        BY DEF DeclaredToolsBuilt
    <2>1. store[s] \in Seq(Artifacts)
        BY DEF DeclaredInv
    <2>2. a \in Artifacts
        BY <2>1 DEF ToSet
    <2> QED BY <2>2 DEF Artifacts, SameTools
<1>2. SharedInv => CallsOK
    BY DEF SharedInv
<1> QED BY <1>1, <1>2, SharedAlways, InitDeclared, NextDeclared, PTL DEF Spec

=============================================================================
