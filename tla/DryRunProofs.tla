---------------------------- MODULE DryRunProofs ----------------------------
(***************************************************************************)
(* For every list of commands and setups: a worker run that is not refused *)
(* ended by itself and left nothing behind, whatever the interleaving of   *)
(* its threads.                                                            *)
(***************************************************************************)
EXTENDS DryRun, SequenceTheorems, WellFoundedInduction, TLAPS

-----------------------------------------------------------------------------
(* The invariant *)

Reasons ==
    {"job_exceeds_worker_bounds", "worker_spawn_failed", "worker_exit_unavailable",
     "worker_left_processes_running", "worker_input_closed", "worker_stderr_limit_exceeded",
     "worker_protocol_violation", "worker_preparation_refused", "signing_request_refused",
     "worker_deadline_exceeded", "worker_wait_failed"}

Events ==
    {<<"out">>, <<"err">>, <<"deadline">>} \cup ({"frame"} \X Nat) \cup ({"refused"} \X Reasons)

Runs ==
    [ pc : {"idle", "loop", "stop", "reap", "pipes", "drain", "done"}, refused : SUBSET Reasons,
      prepared : BOOLEAN, result : Nat, exited : SUBSET Int, out : BOOLEAN, err : BOOLEAN,
      stdin : BOOLEAN, deadline : BOOLEAN, watching : BOOLEAN, seen : Nat ]

Procs ==
    [ alive : BOOLEAN, exit : Int, pos : Nat \ {0}, input : Nat, queued : Nat,
      writer : {"idle", "open", "ended"}, kid : SUBSET Descendants,
      out : {"none", "open", "closed"}, err : {"none", "open", "closed"} ]

RunTypes == run \in Runs /\ proc \in Procs /\ events \in Seq(Events)

(* A script's process ends by itself. *)
IsScript(s) == s = [frames |-> s.frames, exit |-> s.exit] /\ s.exit \in Int \ {-9}

WorkInv ==
    /\ \A mode \in Modes : IsScript(work.scripts[mode])
    /\ work.process \in Behaviours /\ work.usual \in Behaviours

(* Between two runs there is no process and nothing in the channel. *)
IdleInv ==
    /\ run.pc = "idle" => run = Idle /\ proc = NoProc /\ events = <<>>
    /\ phase \notin Modes => run.pc = "idle"

(* The status is the child's; whatever was killed was killed by a refusal   *)
(* or the deadline.                                                         *)
ExitInv ==
    /\ run.exited # {} => ~proc.alive /\ run.exited = {proc.exit}
    /\ proc.exit = -9 => run.deadline \/ run.refused # {}

InChannel(e, channel) == \E i \in DOMAIN channel : channel[i] = e

(* The reader reports the end of the output once nobody holds it. *)
PipeInv ==
    /\ ~run.out \/ InChannel(<<"out">>, events) => proc.out = "closed"
    /\ proc.out = "closed" => ~HoldsPipes(proc)
    /\ run.pc \in {"drain", "done"} /\ run.refused = {} => ~run.out

IsLine(e) == e[1] = "frame" /\ e[2] # 0

(* The channel has the lines the child wrote and nobody has seen, in order. *)
LinesInOrder(seen, pos, channel) ==
    /\ seen < pos
    /\ \A i \in DOMAIN channel : IsLine(channel[i]) => channel[i][2] \in seen + 1 .. pos - 1
    /\ \A n \in seen + 1 .. pos - 1 : InChannel(<<"frame", n>>, channel)
    /\ \A i, j \in DOMAIN channel :
        i < j /\ IsLine(channel[i]) /\ IsLine(channel[j]) => channel[i][2] < channel[j][2]

(* The first line seen was the preparation, and was accepted; the result    *)
(* was the last.                                                            *)
JudgedInv ==
    /\ run.result # 0 => run.result = run.seen
    /\ run.seen > 0 => run.prepared
    /\ run.prepared => check_prepared(Frame(1))

LinesInv ==
    run.refused = {} => LinesInOrder(run.seen, proc.pos, events) /\ JudgedInv

(* Once answered, the watchdog is gone; a run that is not refused is over.  *)
DoneInv ==
    run.pc = "done" =>
        /\ ~run.watching
        /\ run.refused = {} =>
            /\ ~run.deadline /\ run.exited # {} /\ run.seen = proc.pos - 1
            /\ \A k \in proc.kid : ~k.group

RunInv == RunTypes /\ WorkInv /\ IdleInv /\ ExitInv /\ PipeInv /\ LinesInv /\ DoneInv

-----------------------------------------------------------------------------
(* Workers *)

LEMMA NoScriptIsScript == IsScript(NoScript)
BY DEF IsScript, NoScript

LEMMA OpenedIsScript == ASSUME NEW frame PROVE IsScript(Opened(frame))
BY DEF IsScript, Opened

LEMMA FinishedIsScript == ASSUME NEW frames, NEW result PROVE IsScript(Finished(frames, result))
BY DEF IsScript, Finished

LEMMA ExecutedIsScript ==
    ASSUME NEW input, NEW frame, NEW requests PROVE IsScript(Executed(input, frame, requests))
<1>1. IsScript([frames |-> <<frame>>, exit |-> 1])
    BY DEF IsScript
<1> QED BY <1>1, FinishedIsScript DEF Executed

(* What the worker of a supported job writes is a script in either mode. *)
LEMMA NativeAreScripts ==
    ASSUME NEW job
    PROVE  \A mode \in {"Prepare", "Execute"} : IsScript(native_scripts(job)[mode])
<1>1. \/ native_scripts(job) = [Prepare |-> NoScript, Execute |-> NoScript]
      \/ \E input, frame, requests : native_scripts(job)
            = [Prepare |-> Opened(frame), Execute |-> Executed(input, frame, requests)]
    BY DEF native_scripts, Scripted, NativeScripts
<1> QED BY <1>1, NoScriptIsScript, OpenedIsScript, ExecutedIsScript

LEMMA CapturedAreScripts ==
    ASSUME NEW job
    PROVE  /\ \A mode \in {"PrepareCaptured", "ExecuteCaptured"} : IsScript(captured_scripts(job)[mode])
<1>1. \/ captured_scripts(job) = NoCapturedScripts
      \/ \E frame, frames, result : captured_scripts(job)
            = [PrepareCaptured |-> Opened(frame), ExecuteCaptured |-> Finished(frames, result)]
    BY DEF captured_scripts, CapturedScripted, CapturedScripts
<1> QED BY <1>1, NoScriptIsScript, OpenedIsScript, FinishedIsScript DEF NoCapturedScripts

LEMMA HonestAreScripts ==
    ASSUME NEW command, NEW mode \in Modes PROVE IsScript(HonestScripts(command)[mode])
<1>1. \A m \in {"PrepareCaptured", "ExecuteCaptured"} : IsScript(NoCapturedScripts[m])
    BY NoScriptIsScript DEF NoCapturedScripts
<1> QED BY <1>1, NativeAreScripts, CapturedAreScripts DEF HonestScripts, Modes

(* A worker that departs from its script still ends by itself. *)
LEMMA TamperedIsScript ==
    ASSUME NEW s, IsScript(s), NEW fault PROVE IsScript(Tampered(fault, s))
BY DEF IsScript, Tampered

LEMMA DeterminedScripts ==
    ASSUME NEW command, NEW mode \in Modes PROVE IsScript(DeterminedFor(command).scripts[mode])
BY HonestAreScripts, NoScriptIsScript DEF DeterminedFor, DeterminedIn, Determination

LEMMA InitWork == Init => WorkInv
<1> SUFFICES ASSUME NEW k \in DOMAIN Setups, work = Workers[k] PROVE WorkInv
    BY DEF Init
<1> DEFINE c == Determined[Setups[k].command]
<1>1. c = DeterminedFor(Commands[Setups[k].command])
    BY WorkersAssumption DEF Determined
<1> HIDE DEF c
<1>2. work = Worker(Setups[k], c)
    BY DEF Workers, c
<1>3. /\ work.process = Setups[k].process /\ work.usual = Setups[k].usual
      /\ \A mode \in Modes : work.scripts[mode] = IF Setups[k].at = mode
                                THEN Tampered(Setups[k].fault, c.scripts[mode]) ELSE c.scripts[mode]
    BY <1>2 DEF Worker
<1>4. \A mode \in Modes : IsScript(c.scripts[mode])
    BY <1>1, DeterminedScripts
<1> QED BY <1>3, <1>4, TamperedIsScript, WorkersAssumption DEF WorkInv

(* A run's behaviour, script and expectations are fixed. *)
LEMMA RunIsFixed ==
    ASSUME UNCHANGED <<work, phase>>
    PROVE  Behaves' = Behaves /\ Script' = Script /\ (check_prepared(Frame(1)))' = check_prepared(Frame(1))
BY DEF Behaves, Script, Scripts, check_prepared, Frame, Expectation, Command, Retained, Preparation,
       InScope

LEMMA BehavesTyped == ASSUME WorkInv PROVE Behaves \in Behaviours
BY DEF WorkInv, Behaves

-----------------------------------------------------------------------------
(* The channel *)

(* A nonempty set of naturals has a least element. *)
LEMMA LeastIndex ==
    ASSUME NEW T, T \subseteq Nat, T # {}
    PROVE  \E x \in T : \A y \in T : x <= y
<1>1. PICK x \in T : \A y \in T : ~(<<y, x>> \in OpToRel(<, Nat))
    BY WFMin, NatLessThanWellFounded
<1>2. \A y \in T : ~(y < x)
    BY <1>1 DEF OpToRel
<1> QED BY <1>2

LEMMA EventShape ==
    ASSUME NEW e \in Events
    PROVE  /\ e[1] \in {"out", "err", "deadline", "frame", "refused"}
           /\ e[1] = "frame" => e[2] \in Nat
           /\ e[1] = "refused" => e[2] \in Reasons
           /\ e[1] = "out" => e = <<"out">>
BY DEF Events

LEMMA AppendOther ==
    ASSUME NEW seen \in Nat, NEW pos \in Nat, NEW channel \in Seq(Events), NEW e \in Events,
           ~IsLine(e), LinesInOrder(seen, pos, channel)
    PROVE  LinesInOrder(seen, pos, Append(channel, e))
<1>1. /\ DOMAIN Append(channel, e) = 1 .. Len(channel) + 1 /\ DOMAIN channel = 1 .. Len(channel)
      /\ \A i \in DOMAIN channel : Append(channel, e)[i] = channel[i]
      /\ Append(channel, e)[Len(channel) + 1] = e
    OBVIOUS
<1> DEFINE longer == Append(channel, e)
<1> HIDE DEF longer
<1>2. \A i \in DOMAIN longer : IsLine(longer[i]) => i \in DOMAIN channel /\ longer[i] = channel[i]
    BY <1>1 DEF longer
<1>3. \A f : InChannel(f, channel) => InChannel(f, longer)
    BY <1>1 DEF InChannel, longer
<1> QED BY <1>1, <1>2, <1>3 DEF LinesInOrder, longer

LEMMA AppendNext ==
    ASSUME NEW seen \in Nat, NEW pos \in Nat \ {0}, NEW channel \in Seq(Events),
           LinesInOrder(seen, pos, channel)
    PROVE  LinesInOrder(seen, pos + 1, Append(channel, <<"frame", pos>>))
<1> DEFINE e == <<"frame", pos>>
           longer == Append(channel, e)
<1>1. /\ DOMAIN longer = 1 .. Len(channel) + 1 /\ DOMAIN channel = 1 .. Len(channel)
      /\ \A i \in DOMAIN channel : longer[i] = channel[i]
      /\ longer[Len(channel) + 1] = e
      /\ Len(channel) \in Nat
    OBVIOUS
<1>2. IsLine(e) /\ e[2] = pos
    BY DEF IsLine
<1> HIDE DEF longer, e
<1>3. \A f : InChannel(f, channel) => InChannel(f, longer)
    BY <1>1 DEF InChannel
<1>4. InChannel(e, longer)
    BY <1>1 DEF InChannel
<1>5. \A n \in seen + 1 .. (pos + 1) - 1 : InChannel(<<"frame", n>>, longer)
    <2> TAKE n \in seen + 1 .. (pos + 1) - 1
    <2>1. CASE n = pos
        BY <1>4, <2>1 DEF e
    <2>2. CASE n # pos
        <3>1. n \in seen + 1 .. pos - 1
            BY <2>2
        <3> QED BY <3>1, <1>3 DEF LinesInOrder
    <2> QED BY <2>1, <2>2
<1>6. \A i \in DOMAIN longer : IsLine(longer[i]) => longer[i][2] \in seen + 1 .. (pos + 1) - 1
    <2> SUFFICES ASSUME NEW i \in DOMAIN longer, IsLine(longer[i])
                 PROVE  longer[i][2] \in seen + 1 .. (pos + 1) - 1
        OBVIOUS
    <2>1. CASE i \in DOMAIN channel
        BY <1>1, <2>1 DEF LinesInOrder
    <2>2. CASE i = Len(channel) + 1
        BY <1>1, <1>2, <2>2 DEF LinesInOrder
    <2> QED BY <1>1, <2>1, <2>2
<1>7. \A i, j \in DOMAIN longer :
        i < j /\ IsLine(longer[i]) /\ IsLine(longer[j]) => longer[i][2] < longer[j][2]
    <2> SUFFICES ASSUME NEW i \in DOMAIN longer, NEW j \in DOMAIN longer, i < j,
                        IsLine(longer[i]), IsLine(longer[j])
                 PROVE  longer[i][2] < longer[j][2]
        OBVIOUS
    <2>1. i \in DOMAIN channel
        BY <1>1
    <2>2. CASE j \in DOMAIN channel
        BY <1>1, <2>1, <2>2 DEF LinesInOrder
    <2>3. CASE j = Len(channel) + 1
        BY <1>1, <1>2, <2>1, <2>3 DEF LinesInOrder
    <2> QED BY <1>1, <2>2, <2>3
<1>8. seen < pos + 1
    BY DEF LinesInOrder
<1> QED BY <1>5, <1>6, <1>7, <1>8 DEF LinesInOrder, longer, e

(* What is taken from the channel is the next line, if it is a line. *)
LEMMA TakeHead ==
    ASSUME NEW seen \in Nat, NEW pos \in Nat, NEW channel \in Seq(Events), channel # <<>>,
           LinesInOrder(seen, pos, channel)
    PROVE  /\ IsLine(Head(channel)) => Head(channel)[2] = seen + 1
           /\ LinesInOrder(IF IsLine(Head(channel)) THEN seen + 1 ELSE seen, pos, Tail(channel))
<1> DEFINE rest == Tail(channel)
           e == Head(channel)
           now == IF IsLine(e) THEN seen + 1 ELSE seen
<1>1. /\ DOMAIN channel = 1 .. Len(channel) /\ DOMAIN rest = 1 .. Len(channel) - 1
      /\ Len(channel) \in Nat \ {0} /\ e = channel[1]
      /\ \A i \in DOMAIN rest : rest[i] = channel[i + 1]
    OBVIOUS
<1> HIDE DEF rest, e
<1>2. ASSUME NEW f, f # e, InChannel(f, channel) PROVE InChannel(f, rest)
    <2>1. PICK i \in DOMAIN channel : channel[i] = f
        BY <1>2 DEF InChannel
    <2>2. i # 1 /\ i - 1 \in DOMAIN rest /\ i = (i - 1) + 1
        BY <1>1, <1>2, <2>1
    <2> QED BY <1>1, <2>1, <2>2 DEF InChannel
<1>3. ASSUME IsLine(e) PROVE e[2] = seen + 1
    <2>1. e[2] \in seen + 1 .. pos - 1
        BY <1>1, <1>3 DEF LinesInOrder
    <2> SUFFICES ASSUME e[2] # seen + 1 PROVE FALSE
        OBVIOUS
    <2>2. seen + 1 \in seen + 1 .. pos - 1
        BY <2>1
    <2>3. PICK i \in DOMAIN channel : channel[i] = <<"frame", seen + 1>>
        BY <2>2 DEF LinesInOrder, InChannel
    <2>4. IsLine(channel[i]) /\ channel[i][2] = seen + 1
        BY <2>3 DEF IsLine
    <2>5. i # 1
        BY <1>1, <2>4
    <2>6. e[2] < seen + 1
        BY <1>1, <1>3, <2>4, <2>5 DEF LinesInOrder
    <2> QED BY <2>1, <2>6
<1>4. now < pos /\ now \in Nat
    BY <1>1, <1>3 DEF LinesInOrder
<1>5. ASSUME NEW i \in DOMAIN rest, IsLine(rest[i]) PROVE rest[i][2] \in now + 1 .. pos - 1
    <2>1. rest[i] = channel[i + 1] /\ i + 1 \in DOMAIN channel /\ 1 \in DOMAIN channel /\ 1 < i + 1
        BY <1>1
    <2>2. rest[i][2] \in seen + 1 .. pos - 1
        BY <1>5, <2>1 DEF LinesInOrder
    <2>3. ASSUME IsLine(e) PROVE e[2] < rest[i][2]
        BY <1>1, <1>5, <2>1, <2>3 DEF LinesInOrder
    <2> QED BY <1>3, <2>2, <2>3
<1>6. ASSUME NEW n \in now + 1 .. pos - 1 PROVE InChannel(<<"frame", n>>, rest)
    <2>1. n \in seen + 1 .. pos - 1
        BY <1>6
    <2>2. InChannel(<<"frame", n>>, channel)
        BY <2>1 DEF LinesInOrder
    <2>3. IsLine(<<"frame", n>>) /\ <<"frame", n>>[2] = n
        BY <2>1 DEF IsLine
    <2>4. <<"frame", n>> # e
        BY <1>3, <1>6, <2>3
    <2> QED BY <1>2, <2>2, <2>4
<1>7. ASSUME NEW i \in DOMAIN rest, NEW j \in DOMAIN rest, i < j, IsLine(rest[i]), IsLine(rest[j])
      PROVE  rest[i][2] < rest[j][2]
    <2>1. i + 1 \in DOMAIN channel /\ j + 1 \in DOMAIN channel /\ i + 1 < j + 1
        BY <1>1, <1>7
    <2> QED BY <1>1, <1>7, <2>1 DEF LinesInOrder
<1>8. LinesInOrder(now, pos, rest)
    BY <1>4, <1>5, <1>6, <1>7 DEF LinesInOrder
<1> QED BY <1>3, <1>8 DEF rest, e

LEMMA NoLines ==
    ASSUME NEW seen \in Nat, NEW pos \in Nat, NEW channel, LinesInOrder(seen, pos, channel),
           \A i \in DOMAIN channel : channel[i][1] # "frame"
    PROVE  seen = pos - 1
<1> SUFFICES ASSUME seen # pos - 1 PROVE FALSE
    OBVIOUS
<1>1. seen + 1 \in seen + 1 .. pos - 1
    BY DEF LinesInOrder
<1>2. PICK i \in DOMAIN channel : channel[i] = <<"frame", seen + 1>>
    BY <1>1 DEF LinesInOrder, InChannel
<1> QED BY <1>2

LEMMA EmptyInOrder ==
    ASSUME NEW pos \in Nat \ {0} PROVE LinesInOrder(pos - 1, pos, <<>>)
BY DEF LinesInOrder

LEMMA InAppended ==
    ASSUME NEW channel \in Seq(Events), NEW e \in Events, NEW f, InChannel(f, Append(channel, e))
    PROVE  f = e \/ InChannel(f, channel)
<1>1. PICK i \in DOMAIN Append(channel, e) : Append(channel, e)[i] = f
    BY DEF InChannel
<1>2. i = Len(channel) + 1 \/ i \in DOMAIN channel
    BY <1>1
<1> QED BY <1>1, <1>2 DEF InChannel

LEMMA InTail ==
    ASSUME NEW channel \in Seq(Events), channel # <<>>, NEW f, InChannel(f, Tail(channel))
    PROVE  InChannel(f, channel)
<1>1. PICK i \in DOMAIN Tail(channel) : Tail(channel)[i] = f
    BY DEF InChannel
<1>2. i + 1 \in DOMAIN channel /\ channel[i + 1] = f
    BY <1>1
<1> QED BY <1>2 DEF InChannel

-----------------------------------------------------------------------------
(* Beginning, and between two runs *)

LEMMA IdleTyped == Idle \in Runs /\ NoProc \in Procs /\ <<>> \in Seq(Events)
BY DEF Runs, Procs, Idle, NoProc

LEMMA InitRun == Init => RunInv
<1> SUFFICES ASSUME Init PROVE RunInv
    OBVIOUS
<1>1. run = Idle /\ proc = NoProc /\ events = <<>>
    BY DEF Init
<1>2. RunTypes
    BY <1>1 DEF RunTypes, Runs, Procs, Idle, NoProc
<1>3. WorkInv
    BY InitWork
<1>4. LinesInv
    <2>1. run.seen = proc.pos - 1 /\ proc.pos = 1
        BY <1>1 DEF Idle, NoProc
    <2>2. LinesInOrder(run.seen, proc.pos, events)
        BY <1>1, <2>1, EmptyInOrder
    <2> QED BY <1>1, <2>2 DEF LinesInv, JudgedInv, Idle
<1> QED BY <1>1, <1>2, <1>3, <1>4
        DEF RunInv, IdleInv, ExitInv, PipeInv, DoneInv, InChannel, HoldsPipes, Idle, NoProc

LEMMA AtRest ==
    ASSUME WorkInv', run' = Idle, proc' = NoProc, events' = <<>>
    PROVE  RunInv'
<1>2. RunTypes'
    BY DEF RunTypes, Runs, Procs, Idle, NoProc
<1>4. LinesInv'
    <2>1. run'.seen = proc'.pos - 1 /\ proc'.pos = 1
        BY DEF Idle, NoProc
    <2>2. LinesInOrder(run'.seen, proc'.pos, events')
        BY <2>1, EmptyInOrder
    <2>3. JudgedInv'
        BY DEF JudgedInv, Idle
    <2> QED BY <2>2, <2>3 DEF LinesInv
<1>5. IdleInv' /\ ExitInv' /\ PipeInv' /\ DoneInv'
    BY DEF IdleInv, ExitInv, PipeInv, DoneInv, InChannel, HoldsPipes, Idle, NoProc
<1> QED BY <1>2, <1>4, <1>5 DEF RunInv

LEMMA BeginStep == ASSUME RunInv, Begin PROVE RunInv'
<1>1. run = Idle /\ proc = NoProc /\ events = <<>>
    BY DEF RunInv, IdleInv, Begin, Modes
<1>2. WorkInv'
    BY DEF RunInv, WorkInv, Begin
<1> QED BY <1>1, <1>2, AtRest DEF Begin

LEMMA EndStep == ASSUME RunInv, EndPreparation \/ EndExecution PROVE RunInv'
<1>1. run' = Idle /\ proc' = NoProc /\ events' = <<>> /\ work' = work
    BY DEF EndPreparation, EndExecution
<1>2. WorkInv'
    BY <1>1 DEF RunInv, WorkInv
<1> QED BY <1>1, <1>2, AtRest

(* What was judged stays judged while the run's lines are left alone. *)
LEMMA StillJudged ==
    ASSUME JudgedInv, UNCHANGED <<work, phase>>, run'.result = run.result, run'.seen = run.seen,
           run'.prepared = run.prepared
    PROVE  JudgedInv'
BY RunIsFixed DEF JudgedInv

LEMMA SpawnStep == ASSUME RunInv, Spawn PROVE RunInv'
<1>0. /\ run = Idle /\ proc = NoProc /\ events = <<>> /\ events' = <<>> /\ phase' \in Modes
      /\ UNCHANGED <<work, phase>>
    BY DEF RunInv, IdleInv, Spawn
<1>1. WorkInv'
    BY <1>0 DEF RunInv, WorkInv
<1>2. CASE Behaves.fits /\ Behaves.spawns
    <2>1. /\ run' = [Idle EXCEPT !.pc = "loop", !.watching = TRUE, !.stdin = ~preparation_only(phase)]
          /\ proc' = [NoProc EXCEPT !.alive = TRUE, !.queued = 1, !.writer = "open",
                                    !.kid = Behaves.kid, !.out = "open", !.err = "open"]
        BY <1>2 DEF Spawn
    <2>2. Behaves.kid \subseteq Descendants /\ preparation_only(phase) \in BOOLEAN
        BY BehavesTyped DEF RunInv, Behaviours, preparation_only
    <2>3. RunTypes'
        <3>1. run' \in Runs
            BY <2>1, <2>2, IdleTyped DEF Runs
        <3>2. proc' \in Procs
            BY <2>1, <2>2, IdleTyped DEF Procs
        <3> QED BY <1>0, <3>1, <3>2, IdleTyped DEF RunTypes
    <2>4. LinesInOrder(run'.seen, proc'.pos, events')
        <3>1. run'.seen = proc'.pos - 1 /\ proc'.pos = 1
            BY <2>1 DEF Idle, NoProc
        <3> QED BY <1>0, <3>1, EmptyInOrder
    <2>5. JudgedInv'
        BY <2>1 DEF JudgedInv, Idle
    <2>6. IdleInv' /\ ExitInv' /\ PipeInv' /\ DoneInv'
        BY <1>0, <2>1 DEF IdleInv, ExitInv, PipeInv, DoneInv, InChannel, HoldsPipes, Idle, NoProc
    <2> QED BY <1>1, <2>3, <2>4, <2>5, <2>6 DEF RunInv, LinesInv
<1>3. CASE ~(Behaves.fits /\ Behaves.spawns)
    <2>1. PICK reason \in Reasons : run' = Refuse([Idle EXCEPT !.pc = "done"], reason)
        BY <1>3 DEF Spawn, Reasons
    <2>2. proc' = NoProc
        BY <1>0, <1>3 DEF Spawn
    <2>3. run' = [Idle EXCEPT !.pc = "done", !.refused = {reason}]
        BY <2>1 DEF Refuse, Inserted, Idle
    <2>4. RunTypes'
        <3>1. run' \in Runs
            BY <2>3, IdleTyped DEF Runs
        <3> QED BY <1>0, <2>2, <3>1, IdleTyped DEF RunTypes
    <2>5. run'.refused # {}
        BY <2>3 DEF Idle
    <2>6. LinesInv'
        BY <2>5 DEF LinesInv
    <2>7. IdleInv' /\ ExitInv' /\ PipeInv' /\ DoneInv'
        BY <1>0, <2>2, <2>3 DEF IdleInv, ExitInv, PipeInv, DoneInv, InChannel, HoldsPipes, Idle, NoProc
    <2> QED BY <1>1, <2>4, <2>6, <2>7 DEF RunInv
<1> QED BY <1>2, <1>3

-----------------------------------------------------------------------------
(* The threads and the processes *)

(* What a thread sends that is no line of the child. *)
LEMMA Sent ==
    ASSUME NEW channel \in Seq(Events), NEW e \in Events, ~IsLine(e)
    PROVE  /\ Append(channel, e) \in Seq(Events)
           /\ InChannel(<<"out">>, Append(channel, e)) => e = <<"out">> \/ InChannel(<<"out">>, channel)
           /\ \A seen, pos \in Nat :
                LinesInOrder(seen, pos, channel) => LinesInOrder(seen, pos, Append(channel, e))
<1>1. Append(channel, e) \in Seq(Events)
    BY AppendProperties
<1>2. InChannel(<<"out">>, Append(channel, e)) => e = <<"out">> \/ InChannel(<<"out">>, channel)
    BY InAppended
<1> QED BY <1>1, <1>2, AppendOther

(* A step of a thread or a process leaves the coordinator alone: it sends   *)
(* what keeps the lines in order, and ends what was there.                  *)
LEMMA ThreadStep ==
    ASSUME RunInv, run.pc # "idle", UNCHANGED <<work, phase, run>>,
           proc' \in Procs, events' \in Seq(Events),
           \/ proc'.alive = proc.alive /\ proc'.exit = proc.exit
           \/ proc.alive /\ ~proc'.alive /\ proc'.exit # -9,
           proc'.pos = proc.pos \/ proc.alive,
           \A k \in proc'.kid : \E l \in proc.kid : l.group = k.group /\ l.pipes = k.pipes,
           proc'.out = proc.out \/ (proc'.out = "closed" /\ ~HoldsPipes(proc)),
           InChannel(<<"out">>, events') => InChannel(<<"out">>, events) \/ proc'.out = "closed",
           LinesInOrder(run.seen, proc.pos, events) => LinesInOrder(run.seen, proc'.pos, events')
    PROVE  RunInv'
<1>1. WorkInv' /\ IdleInv' /\ RunTypes'
    BY DEF RunInv, WorkInv, IdleInv, RunTypes
<1>2. ExitInv'
    BY DEF RunInv, ExitInv
<1>3. PipeInv'
    BY DEF RunInv, PipeInv, HoldsPipes
<1>4. LinesInv'
    BY StillJudged DEF RunInv, LinesInv
<1>5. DoneInv'
    <2>1. run.exited # {} => ~proc.alive
        BY DEF RunInv, ExitInv
    <2> QED BY <2>1 DEF RunInv, DoneInv
<1> QED BY <1>1, <1>2, <1>3, <1>4, <1>5 DEF RunInv

LEMMA Typed ==
    ASSUME RunInv
    PROVE  /\ run \in Runs /\ proc \in Procs /\ events \in Seq(Events)
           /\ run.seen \in Nat /\ proc.pos \in Nat \ {0} /\ proc.queued \in Nat /\ proc.input \in Nat
           /\ proc.kid \subseteq Descendants
BY DEF RunInv, RunTypes, Runs, Procs

LEMMA NotIdle == ASSUME RunInv, proc # NoProc PROVE run.pc # "idle"
BY DEF RunInv, IdleInv

LEMMA WriteStep == ASSUME RunInv, Write PROVE RunInv'
<1> DEFINE e == <<"refused", "worker_input_closed">>
<1>0. run.pc # "idle" /\ UNCHANGED <<work, phase, run>>
    BY NotIdle DEF NoProc, Write
<1>1. e \in Events /\ ~IsLine(e) /\ e # <<"out">>
    BY DEF Events, Reasons, IsLine
<1> HIDE DEF e
<1>2. CASE proc.alive \/ HoldsPipes(proc)
    <2>1. proc' = [proc EXCEPT !.queued = @ - 1, !.input = @ + 1] /\ events' = events
        BY <1>2 DEF Write
    <2>2. proc.queued - 1 \in Nat /\ proc.input + 1 \in Nat
        BY Typed DEF Write
    <2>3. proc' \in Procs
        BY <2>1, <2>2, Typed DEF Procs
    <2>4. /\ proc'.alive = proc.alive /\ proc'.exit = proc.exit /\ proc'.pos = proc.pos
          /\ proc'.kid = proc.kid /\ proc'.out = proc.out
        BY <2>1, Typed DEF Procs
    <2> QED BY <1>0, <2>1, <2>3, <2>4, Typed, ThreadStep
<1>3. CASE ~(proc.alive \/ HoldsPipes(proc))
    <2>1. proc' = [proc EXCEPT !.writer = "ended"] /\ events' = Append(events, e)
        BY <1>3 DEF Write, e
    <2>2. proc' \in Procs
        BY <2>1, Typed DEF Procs
    <2>3. /\ proc'.alive = proc.alive /\ proc'.exit = proc.exit /\ proc'.pos = proc.pos
          /\ proc'.kid = proc.kid /\ proc'.out = proc.out
        BY <2>1, Typed DEF Procs
    <2>4. /\ events' \in Seq(Events)
          /\ InChannel(<<"out">>, events') => InChannel(<<"out">>, events)
          /\ LinesInOrder(run.seen, proc.pos, events) => LinesInOrder(run.seen, proc'.pos, events')
        BY <1>1, <2>1, <2>3, Typed, Sent
    <2> QED BY <1>0, <2>2, <2>3, <2>4, ThreadStep
<1> QED BY <1>2, <1>3

LEMMA WorkerWritesStep == ASSUME RunInv, WorkerWrites PROVE RunInv'
<1> DEFINE e == <<"frame", proc.pos>>
<1>0. /\ proc.alive /\ UNCHANGED <<work, phase, run>> /\ proc' = [proc EXCEPT !.pos = @ + 1]
      /\ events' = Append(events, e)
    BY DEF WorkerWrites, WorkerRuns
<1>1. run.pc # "idle"
    BY <1>0, NotIdle DEF NoProc
<1>2. e \in Events /\ e # <<"out">>
    BY Typed DEF Events
<1>3. /\ proc' \in Procs /\ proc'.alive = proc.alive /\ proc'.exit = proc.exit
      /\ proc'.pos = proc.pos + 1 /\ proc'.kid = proc.kid /\ proc'.out = proc.out
    <2>1. proc.pos + 1 \in Nat \ {0}
        BY Typed
    <2> QED BY <1>0, <2>1, Typed DEF Procs
<1>4. LinesInOrder(run.seen, proc.pos, events) => LinesInOrder(run.seen, proc'.pos, events')
    BY <1>0, <1>3, Typed, AppendNext
<1> HIDE DEF e
<1>5. events' \in Seq(Events)
    BY <1>0, <1>2, Typed, AppendProperties
<1>6. InChannel(<<"out">>, events') => InChannel(<<"out">>, events)
    BY <1>0, <1>2, Typed, InAppended
<1> QED BY <1>0, <1>1, <1>3, <1>4, <1>5, <1>6, ThreadStep

LEMMA WorkerExitsStep == ASSUME RunInv, WorkerExits PROVE RunInv'
<1>0. proc.alive /\ UNCHANGED <<work, phase, run, events>>
    BY DEF WorkerExits, WorkerRuns
<1>1. run.pc # "idle" /\ phase \in Modes
    BY <1>0, NotIdle DEF NoProc, RunInv, IdleInv
<1>2. PICK exit \in Int \ {-9} : proc' = Died(proc, exit)
    <2>1. Script.exit \in Int \ {-9}
        BY <1>1 DEF RunInv, WorkInv, IsScript, Script, Scripts
    <2>2. proc' = Died(proc, Script.exit) \/ proc' = Died(proc, 1)
        BY DEF WorkerExits
    <2>3. 1 \in Int \ {-9}
        OBVIOUS
    <2> QED BY <2>1, <2>2, <2>3
<1>3. /\ proc' \in Procs /\ ~proc'.alive /\ proc'.exit = exit
      /\ proc'.pos = proc.pos /\ proc'.kid = proc.kid /\ proc'.out = proc.out
    BY <1>2, Typed DEF Procs, Died
<1> QED BY <1>0, <1>1, <1>3, Typed, ThreadStep

LEMMA OutputEndsStep == ASSUME RunInv, OutputEnds PROVE RunInv'
<1> DEFINE e == <<"out">>
<1>0. /\ proc.out = "open" /\ ~HoldsPipes(proc) /\ UNCHANGED <<work, phase, run>>
      /\ proc' = [proc EXCEPT !.out = "closed"] /\ events' = Append(events, e)
    BY DEF OutputEnds
<1>1. run.pc # "idle"
    BY <1>0, NotIdle DEF NoProc
<1>2. e \in Events /\ ~IsLine(e)
    BY DEF Events, IsLine
<1>3. /\ proc' \in Procs /\ proc'.alive = proc.alive /\ proc'.exit = proc.exit
      /\ proc'.pos = proc.pos /\ proc'.kid = proc.kid /\ proc'.out = "closed"
    BY <1>0, Typed DEF Procs
<1> HIDE DEF e
<1>4. /\ events' \in Seq(Events)
      /\ LinesInOrder(run.seen, proc.pos, events) => LinesInOrder(run.seen, proc'.pos, events')
    BY <1>0, <1>2, <1>3, Typed, Sent
<1> QED BY <1>0, <1>1, <1>3, <1>4, ThreadStep

LEMMA ErrorsEndStep == ASSUME RunInv, ErrorsEnd PROVE RunInv'
<1> DEFINE e == <<"err">>
           f == <<"refused", "worker_stderr_limit_exceeded">>
<1>0. /\ proc.err = "open" /\ UNCHANGED <<work, phase, run>>
      /\ proc' = [proc EXCEPT !.err = "closed"]
    BY DEF ErrorsEnd
<1>1. run.pc # "idle"
    BY <1>0, NotIdle DEF NoProc
<1>2. e \in Events /\ ~IsLine(e) /\ e # <<"out">> /\ f \in Events /\ ~IsLine(f) /\ f # <<"out">>
    BY DEF Events, Reasons, IsLine
<1>3. /\ proc' \in Procs /\ proc'.alive = proc.alive /\ proc'.exit = proc.exit
      /\ proc'.pos = proc.pos /\ proc'.kid = proc.kid /\ proc'.out = proc.out
    BY <1>0, Typed DEF Procs
<1> HIDE DEF e, f
<1>4. /\ Append(events, f) \in Seq(Events)
      /\ InChannel(<<"out">>, Append(events, f)) => InChannel(<<"out">>, events)
      /\ LinesInOrder(run.seen, proc.pos, events) => LinesInOrder(run.seen, proc.pos, Append(events, f))
    BY <1>2, Typed, Sent
<1>5. PICK channel \in {events, Append(events, f)} : events' = Append(channel, e)
    <2>1. \A channel \in Seq(Events) : channel \o <<e>> = Append(channel, e)
        BY <1>2
    <2> QED BY <1>4, <2>1, Typed DEF ErrorsEnd, e, f
<1>6. /\ channel \in Seq(Events)
      /\ InChannel(<<"out">>, channel) => InChannel(<<"out">>, events)
      /\ LinesInOrder(run.seen, proc.pos, events) => LinesInOrder(run.seen, proc.pos, channel)
    BY <1>4, <1>5, Typed
<1>7. /\ events' \in Seq(Events)
      /\ InChannel(<<"out">>, events') => InChannel(<<"out">>, events)
      /\ LinesInOrder(run.seen, proc.pos, events) => LinesInOrder(run.seen, proc'.pos, events')
    BY <1>2, <1>3, <1>5, <1>6, Typed, Sent
<1> QED BY <1>0, <1>1, <1>3, <1>7, ThreadStep

LEMMA DescendantWritesStep == ASSUME RunInv, DescendantWrites PROVE RunInv'
<1> DEFINE e == <<"frame", 0>>
<1>0. UNCHANGED <<work, phase, run>> /\ events' = Append(events, e)
    BY DEF DescendantWrites
<1>1. PICK k \in proc.kid : proc' = [proc EXCEPT !.kid = (@ \ {k}) \cup {[k EXCEPT !.writes = FALSE]}]
    BY DEF DescendantWrites
<1>2. run.pc # "idle"
    BY <1>1, NotIdle DEF NoProc
<1>3. e \in Events /\ ~IsLine(e) /\ e # <<"out">>
    BY DEF Events, IsLine
<1>4. k \in Descendants
    BY <1>1, Typed
<1> DEFINE l == [k EXCEPT !.writes = FALSE]
<1>5. l \in Descendants /\ k.group = l.group /\ k.pipes = l.pipes
    BY <1>4 DEF Descendants
<1> HIDE DEF e, l
<1>6. /\ proc' \in Procs /\ proc'.alive = proc.alive /\ proc'.exit = proc.exit
      /\ proc'.pos = proc.pos /\ proc'.kid = (proc.kid \ {k}) \cup {l} /\ proc'.out = proc.out
    BY <1>1, <1>5, Typed DEF Procs, l
<1>7. /\ events' \in Seq(Events)
      /\ InChannel(<<"out">>, events') => InChannel(<<"out">>, events)
      /\ LinesInOrder(run.seen, proc.pos, events) => LinesInOrder(run.seen, proc'.pos, events')
    BY <1>0, <1>3, <1>6, Typed, Sent
<1>8. \A m \in proc'.kid : \E j \in proc.kid : j.group = m.group /\ j.pipes = m.pipes
    BY <1>1, <1>5, <1>6
<1> QED BY <1>0, <1>2, <1>6, <1>7, <1>8, ThreadStep

LEMMA DescendantEndsStep == ASSUME RunInv, DescendantEnds PROVE RunInv'
<1>0. UNCHANGED <<work, phase, run, events>> /\ proc.kid # {} /\ proc' = [proc EXCEPT !.kid = {}]
    BY DEF DescendantEnds
<1>1. run.pc # "idle"
    BY <1>0, NotIdle DEF NoProc
<1>2. /\ proc' \in Procs /\ proc'.alive = proc.alive /\ proc'.exit = proc.exit
      /\ proc'.pos = proc.pos /\ proc'.kid = {} /\ proc'.out = proc.out
    BY <1>0, Typed DEF Procs
<1> QED BY <1>0, <1>1, <1>2, Typed, ThreadStep

-----------------------------------------------------------------------------
(* The coordinator and the watchdog *)

(* A kill leaves the lines and the pipes as they are. *)
Kills(p, q) ==
    /\ q \in Procs /\ q.pos = p.pos /\ q.out = p.out /\ q.kid \subseteq p.kid
    /\ \/ q.alive = p.alive /\ q.exit = p.exit
       \/ p.alive /\ ~q.alive /\ q.exit = -9

LEMMA DiedTyped ==
    ASSUME NEW p \in Procs, NEW exit \in Int
    PROVE  LET d == Died(p, exit)
           IN  d \in Procs /\ d.pos = p.pos /\ d.out = p.out /\ d.kid = p.kid /\ ~d.alive /\ d.exit = exit
BY DEF Died, Procs

LEMMA KillGroup ==
    ASSUME NEW p \in Procs
    PROVE  Kills(p, kill_group(p)) /\ \A k \in kill_group(p).kid : ~k.group
<1> DEFINE d == Died(p, -9)
           q == IF p.alive /\ ~Behaves.leaves THEN d ELSE p
           kids == {k \in q.kid : ~k.group}
<1>1. /\ d \in Procs /\ d.pos = p.pos /\ d.out = p.out /\ d.kid = p.kid /\ ~d.alive /\ d.exit = -9
    <2>1. -9 \in Int
        OBVIOUS
    <2> QED BY <2>1, DiedTyped
<1> HIDE DEF d
<1>2. /\ q \in Procs /\ q.pos = p.pos /\ q.out = p.out /\ q.kid = p.kid
      /\ \/ q.alive = p.alive /\ q.exit = p.exit
         \/ p.alive /\ ~q.alive /\ q.exit = -9
    BY <1>1
<1>3. kill_group(p) = [q EXCEPT !.kid = kids]
    BY DEF kill_group, d
<1> HIDE DEF q
<1>4. kids \subseteq q.kid /\ \A k \in kids : ~k.group
    OBVIOUS
<1> HIDE DEF kids
<1>5. /\ kill_group(p) \in Procs /\ kill_group(p).pos = q.pos /\ kill_group(p).out = q.out
      /\ kill_group(p).kid = kids /\ kill_group(p).alive = q.alive /\ kill_group(p).exit = q.exit
    BY <1>2, <1>3, <1>4 DEF Procs
<1> QED BY <1>2, <1>4, <1>5 DEF Kills

LEMMA KillBoth ==
    ASSUME NEW p \in Procs PROVE Kills(p, child_kill(kill_group(p)))
<1> DEFINE q == kill_group(p)
           d == Died(q, -9)
<1>1. Kills(p, q)
    BY KillGroup
<1> HIDE DEF q
<1>2. /\ d \in Procs /\ d.pos = q.pos /\ d.out = q.out /\ d.kid = q.kid /\ ~d.alive /\ d.exit = -9
    <2>1. -9 \in Int
        OBVIOUS
    <2> QED BY <1>1, <2>1, DiedTyped DEF Kills
<1>3. child_kill(q) = IF q.alive THEN d ELSE q
    BY DEF child_kill
<1> HIDE DEF d
<1> QED BY <1>1, <1>2, <1>3 DEF Kills, q

LEMMA KillNone == ASSUME NEW p \in Procs PROVE Kills(p, p)
BY DEF Kills

(* The first reason to refuse is kept. *)
LEMMA Refusing ==
    ASSUME NEW r \in Runs, NEW reason \in Reasons
    PROVE  LET s == Refuse(r, reason)
           IN  /\ s \in Runs /\ s.refused # {} /\ s.pc = r.pc /\ s.exited = r.exited
               /\ s.deadline = r.deadline /\ s.out = r.out /\ s.watching = r.watching
<1>1. Inserted(r.refused, reason) # {} /\ Inserted(r.refused, reason) \subseteq Reasons
    BY DEF Inserted, Runs
<1> QED BY <1>1 DEF Refuse, Runs

(* A step of the coordinator, or of the watchdog, within a run. *)
LEMMA CoordinatorStep ==
    ASSUME RunInv, run.pc # "idle", run'.pc # "idle", UNCHANGED <<work, phase>>,
           run' \in Runs, events' \in Seq(Events), Kills(proc, proc'),
           proc'.exit = proc.exit \/ run'.deadline \/ run'.refused # {},
           run'.exited = run.exited \/ (~proc.alive /\ run'.exited = {proc.exit}),
           run.deadline => run'.deadline,
           run.refused # {} => run'.refused # {},
           ~run'.out => ~run.out \/ InChannel(<<"out">>, events),
           InChannel(<<"out">>, events') => InChannel(<<"out">>, events),
           run'.pc \in {"drain", "done"} /\ run'.refused = {} => ~run'.out,
           LinesInv', DoneInv'
    PROVE  RunInv'
<1>1. WorkInv' /\ IdleInv'
    BY DEF RunInv, WorkInv, IdleInv
<1>2. RunTypes'
    BY DEF RunTypes, Kills
<1>3. ExitInv'
    BY DEF RunInv, ExitInv, Kills
<1>4. PipeInv'
    BY DEF RunInv, PipeInv, HoldsPipes, Kills
<1> QED BY <1>1, <1>2, <1>3, <1>4 DEF RunInv

(* The lines stay in order when none is taken. *)
LEMMA LinesKept ==
    ASSUME RunInv, UNCHANGED <<work, phase>>, proc'.pos = proc.pos,
           run'.refused = {} =>
             /\ run.refused = {} /\ run'.seen = run.seen /\ run'.result = run.result
             /\ run'.prepared = run.prepared
             /\ \/ events' = events
                \/ events # <<>> /\ events' = Tail(events) /\ ~IsLine(Head(events))
                \/ \E e \in Events : ~IsLine(e) /\ events' = Append(events, e)
    PROVE  LinesInv'
<1> SUFFICES ASSUME run'.refused = {} PROVE LinesInOrder(run'.seen, proc'.pos, events') /\ JudgedInv'
    BY DEF LinesInv
<1>1. LinesInOrder(run.seen, proc.pos, events) /\ JudgedInv
    BY DEF RunInv, LinesInv
<1>2. JudgedInv'
    BY <1>1, StillJudged
<1>3. LinesInOrder(run.seen, proc.pos, events')
    <2>1. CASE events' = events
        BY <1>1, <2>1
    <2>2. CASE events # <<>> /\ events' = Tail(events) /\ ~IsLine(Head(events))
        BY <1>1, <2>2, Typed, TakeHead
    <2>3. CASE \E e \in Events : ~IsLine(e) /\ events' = Append(events, e)
        BY <1>1, <2>3, Typed, Sent
    <2> QED BY <2>1, <2>2, <2>3
<1> QED BY <1>2, <1>3

LEMMA DeadlineStep == ASSUME RunInv, Deadline PROVE RunInv'
<1> DEFINE e == <<"deadline">>
<1>0. /\ run.watching /\ UNCHANGED <<work, phase>> /\ run' = [run EXCEPT !.deadline = TRUE]
      /\ proc' = kill_group(proc) /\ events' = Append(events, e)
    BY DEF Deadline
<1>1. run.pc # "idle" /\ run.pc # "done"
    BY <1>0 DEF RunInv, IdleInv, DoneInv, Idle
<1>2. e \in Events /\ ~IsLine(e) /\ e # <<"out">>
    BY DEF Events, IsLine
<1> HIDE DEF e
<1>3. /\ run' \in Runs /\ run'.pc = run.pc /\ run'.deadline /\ run'.refused = run.refused
      /\ run'.exited = run.exited /\ run'.out = run.out /\ run'.seen = run.seen
      /\ run'.result = run.result /\ run'.prepared = run.prepared
    BY <1>0, Typed DEF Runs
<1>4. Kills(proc, proc')
    BY <1>0, Typed, KillGroup
<1>5. events' \in Seq(Events) /\ (InChannel(<<"out">>, events') => InChannel(<<"out">>, events))
    BY <1>0, <1>2, Typed, Sent
<1>6. proc'.pos = proc.pos
    BY <1>4 DEF Kills
<1>7. LinesInv'
    BY <1>0, <1>2, <1>3, <1>6, LinesKept
<1>8. DoneInv'
    BY <1>1, <1>3 DEF DoneInv
<1>9. run.pc \in {"drain", "done"} /\ run.refused = {} => ~run.out
    BY DEF RunInv, PipeInv
<1> QED BY <1>0, <1>1, <1>3, <1>4, <1>5, <1>7, <1>8, <1>9, CoordinatorStep

LEMMA ObserveExitStep == ASSUME RunInv, ObserveExit PROVE RunInv'
<1>0. /\ run.pc = "loop" /\ UNCHANGED <<work, phase, proc, events>>
      /\ \/ run' = Refuse([run EXCEPT !.pc = "stop"], "worker_exit_unavailable")
         \/ ~proc.alive /\ run' = [run EXCEPT !.exited = {proc.exit}]
    BY DEF ObserveExit
<1>1. CASE run' = Refuse([run EXCEPT !.pc = "stop"], "worker_exit_unavailable")
    <2> DEFINE r == [run EXCEPT !.pc = "stop"]
    <2>1. /\ r \in Runs /\ r.pc = "stop" /\ r.exited = run.exited /\ r.deadline = run.deadline
          /\ r.out = run.out
        BY Typed DEF Runs
    <2>2. "worker_exit_unavailable" \in Reasons /\ run' = Refuse(r, "worker_exit_unavailable")
        BY <1>1 DEF Reasons
    <2> HIDE DEF r
    <2>3. /\ run' \in Runs /\ run'.refused # {} /\ run'.pc = "stop" /\ run'.exited = run.exited
          /\ run'.deadline = run.deadline /\ run'.out = run.out
        BY <2>1, <2>2, Refusing
    <2>4. LinesInv' /\ DoneInv'
        BY <2>3 DEF LinesInv, DoneInv
    <2> QED BY <1>0, <2>3, <2>4, Typed, KillNone, CoordinatorStep
<1>2. CASE ~proc.alive /\ run' = [run EXCEPT !.exited = {proc.exit}]
    <2>1. /\ run' \in Runs /\ run'.pc = run.pc /\ run'.deadline = run.deadline
          /\ run'.refused = run.refused /\ run'.exited = {proc.exit} /\ run'.out = run.out
          /\ run'.seen = run.seen /\ run'.result = run.result /\ run'.prepared = run.prepared
        <3>1. proc.exit \in Int
            BY Typed DEF Procs
        <3> QED BY <1>2, <3>1, Typed DEF Runs
    <2>2. LinesInv'
        BY <1>0, <2>1, LinesKept
    <2>3. DoneInv'
        BY <1>0, <2>1 DEF DoneInv
    <2> QED BY <1>0, <1>2, <2>1, <2>2, <2>3, Typed, KillNone, CoordinatorStep
<1> QED BY <1>0, <1>1, <1>2

LEMMA GraceStep == ASSUME RunInv, GraceInLoop PROVE RunInv'
<1> DEFINE r == [run EXCEPT !.pc = "stop"]
<1>0. /\ run.pc = "loop" /\ UNCHANGED <<work, phase, proc, events>>
      /\ run' = Refuse(r, "worker_left_processes_running")
    BY DEF GraceInLoop
<1>1. /\ r \in Runs /\ r.pc = "stop" /\ r.exited = run.exited /\ r.deadline = run.deadline
      /\ r.out = run.out
    BY Typed DEF Runs
<1>2. "worker_left_processes_running" \in Reasons
    BY DEF Reasons
<1> HIDE DEF r
<1>3. /\ run' \in Runs /\ run'.refused # {} /\ run'.pc = "stop" /\ run'.exited = run.exited
      /\ run'.deadline = run.deadline /\ run'.out = run.out
    BY <1>0, <1>1, <1>2, Refusing
<1>4. LinesInv' /\ DoneInv'
    BY <1>3 DEF LinesInv, DoneInv
<1> QED BY <1>0, <1>3, <1>4, Typed, KillNone, CoordinatorStep

(* A line the coordinator accepts is the next one: the first is the         *)
(* preparation, none comes after the result.                                *)
LEMMA Accepted ==
    ASSUME RunInv, run.refused = {}, events # <<>>, Head(events)[1] = "frame",
           FrameRefusal(Head(events)[2]) = {}
    PROVE  LET n == Head(events)[2]
           IN  /\ IsLine(Head(events)) /\ n = run.seen + 1 /\ run.result = 0
               /\ ~run.prepared => Frame(n).type = "prepared" /\ check_prepared(Frame(n))
               /\ run.prepared => Frame(n).type # "prepared"
<1> DEFINE n == Head(events)[2]
<1>1. run.result = 0 /\ n # 0
    BY DEF FrameRefusal, Violation
<1>2. IsLine(Head(events))
    BY <1>1 DEF IsLine
<1>3. n = run.seen + 1
    BY <1>2, Typed, TakeHead DEF RunInv, LinesInv
<1>4. ~run.prepared => Frame(n).type = "prepared" /\ check_prepared(Frame(n))
    BY <1>1 DEF FrameRefusal, Violation
<1>5. run.prepared => Frame(n).type # "prepared"
    BY <1>1 DEF FrameRefusal, Violation
<1> QED BY <1>1, <1>2, <1>3, <1>4, <1>5

LEMMA RefusalTyped ==
    ASSUME NEW n PROVE FrameRefusal(n) \subseteq Reasons
BY DEF FrameRefusal, Violation, Reasons

LEMMA HeadTyped ==
    ASSUME RunInv, events # <<>>
    PROVE  /\ Head(events) \in Events /\ Tail(events) \in Seq(Events)
           /\ \A f : InChannel(f, Tail(events)) => InChannel(f, events)
           /\ InChannel(Head(events), events)
<1>1. Head(events) \in Events /\ Tail(events) \in Seq(Events)
    BY Typed
<1>2. 1 \in DOMAIN events /\ Head(events) = events[1]
    BY Typed
<1> QED BY <1>1, <1>2, Typed, InTail DEF InChannel

LEMMA ReceiveFrameStep == ASSUME RunInv, ReceiveFrame PROVE RunInv'
<1> DEFINE e == Head(events)
           n == e[2]
           refusal == FrameRefusal(n)
           kind == IF n = 0 THEN "none" ELSE Frame(n).type
<1>0. /\ run.pc = "loop" /\ events # <<>> /\ e[1] = "frame" /\ events' = Tail(events)
      /\ UNCHANGED <<work, phase>>
      /\ run' = IF refusal # {} THEN [Taken(run) EXCEPT !.pc = "stop", !.refused = refusal]
                ELSE IF kind = "prepared" THEN [Taken(run) EXCEPT !.prepared = TRUE]
                ELSE IF kind = "result" /\ run.result = 0
                THEN [Taken(run) EXCEPT !.result = n, !.stdin = FALSE]
                ELSE Taken(run)
      /\ proc' = proc \/ proc' = [proc EXCEPT !.queued = @ + 1]
    BY DEF ReceiveFrame
<1>1. n \in Nat /\ events' \in Seq(Events) /\ (InChannel(<<"out">>, events') => InChannel(<<"out">>, events))
    BY <1>0, HeadTyped, EventShape
<1>2. Kills(proc, proc') /\ proc'.exit = proc.exit /\ proc'.pos = proc.pos
    <2>1. proc.queued + 1 \in Nat
        BY Typed
    <2> QED BY <1>0, <2>1, Typed, KillNone DEF Kills, Procs
<1>3. /\ Taken(run) \in Runs /\ Taken(run).seen = run.seen + 1 /\ Taken(run).pc = run.pc
      /\ Taken(run).refused = run.refused /\ Taken(run).exited = run.exited
      /\ Taken(run).deadline = run.deadline /\ Taken(run).out = run.out
      /\ Taken(run).result = run.result /\ Taken(run).prepared = run.prepared
    <2>1. run.seen + 1 \in Nat
        BY Typed
    <2> QED BY <2>1, Typed DEF Taken, Runs
<1>4. refusal \subseteq Reasons
    BY RefusalTyped
<1> HIDE DEF e, n, refusal, kind
<1>5. CASE refusal # {}
    <2> DEFINE r == Taken(run)
    <2> HIDE DEF r
    <2>1. run' = [r EXCEPT !.pc = "stop", !.refused = refusal]
        BY <1>0, <1>5 DEF r
    <2>2. /\ run' \in Runs /\ run'.refused # {} /\ run'.pc = "stop" /\ run'.exited = r.exited
          /\ run'.deadline = r.deadline /\ run'.out = r.out
        BY <1>3, <1>4, <1>5, <2>1 DEF Runs, r
    <2>3. LinesInv' /\ DoneInv'
        BY <2>2 DEF LinesInv, DoneInv
    <2> QED BY <1>0, <1>1, <1>2, <1>3, <2>2, <2>3, CoordinatorStep DEF r
<1>6. CASE refusal = {}
    <2> DEFINE r == Taken(run)
    <2> HIDE DEF r
    <2>1. \/ kind = "prepared" /\ run' = [r EXCEPT !.prepared = TRUE]
          \/ kind # "prepared" /\ run.result = 0 /\ run' = [r EXCEPT !.result = n, !.stdin = FALSE]
          \/ kind # "prepared" /\ run' = r
        BY <1>0, <1>6 DEF r
    <2>2. /\ run' \in Runs /\ run'.refused = run.refused /\ run'.pc = run.pc
          /\ run'.exited = run.exited /\ run'.deadline = run.deadline /\ run'.out = run.out
          /\ run'.seen = run.seen + 1 /\ run'.prepared = (run.prepared \/ kind = "prepared")
          /\ run'.result = run.result \/ run'.result = n
        <3>1. CASE kind = "prepared" /\ run' = [r EXCEPT !.prepared = TRUE]
            BY <1>3, <3>1, Typed DEF Runs, r
        <3>2. CASE kind # "prepared" /\ run' = [r EXCEPT !.result = n, !.stdin = FALSE]
            BY <1>1, <1>3, <3>2, Typed DEF Runs, r
        <3>3. CASE kind # "prepared" /\ run' = r
            BY <1>3, <3>3, Typed DEF Runs, r
        <3> QED BY <2>1, <3>1, <3>2, <3>3
    <2>3. DoneInv'
        BY <1>0, <2>2 DEF DoneInv
    <2>4. LinesInv'
        <3> SUFFICES ASSUME run.refused = {}
                     PROVE  LinesInOrder(run'.seen, proc'.pos, events') /\ JudgedInv'
            BY <2>2 DEF LinesInv
        <3>1. LinesInOrder(run.seen, proc.pos, events) /\ JudgedInv
            BY DEF RunInv, LinesInv
        <3>2. /\ IsLine(e) /\ n = run.seen + 1 /\ run.result = 0
              /\ ~run.prepared => kind = "prepared" /\ check_prepared(Frame(n))
            BY <1>0, <1>6, Typed, Accepted DEF e, n, refusal, kind
        <3>3. LinesInOrder(run'.seen, proc'.pos, events')
            BY <1>0, <1>2, <2>2, <3>1, <3>2, Typed, TakeHead DEF e
        <3>4. run'.prepared /\ check_prepared(Frame(1))
            <4>1. CASE run.prepared
                BY <2>2, <3>1, <4>1 DEF JudgedInv
            <4>2. CASE ~run.prepared
                <5>1. run.seen = 0
                    BY <3>1, <4>2, Typed DEF JudgedInv
                <5>2. n = 1
                    BY <3>2, <5>1
                <5> QED BY <2>2, <3>2, <4>2, <5>2
            <4> QED BY <4>1, <4>2
        <3>5. JudgedInv'
            BY <1>0, <2>2, <3>2, <3>4, RunIsFixed DEF JudgedInv
        <3> QED BY <3>3, <3>5
    <2> QED BY <1>0, <1>1, <1>2, <2>2, <2>3, <2>4, CoordinatorStep
<1> QED BY <1>5, <1>6

LEMMA ReceiveOtherStep == ASSUME RunInv, ReceiveOther PROVE RunInv'
<1> DEFINE e == Head(events)
<1>0. /\ run.pc = "loop" /\ events # <<>> /\ e[1] # "frame" /\ events' = Tail(events)
      /\ UNCHANGED <<work, phase, proc>>
    BY DEF ReceiveOther
<1>1. /\ e \in Events /\ events' \in Seq(Events)
      /\ InChannel(<<"out">>, events') => InChannel(<<"out">>, events)
      /\ InChannel(e, events)
    BY <1>0, HeadTyped
<1>2. \/ e = <<"out">> /\ run' = [run EXCEPT !.out = FALSE, !.pc = "stop"]
      \/ run' = [run EXCEPT !.err = FALSE]
      \/ \E reason \in Reasons : run' = [run EXCEPT !.refused = {reason}, !.pc = "stop"]
    <2>1. /\ e[1] \in {"out", "err", "deadline", "refused"}
          /\ e[1] = "refused" => e[2] \in Reasons
          /\ e[1] = "out" => e = <<"out">>
        BY <1>0, <1>1, EventShape
    <2>2. "worker_deadline_exceeded" \in Reasons
        BY DEF Reasons
    <2>3. run' = CASE e[1] = "out" -> [run EXCEPT !.out = FALSE, !.pc = "stop"]
                   [] e[1] = "err" -> [run EXCEPT !.err = FALSE]
                   [] e[1] = "refused" -> [run EXCEPT !.refused = {e[2]}, !.pc = "stop"]
                   [] e[1] = "deadline" ->
                        [run EXCEPT !.refused = {"worker_deadline_exceeded"}, !.pc = "stop"]
        BY DEF ReceiveOther
    <2> HIDE DEF e
    <2> QED BY <2>1, <2>2, <2>3, Typed
<1>3. ~IsLine(e)
    BY <1>0 DEF IsLine
<1> HIDE DEF e
<1>4. /\ run' \in Runs /\ run'.pc \in {"loop", "stop"} /\ run'.exited = run.exited
      /\ run'.deadline = run.deadline /\ run'.seen = run.seen /\ run'.result = run.result
      /\ run'.prepared = run.prepared /\ (run'.refused = run.refused \/ run'.refused # {})
      /\ run'.out = run.out \/ e = <<"out">>
    <2>1. CASE e = <<"out">> /\ run' = [run EXCEPT !.out = FALSE, !.pc = "stop"]
        BY <2>1, Typed DEF Runs
    <2>2. CASE run' = [run EXCEPT !.err = FALSE]
        BY <1>0, <2>2, Typed DEF Runs
    <2>3. CASE \E reason \in Reasons : run' = [run EXCEPT !.refused = {reason}, !.pc = "stop"]
        <3>1. PICK reason \in Reasons : run' = [run EXCEPT !.refused = {reason}, !.pc = "stop"]
            BY <2>3
        <3> QED BY <3>1, Typed DEF Runs
    <2> QED BY <1>2, <2>1, <2>2, <2>3
<1>5. LinesInv'
    BY <1>0, <1>3, <1>4, LinesKept DEF e
<1>6. DoneInv'
    BY <1>4 DEF DoneInv
<1> QED BY <1>0, <1>1, <1>4, <1>5, <1>6, Typed, KillNone, CoordinatorStep

LEMMA StopStep == ASSUME RunInv, Stop PROVE RunInv'
<1>0. /\ run.pc = "stop" /\ run' = [run EXCEPT !.pc = "reap", !.stdin = FALSE]
      /\ UNCHANGED <<work, phase, events>>
      /\ proc' = IF run.refused # {} THEN child_kill(kill_group(proc)) ELSE proc
    BY DEF Stop
<1>1. Kills(proc, proc') /\ (proc' = proc \/ run.refused # {})
    BY <1>0, Typed, KillBoth, KillNone
<1>2. /\ run' \in Runs /\ run'.pc = "reap" /\ run'.exited = run.exited
      /\ run'.deadline = run.deadline /\ run'.seen = run.seen /\ run'.result = run.result
      /\ run'.prepared = run.prepared /\ run'.refused = run.refused /\ run'.out = run.out
    BY <1>0, Typed DEF Runs
<1>3. LinesInv'
    BY <1>0, <1>1, <1>2, LinesKept DEF Kills
<1>4. DoneInv'
    BY <1>2 DEF DoneInv
<1> QED BY <1>0, <1>1, <1>2, <1>3, <1>4, Typed, CoordinatorStep

LEMMA ReapStep == ASSUME RunInv, Reap PROVE RunInv'
<1>0. run.pc = "reap" /\ UNCHANGED <<work, phase, events>>
    BY DEF Reap
<1>1. /\ run' \in Runs /\ run'.pc \in {"reap", "pipes"}
      /\ run'.deadline = run.deadline /\ run'.seen = run.seen /\ run'.result = run.result
      /\ run'.prepared = run.prepared /\ run'.refused = run.refused /\ run'.out = run.out
      /\ run'.exited = run.exited \/ (~proc.alive /\ run'.exited = {proc.exit})
      /\ Kills(proc, proc') /\ (proc' = proc \/ run.deadline)
    <2>1. CASE run' = [run EXCEPT !.pc = "pipes"] /\ proc' = proc
        BY <2>1, Typed, KillNone DEF Runs
    <2>2. CASE /\ run.exited # {} \/ ~proc.alive
               /\ run' = [run EXCEPT !.pc = "pipes", !.exited = IF @ = {} THEN {proc.exit} ELSE @]
               /\ proc' = proc
        <3>1. proc.exit \in Int
            BY Typed DEF Procs
        <3> QED BY <2>2, <3>1, Typed, KillNone DEF Runs
    <2>3. CASE run.deadline /\ proc' = child_kill(kill_group(proc)) /\ run' = run
        BY <1>0, <2>3, Typed, KillBoth
    <2> QED BY <2>1, <2>2, <2>3 DEF Reap
<1>2. LinesInv'
    BY <1>0, <1>1, LinesKept DEF Kills
<1>3. DoneInv'
    BY <1>1 DEF DoneInv
<1> QED BY <1>0, <1>1, <1>2, <1>3, Typed, CoordinatorStep

(* What a late event does: only the end of a pipe does not refuse. *)
LEMMA LateRun ==
    ASSUME NEW r \in Runs, NEW e \in Events
    PROVE  LET s == Late(r, e)
           IN  /\ s \in Runs /\ s.pc = r.pc /\ s.exited = r.exited /\ s.deadline = r.deadline
               /\ s.watching = r.watching
               /\ s.refused = {} => /\ r.refused = {} /\ e[1] \in {"out", "err"} /\ s.seen = r.seen
                                    /\ s.result = r.result /\ s.prepared = r.prepared
               /\ s.out = r.out \/ e = <<"out">>
<1> DEFINE s == Late(r, e)
           t == Taken(r)
<1>1. /\ e[1] \in {"out", "err", "deadline", "frame", "refused"}
      /\ e[1] = "refused" => e[2] \in Reasons
      /\ e[1] = "out" => e = <<"out">>
    BY EventShape
<1>2. {"worker_protocol_violation", "worker_deadline_exceeded"} \subseteq Reasons
    BY DEF Reasons
<1>3. CASE e[1] = "out"
    <2>1. s = [r EXCEPT !.out = FALSE]
        BY <1>3 DEF Late
    <2> HIDE DEF s
    <2> QED BY <1>1, <1>3, <2>1 DEF Runs, s
<1>4. CASE e[1] = "err"
    <2>1. s = [r EXCEPT !.err = FALSE]
        BY <1>4 DEF Late
    <2> HIDE DEF s
    <2> QED BY <1>1, <1>4, <2>1 DEF Runs, s
<1>5. CASE e[1] \in {"refused", "deadline"}
    <2>1. PICK reason \in Reasons : s = Refuse(r, reason)
        BY <1>1, <1>2, <1>5 DEF Late
    <2> HIDE DEF s
    <2> QED BY <2>1, Refusing DEF s
<1>6. CASE e[1] = "frame"
    <2>1. s = Refuse(t, "worker_protocol_violation")
        BY <1>6 DEF Late
    <2>2. /\ t \in Runs /\ t.pc = r.pc /\ t.exited = r.exited /\ t.deadline = r.deadline
          /\ t.watching = r.watching /\ t.out = r.out
        <3>1. r.seen + 1 \in Nat
            BY DEF Runs
        <3> QED BY <3>1 DEF Taken, Runs
    <2> HIDE DEF s, t
    <2> QED BY <1>2, <2>1, <2>2, Refusing DEF s
<1> QED BY <1>1, <1>3, <1>4, <1>5, <1>6

LEMMA PipesStep == ASSUME RunInv, Pipes PROVE RunInv'
<1>0. run.pc = "pipes" /\ UNCHANGED <<work, phase, proc>>
    BY DEF Pipes
<1>1. CASE ~run.out /\ run' = [run EXCEPT !.pc = "drain"] /\ events' = events
    <2>1. /\ run' \in Runs /\ run'.pc = "drain" /\ run'.exited = run.exited
          /\ run'.deadline = run.deadline /\ run'.seen = run.seen /\ run'.result = run.result
          /\ run'.prepared = run.prepared /\ run'.refused = run.refused /\ run'.out = run.out
        BY <1>1, Typed DEF Runs
    <2>2. LinesInv'
        BY <1>0, <1>1, <2>1, LinesKept
    <2>3. DoneInv'
        BY <2>1 DEF DoneInv
    <2> QED BY <1>0, <1>1, <2>1, <2>2, <2>3, Typed, KillNone, CoordinatorStep
<1>2. CASE events # <<>> /\ run' = Late(run, Head(events)) /\ events' = Tail(events)
    <2> DEFINE e == Head(events)
    <2>1. /\ e \in Events /\ events' \in Seq(Events)
          /\ InChannel(<<"out">>, events') => InChannel(<<"out">>, events)
          /\ InChannel(e, events)
        BY <1>2, HeadTyped
    <2>2. run' = Late(run, e)
        BY <1>2
    <2> HIDE DEF e
    <2>3. /\ run' \in Runs /\ run'.pc = run.pc /\ run'.exited = run.exited
          /\ run'.deadline = run.deadline
          /\ run'.refused = {} => /\ run.refused = {} /\ e[1] \in {"out", "err"}
                                  /\ run'.seen = run.seen /\ run'.result = run.result
                                  /\ run'.prepared = run.prepared
          /\ run'.out = run.out \/ e = <<"out">>
        BY <2>1, <2>2, Typed, LateRun
    <2>4. e[1] \in {"out", "err"} => ~IsLine(e)
        BY DEF IsLine
    <2>5. LinesInv'
        BY <1>0, <1>2, <2>3, <2>4, LinesKept DEF e
    <2>6. DoneInv'
        BY <1>0, <2>3 DEF DoneInv
    <2> QED BY <1>0, <2>1, <2>3, <2>5, <2>6, Typed, KillNone, CoordinatorStep
<1>3. CASE /\ run' = Refuse([run EXCEPT !.pc = "drain"], "worker_left_processes_running")
           /\ events' = events
    <2> DEFINE r == [run EXCEPT !.pc = "drain"]
    <2>1. /\ r \in Runs /\ r.pc = "drain" /\ r.exited = run.exited /\ r.deadline = run.deadline
          /\ r.out = run.out
        BY Typed DEF Runs
    <2>2. "worker_left_processes_running" \in Reasons /\ run' = Refuse(r, "worker_left_processes_running")
        BY <1>3 DEF Reasons
    <2> HIDE DEF r
    <2>3. /\ run' \in Runs /\ run'.refused # {} /\ run'.pc = "drain" /\ run'.exited = run.exited
          /\ run'.deadline = run.deadline /\ run'.out = run.out
        BY <2>1, <2>2, Refusing
    <2>4. LinesInv' /\ DoneInv'
        BY <2>3 DEF LinesInv, DoneInv
    <2> QED BY <1>0, <1>3, <2>3, <2>4, Typed, KillNone, CoordinatorStep
<1> QED BY <1>1, <1>2, <1>3 DEF Pipes

(* The channel is emptied: if that does not refuse, no line was left in it. *)
LEMMA DrainedRun ==
    ASSUME RunInv
    PROVE  /\ Drained \in Runs /\ Drained.pc = run.pc /\ Drained.exited = run.exited
           /\ Drained.deadline = run.deadline /\ Drained.out = run.out
           /\ run.refused # {} => Drained.refused # {}
           /\ Drained.refused = {} => /\ Drained = run
                                      /\ \A i \in DOMAIN events : events[i][1] # "frame"
<1> DEFINE late == {i \in DOMAIN events : events[i][1] \in {"frame", "refused"}}
<1>1. CASE late = {}
    BY <1>1, Typed DEF Drained
<1>2. CASE late # {}
    <2>1. late \subseteq Nat
        BY Typed
    <2>2. PICK i \in late : Min(late) = i
        <3>1. \E i \in late : \A j \in late : i <= j
            BY <1>2, <2>1, LeastIndex
        <3> QED BY <3>1 DEF Min
    <2>3. events[i] \in Events /\ events[i][1] \in {"frame", "refused"}
        BY <2>2, Typed
    <2>4. Drained = Late(run, events[i])
        BY <1>2, <2>2 DEF Drained
    <2>5. events[i] # <<"out">>
        BY <2>3
    <2> HIDE DEF late
    <2> QED BY <2>3, <2>4, <2>5, Typed, LateRun
<1> QED BY <1>1, <1>2

LEMMA DrainStep == ASSUME RunInv, Drain PROVE RunInv'
<1> DEFINE timed == IF run.deadline THEN [Drained EXCEPT !.refused = {"worker_deadline_exceeded"}]
                    ELSE Drained
           members == (proc.alive /\ ~Behaves.leaves) \/ \E k \in proc.kid : k.group
           last == CASE members -> Refuse(timed, "worker_left_processes_running")
                     [] ~members /\ run.exited = {} -> Refuse(timed, "worker_wait_failed")
                     [] OTHER -> timed
<1>0. /\ run.pc = "drain" /\ UNCHANGED <<work, phase>> /\ events' = <<>>
      /\ run' = [last EXCEPT !.pc = "done", !.watching = FALSE]
      /\ proc' = IF members THEN kill_group(proc) ELSE proc
    BY DEF Drain
<1>1. {"worker_deadline_exceeded", "worker_left_processes_running", "worker_wait_failed"} \subseteq Reasons
    BY DEF Reasons
<1>2. /\ Drained \in Runs /\ Drained.exited = run.exited /\ Drained.deadline = run.deadline
      /\ Drained.out = run.out
      /\ run.refused # {} => Drained.refused # {}
      /\ Drained.refused = {} => /\ Drained = run
                                 /\ \A i \in DOMAIN events : events[i][1] # "frame"
    BY DrainedRun
<1>3. /\ timed \in Runs /\ timed.exited = run.exited /\ timed.deadline = run.deadline
      /\ timed.out = run.out
      /\ run.refused # {} => timed.refused # {}
      /\ timed.refused = {} => timed = run /\ ~run.deadline /\ \A i \in DOMAIN events : events[i][1] # "frame"
    <2>1. CASE run.deadline
        <3> DEFINE d == Drained
        <3>1. timed = [d EXCEPT !.refused = {"worker_deadline_exceeded"}]
            BY <2>1
        <3> HIDE DEF d, timed
        <3> QED BY <1>1, <1>2, <3>1 DEF Runs, d
    <2>2. CASE ~run.deadline
        BY <1>2, <2>2
    <2> QED BY <2>1, <2>2
<1> HIDE DEF timed
<1>4. members \in BOOLEAN
    OBVIOUS
<1>5. /\ last \in Runs /\ last.exited = run.exited /\ last.deadline = run.deadline
      /\ last.out = run.out
      /\ run.refused # {} => last.refused # {}
      /\ last.refused = {} => /\ last = run /\ ~members /\ run.exited # {} /\ ~run.deadline
                              /\ \A i \in DOMAIN events : events[i][1] # "frame"
    <2>1. CASE members
        <3>1. last = Refuse(timed, "worker_left_processes_running")
            BY <2>1
        <3> HIDE DEF last
        <3> QED BY <1>1, <1>3, <3>1, Refusing
    <2>2. CASE ~members /\ run.exited = {}
        <3>1. last = Refuse(timed, "worker_wait_failed")
            BY <2>2
        <3> HIDE DEF last
        <3> QED BY <1>1, <1>3, <3>1, Refusing
    <2>3. CASE ~members /\ run.exited # {}
        <3>1. last = timed
            BY <2>3
        <3> HIDE DEF last, members
        <3> QED BY <1>3, <2>3, <3>1
    <2> QED BY <1>4, <2>1, <2>2, <2>3
<1>6. ~members => \A k \in proc.kid : ~k.group
    OBVIOUS
<1> HIDE DEF last, members
<1>7. /\ run' \in Runs /\ run'.pc = "done" /\ ~run'.watching /\ run'.exited = run.exited
      /\ run'.deadline = run.deadline /\ run'.refused = last.refused /\ run'.seen = last.seen
      /\ run'.result = last.result /\ run'.prepared = last.prepared /\ run'.out = last.out
    BY <1>0, <1>5 DEF Runs
<1>8. Kills(proc, proc') /\ (proc' = proc \/ last.refused # {})
    BY <1>0, <1>5, Typed, KillGroup, KillNone
<1>9. ASSUME run'.refused = {}
      PROVE  /\ run.refused = {} /\ ~run'.deadline /\ run'.exited # {} /\ proc' = proc
             /\ run'.seen = run.seen /\ run.seen = proc.pos - 1 /\ run'.result = run.result
             /\ run'.prepared = run.prepared /\ ~run'.out /\ \A k \in proc.kid : ~k.group
    <2>1. last.refused = {}
        BY <1>7, <1>9
    <2>2. /\ last = run /\ ~members /\ run.exited # {} /\ ~run.deadline
          /\ \A i \in DOMAIN events : events[i][1] # "frame"
        BY <1>5, <2>1
    <2>3. run.refused = {} /\ LinesInOrder(run.seen, proc.pos, events)
        BY <2>1, <2>2 DEF RunInv, LinesInv
    <2>4. run.seen = proc.pos - 1
        BY <2>2, <2>3, Typed, NoLines
    <2>5. ~run.out
        BY <1>0, <2>3 DEF RunInv, PipeInv
    <2> QED BY <1>6, <1>7, <1>8, <2>1, <2>2, <2>3, <2>4, <2>5
<1>10. LinesInv'
    <2> SUFFICES ASSUME run'.refused = {}
                 PROVE  LinesInOrder(run'.seen, proc'.pos, events') /\ JudgedInv'
        BY DEF LinesInv
    <2>1. LinesInOrder(run'.seen, proc'.pos, events')
        BY <1>0, <1>9, Typed, EmptyInOrder
    <2>2. JudgedInv'
        BY <1>0, <1>9, StillJudged DEF RunInv, LinesInv
    <2> QED BY <2>1, <2>2
<1>11. DoneInv'
    BY <1>7, <1>9 DEF DoneInv
<1>12. /\ events' \in Seq(Events) /\ ~InChannel(<<"out">>, events')
    BY <1>0, IdleTyped DEF InChannel
<1> QED BY <1>0, <1>5, <1>7, <1>8, <1>9, <1>10, <1>11, <1>12, CoordinatorStep

-----------------------------------------------------------------------------
(* Every step *)

LEMMA RunStep == ASSUME RunInv, [Next]_vars PROVE RunInv'
<1>1. CASE UNCHANGED vars
    <2>1. UNCHANGED <<work, phase, run, proc, events>>
        BY <1>1 DEF vars
    <2>2. RunTypes' /\ WorkInv' /\ IdleInv' /\ ExitInv' /\ PipeInv' /\ DoneInv'
        BY <2>1 DEF RunInv, RunTypes, WorkInv, IdleInv, ExitInv, PipeInv, DoneInv
    <2>3. LinesInv'
        BY <2>1, LinesKept DEF RunInv
    <2> QED BY <2>2, <2>3 DEF RunInv
<1>2. CASE Coordinator
    BY <1>2, BeginStep, SpawnStep, ObserveExitStep, ReceiveFrameStep, ReceiveOtherStep, StopStep,
       ReapStep, PipesStep, DrainStep, EndStep DEF Coordinator
<1>3. CASE GraceInLoop \/ Threads \/ Child
    BY <1>3, GraceStep, WriteStep, OutputEndsStep, ErrorsEndStep, WorkerWritesStep, WorkerExitsStep
       DEF Threads, Child
<1>4. CASE Deadline \/ DescendantWrites \/ DescendantEnds
    BY <1>4, DeadlineStep, DescendantWritesStep, DescendantEndsStep
<1> QED BY <1>1, <1>2, <1>3, <1>4 DEF Next

LEMMA RunIsClean == RunInv => RunEndsClean
<1> SUFFICES ASSUME RunInv, run.pc = "done", run.refused = {} PROVE RunEndsClean
    BY DEF RunEndsClean
<1>1. /\ ~run.deadline /\ run.exited # {} /\ run.seen = proc.pos - 1
      /\ \A k \in proc.kid : ~k.group
    BY DEF RunInv, DoneInv
<1>2. ~proc.alive /\ proc.exit # -9 /\ run.exited = {proc.exit}
    BY <1>1 DEF RunInv, ExitInv
<1>3. \A k \in proc.kid : ~k.pipes
    BY DEF RunInv, PipeInv, HoldsPipes
<1>4. JudgedInv
    BY DEF RunInv, LinesInv
<1> QED BY <1>1, <1>2, <1>3, <1>4 DEF RunEndsClean, JudgedInv

(* A worker run that is not refused ended by itself: neither the watchdog   *)
(* nor the coordinator killed it, nothing of it is left in its group or on  *)
(* its pipes, every line was read and judged in order, and nothing came     *)
(* after the result; whatever the worker, its descendant and the threads of *)
(* the coordinator (worker.rs, Worker::run) do, and in which order.         *)
THEOREM CleanEnd == Spec => []RunEndsClean
<1>1. Init => RunInv
    BY InitRun
<1>2. RunInv /\ [Next]_vars => RunInv'
    BY RunStep
<1>3. RunInv => RunEndsClean
    BY RunIsClean
<1> QED BY <1>1, <1>2, <1>3, PTL DEF Spec

=============================================================================
