-------------------------------- MODULE DryRun --------------------------------
(***************************************************************************)
(* `ozpb dry-run` (cli/src/dry_run/mod.rs, worker.rs): the coordinator     *)
(* prepares the request, runs the worker once to prepare and once to       *)
(* execute for each layer, answers its signature requests and assembles    *)
(* the report.                                                             *)
(*                                                                         *)
(* One worker run is several threads around a child process: a reader of   *)
(* each output, a writer of its input, a watchdog, and the coordinator,    *)
(* which takes their events from one channel in order.  The child may have *)
(* a descendant, in its process group or not, that holds its pipes.  An    *)
(* event is <<"frame", n>>, the n-th line of the mode's script (0 for a    *)
(* line of the descendant), or what a thread reports.                      *)
(***************************************************************************)
EXTENDS DryRunReport, TLC

CONSTANTS
    Commands,   \* a list: the job of a command, and the capture it asks for
    Setups,     \* a list: a command, a key file and a worker
    ArgLists    \* argument lists a call may carry

(* A descendant is in the child's group or not, has its pipes or not.       *)
Descendants == [group : BOOLEAN, pipes : BOOLEAN, writes : BOOLEAN]

(* How a process behaves: it asks on without waiting, hangs before a line,  *)
(* closes its output there, leaves its group, floods its errors; it cannot  *)
(* be waited for, or not be started.                                        *)
Behaviours ==
    [ eager : BOOLEAN, hangs : Nat, closes : BOOLEAN, kid : SUBSET Descendants, leaves : BOOLEAN,
      flood : BOOLEAN, unwaitable : BOOLEAN, spawns : BOOLEAN, fits : BOOLEAN ]

ASSUME WorkersAssumption ==
    \A k \in DOMAIN Setups :
        /\ Setups[k].command \in DOMAIN Commands
        /\ {Setups[k].process, Setups[k].usual} \subseteq Behaviours

VARIABLES
    setup,       \* the number of the chosen setup
    work,        \* what that setup determines: its command and its worker
    phase,       \* where execute_layers is
    run,         \* the coordinator of the current worker run
    proc,        \* the child, its input, its descendant
    events,      \* the channel
    signer,      \* the signing capability of the current run, if any
    layers,      \* how each layer's run ended
    signatures   \* history: the requests answered, as <<phase, frame>>

vars == <<setup, work, phase, run, proc, events, signer, layers, signatures>>

preparation_only(mode) == mode \in {"Prepare", "PrepareCaptured"}

Modes == {"Prepare", "Execute", "PrepareCaptured", "ExecuteCaptured"}

-----------------------------------------------------------------------------
(* Workers that depart from their script: every way a line may be missing,  *)
(* repeated, out of place or about something else.                          *)

Without(s, k) == SubSeq(s, 1, k - 1) \o SubSeq(s, k + 1, Len(s))

With(s, k, x) == SubSeq(s, 1, k) \o <<x>> \o SubSeq(s, k + 1, Len(s))

Changed(s, k, x) == [s EXCEPT ![k] = x]

(* A result whose every verdict says that it agrees. *)
Claimed(result) ==
    [result EXCEPT !.cases = Listed([k \in DOMAIN @ |-> [@[k] EXCEPT !.agree = TRUE]]), !.passed = TRUE]

TamperedFrames(fault, f) ==
    LET n == Len(f)
        asked == f[2]
        live == [asked EXCEPT !.network = Live("test"), !.preimage.network = Live("test")]
    IN  CASE n = 0 \/ fault \in {"none", "exit"} -> f
          [] fault = "empty" -> <<>>
          [] fault = "other_preparation" -> Changed(f, 1, [f[1] EXCEPT !.context_rule = {9}])
          [] fault = "twice_prepared" -> With(f, 1, f[1])
          [] n < 3 -> f
          [] fault = "claims" -> Changed(f, n, Claimed(f[n]))
          [] fault = "no_result" -> Without(f, n)
          [] fault = "two_results" -> With(f, n, f[n])
          [] fault = "asks_after" -> With(f, n, asked)
          [] fault = "short_result" -> Changed(f, n, [x \in DOMAIN f[n] \ {"passed"} |-> f[n][x]])
          [] fault = "other_result" -> Changed(f, n, [f[n] EXCEPT !.binding.ledger = 8])
          [] fault = "fewer_cases" -> Changed(f, n, [f[n] EXCEPT !.cases = Tail(@)])
          [] fault = "skips" -> Without(f, 2)
          [] fault = "repeats" -> With(f, 2, asked)
          [] fault = "renumbers" -> With(f, 2, [asked EXCEPT !.id = 2, !.nonce = RequestNonce(2),
                                                             !.preimage.nonce = RequestNonce(2)])
          [] fault = "live" -> Changed(f, 2, live)
          [] fault = "other_expiry" -> Changed(f, 2, [asked EXCEPT !.expiration = @ + 1])
          [] fault = "other_digest" ->
                Changed(f, 2, [asked EXCEPT !.preimage.invocation = <<<<"flipped", 0>>, <<1>>>>])

Tampered(fault, script) ==
    LET n == Len(script.frames)
    IN  [ frames |-> TamperedFrames(fault, script.frames),
          exit |-> CASE fault = "exit" /\ n > 0 -> 3
                     [] fault = "claims" /\ n >= 3 -> 0
                     [] OTHER -> script.exit ]

-----------------------------------------------------------------------------
(* What each command determines *)

Prepared(command) ==
    IF Passes(prepare_dry_run_checks(command.job)) THEN {prepare_dry_run(command.job)} ELSE {}

Expected(command, prepared, in_scope) ==
    IF in_scope THEN {native_expectation(prep, command.job) : prep \in prepared} ELSE {}

CapturedJobOf(command) == captured_job(command.job, The(command.capture).data)

CaptureTaken(command) == \E x \in command.capture : x.ok

(* What the worker writes in each mode, if that mode is ever run. *)
HonestScripts(command) ==
    LET native == native_scripts(command.job)
        captured == IF CaptureTaken(command) THEN captured_scripts(CapturedJobOf(command))
                    ELSE NoCapturedScripts
    IN  [ Prepare |-> native.Prepare, Execute |-> native.Execute,
          PrepareCaptured |-> captured.PrepareCaptured, ExecuteCaptured |-> captured.ExecuteCaptured ]

Determination(command, prepared, in_scope, expected) ==
    [ job |-> command.job, capture |-> command.capture, preparation |-> prepared,
      in_scope |-> in_scope, expectation |-> expected,
      bound |-> \A prep \in prepared, e \in expected :
                    Passes(native_expectation_checks(prep, command.job, e)),
      scripts |-> IF expected = {} THEN [mode \in Modes |-> NoScript] ELSE HonestScripts(command) ]

DeterminedIn(command, prepared, in_scope) ==
    Determination(command, prepared, in_scope, Expected(command, prepared, in_scope))

DeterminedFor(command) ==
    DeterminedIn(command, Prepared(command), Passes(scoped_checks(command.job)))

(* The worker is odd in one mode only. *)
Worker(s, command) ==
    [ command |-> command, file |-> s.file, at |-> s.at, process |-> s.process, usual |-> s.usual,
      late |-> s.late,
      scripts |-> [mode \in Modes |-> IF s.at = mode THEN Tampered(s.fault, command.scripts[mode])
                                      ELSE command.scripts[mode]] ]

Determined == [c \in DOMAIN Commands |-> DeterminedFor(Commands[c])]

Workers == [k \in DOMAIN Setups |-> Worker(Setups[k], Determined[Setups[k].command])]

Command == work.command

Scripts == work.scripts

Job == Command.job

Capture == Command.capture

InScope == Command.in_scope

Script == Scripts[phase]

Frame(n) == Script.frames[n]

Behaves == IF work.at = phase THEN work.process ELSE work.usual

Preparation == The(Command.preparation)

Expectation == The(Command.expectation)

Retained(mode) == Scripts[mode].frames[1]

CapturedExpectation ==
    captured_expectation(Preparation, CapturedJobOf(Command), Retained("PrepareCaptured"))

-----------------------------------------------------------------------------
(* One worker run: its threads and its process *)

NoProc == [alive |-> FALSE, exit |-> 0, pos |-> 1, input |-> 0, queued |-> 0, writer |-> "idle",
           kid |-> {}, out |-> "none", err |-> "none"]

Idle == [pc |-> "idle", refused |-> {}, prepared |-> FALSE, result |-> 0, exited |-> {},
         out |-> TRUE, err |-> TRUE, stdin |-> FALSE, deadline |-> FALSE, watching |-> FALSE,
         seen |-> 0]

Died(p, exit) == [p EXCEPT !.alive = FALSE, !.exit = exit]

(* SIGKILL reaches everyone in the group, and the child if it is in it. *)
kill_group(p) ==
    LET q == IF p.alive /\ ~Behaves.leaves THEN Died(p, -9) ELSE p
    IN  [q EXCEPT !.kid = {k \in @ : ~k.group}]

child_kill(p) == IF p.alive THEN Died(p, -9) ELSE p

HoldsPipes(p) == p.kid # {} /\ \E k \in p.kid : k.pipes

Inserted(refused, reason) == IF refused = {} THEN {reason} ELSE refused

Refuse(r, reason) == [r EXCEPT !.refused = Inserted(@, reason)]

(* The job line is queued first; a preparation takes no other input. *)
Spawn ==
    /\ phase \in Modes /\ run.pc = "idle"
    /\ IF ~Behaves.fits
       THEN /\ run' = Refuse([Idle EXCEPT !.pc = "done"], "job_exceeds_worker_bounds")
            /\ UNCHANGED proc
       ELSE IF ~Behaves.spawns
       THEN /\ run' = Refuse([Idle EXCEPT !.pc = "done"], "worker_spawn_failed")
            /\ UNCHANGED proc
       ELSE /\ run' = [Idle EXCEPT !.pc = "loop", !.watching = TRUE,
                                   !.stdin = ~preparation_only(phase)]
            /\ proc' = [NoProc EXCEPT !.alive = TRUE, !.queued = 1, !.writer = "open",
                                      !.kid = Behaves.kid, !.out = "open", !.err = "open"]
    /\ UNCHANGED <<setup, work, phase, events, signer, layers, signatures>>

(* Every queued line is written, then the input closes; a line nobody can   *)
(* read any more is an error.                                               *)
Write ==
    /\ proc.queued > 0 /\ proc.writer = "open"
    /\ IF proc.alive \/ HoldsPipes(proc)
       THEN /\ proc' = [proc EXCEPT !.queued = @ - 1, !.input = @ + 1]
            /\ UNCHANGED events
       ELSE /\ proc' = [proc EXCEPT !.writer = "ended"]
            /\ events' = Append(events, <<"refused", "worker_input_closed">>)
    /\ UNCHANGED <<setup, work, phase, run, signer, layers, signatures>>

InputClosed == ~run.stdin /\ (proc.queued = 0 \/ proc.writer = "ended")

AskedBefore(n) == Cardinality({k \in 1 .. n - 1 : Frame(k).type = "sign_request"})

(* An answer to every request so far, unless the worker does not wait. *)
Answered == Behaves.eager \/ proc.input >= 1 + AskedBefore(proc.pos)

WorkerRuns == proc.alive /\ proc.input >= 1 /\ proc.pos # Behaves.hangs

WorkerWrites ==
    /\ WorkerRuns /\ Answered /\ proc.pos <= Len(Script.frames)
    /\ events' = Append(events, <<"frame", proc.pos>>)
    /\ proc' = [proc EXCEPT !.pos = @ + 1]
    /\ UNCHANGED <<setup, work, phase, run, signer, layers, signatures>>

(* It ends after its last line, or when it waits for an answer and its      *)
(* input has closed.                                                        *)
WorkerExits ==
    /\ WorkerRuns
    /\ \/ proc.pos > Len(Script.frames) /\ proc' = Died(proc, Script.exit)
       \/ ~Answered /\ InputClosed /\ proc' = Died(proc, 1)
    /\ UNCHANGED <<setup, work, phase, run, events, signer, layers, signatures>>

(* read_frames and read_stderr report the end of their pipe once nobody     *)
(* holds it, or the worker closed it.                                       *)
OutputEnds ==
    /\ proc.out = "open"
    /\ \/ ~proc.alive /\ ~HoldsPipes(proc)
       \/ Behaves.closes /\ proc.pos = Behaves.hangs /\ ~HoldsPipes(proc)
    /\ proc' = [proc EXCEPT !.out = "closed"]
    /\ events' = Append(events, <<"out">>)
    /\ UNCHANGED <<setup, work, phase, run, signer, layers, signatures>>

ErrorsEnd ==
    /\ proc.err = "open"
    /\ Behaves.flood \/ (~proc.alive /\ ~HoldsPipes(proc))
    /\ proc' = [proc EXCEPT !.err = "closed"]
    /\ events' = (IF Behaves.flood THEN Append(events, <<"refused", "worker_stderr_limit_exceeded">>)
                  ELSE events) \o << <<"err">> >>
    /\ UNCHANGED <<setup, work, phase, run, signer, layers, signatures>>

(* The descendant may write to the pipe it holds, and may end, at any time. *)
(* Line 0 stands for any line that is none of the worker's own.             *)
DescendantWrites ==
    /\ \E k \in proc.kid :
        /\ k.pipes /\ k.writes
        /\ proc' = [proc EXCEPT !.kid = (@ \ {k}) \cup {[k EXCEPT !.writes = FALSE]}]
    /\ events' = Append(events, <<"frame", 0>>)
    /\ UNCHANGED <<setup, work, phase, run, signer, layers, signatures>>

DescendantEnds ==
    /\ proc.kid # {}
    /\ proc' = [proc EXCEPT !.kid = {}]
    /\ UNCHANGED <<setup, work, phase, run, events, signer, layers, signatures>>

Deadline ==
    /\ work.late /\ work.at = phase /\ run.watching /\ ~run.deadline
    /\ run' = [run EXCEPT !.deadline = TRUE]
    /\ proc' = kill_group(proc)
    /\ events' = Append(events, <<"deadline">>)
    /\ UNCHANGED <<setup, work, phase, signer, layers, signatures>>

-----------------------------------------------------------------------------
(* The coordinator's loop *)

check_prepared(frame) ==
    CASE phase = "Prepare"         -> check_native_prepared(frame, Expectation)
      [] phase = "Execute"         -> frame = Retained("Prepare")
      [] phase = "PrepareCaptured" ->
            captured_prepared_agrees(Preparation, CapturedJobOf(Command), frame, InScope)
      [] phase = "ExecuteCaptured" -> frame = Retained("PrepareCaptured")

Violation == {"worker_protocol_violation"}

ObserveExit ==
    /\ run.pc = "loop" /\ run.exited = {}
    /\ \/ /\ Behaves.unwaitable
          /\ run' = Refuse([run EXCEPT !.pc = "stop"], "worker_exit_unavailable")
       \/ /\ ~Behaves.unwaitable /\ ~proc.alive
          /\ run' = [run EXCEPT !.exited = {proc.exit}]
    /\ UNCHANGED <<setup, work, phase, proc, events, signer, layers, signatures>>

(* Five seconds after the worker ended something still holds its output.    *)
(* The code looks at the elapsed time alone: the readers and the loop are   *)
(* taken to finish within the grace when nobody holds the pipes any more.   *)
GraceInLoop ==
    /\ run.pc = "loop" /\ run.exited # {} /\ HoldsPipes(proc)
    /\ run' = Refuse([run EXCEPT !.pc = "stop"], "worker_left_processes_running")
    /\ UNCHANGED <<setup, work, phase, proc, events, signer, layers, signatures>>

(* receive: nothing after a result; the preparation first, and only once;   *)
(* then requests the signer accepts, and one result.                        *)
FrameRefusal(n) ==
    IF run.result # 0 \/ n = 0 THEN Violation
    ELSE IF ~run.prepared
    THEN IF Frame(n).type # "prepared" THEN Violation
         ELSE IF check_prepared(Frame(n)) THEN {} ELSE {"worker_preparation_refused"}
    ELSE IF preparation_only(phase) \/ Frame(n).type = "prepared" THEN Violation
    ELSE IF Frame(n).type = "sign_request" /\ ~Signs(The(signer), Frame(n))
    THEN {"signing_request_refused"} ELSE {}

Taken(r) == [r EXCEPT !.seen = @ + 1]

ReceiveFrame ==
    /\ run.pc = "loop" /\ events # <<>> /\ Head(events)[1] = "frame"
    /\ LET n == Head(events)[2]
           refusal == FrameRefusal(n)
           asks == n # 0 /\ run.prepared /\ ~preparation_only(phase) /\ run.result = 0
                   /\ Frame(n).type = "sign_request"
           kind == IF n = 0 THEN "none" ELSE Frame(n).type
       IN  /\ run' = IF refusal # {} THEN [Taken(run) EXCEPT !.pc = "stop", !.refused = refusal]
                     ELSE IF kind = "prepared" THEN [Taken(run) EXCEPT !.prepared = TRUE]
                     ELSE IF kind = "result" /\ run.result = 0
                     THEN [Taken(run) EXCEPT !.result = n, !.stdin = FALSE]
                     ELSE Taken(run)
           /\ signer' = IF asks THEN {sign(The(signer), Frame(n))} ELSE signer
           /\ IF asks /\ refusal = {}
              THEN /\ proc' = [proc EXCEPT !.queued = @ + 1]
                   /\ signatures' = Append(signatures, <<phase, n>>)
              ELSE UNCHANGED <<proc, signatures>>
    /\ events' = Tail(events)
    /\ UNCHANGED <<setup, work, phase, layers>>

ReceiveOther ==
    /\ run.pc = "loop" /\ events # <<>> /\ Head(events)[1] # "frame"
    /\ LET e == Head(events)
       IN  run' = CASE e[1] = "out" -> [run EXCEPT !.out = FALSE, !.pc = "stop"]
                    [] e[1] = "err" -> [run EXCEPT !.err = FALSE]
                    [] e[1] = "refused" -> [run EXCEPT !.refused = {e[2]}, !.pc = "stop"]
                    [] e[1] = "deadline" ->
                        [run EXCEPT !.refused = {"worker_deadline_exceeded"}, !.pc = "stop"]
    /\ events' = Tail(events)
    /\ UNCHANGED <<setup, work, phase, proc, signer, layers, signatures>>

(* The input is dropped; a refused run's group and child are killed. *)
Stop ==
    /\ run.pc = "stop"
    /\ run' = [run EXCEPT !.pc = "reap", !.stdin = FALSE]
    /\ proc' = IF run.refused # {} THEN child_kill(kill_group(proc)) ELSE proc
    /\ UNCHANGED <<setup, work, phase, events, signer, layers, signatures>>

(* Mutant: only the worker's group is killed when the deadline passes. *)
Reap_GroupOnly ==
    /\ run.pc = "reap"
    /\ \/ /\ Behaves.unwaitable /\ run.exited = {}
          /\ run' = [run EXCEPT !.pc = "pipes"]
          /\ UNCHANGED proc
       \/ /\ run.exited # {} \/ (~proc.alive /\ ~Behaves.unwaitable)
          /\ run' = [run EXCEPT !.pc = "pipes", !.exited = IF @ = {} THEN {proc.exit} ELSE @]
          /\ UNCHANGED proc
       \/ /\ run.exited = {} /\ proc.alive /\ run.deadline
          /\ proc' = kill_group(proc)
          /\ UNCHANGED run
    /\ UNCHANGED <<setup, work, phase, events, signer, layers, signatures>>

(* A worker that closed its output and never exits is ended by the          *)
(* deadline, in its group or not.                                           *)
Reap ==
    /\ run.pc = "reap"
    /\ \/ /\ Behaves.unwaitable /\ run.exited = {}
          /\ run' = [run EXCEPT !.pc = "pipes"]
          /\ UNCHANGED proc
       \/ /\ run.exited # {} \/ (~proc.alive /\ ~Behaves.unwaitable)
          /\ run' = [run EXCEPT !.pc = "pipes", !.exited = IF @ = {} THEN {proc.exit} ELSE @]
          /\ UNCHANGED proc
       \/ /\ run.exited = {} /\ proc.alive /\ ~Behaves.unwaitable /\ run.deadline
          /\ proc' = child_kill(kill_group(proc))
          /\ UNCHANGED run
    /\ UNCHANGED <<setup, work, phase, events, signer, layers, signatures>>

(* What the first refusal becomes when a late event arrives. *)
Late(r, e) ==
    CASE e[1] = "out" -> [r EXCEPT !.out = FALSE]
      [] e[1] = "err" -> [r EXCEPT !.err = FALSE]
      [] e[1] = "refused" -> Refuse(r, e[2])
      [] e[1] = "frame" -> Refuse(Taken(r), "worker_protocol_violation")
      [] e[1] = "deadline" -> Refuse(r, "worker_deadline_exceeded")

Pipes ==
    /\ run.pc = "pipes"
    /\ \/ /\ ~run.out /\ ~run.err
          /\ run' = [run EXCEPT !.pc = "drain"] /\ UNCHANGED events
       \/ /\ run.out \/ run.err
          /\ events # <<>>
          /\ run' = Late(run, Head(events)) /\ events' = Tail(events)
       \/ /\ run.out \/ run.err
          /\ HoldsPipes(proc) \/ (proc.alive /\ events = <<>>)
          /\ run' = Refuse([run EXCEPT !.pc = "drain"], "worker_left_processes_running")
          /\ UNCHANGED events
    /\ UNCHANGED <<setup, work, phase, proc, signer, layers, signatures>>

(* A line or a refusal that is still in the channel refuses; the first counts. *)
Drained ==
    LET late == {i \in DOMAIN events : events[i][1] \in {"frame", "refused"}}
    IN  IF late = {} THEN run ELSE Late(run, events[Min(late)])

(* Mutant: the group is not looked at again before the answer. *)
Drain_NoGroup ==
    LET timed == IF run.deadline THEN [Drained EXCEPT !.refused = {"worker_deadline_exceeded"}] ELSE Drained
    IN  /\ run.pc = "drain"
        /\ run' = [(IF run.exited = {} THEN Refuse(timed, "worker_wait_failed") ELSE timed)
                    EXCEPT !.pc = "done", !.watching = FALSE]
        /\ events' = <<>>
        /\ UNCHANGED <<proc, setup, work, phase, signer, layers, signatures>>

(***************************************************************************)
(* The watchdog is stopped and joined, what is left in the channel still   *)
(* refuses, a passed deadline is the reason whatever else was, and nothing *)
(* may be left in the group.                                               *)
(***************************************************************************)
Drain ==
    LET timed == IF run.deadline THEN [Drained EXCEPT !.refused = {"worker_deadline_exceeded"}] ELSE Drained
        members == (proc.alive /\ ~Behaves.leaves) \/ \E k \in proc.kid : k.group
    IN  /\ run.pc = "drain"
        /\ run' = [(CASE members -> Refuse(timed, "worker_left_processes_running")
                      [] ~members /\ run.exited = {} -> Refuse(timed, "worker_wait_failed")
                      [] OTHER -> timed) EXCEPT !.pc = "done", !.watching = FALSE]
        /\ proc' = IF members THEN kill_group(proc) ELSE proc
        /\ events' = <<>>
        /\ UNCHANGED <<setup, work, phase, signer, layers, signatures>>

-----------------------------------------------------------------------------
(* execute_layers *)

LayerOf(mode) == IF mode \in {"Prepare", "Execute"} THEN "account" ELSE "captured"

Ended(unsupported, k, reason) ==
    [k |-> k, unsupported |-> unsupported, reason |-> reason, exit |-> 0, result |-> 0, signed |-> {}]

not_requested == Ended(FALSE, "not_run", "captured_target_not_requested")

outside == Ended(TRUE, "not_run", "selected_rule_outside_native_scope")

(* Nothing is run for a request or a ledger that is refused, and no worker  *)
(* for a rule outside its scope.  The key is read once the binding is       *)
(* derived.                                                                 *)
Begin ==
    /\ phase = "start"
    /\ LET refused == ~check_source_ledger(Job.ledger) \/ Command.preparation = {}
           unbound == ~Command.bound
           keyless == /\ Command.expectation # {}
                      /\ ~DelegateKeyRead(work.file, Expectation.scope.delegate)
       IN  IF refused \/ unbound \/ keyless
           THEN phase' = "aborted" /\ UNCHANGED layers
           ELSE IF ~InScope
           THEN /\ phase' = "reported"
                /\ layers' = [account |-> outside,
                              captured |-> IF Capture # {} THEN outside ELSE not_requested]
           ELSE phase' = "Prepare" /\ UNCHANGED layers
    /\ UNCHANGED <<setup, work, run, proc, events, signer, signatures>>

AfterLayer(mode) ==
    IF mode = "account" /\ CaptureTaken(Command) /\ Passes(captured_job_checks(Job, The(Capture).data))
    THEN "PrepareCaptured" ELSE "reported"

(* A capture that fails, or cannot form a job, is a failed layer. *)
CapturedSoFar ==
    CASE Capture = {} -> not_requested
      [] Capture # {} /\ ~CaptureTaken(Command) -> Ended(FALSE, "refused", "target_capture_failed")
      [] OTHER -> Ended(FALSE, "refused", "captured_job_refused")

RetainedFrame == run.refused = {} /\ run.exited = {0} /\ run.prepared /\ run.result = 0

RunExpectation == IF LayerOf(phase) = "account" THEN Expectation ELSE CapturedExpectation

EndLayer(ended) ==
    LET layer == LayerOf(phase)
    IN  /\ layers' = [account |-> IF layer = "account" THEN ended ELSE layers.account,
                      captured |-> IF layer = "captured" THEN ended ELSE CapturedSoFar]
        /\ phase' = AfterLayer(layer)
        /\ signer' = {}

(* The retained preparation opens the execution, with a signer of its own. *)
EndPreparation ==
    /\ run.pc = "done" /\ preparation_only(phase)
    /\ LET reason == IF run.refused # {} THEN The(run.refused) ELSE "worker_preparation_refused"
           key == work.file.key
       IN  IF ~RetainedFrame THEN EndLayer(Ended(FALSE, "refused", reason))
           ELSE IF OfflineSigner_refuses(key, RunExpectation)
           THEN EndLayer(Ended(FALSE, "refused", "signer_refused_binding"))
           ELSE /\ phase' = IF phase = "Prepare" THEN "Execute" ELSE "ExecuteCaptured"
                /\ signer' = {NewSigner(key, RunExpectation)}
                /\ UNCHANGED layers
    /\ run' = Idle /\ proc' = NoProc /\ events' = <<>>
    /\ UNCHANGED <<setup, work, signatures>>

layer_run ==
    IF run.refused # {} THEN Ended(FALSE, "refused", The(run.refused))
    ELSE [ k |-> "ran", unsupported |-> FALSE, reason |-> "none", exit |-> The(run.exited),
           result |-> run.result, signed |-> The(signer).used ]

EndExecution ==
    /\ run.pc = "done" /\ phase \in {"Execute", "ExecuteCaptured"}
    /\ EndLayer(layer_run)
    /\ run' = Idle /\ proc' = NoProc /\ events' = <<>>
    /\ UNCHANGED <<setup, work, signatures>>

LayerRun(layer, mode) ==
    [layer EXCEPT !.result = IF @ = 0 THEN {} ELSE {Scripts[mode].frames[@]}]

(* The expectation outlives a captured run only if its preparation did. *)
Assembled ==
    LET captured == LayerRun(layers.captured, "ExecuteCaptured")
        expectation == IF layers.captured.k = "ran" THEN {CapturedExpectation} ELSE {}
        account == IF Command.expectation = {} THEN not_executed("AccountWasm", layers.account)
                   ELSE native_layer(Preparation, Expectation, LayerRun(layers.account, "Execute"))
        r == assemble_dry_run_report(Preparation, account,
                                     captured_layer(Preparation, expectation, captured))
    IN  [ account |-> r.layers[1].status, captured |-> r.layers[2].status, meets |-> r.meets_minimum ]

report == IF phase = "reported" THEN {Assembled} ELSE {}

-----------------------------------------------------------------------------
(* The specification *)

Init ==
    /\ \E k \in DOMAIN Setups : setup = k /\ work = Workers[k]
    /\ phase = "start" /\ run = Idle /\ proc = NoProc /\ events = <<>> /\ signer = {}
    /\ layers = [account |-> outside, captured |-> not_requested]
    /\ signatures = <<>>

Coordinator ==
    \/ Begin \/ Spawn \/ ObserveExit \/ ReceiveFrame \/ ReceiveOther \/ Stop \/ Reap
    \/ Pipes \/ Drain \/ EndPreparation \/ EndExecution

Threads == Write \/ OutputEnds \/ ErrorsEnd

Child == WorkerWrites \/ WorkerExits

Next == Coordinator \/ GraceInLoop \/ Threads \/ Child \/ Deadline \/ DescendantWrites \/ DescendantEnds

(* Threads are scheduled, a worker that can go on does, the grace and the   *)
(* deadline pass; a descendant owes nothing.                                *)
Fairness ==
    /\ WF_vars(Coordinator) /\ WF_vars(GraceInLoop) /\ WF_vars(Write) /\ WF_vars(OutputEnds)
    /\ WF_vars(ErrorsEnd) /\ WF_vars(Child) /\ WF_vars(Deadline)

Spec == Init /\ [][Next]_vars /\ Fairness

-----------------------------------------------------------------------------
(* Properties *)

TheCode == The(Job.policy_code)

(* Ledgers around a window's end, and counts up to past a cap. *)
LedgersAround(rule) ==
    IF rule.valid_until = {} THEN {1000} ELSE UNION {{u - 1, u, u + 1} : u \in rule.valid_until}

CountsAround(rule) ==
    IF HasState(rule) THEN {{}} \cup UNION {{{n} : n \in 0 .. max + 2} : max \in rule.max_calls} ELSE {{}}

CallsAround(rule) ==
    [ kind : {"contract"}, contract : {rule.contract, "elsewhere"},
      fn : {rule.calls[k].fn : k \in DOMAIN rule.calls} \cup {"absent"}, args : ArgLists,
      auth : {<<>>, rule.signers, <<Unknown>>, Append(rule.signers, Unknown)},
      live : {<<>>, rule.signers, <<Unknown>>, Append(rule.signers, Unknown)} ]

(* The account, with the candidate installed as the rule's policy. *)
CandidatePermits(rule, count, ledger, r, account) ==
    /\ r.contract = rule.contract /\ ~Expired(rule, ledger) /\ AccountAdmits(r)
    /\ PolicyVerdict(TheCode, rule, count, ledger, r, account) = "Permit"

(* A report that meets the bar is about a policy that, installed in the     *)
(* account, permits exactly what the reference evaluator permits: any call, *)
(* signers, count and ledger around the rule's bounds, each counted once;   *)
(* and every layer that was requested has passed.                           *)
AcceptedIsSound ==
    \A r \in report : r.meets =>
        LET rule == TheRule(Job)
            account == Job.account
        IN  /\ HasState(rule) => TheCode.adds = 1
            /\ Capture # {} => r.captured = "Passed"
            /\ \A count \in CountsAround(rule), ledger \in LedgersAround(rule), call \in CallsAround(rule) :
                CandidatePermits(rule, count, ledger, call, account)
                    <=> evaluate_generated_rule(rule, count, ledger, call, account) = "Permit"

(* Whether anything stands between this setup and an accepted report. *)
Undisturbed ==
    /\ work.at = "none" /\ Job.policy_code = {RightCode}
    /\ InScope /\ Command.preparation # {} /\ check_source_ledger(Job.ledger)
    /\ DelegateKeyRead(work.file, TheRule(Job).signers[1])
    /\ \A c \in Capture :
        /\ c.ok /\ PreparesCaptured(CapturedJobOf(Command)) /\ check_source_ledger(c.data.ledger)
        /\ c.data.entries[BalanceKey(Job.account)].value > c.data.call.amount

(* The right policy, in scope, with a worker that keeps to the protocol,    *)
(* meets the bar: none of the refusals above stops it, whatever the         *)
(* interleaving of the threads.                                             *)
CorrectPolicyMeets ==
    phase \in {"reported", "aborted"} /\ Undisturbed => \E r \in report : r.meets

(* A run that is not refused ended by itself: nothing killed it, nothing of *)
(* it is left in its group or on its pipes, every line its processes ever   *)
(* wrote was read and judged, and nothing came after the result.            *)
RunEndsClean ==
    run.pc = "done" /\ run.refused = {} =>
        /\ ~proc.alive /\ proc.exit # -9 /\ run.exited = {proc.exit}
        /\ \A k \in proc.kid : ~k.group /\ ~k.pipes
        /\ run.seen = proc.pos - 1
        /\ run.result # 0 => run.result = run.seen
        /\ run.prepared => check_prepared(Frame(1))

(* The command ends, whatever its worker does: hangs, closes its output and *)
(* stays, leaves its group, floods its errors, or leaves descendants that   *)
(* hold its pipes.                                                          *)
CoordinatorEnds == <>(phase \in {"reported", "aborted"})

=============================================================================
