---------------------------- MODULE BuildWorker ----------------------------
(***************************************************************************)
(* One hosted API that builds in disposable containers: the thread that    *)
(* serves a build request (crates/build-runner, build and worker::build),  *)
(* the launcher process it starts (deployment/worker-launcher.py), and the *)
(* container runtime.  The three know of each other only what a pipe, an   *)
(* exit status and one signal can tell, and each of them may be slow,      *)
(* stopped or dead while the others go on.                                 *)
(*                                                                         *)
(* Time is left out: a deadline is a step that may happen whenever the     *)
(* code waits with that deadline.                                          *)
(***************************************************************************)
EXTENDS FiniteSets, Naturals

CONSTANTS
    Requests,   \* build requests, each served by a thread of its own
    Limit       \* BuildSlots.limit: OZPB_HTTP_MAX_CONCURRENCY

ASSUME WorkerAssumption ==
    /\ IsFiniteSet(Requests)
    /\ Limit \in Nat \ {0}

VARIABLES
    in_use,     \* BuildSlots.in_use, shared by every clone of the configuration
    api,        \* where each request's thread is
    answer,     \* what the request was answered
    cancelled,  \* the requests whose cancellation token is set
    seen,       \* the requests whose reader thread stored `ready`
    launcher,   \* where each request's launcher process is
    stop,       \* the launchers whose STOP["requested"] is set
    written,    \* what a launcher's stdout pipe has carried
    result,     \* the result its frame carries
    client,     \* the runtime client `podman run` of each job
    container,  \* the container of each job
    fault       \* history: requests for which a deadline passed, a process
                \* died by itself or a removal failed

vars == <<in_use, api, answer, cancelled, seen, launcher, stop, written,
          result, client, container, fault>>

-----------------------------------------------------------------------------
\* The thread of a request.  Over: it returned; in "retained" it returned
\* after std::mem::forget(slot).
Waiting == {"waiting", "stopping", "signalled"}
HoldsSlot == {"prepared", "retained"} \cup Waiting
Answered == {"done", "retained"}
ApiStates == {"idle"} \cup HoldsSlot \cup Answered

\* The launcher, by what SIGTERM does to it: nothing is installed before
\* install_stop_handler, then stop_requested records it, and after a
\* confirmed removal it is ignored.
DefaultAction == {"starting"}
RecordsStop == {"announcing", "checking", "launching", "running", "removing", "removed"}
IgnoresStop == {"framing", "finishing"}
Alive == DefaultAction \cup RecordsStop \cup IgnoresStop
Exited == {"exited", "failed", "dead"}   \* status 0, status 1, by a signal
LauncherStates == {"none"} \cup Alive \cup Exited

Answers == {"none", "busy", "refused", "artifact", "failed", "cancelled", "unconfirmed"}

TypeOK ==
    /\ in_use \in 0..Limit
    /\ api \in [Requests -> ApiStates]
    /\ answer \in [Requests -> Answers]
    /\ cancelled \subseteq Requests
    /\ seen \subseteq Requests
    /\ launcher \in [Requests -> LauncherStates]
    /\ stop \subseteq Requests
    /\ written \in [Requests -> {"nothing", "ready", "frame"}]
    /\ result \in [Requests -> {"null", "artifact"}]
    /\ client \in [Requests -> {"none", "up", "gone"}]
    /\ container \in [Requests -> {"none", "up", "gone"}]
    /\ fault \subseteq Requests

Init ==
    /\ in_use = 0
    /\ api = [r \in Requests |-> "idle"]
    /\ answer = [r \in Requests |-> "none"]
    /\ cancelled = {}
    /\ seen = {}
    /\ launcher = [r \in Requests |-> "none"]
    /\ stop = {}
    /\ written = [r \in Requests |-> "nothing"]
    /\ result = [r \in Requests |-> "null"]
    /\ client = [r \in Requests |-> "none"]
    /\ container = [r \in Requests |-> "none"]
    /\ fault = {}

processes == <<launcher, stop, written, result, client, container>>
thread == <<in_use, api, answer, cancelled, seen>>

-----------------------------------------------------------------------------
(***************************************************************************)
(* The API's side.                                                         *)
(***************************************************************************)

\* The client cancels, or its session ends: only the token changes.
Cancel(r) ==
    /\ r \notin cancelled
    /\ cancelled' = cancelled \cup {r}
    /\ UNCHANGED <<in_use, api, answer, seen, processes, fault>>

\* Mutant: the bound is compared after the increment would be legal.
\* BuildSlots::try_take, before anything else; a full house is Busy at once.
try_take(r) ==
    /\ api[r] = "idle"
    /\ \/ /\ in_use < Limit
          /\ in_use' = in_use + 1
          /\ api' = [api EXCEPT ![r] = "prepared"]
          /\ UNCHANGED answer
       \/ /\ in_use >= Limit
          /\ api' = [api EXCEPT ![r] = "done"]
          /\ answer' = [answer EXCEPT ![r] = "busy"]
          /\ UNCHANGED in_use
    /\ UNCHANGED <<cancelled, seen, processes, fault>>

\* The thread returns with answer a and drops its slot ...
Release(r, a) ==
    /\ in_use' = in_use - 1
    /\ api' = [api EXCEPT ![r] = "done"]
    /\ answer' = [answer EXCEPT ![r] = a]

\* Mutant: an unconfirmed build drops its slot like any other.
Retain_Drops(r) == Release(r, "unconfirmed")

\* ... or forgets it, because nothing shows that the container is gone.
Retain(r) ==
    /\ api' = [api EXCEPT ![r] = "retained"]
    /\ answer' = [answer EXCEPT ![r] = "unconfirmed"]
    /\ UNCHANGED in_use

\* Job, pins or launcher path are refused, or spawn fails: nothing started.
RefuseJob(r) ==
    /\ api[r] = "prepared"
    /\ Release(r, "refused")
    /\ UNCHANGED <<cancelled, seen, processes, fault>>

Spawn(r) ==
    /\ api[r] = "prepared"
    /\ api' = [api EXCEPT ![r] = "waiting"]
    /\ launcher' = [launcher EXCEPT ![r] = "starting"]
    /\ UNCHANGED <<in_use, answer, cancelled, seen, stop, written, result, client, container, fault>>

\* The reader thread meets the launcher's first line.
ReaderSeesReady(r) ==
    /\ r \notin seen
    /\ written[r] # "nothing"
    /\ seen' = seen \cup {r}
    /\ UNCHANGED <<in_use, api, answer, cancelled, processes, fault>>

\* Mutant: a cancelled launcher is killed instead of asked to stop.
\* wait_until polls the token before it looks at the child.
NoticeCancel(r) ==
    /\ api[r] = "waiting"
    /\ r \in cancelled
    /\ api' = [api EXCEPT ![r] = "stopping"]
    /\ UNCHANGED <<in_use, answer, cancelled, seen, processes, fault>>

\* kill(pid, SIGTERM) as the launcher takes it; one that ended is not harmed.
Sigterm(r) ==
    /\ launcher' = [launcher EXCEPT ![r] = IF @ \in DefaultAction THEN "dead" ELSE @]
    /\ stop' = IF launcher[r] \in RecordsStop THEN stop \cup {r} ELSE stop

\* Mutant: the stop is sent without waiting for the launcher's `ready`.
SignalStop_Early(r) ==
    /\ api[r] = "stopping"
    /\ api' = [api EXCEPT ![r] = "signalled"]
    /\ Sigterm(r)
    /\ UNCHANGED <<in_use, answer, cancelled, seen, written, result, client, container, fault>>

\* request_launcher_stop signals only a launcher that reported `ready`.
SignalStop(r) ==
    /\ api[r] = "stopping"
    /\ r \in seen
    /\ api' = [api EXCEPT ![r] = "signalled"]
    /\ Sigterm(r)
    /\ UNCHANGED <<in_use, answer, cancelled, seen, written, result, client, container, fault>>

\* Mutant: waiting for `ready` after a cancellation has no deadline.
GiveUp_NotWhileStopping(r) ==
    /\ api[r] \in {"waiting", "signalled"}
    /\ launcher' = [launcher EXCEPT ![r] = IF @ \in Alive THEN "dead" ELSE @]
    /\ Retain(r)
    /\ fault' = fault \cup {r}
    /\ UNCHANGED <<cancelled, seen, stop, written, result, client, container>>

\* The deadline of the wait in progress passes: the launcher's process group
\* is killed.  The runtime client is in a session of its own and lives on.
GiveUp(r) ==
    /\ api[r] \in Waiting
    /\ launcher' = [launcher EXCEPT ![r] = IF @ \in Alive THEN "dead" ELSE @]
    /\ Retain(r)
    /\ fault' = fault \cup {r}
    /\ UNCHANGED <<cancelled, seen, stop, written, result, client, container>>

\* Mutant: any exit of the launcher counts as the end of its job.
\* A frame counts only from a launcher that exited with status 0.
Confirmed(r) == launcher[r] = "exited" /\ written[r] = "frame"

\* The launcher ended.  A frame without a result is Cancelled after a stop and
\* Failed otherwise; a result may still fail the artifact checks.
Collect(r) ==
    /\ api[r] \in Waiting
    /\ launcher[r] \in Exited
    /\ \/ /\ Confirmed(r)
          /\ \/ result[r] = "artifact" /\ \E a \in {"artifact", "failed"} : Release(r, a)
             \/ result[r] = "null" /\ Release(r, IF api[r] = "waiting" THEN "failed" ELSE "cancelled")
       \/ ~Confirmed(r) /\ Retain(r)
    /\ UNCHANGED <<cancelled, seen, processes, fault>>

\* The reader thread does not deliver the output within its second.
ReaderLate(r) ==
    /\ api[r] \in Waiting
    /\ launcher[r] \in Exited
    /\ Retain(r)
    /\ fault' = fault \cup {r}
    /\ UNCHANGED <<cancelled, seen, processes>>

-----------------------------------------------------------------------------
(***************************************************************************)
(* The launcher's side.                                                    *)
(***************************************************************************)

\* The launcher of r goes from one line of its main to the next.
Goes(r, from, to) ==
    /\ launcher[r] = from
    /\ launcher' = [launcher EXCEPT ![r] = to]
    /\ UNCHANGED thread

InstallHandler(r) ==
    /\ Goes(r, "starting", "announcing")
    /\ UNCHANGED <<stop, written, result, client, container, fault>>

WriteReady(r) ==
    /\ Goes(r, "announcing", "checking")
    /\ written' = [written EXCEPT ![r] = "ready"]
    /\ UNCHANGED <<stop, result, client, container, fault>>

\* load_config raises: nothing was launched, and nothing is framed.
ConfigRefused(r) ==
    /\ Goes(r, "checking", "failed")
    /\ fault' = fault \cup {r}
    /\ UNCHANGED <<stop, written, result, client, container>>

\* validate_job or preflight refuses, or a stop came: the frame says removed,
\* for there is no container, and carries no result.
NothingToRun(r) ==
    /\ Goes(r, "checking", "removed")
    /\ UNCHANGED <<stop, written, result, client, container, fault>>

Preflight(r) ==
    /\ r \notin stop
    /\ Goes(r, "checking", "launching")
    /\ UNCHANGED <<stop, written, result, client, container, fault>>

\* bounded(..., stoppable=True) looks for a stop before it starts the client.
StartClient(r) ==
    /\ r \notin stop
    /\ Goes(r, "launching", "running")
    /\ client' = [client EXCEPT ![r] = "up"]
    /\ UNCHANGED <<stop, written, result, container, fault>>

StopBeforeClient(r) ==
    /\ r \in stop
    /\ Goes(r, "launching", "removing")
    /\ UNCHANGED <<stop, written, result, client, container, fault>>

\* A stop, the deadline or too much output: the client's session is killed.
KillClient(r) ==
    /\ Goes(r, "running", "removing")
    /\ client' = [client EXCEPT ![r] = "gone"]
    /\ UNCHANGED <<stop, written, result, container, fault>>

\* The client ended by itself; its output is a result if status and shape are
\* right, which takes a container that ran to its end.
ClientEnded(r) ==
    /\ client[r] = "gone"
    /\ Goes(r, "running", "removing")
    /\ \/ container[r] = "gone" /\ result' = [result EXCEPT ![r] = "artifact"]
       \/ UNCHANGED result
    /\ UNCHANGED <<stop, written, client, container, fault>>

\* podman rm --force, then podman container exists answers 1.
removed(r) ==
    /\ Goes(r, "removing", "removed")
    /\ container' = [container EXCEPT ![r] = "gone"]
    /\ UNCHANGED <<stop, written, result, client, fault>>

\* One of the two commands times out, or the container is still there.
NotRemoved(r) ==
    /\ Goes(r, "removing", "failed")
    /\ fault' = fault \cup {r}
    /\ UNCHANGED <<stop, written, result, client, container>>

IgnoreStop(r) ==
    /\ Goes(r, "removed", "framing")
    /\ UNCHANGED <<stop, written, result, client, container, fault>>

\* The frame leaves with the interpreter's last flush; the result may be
\* dropped where the frame would exceed its budget.
WriteFrame(r) ==
    /\ Goes(r, "framing", "finishing")
    /\ written' = [written EXCEPT ![r] = "frame"]
    /\ \/ result' = [result EXCEPT ![r] = "null"]
       \/ UNCHANGED result
    /\ UNCHANGED <<stop, client, container, fault>>

Exit(r) ==
    /\ Goes(r, "finishing", "exited")
    /\ UNCHANGED <<stop, written, result, client, container, fault>>

-----------------------------------------------------------------------------
(***************************************************************************)
(* The host: the container runtime, crashes and the operator.              *)
(***************************************************************************)

\* The client creates the container.
ContainerStarts(r) ==
    /\ client[r] = "up"
    /\ container[r] = "none"
    /\ container' = [container EXCEPT ![r] = "up"]
    /\ UNCHANGED <<thread, launcher, stop, written, result, client, fault>>

\* The job ends, or conmon's own deadline ends it.
ContainerEnds(r) ==
    /\ container[r] = "up"
    /\ container' = [container EXCEPT ![r] = "gone"]
    /\ UNCHANGED <<thread, launcher, stop, written, result, client, fault>>

\* The client ends with its container, or before it.
ClientExits(r) ==
    /\ client[r] = "up"
    /\ client' = [client EXCEPT ![r] = "gone"]
    /\ UNCHANGED <<thread, launcher, stop, written, result, container, fault>>

\* The launcher dies of something that is not the API's signal.
LauncherCrash(r) ==
    /\ launcher[r] \in Alive
    /\ launcher' = [launcher EXCEPT ![r] = "dead"]
    /\ fault' = fault \cup {r}
    /\ UNCHANGED <<thread, stop, written, result, client, container>>

\* A build that has, or may still get, a container.
MayRun(r) == client[r] = "up" \/ container[r] = "up"

\* The operator verifies that no container is left and restarts the API: the
\* unit ends the whole control group, and the new process has every slot free.
OperatorRestart ==
    /\ \E r \in Requests : api[r] = "retained"
    /\ \A r \in Requests : ~MayRun(r)
    /\ in_use' = 0
    /\ api' = [r \in Requests |-> IF api[r] = "idle" THEN "idle" ELSE "done"]
    /\ launcher' = [r \in Requests |-> IF launcher[r] \in Alive THEN "dead" ELSE launcher[r]]
    /\ UNCHANGED <<answer, cancelled, seen, stop, written, result, client, container, fault>>

ApiStep(r) ==
    \/ try_take(r) \/ RefuseJob(r) \/ Spawn(r) \/ ReaderSeesReady(r)
    \/ NoticeCancel(r) \/ SignalStop(r) \/ GiveUp(r) \/ Collect(r) \/ ReaderLate(r)

LauncherStep(r) ==
    \/ InstallHandler(r) \/ WriteReady(r) \/ ConfigRefused(r) \/ NothingToRun(r)
    \/ Preflight(r) \/ StartClient(r) \/ StopBeforeClient(r) \/ KillClient(r)
    \/ ClientEnded(r) \/ removed(r) \/ NotRemoved(r) \/ IgnoreStop(r)
    \/ WriteFrame(r) \/ Exit(r)

HostStep(r) ==
    \/ ContainerStarts(r) \/ ContainerEnds(r) \/ ClientExits(r) \/ LauncherCrash(r)

Next ==
    \/ \E r \in Requests : Cancel(r) \/ ApiStep(r) \/ LauncherStep(r) \/ HostStep(r)
    \/ OperatorRestart

Spec == Init /\ [][Next]_vars

-----------------------------------------------------------------------------
(***************************************************************************)
(* Properties.                                                             *)
(***************************************************************************)

\* The builds on the host implement BuildCapacity: a build gets a runtime
\* client only where fewer than Limit builds run, although the slots count
\* threads of the API and a launcher's, client's or container's life may end
\* long before or after the thread's (build, BuildSlots, worker::build).
Capacity == INSTANCE BuildCapacity
    WITH running <- {r \in Requests : MayRun(r)},
         finished <- {r \in Requests : client[r] # "none" /\ ~MayRun(r)}

ImplementsCapacity == Capacity!Spec

\* A slot is retained only where something went wrong that is not a
\* cancellation: SIGTERM never kills a launcher, neither before its handler
\* is there nor after its confirmation, so a cancelled build costs no
\* capacity (request_launcher_stop, worker-launcher.py main).
SlotNotStranded == \A r \in Requests : api[r] = "retained" => r \in fault

\* A build is answered with an artifact only after a launcher confirmed the
\* removal of its container, and from then on nothing of it runs.
AnswerAfterRemoval ==
    \A r \in Requests : answer[r] \in {"artifact", "failed", "cancelled"} => ~MayRun(r)

\* The steps of the API's threads that wait for nobody.
Prompt(r) == RefuseJob(r) \/ Spawn(r) \/ NoticeCancel(r) \/ SignalStop(r) \/ Collect(r)

PromptSpec == Spec /\ \A r \in Requests : WF_vars(Prompt(r))

\* The API's timers fire.
Timers == \A r \in Requests : WF_vars(GiveUp(r))

\* The reader thread and the launcher are scheduled; no timer has to fire.
\* With nothing but the API's own threads and timers sure to go on, every build
\* request is answered, whatever the launcher, the runtime and the client that
\* cancels do (wait_until, request_launcher_stop).
EveryBuildAnswered ==
    Timers => \A r \in Requests : api[r] = "prepared" ~> api[r] \in Answered

\* With the launcher scheduled and no timer sure to fire, a cancelled build
\* gives its slot back, unless a fault keeps it (worker-launcher.py bounded and
\* launch, worker::build).
=============================================================================
