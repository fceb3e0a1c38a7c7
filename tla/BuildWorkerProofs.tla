------------------------- MODULE BuildWorkerProofs -------------------------
(***************************************************************************)
(* Proofs about BuildWorker for any number of requests and slots: the      *)
(* safety invariants, and that it implements BuildCapacity.                *)
(***************************************************************************)
EXTENDS BuildWorker, FiniteSetTheorems, TLAPS

Holders == {r \in Requests : api[r] \in HoldsSlot}

\* What the three processes of one request know of each other.
Linked(r) ==
    /\ launcher[r] \in Alive => api[r] \in Waiting
    /\ api[r] \in {"idle", "prepared"} => launcher[r] = "none"
    /\ launcher[r] \in {"none", "starting", "announcing", "checking", "launching"} =>
          client[r] = "none" /\ container[r] = "none"
    /\ launcher[r] = "running" => client[r] # "none"
    /\ launcher[r] = "removing" => client[r] # "up"
    /\ client[r] = "none" => container[r] # "up"
    /\ launcher[r] \in {"removed", "framing", "finishing", "exited"} => ~MayRun(r)

\* A container, and a client that may still create one, is covered by a slot.
Owned(r) == MayRun(r) => api[r] \in HoldsSlot

\* What a launcher has written, and why one that ended did so.
Explained(r) ==
    /\ r \in seen => written[r] # "nothing"
    /\ launcher[r] \in {"none", "starting", "announcing"} => written[r] = "nothing"
    /\ launcher[r] \in {"finishing", "exited"} => written[r] = "frame"
    /\ launcher[r] \in {"failed", "dead"} /\ api[r] \in Waiting => r \in fault
    /\ api[r] = "retained" => r \in fault
    /\ answer[r] \in {"artifact", "failed", "cancelled"} => api[r] = "done"

Safe(r) == Linked(r) /\ Owned(r) /\ Explained(r)

Types ==
    /\ in_use \in Nat
    /\ api \in [Requests -> ApiStates]
    /\ answer \in [Requests -> Answers]
    /\ cancelled \subseteq Requests
    /\ seen \subseteq Requests
    /\ launcher \in [Requests -> LauncherStates]
    /\ stop \subseteq Requests
    /\ written \in [Requests -> {"nothing", "ready", "frame"}]
    /\ result \in [Requests -> {"null", "artifact"}]
    /\ client \in [Requests -> {"none", "up", "gone"}]
    /\ container \in [Requests -> {"none", "up", "gone"}]
    /\ fault \subseteq Requests

Counted == in_use = Cardinality(Holders) /\ in_use <= Limit

IInv == Types /\ Counted /\ \A r \in Requests : Safe(r)

USE DEF ApiStates, HoldsSlot, Waiting, Answered, Answers, LauncherStates, Alive,
        DefaultAction, RecordsStop, IgnoresStop, Exited

-----------------------------------------------------------------------------
LEMMA InitSafe == Init => IInv
<1>1. ASSUME Init PROVE Holders = {}
  BY <1>1 DEF Init, Holders
<1>2. ASSUME Init PROVE Counted
  BY <1>1, <1>2, FS_EmptySet, WorkerAssumption DEF Init, Counted
<1> QED BY <1>2 DEF Init, IInv, Types, Safe, Linked, Owned, Explained, MayRun

\* The slots count the threads that hold one.
LEMMA HoldersFinite == IsFiniteSet(Holders)
  BY FS_Subset, WorkerAssumption DEF Holders

LEMMA TakeCounts ==
  ASSUME Types, Counted, NEW r \in Requests, try_take(r)
  PROVE  Counted'
<1>1. CASE in_use < Limit
  <2>1. api' = [api EXCEPT ![r] = "prepared"] /\ in_use' = in_use + 1 /\ api[r] = "idle"
    BY <1>1, WorkerAssumption DEF try_take, Types
  <2>2. Holders' = Holders \cup {r} /\ r \notin Holders
    BY <2>1 DEF Holders, Types
  <2>3. Cardinality(Holders') = Cardinality(Holders) + 1
    BY <2>2, FS_AddElement, HoldersFinite
  <2> QED BY <1>1, <2>1, <2>3, WorkerAssumption DEF Counted, Types
<1>2. CASE ~(in_use < Limit)
  <2>1. api' = [api EXCEPT ![r] = "done"] /\ in_use' = in_use /\ api[r] = "idle"
    BY <1>2, WorkerAssumption DEF try_take, Types
  <2>2. Holders' = Holders
    BY <2>1 DEF Holders, Types
  <2> QED BY <2>1, <2>2 DEF Counted
<1> QED BY <1>1, <1>2

LEMMA ReleaseCounts ==
  ASSUME Types, Counted, NEW r \in Requests, NEW a, Release(r, a), api[r] \in HoldsSlot
  PROVE  Counted' /\ in_use' \in Nat
<1>1. Holders' = Holders \ {r} /\ r \in Holders
  BY DEF Release, Holders, Types
<1>2. Cardinality(Holders') = Cardinality(Holders) - 1
  BY <1>1, FS_RemoveElement, HoldersFinite
<1>3. Cardinality(Holders') \in Nat
  BY <1>1, FS_Subset, FS_CardinalityType, HoldersFinite
<1> QED BY <1>2, <1>3, WorkerAssumption DEF Counted, Release, Types

\* A thread that goes on, or forgets its slot, keeps it.
LEMMA KeepCounts ==
  ASSUME Types, Counted, in_use' = in_use, NEW r \in Requests, NEW s \in HoldsSlot,
         api[r] \in HoldsSlot, api' = [api EXCEPT ![r] = s]
  PROVE  Counted'
<1>1. Holders' = Holders
  BY DEF Holders, Types
<1> QED BY <1>1 DEF Counted

LEMMA SameCounts ==
  ASSUME Counted, in_use' = in_use, api' = api
  PROVE  Counted'
  BY DEF Counted, Holders

-----------------------------------------------------------------------------
LEMMA ApiKeeps ==
  ASSUME IInv, NEW r \in Requests, ApiStep(r) \/ Cancel(r)
  PROVE  IInv'
<1> USE DEF IInv
<1> DEFINE Parts == Types' /\ \A q \in Requests : Safe(q)'
<1>0. CASE Cancel(r)
  <2>1. Counted'
    BY <1>0, SameCounts DEF Cancel
  <2>2. Parts
    BY <1>0 DEF Cancel, Types, Safe, Linked, Owned, Explained, MayRun, processes
  <2> QED BY <2>1, <2>2
<1>1. CASE try_take(r)
  <2>1. Counted'
    BY <1>1, TakeCounts
  <2>2. Parts
    BY <1>1 DEF try_take, Types, Safe, Linked, Owned, Explained, MayRun, processes
  <2> QED BY <2>1, <2>2
<1>2. CASE RefuseJob(r)
  <2>1. Counted' /\ in_use' \in Nat
    BY <1>2, ReleaseCounts DEF RefuseJob
  <2>2. Parts
    BY <1>2, <2>1 DEF RefuseJob, Release, Types, Safe, Linked, Owned, Explained, MayRun, processes
  <2> QED BY <2>1, <2>2
<1>3. CASE Spawn(r)
  <2>1. Counted'
    BY <1>3, KeepCounts DEF Spawn
  <2>2. Parts
    BY <1>3 DEF Spawn, Types, Safe, Linked, Owned, Explained, MayRun, processes
  <2> QED BY <2>1, <2>2
<1>4. CASE ReaderSeesReady(r)
  <2>1. Counted'
    BY <1>4, SameCounts DEF ReaderSeesReady
  <2>2. Parts
    BY <1>4 DEF ReaderSeesReady, Types, Safe, Linked, Owned, Explained, MayRun, processes
  <2> QED BY <2>1, <2>2
<1>5. CASE NoticeCancel(r)
  <2>1. Counted'
    BY <1>5, KeepCounts DEF NoticeCancel
  <2>2. Parts
    BY <1>5 DEF NoticeCancel, Types, Safe, Linked, Owned, Explained, MayRun, processes
  <2> QED BY <2>1, <2>2
<1>6. CASE SignalStop(r)
  <2>1. Counted'
    BY <1>6, KeepCounts DEF SignalStop
  <2>2. launcher[r] \notin DefaultAction
    BY <1>6 DEF SignalStop, Safe, Explained
  <2>3. launcher' = launcher
    BY <1>6, <2>2 DEF SignalStop, Sigterm, Types
  <2>4. stop' \subseteq Requests
    BY <1>6 DEF SignalStop, Sigterm, Types
  <2>5. Parts
    BY <1>6, <2>3, <2>4 DEF SignalStop, Types, Safe, Linked, Owned, Explained, MayRun
  <2> QED BY <2>1, <2>5
<1>7. CASE GiveUp(r)
  <2>1. Counted'
    BY <1>7, KeepCounts DEF GiveUp, Retain
  <2>2. Parts
    BY <1>7 DEF GiveUp, Retain, Types, Safe, Linked, Owned, Explained, MayRun, processes
  <2> QED BY <2>1, <2>2
<1>8. CASE Collect(r)
  <2>1. CASE Confirmed(r)
    <3>1. PICK a \in {"artifact", "failed", "cancelled"} : Release(r, a)
      BY <1>8, <2>1 DEF Collect, Types
    <3>2. Counted' /\ in_use' \in Nat
      BY <1>8, <3>1, ReleaseCounts DEF Collect
    <3>3. Parts
      BY <1>8, <2>1, <3>1, <3>2
         DEF Collect, Confirmed, Release, Types, Safe, Linked, Owned, Explained, MayRun, processes
    <3> QED BY <3>2, <3>3
  <2>2. CASE ~Confirmed(r)
    <3>1. Retain(r)
      BY <1>8, <2>2 DEF Collect
    <3>2. Counted'
      BY <1>8, <3>1, KeepCounts DEF Collect, Retain
    <3>3. launcher[r] \in {"failed", "dead"}
      BY <1>8, <2>2 DEF Collect, Confirmed, Safe, Explained
    <3>4. Parts
      BY <1>8, <3>1, <3>3 DEF Collect, Retain, Types, Safe, Linked, Owned, Explained, MayRun, processes
    <3> QED BY <3>2, <3>4
  <2> QED BY <2>1, <2>2
<1>9. CASE ReaderLate(r)
  <2>1. Counted'
    BY <1>9, KeepCounts DEF ReaderLate, Retain
  <2>2. Parts
    BY <1>9 DEF ReaderLate, Retain, Types, Safe, Linked, Owned, Explained, MayRun, processes
  <2> QED BY <2>1, <2>2
<1> QED BY <1>0, <1>1, <1>2, <1>3, <1>4, <1>5, <1>6, <1>7, <1>8, <1>9 DEF ApiStep

LEMMA LauncherKeeps ==
  ASSUME IInv, NEW r \in Requests, LauncherStep(r)
  PROVE  IInv'
<1> USE DEF IInv
<1> DEFINE Parts == Types' /\ \A q \in Requests : Safe(q)'
<1>0. Counted'
  <2>1. in_use' = in_use /\ api' = api
    BY DEF LauncherStep, InstallHandler, WriteReady, ConfigRefused, NothingToRun, Preflight,
           StartClient, StopBeforeClient, KillClient, ClientEnded, removed, NotRemoved,
           IgnoreStop, WriteFrame, Exit, Goes, thread
  <2> QED BY <2>1, SameCounts
<1> USE DEF Goes, thread, Types, Safe, Linked, Owned, Explained, MayRun
<1>1. CASE InstallHandler(r)
  BY <1>0, <1>1 DEF InstallHandler
<1>2. CASE WriteReady(r)
  BY <1>0, <1>2 DEF WriteReady
<1>3. CASE ConfigRefused(r)
  BY <1>0, <1>3 DEF ConfigRefused
<1>4. CASE NothingToRun(r)
  BY <1>0, <1>4 DEF NothingToRun
<1>5. CASE Preflight(r)
  BY <1>0, <1>5 DEF Preflight
<1>6. CASE StartClient(r)
  BY <1>0, <1>6 DEF StartClient
<1>7. CASE StopBeforeClient(r)
  BY <1>0, <1>7 DEF StopBeforeClient
<1>8. CASE KillClient(r)
  BY <1>0, <1>8 DEF KillClient
<1>9. CASE ClientEnded(r)
  BY <1>0, <1>9 DEF ClientEnded
<1>10. CASE removed(r)
  BY <1>0, <1>10 DEF removed
<1>11. CASE NotRemoved(r)
  BY <1>0, <1>11 DEF NotRemoved
<1>12. CASE IgnoreStop(r)
  BY <1>0, <1>12 DEF IgnoreStop
<1>13. CASE WriteFrame(r)
  BY <1>0, <1>13 DEF WriteFrame
<1>14. CASE Exit(r)
  BY <1>0, <1>14 DEF Exit
<1> QED BY <1>1, <1>2, <1>3, <1>4, <1>5, <1>6, <1>7, <1>8, <1>9, <1>10, <1>11, <1>12, <1>13, <1>14
     DEF LauncherStep

LEMMA HostKeeps ==
  ASSUME IInv, NEW r \in Requests, HostStep(r)
  PROVE  IInv'
<1> USE DEF IInv
<1>0. Counted'
  <2>1. in_use' = in_use /\ api' = api
    BY DEF HostStep, ContainerStarts, ContainerEnds, ClientExits, LauncherCrash, thread
  <2> QED BY <2>1, SameCounts
<1> USE DEF thread, Types, Safe, Linked, Owned, Explained, MayRun
<1>1. CASE ContainerStarts(r)
  BY <1>0, <1>1 DEF ContainerStarts
<1>2. CASE ContainerEnds(r)
  BY <1>0, <1>2 DEF ContainerEnds
<1>3. CASE ClientExits(r)
  BY <1>0, <1>3 DEF ClientExits
<1>4. CASE LauncherCrash(r)
  BY <1>0, <1>4 DEF LauncherCrash
<1> QED BY <1>1, <1>2, <1>3, <1>4 DEF HostStep

LEMMA RestartKeeps ==
  ASSUME IInv, OperatorRestart
  PROVE  IInv'
<1> USE DEF IInv
<1>1. Holders' = {}
  BY DEF OperatorRestart, Holders, Types
<1>2. Counted'
  BY <1>1, FS_EmptySet, WorkerAssumption DEF OperatorRestart, Counted
<1>3. Types'
  BY DEF OperatorRestart, Types
<1>4. \A r \in Requests : Safe(r)'
  BY DEF OperatorRestart, Types, Safe, Linked, Owned, Explained, MayRun
<1> QED BY <1>2, <1>3, <1>4

LEMMA StepKeeps == IInv /\ [Next]_vars => IInv'
<1> SUFFICES ASSUME IInv, [Next]_vars PROVE IInv'
  OBVIOUS
<1>1. CASE UNCHANGED vars
  BY <1>1 DEF vars, IInv, Types, Counted, Holders, Safe, Linked, Owned, Explained, MayRun
<1>2. CASE Next
  BY <1>2, ApiKeeps, LauncherKeeps, HostKeeps, RestartKeeps DEF Next
<1> QED BY <1>1, <1>2

LEMMA Invariance == Spec => []IInv
  BY InitSafe, StepKeeps, PTL DEF Spec

LEMMA IInvGives == IInv => TypeOK /\ SlotNotStranded /\ AnswerAfterRemoval
<1> SUFFICES ASSUME IInv PROVE TypeOK /\ SlotNotStranded /\ AnswerAfterRemoval
  OBVIOUS
<1>1. in_use \in 0..Limit
  BY WorkerAssumption DEF IInv, Types, Counted
<1> QED BY <1>1 DEF IInv, Types, Safe, Owned, Explained, TypeOK, SlotNotStranded, AnswerAfterRemoval

\* For any number of requests and slots: a cancellation never costs a slot,
\* and a build whose slot came back with an answer has nothing running.
THEOREM WorkerSafe == Spec => [](TypeOK /\ SlotNotStranded /\ AnswerAfterRemoval)
  BY Invariance, IInvGives, PTL

-----------------------------------------------------------------------------
(***************************************************************************)
(* Refinement.                                                             *)
(***************************************************************************)
Running == {r \in Requests : MayRun(r)}
Finished == {r \in Requests : client[r] # "none" /\ ~MayRun(r)}

LEMMA RunningBound == IInv => Running \subseteq Holders
  BY DEF IInv, Safe, Owned, Running, Holders

\* A runtime client is started only where a slot is left among the builds that run.
LEMMA StartHasRoom ==
  ASSUME IInv, NEW r \in Requests, StartClient(r)
  PROVE  Cardinality(Running) < Limit /\ r \notin Running /\ r \notin Finished
<1>1. r \in Holders /\ client[r] = "none" /\ container[r] = "none"
  BY DEF StartClient, Goes, IInv, Safe, Linked, Holders
<1>2. r \notin Running /\ r \notin Finished
  BY <1>1 DEF Running, Finished, MayRun
<1>3. Running \subseteq Holders \ {r}
  BY <1>2, RunningBound
<1>4. IsFiniteSet(Holders \ {r}) /\ Cardinality(Holders \ {r}) = Cardinality(Holders) - 1
  BY <1>1, FS_RemoveElement, HoldersFinite
<1>5. Cardinality(Running) <= Cardinality(Holders \ {r})
  BY <1>3, <1>4, FS_Subset
<1>6. Cardinality(Running) \in Nat
  BY <1>3, <1>4, FS_Subset, FS_CardinalityType
<1> QED BY <1>2, <1>4, <1>5, <1>6, WorkerAssumption DEF IInv, Types, Counted

\* Steps that leave client and container alone do not move the abstract state.
LEMMA SameRunning ==
  ASSUME client' = client, container' = container
  PROVE  Running' = Running /\ Finished' = Finished
  BY DEF Running, Finished, MayRun

\* A step that takes client or container away ends a build or moves nothing.
LEMMA EndsOrStays ==
  ASSUME Types, Types', NEW r \in Requests, client[r] # "none", client'[r] # "none",
         MayRun(r)' => MayRun(r),
         \A q \in Requests \ {r} : client'[q] = client[q] /\ container'[q] = container[q]
  PROVE  \/ Running' = Running /\ Finished' = Finished
         \/ r \in Running /\ Running' = Running \ {r} /\ Finished' = Finished \cup {r}
  BY DEF Running, Finished, MayRun

LEMMA StepRefines ==
  ASSUME IInv, IInv', [Next]_vars
  PROVE  \/ \E r \in Requests :
              \/ /\ r \notin Running \cup Finished
                 /\ Cardinality(Running) < Limit
                 /\ Running' = Running \cup {r} /\ Finished' = Finished
              \/ r \in Running /\ Running' = Running \ {r} /\ Finished' = Finished \cup {r}
         \/ Running' = Running /\ Finished' = Finished
<1> USE DEF IInv
<1>1. CASE client' = client /\ container' = container
  BY <1>1, SameRunning
<1>2. ASSUME NEW r \in Requests, StartClient(r) PROVE
        Running' = Running \cup {r} /\ Finished' = Finished
  <2>1. client[r] = "none" /\ container[r] = "none"
    BY <1>2 DEF StartClient, Goes, Safe, Linked
  <2>2. container' = container /\ client' = [client EXCEPT ![r] = "up"]
    BY <1>2 DEF StartClient
  <2> QED BY <2>1, <2>2 DEF Types, Running, Finished, MayRun
<1>3. ASSUME NEW r \in Requests,
             KillClient(r) \/ ClientExits(r) \/ ContainerEnds(r) \/ ContainerStarts(r) \/ removed(r)
      PROVE  \/ Running' = Running /\ Finished' = Finished
             \/ r \in Running /\ Running' = Running \ {r} /\ Finished' = Finished \cup {r}
  <2>1. \A q \in Requests \ {r} : client'[q] = client[q] /\ container'[q] = container[q]
    BY <1>3 DEF KillClient, ClientExits, ContainerEnds, ContainerStarts, removed, Types
  <2>2. CASE client[r] # "none"
    <3>1. client'[r] # "none"
      BY <1>3, <2>2 DEF KillClient, ClientExits, ContainerEnds, ContainerStarts, removed, Types
    <3>2. MayRun(r)' => MayRun(r)
      BY <1>3 DEF KillClient, ClientExits, ContainerEnds, ContainerStarts, removed, Types, MayRun
    <3> QED BY <2>1, <2>2, <3>1, <3>2, EndsOrStays
  <2>3. CASE client[r] = "none"
    <3>1. client'[r] = "none" /\ container[r] # "up" /\ container'[r] # "up"
      BY <1>3, <2>3 DEF KillClient, ClientExits, ContainerEnds, ContainerStarts, removed, Goes,
                         Types, Safe, Linked, Owned, MayRun
    <3> QED BY <2>1, <2>3, <3>1 DEF Running, Finished, MayRun
  <2> QED BY <2>2, <2>3
<1>4. CASE UNCHANGED vars
  BY <1>1, <1>4 DEF vars
<1>5. CASE \E r \in Requests : Cancel(r) \/ ApiStep(r)
  BY <1>1, <1>5 DEF Cancel, ApiStep, try_take, RefuseJob, Spawn, ReaderSeesReady, NoticeCancel,
                     SignalStop, GiveUp, Collect, ReaderLate, processes
<1>6. CASE OperatorRestart
  BY <1>1, <1>6 DEF OperatorRestart
<1>7. ASSUME NEW r \in Requests, LauncherStep(r) \/ HostStep(r)
      PROVE  \/ client' = client /\ container' = container
             \/ StartClient(r)
             \/ KillClient(r) \/ ClientExits(r) \/ ContainerEnds(r) \/ ContainerStarts(r) \/ removed(r)
  BY <1>7 DEF LauncherStep, HostStep, InstallHandler, WriteReady, ConfigRefused, NothingToRun,
              Preflight, StopBeforeClient, ClientEnded, NotRemoved, IgnoreStop, WriteFrame, Exit,
              LauncherCrash
<1> QED BY <1>1, <1>2, <1>3, <1>4, <1>5, <1>6, <1>7, StartHasRoom DEF Next

\* The hosted API with its launchers and the container runtime implements the
\* abstract capacity for any number of requests and slots: whatever dies,
\* hangs or is cancelled, a container is started only where there is room.
THEOREM WorkerImplementsCapacity == Spec => ImplementsCapacity
<1>1. Init => Capacity!Init
  BY DEF Init, Capacity!Init, MayRun
<1>2. IInv /\ IInv' /\ [Next]_vars => [Capacity!Next]_(Capacity!vars)
  <2> SUFFICES ASSUME IInv, IInv', [Next]_vars PROVE [Capacity!Next]_(Capacity!vars)
    OBVIOUS
  <2>1. CASE Running' = Running /\ Finished' = Finished
    BY <2>1 DEF Running, Finished, Capacity!vars
  <2>2. ASSUME NEW r \in Requests, r \notin Running \cup Finished, Cardinality(Running) < Limit,
               Running' = Running \cup {r}, Finished' = Finished
        PROVE  Capacity!Start(r)
    <3>1. Capacity!Cardinality(Running) = Cardinality(Running)
      BY DEF Cardinality, Capacity!Cardinality
    <3> QED BY <2>2, <3>1 DEF Running, Finished, Capacity!Start
  <2>3. ASSUME NEW r \in Requests, r \in Running, Running' = Running \ {r},
               Finished' = Finished \cup {r}
        PROVE  Capacity!End(r)
    BY <2>3 DEF Running, Finished, Capacity!End
  <2> QED BY <2>1, <2>2, <2>3, StepRefines DEF Capacity!Next
<1> QED BY <1>1, <1>2, Invariance, PTL DEF Spec, ImplementsCapacity, Capacity!Spec
=============================================================================
