----------------------------- MODULE ServiceQueue -----------------------------
(***************************************************************************)
(* The work of one broker service (client/service/brokerd.mjs) and of the  *)
(* clients that send it (client/service/service-client.mjs).  Commands and *)
(* the 30-second idle reconciliation share one queue and run one at a time *)
(* in a worker; app-snapshot requests run beside it.  A client gives a     *)
(* command a queue budget and an execution budget and waits for their sum; *)
(* the service checks both again when the command leaves the queue.  The   *)
(* installed runtime may be replaced under the service, which then refuses *)
(* everything but a stop; a stop drains what was admitted.                 *)
(*                                                                         *)
(* Abstracted: a command is its name, time is counted in ticks, a runtime  *)
(* descriptor (file identities and version) is a model value, and what a   *)
(* command does to the broker is left to LeaseBroker and HostDevices.      *)
(***************************************************************************)
EXTENDS Naturals, Sequences, FiniteSets

CONSTANTS Commands,     \* requests to /v1/command, each sent once
          Snapshots,    \* requests to /v1/app/snapshot
          Runtimes,     \* runtime descriptors that may be on disk, a runtime that
                        \* cannot be read among them
          Version,      \* [Runtimes -> their version]: a rebuilt runtime may have
                        \* the version of the one it replaces
          NoVersion,    \* no version
          Timer,        \* the scheduled idle reconciliation
          Nothing,      \* no item in the worker
          QueueBudget,  \* ticks a command may wait (commandQueueTimeoutMs)
          BaseBudget,   \* ticks a command may run on an idle host
          MaxWorkload   \* bound on the extra ticks that files on disk call for

ASSUME NamesAssumption ==
  /\ Timer \notin Commands /\ Nothing \notin Commands \union {Timer}
ASSUME VersionAssumption ==
  DOMAIN Version = Runtimes /\ \A v \in Runtimes : Version[v] # NoVersion
ASSUME BudgetAssumption ==
  QueueBudget \in Nat /\ BaseBudget \in Nat /\ MaxWorkload \in Nat

Items == Commands \union {Timer}
Versions == {Version[v] : v \in Runtimes}
MaxAge == QueueBudget + BaseBudget + MaxWorkload + 1

VARIABLES
  installed,  \* the runtime on disk
  runtime,    \* the runtime this service started with (startupRuntime)
  health,     \* serviceHealth.status
  phase,      \* admission and the steps of shutdown
  queue,      \* commandWorkerQueue: admitted, not yet handed to a worker
  worker,     \* the item a worker thread was started for
  working,    \* that worker has passed its runtime check
  ran,        \* ticks since the worker was started
  allowance,  \* ticks its operation takes at most
  idleActive, \* activeIdleReconciliation # null
  snapshots,  \* activeSnapshotWorkers
  status,     \* [Commands -> what the client knows]
  body,       \* [Commands -> what the service was sent with the command]
  workload    \* extra execution time the files on disk call for now

VARIABLE executed   \* history: commands whose broker operation has begun

daemon == <<runtime, health, phase, queue, worker, working, ran, allowance,
            idleActive, snapshots>>
client == <<status, body>>
vars == <<installed, daemon, client, workload, executed>>

(* "direct": the client runs the command in its own process;               *)
(* "answered": the client has heard the outcome of its operation;          *)
(* "failed": it was refused, or has waited as long as it ever would;       *)
(* "gone": it was interrupted, or lost its connection.                     *)
Statuses ==
  {"new", "direct", "probed", "arrived", "queued", "answered", "failed", "gone"}
Phases == {"open", "awaitIdle", "awaitCommands", "awaitSnapshots", "closed"}

(* age: ticks since clientRequestStartedAtMilliseconds; expected: the      *)
(* runtimeVersion of expectedServiceIdentity; budget:                      *)
(* clientCommandExecutionTimeoutMilliseconds.                              *)
Bodies == [age : 0..MaxAge, expected : Versions \union {NoVersion}, budget : 0..MaxAge]
NoBody == [age |-> 0, expected |-> NoVersion, budget |-> 0]

TypeOK ==
  /\ installed \in Runtimes /\ runtime \in Runtimes
  /\ health \in {"healthy", "incompatible", "degraded"} /\ phase \in Phases
  /\ queue \in Seq(Items) /\ worker \in Items \union {Nothing}
  /\ working \in BOOLEAN /\ ran \in 0..MaxAge /\ allowance \in 0..MaxAge
  /\ idleActive \in BOOLEAN /\ snapshots \subseteq Snapshots
  /\ status \in [Commands -> Statuses] /\ body \in [Commands -> Bodies]
  /\ workload \in 0..MaxWorkload
  /\ executed \subseteq Commands

Init ==
  /\ runtime \in Runtimes /\ installed = runtime
  /\ health = "healthy" /\ phase = "open"
  /\ queue = <<>> /\ worker = Nothing /\ working = FALSE
  /\ ran = 0 /\ allowance = 0 /\ idleActive = FALSE /\ snapshots = {}
  /\ status = [r \in Commands |-> "new"]
  /\ body = [c \in Commands |-> NoBody]
  /\ workload \in 0..MaxWorkload /\ executed = {}

-----------------------------------------------------------------------------
(* Helpers *)

(* Mutant: the service recovers when the runtime is put back.              *)
Inspected_Recovers == IF installed # runtime THEN "incompatible" ELSE "healthy"

(* inspectServiceRuntimeHealth: healthy until the runtime on disk is found *)
(* to differ, then unhealthy for good.                                     *)
Inspected ==
  IF health = "healthy" /\ installed # runtime THEN "incompatible" ELSE health

(* serviceCommandExecutionTimeoutMs over the files of the moment.          *)
ExecutionBudget == BaseBudget + workload

(* Mutant: the work that has appeared meanwhile is not looked at again.    *)
Fresh_QueueBudgetOnly(c) == body[c].age <= QueueBudget

(* assertCommandFreshForDispatch.                                          *)
Fresh(c) == body[c].age <= QueueBudget /\ ExecutionBudget <= body[c].budget

Queued == {queue[i] : i \in DOMAIN queue}
Admitted == Queued \union ({worker} \ {Nothing})

Connected(r) == status[r] \in {"arrived", "queued"}

(* MaxAge bounds the ages: past it every deadline of c has passed.         *)
Aging(c) == (Connected(c) \/ c \in Admitted) /\ body[c].age < MaxAge

(* The answer of a request reaches the client that still waits for it.     *)
Reply(r, outcome) ==
  status' = [status EXCEPT ![r] = IF Connected(r) THEN outcome ELSE @]

(* The model forgets what was sent once neither side looks at it again.    *)
Forget(S) == body' = [c \in Commands |-> IF c \in S THEN NoBody ELSE body[c]]

Set(r, outcome) == status' = [status EXCEPT ![r] = outcome]

-----------------------------------------------------------------------------
(* Clients *)

(* probeService and assertServiceRuntimeCompatible: the client goes on     *)
(* only with a service that reports itself healthy.                        *)
Probe(c) ==
  /\ status[c] = "new" /\ phase = "open"
  /\ health' = Inspected
  /\ IF health' = "healthy"
     THEN Set(c, "probed") /\ body' = [body EXCEPT ![c].expected = Version[runtime]]
     ELSE Set(c, "failed") /\ Forget({c})
  /\ UNCHANGED <<installed, runtime, phase, queue, worker, working, ran, allowance,
                 idleActive, snapshots, workload, executed>>

(* runServiceAwareRequest: nobody listens on the socket, or the user wants *)
(* no service.  An acquire under an idle policy has a service started      *)
(* instead, and probes again.                                              *)
Direct(c) ==
  /\ status[c] = "new" /\ Set(c, "direct")
  /\ UNCHANGED <<installed, daemon, body, workload, executed>>

(* executeServiceCommand: budgets are computed now; a service that shuts   *)
(* down destroys the connection, an unhealthy one refuses the request      *)
(* before reading its body.                                                *)
Send(c) ==
  /\ status[c] = "probed"
  /\ IF phase # "open"
     THEN Set(c, "gone") /\ Forget({c}) /\ UNCHANGED health
     ELSE /\ health' = Inspected
          /\ IF health' = "healthy"
             THEN Set(c, "arrived") /\ body' = [body EXCEPT ![c].budget = ExecutionBudget]
             ELSE Set(c, "failed") /\ Forget({c})
  /\ UNCHANGED <<installed, runtime, phase, queue, worker, working, ran, allowance,
                 idleActive, snapshots, workload, executed>>

(* The client's own timeout: queue budget plus execution budget.           *)
GiveUp(c) ==
  /\ Connected(c) /\ body[c].age > QueueBudget + body[c].budget
  /\ Set(c, "failed") /\ Forget({c} \ Admitted)
  /\ UNCHANGED <<installed, daemon, workload, executed>>

(* The user ends the client, which aborts its request.                     *)
Interrupt(c) ==
  /\ Connected(c)
  /\ Set(c, "gone") /\ Forget({c} \ Admitted)
  /\ UNCHANGED <<installed, daemon, workload, executed>>

-----------------------------------------------------------------------------
(* Admission *)

(* Mutant: a command for another service is taken.                         *)
Accepted_AnyService(c) == Fresh(c) /\ phase = "open"

(* assertExpectedServiceIdentity, which compares versions (and paths, the   *)
(* same here), freshness, and the shutdown check of                        *)
(* runSerializedServiceWork.                                               *)
Accepted(c) == body[c].expected = Version[runtime] /\ Fresh(c) /\ phase = "open"

(* POST /v1/command, once the body is parsed.                              *)
Admit(c) ==
  /\ status[c] = "arrived" /\ phase # "closed"
  /\ IF Accepted(c)
     THEN Set(c, "queued") /\ queue' = Append(queue, c) /\ UNCHANGED body
     ELSE Set(c, "failed") /\ Forget({c}) /\ UNCHANGED queue
  /\ UNCHANGED <<installed, runtime, health, phase, worker, working, ran, allowance,
                 idleActive, snapshots, workload, executed>>

(* parseBody: too long, incomplete, late or no JSON; the connection is     *)
(* destroyed or the client is told.                                        *)
BodyFails(c) ==
  /\ status[c] = "arrived" /\ phase # "closed"
  /\ \E outcome \in {"failed", "gone"} : Set(c, outcome)
  /\ Forget({c})
  /\ UNCHANGED <<installed, daemon, workload, executed>>

TimerDue == phase = "open" /\ ~idleActive

(* The interval timer of the listening callback.                           *)
TimerFires ==
  /\ TimerDue
  /\ health' = Inspected
  /\ health' = "healthy"
  /\ queue' = Append(queue, Timer) /\ idleActive' = TRUE
  /\ UNCHANGED <<installed, runtime, phase, worker, working, ran, allowance,
                 snapshots, client, workload, executed>>

(* GET /v1/app/snapshot: a worker of its own, beside the queue.            *)
SnapshotArrives(s) ==
  /\ s \notin snapshots /\ phase = "open"
  /\ health' = Inspected
  /\ snapshots' = IF health' = "healthy" THEN snapshots \union {s} ELSE snapshots
  /\ UNCHANGED <<installed, runtime, phase, queue, worker, working, ran, allowance,
                 idleActive, client, workload, executed>>

-----------------------------------------------------------------------------
(* Workers *)

(* Mutant: an error before the worker is started reaches no client.        *)
Settle_SwallowsErrors(item, outcome) ==
  /\ idleActive' = (idleActive /\ item # Timer)
  /\ IF item = Timer \/ outcome = "failed" THEN UNCHANGED status ELSE Reply(item, outcome)
  /\ Forget({item})

(* What an item leaves behind when it is over: its request, if it has one, *)
(* is answered, a timer item is no longer tracked.                         *)
Settle(item, outcome) ==
  /\ idleActive' = (idleActive /\ item # Timer)
  /\ IF item = Timer THEN UNCHANGED status ELSE Reply(item, outcome)
  /\ Forget({item})

(* Mutants: the queue does not wait for its previous item; it stands still *)
(* once admission is closed.                                               *)
Ready_NotChained == queue # <<>>
Ready_WhileOpen == queue # <<>> /\ worker = Nothing /\ phase = "open"

(* The chain of commandWorkerQueue: the next item waits for the previous.  *)
Ready == queue # <<>> /\ worker = Nothing

(* What the worker of an item does to the broker on a client's behalf.     *)
Effects(item) == {item} \intersect Commands

NoWorker == worker' = Nothing /\ working' = FALSE /\ ran' = 0 /\ allowance' = 0

(* The queue hands its next item on when the previous one has settled:     *)
(* freshness again for a command, then the health of the runtime           *)
(* (runObservedWorker), then a worker thread.                              *)
Launch ==
  /\ Ready
  /\ LET item == Head(queue)
         fresh == item = Timer \/ Fresh(item)
     IN /\ queue' = Tail(queue)
        /\ health' = IF fresh THEN Inspected ELSE health
        /\ IF fresh /\ health' = "healthy"
           THEN /\ worker' = item /\ ran' = 0
                /\ allowance' = IF item = Timer THEN 0 ELSE ExecutionBudget
                /\ UNCHANGED <<idleActive, client>>
           ELSE Settle(item, "failed") /\ UNCHANGED <<worker, ran, allowance>>
  /\ UNCHANGED <<installed, runtime, phase, working, snapshots, workload, executed>>

(* assertWorkerRuntimeMatchesStartup, first thing in the worker; a runtime *)
(* that cannot be loaded ends the worker the same way.                     *)
Begin ==
  /\ worker # Nothing /\ ~working
  /\ IF installed = runtime
     THEN /\ working' = TRUE
          /\ executed' = executed \union Effects(worker)
          /\ UNCHANGED <<health, worker, ran, allowance, idleActive, client>>
     ELSE /\ health' = (IF health = "healthy" THEN "degraded" ELSE health)
          /\ Settle(worker, "failed") /\ NoWorker
          /\ UNCHANGED executed
  /\ UNCHANGED <<installed, runtime, phase, queue, snapshots, workload>>

(* The operation ends, well or not, and the worker settles.                *)
Finish ==
  /\ working
  /\ Settle(worker, "answered") /\ NoWorker
  /\ UNCHANGED <<installed, runtime, health, phase, queue, snapshots, workload,
                 executed>>

(* A snapshot worker settles; one that finds another runtime degrades the  *)
(* service.                                                                *)
SnapshotEnds(s) ==
  /\ s \in snapshots
  /\ snapshots' = snapshots \ {s}
  /\ health' \in {health} \union
       (IF health = "healthy" /\ installed # runtime THEN {"degraded"} ELSE {})
  /\ UNCHANGED <<installed, runtime, phase, queue, worker, working, ran, allowance,
                 idleActive, client, workload, executed>>

-----------------------------------------------------------------------------
(* Shutdown, crash and restart *)

(* POST /v1/service/stop, SIGINT or SIGTERM: closeCommandAdmissionForShutdown. *)
Stop ==
  /\ phase = "open" /\ phase' = "awaitIdle"
  /\ UNCHANGED <<installed, runtime, health, queue, worker, working, ran, allowance,
                 idleActive, snapshots, client, workload, executed>>

(* Mutant: shutdown waits for the running command, not for queued ones.    *)
Drain_RunningOnly ==
  /\ \/ phase = "awaitIdle" /\ ~idleActive /\ phase' = "awaitCommands"
     \/ phase = "awaitCommands" /\ worker \notin Commands
        /\ phase' = "awaitSnapshots"
  /\ UNCHANGED <<installed, runtime, health, queue, worker, working, ran, allowance,
                 idleActive, snapshots, client, workload, executed>>

(* The waits of shutdown, in order.                                        *)
Drain ==
  /\ \/ phase = "awaitIdle" /\ ~idleActive /\ phase' = "awaitCommands"
     \/ phase = "awaitCommands" /\ Admitted \intersect Commands = {}
        /\ phase' = "awaitSnapshots"
  /\ UNCHANGED <<installed, runtime, health, queue, worker, working, ran, allowance,
                 idleActive, snapshots, client, workload, executed>>

(* Then every connection that is left is destroyed and the server closes.  *)
Disconnect ==
  status' = [r \in Commands |-> IF Connected(r) THEN "gone" ELSE status[r]]

Close ==
  /\ phase = "awaitSnapshots" /\ snapshots = {}
  /\ phase' = "closed"
  /\ Disconnect /\ Forget({c \in Commands : Connected(c)})
  /\ UNCHANGED <<installed, runtime, health, queue, worker, working, ran, allowance,
                 idleActive, snapshots, workload, executed>>

(* The process dies, and its worker threads with it.                       *)
Crash ==
  /\ phase # "closed"
  /\ phase' = "closed" /\ queue' = <<>> /\ NoWorker
  /\ idleActive' = FALSE /\ snapshots' = {}
  /\ Disconnect /\ Forget({c \in Commands : Connected(c)} \union Admitted)
  /\ UNCHANGED <<installed, runtime, health, workload, executed>>

(* A new service starts from the runtime on disk.                          *)
Restart ==
  /\ phase = "closed"
  /\ phase' = "open" /\ runtime' = installed /\ health' = "healthy"
  /\ UNCHANGED <<installed, queue, worker, working, ran, allowance, idleActive,
                 snapshots, client, workload, executed>>

-----------------------------------------------------------------------------
(* Environment *)

Reinstall ==
  /\ installed' \in Runtimes \ {installed}
  /\ UNCHANGED <<daemon, client, workload, executed>>

(* Leases, aliases or transactions appear on disk or go: commands take     *)
(* longer or less.                                                         *)
WorkloadChanges ==
  /\ workload' \in (0..MaxWorkload) \ {workload}
  /\ UNCHANGED <<installed, daemon, client, executed>>

(* Time passes; the operation in the worker keeps to the budget it had     *)
(* when it was handed over.                                                *)
Tick ==
  /\ worker \in Commands => ran < allowance
  /\ \E c \in Commands : Aging(c)
  /\ body' = [c \in Commands |-> IF Aging(c) THEN [body[c] EXCEPT !.age = @ + 1] ELSE body[c]]
  /\ ran' = IF worker \in Commands THEN ran + 1 ELSE ran
  /\ UNCHANGED <<installed, runtime, health, phase, queue, worker, working, allowance,
                 idleActive, snapshots, status, workload, executed>>

Next ==
  \/ \E c \in Commands : Probe(c) \/ Direct(c) \/ Send(c) \/ GiveUp(c) \/ Interrupt(c)
  \/ \E c \in Commands : Admit(c) \/ BodyFails(c)
  \/ \E s \in Snapshots : SnapshotArrives(s) \/ SnapshotEnds(s)
  \/ TimerFires \/ Launch \/ Begin \/ Finish
  \/ Stop \/ Drain \/ Close \/ Crash \/ Restart
  \/ Reinstall \/ WorkloadChanges \/ Tick

Spec == Init /\ [][Next]_vars

(* The event loop runs what is ready and every worker ends (its calls all  *)
(* carry timeouts); nothing makes clients, users or installers act.        *)
Fairness ==
  /\ WF_vars(Launch) /\ WF_vars(Begin) /\ WF_vars(Finish)
  /\ WF_vars(Drain) /\ WF_vars(Close)
  /\ \A s \in Snapshots : WF_vars(SnapshotEnds(s))

FairSpec == Spec /\ Fairness

-----------------------------------------------------------------------------
(* Properties *)

(* A client that hears of a failure before the operation (expired, shut    *)
(* down, unhealthy, another service), and a client that runs out of        *)
(* patience, may take it that nothing was done: its command has not run    *)
(* and will not.  The second check of the budgets at dispatch and the sum  *)
(* of both budgets as the client's timeout carry it.  A client that is     *)
(* interrupted, or loses its connection in a crash, has no such promise.   *)
(* Nor does a client run a command itself that it has given to a service.  *)
FailureMeansUntouched ==
  \A c \in Commands : status[c] \in {"failed", "direct"} => c \notin executed

(* A stop lets every admitted command finish and be answered before the    *)
(* snapshots are waited for, and nothing runs when the server closes.      *)
DrainComplete ==
  /\ phase \in {"awaitSnapshots", "closed"} =>
       /\ Admitted = {} /\ ~idleActive
       /\ \A c \in Commands : status[c] # "queued"
  /\ phase = "closed" => snapshots = {}

(* A command runs in a service of the version its client probed, and only  *)
(* while the runtime on disk is the very one that service started with     *)
(* (file by file, not by version), whatever was reinstalled or restarted   *)
(* since it was sent.  It may be another service than the one probed: one  *)
(* rebuilt under the same version is taken for it.                         *)
RunsWhatWasProbed ==
  [][\A c \in executed' \ executed :
       body[c].expected = Version[runtime] /\ installed = runtime]_vars

(* SB-SVC-RT-005: an unhealthy service starts no worker for anything, work *)
(* admitted before it noticed included, and stays unhealthy until another  *)
(* service is started.                                                     *)
FailsClosed ==
  [][health # "healthy" =>
       /\ worker' # Nothing => worker' = worker
       /\ snapshots' \subseteq snapshots
       /\ health' = "healthy" => phase = "closed"]_vars

(* The queue is a serial one: in admission order, one at a time, no        *)
(* command twice (SerialWork).                                             *)
Serial == INSTANCE SerialWork WITH
  OneOff <- Commands, Recurring <- {Timer},
  pending <- queue, current <- worker, performed <- executed
ImplementsSerialWork == Serial!SSpec

(* Every admitted command leaves the queue, however often the timer fires  *)
(* and whatever fails before it.                                           *)
CommandsSettle == \A c \in Commands : status[c] = "queued" ~> status[c] # "queued"

(* A stop that was accepted ends.                                          *)
StopCompletes == phase = "awaitIdle" ~> phase = "closed"
=============================================================================
