------------------------- MODULE ServiceQueue_proofs -------------------------
(***************************************************************************)
(* Proofs about ServiceQueue: for all sets of commands, snapshots and      *)
(* runtimes and all budgets.  The invariant says where each request is,    *)
(* and that the two checks of a command's budgets leave the client's own   *)
(* timeout behind whatever the worker does.                                *)
(***************************************************************************)
EXTENDS ServiceQueue, SequenceTheorems, TLAPS

Elements(s) == {s[i] : i \in DOMAIN s}
Distinct(s) == \A i, j \in DOMAIN s : s[i] = s[j] => i = j

(* Nothing is admitted twice, and a timer item is tracked while it is there. *)
QueueOK ==
  /\ Distinct(queue) /\ worker \notin Queued
  /\ working => worker # Nothing
  /\ Timer \in Admitted => idleActive

(* Where a request is, and what has become of it: one that its client has  *)
(* given up is too old to be handed to a worker.                           *)
RequestOK(c) ==
  /\ status[c] = "queued" => c \in Admitted
  /\ c \in Admitted =>
       status[c] \in {"queued", "failed", "gone"} /\ body[c].expected = Version[runtime]
  /\ c \in Queued => c \notin executed
  /\ c \in Queued /\ status[c] = "failed" => body[c].age > QueueBudget + body[c].budget
  /\ status[c] \in {"new", "probed", "arrived", "failed", "direct"} => c \notin executed

RequestsOK == \A c \in Commands : RequestOK(c)

(* A client is patient as long as the worker may take.                     *)
WorkerOK ==
  worker \in Commands =>
    /\ status[worker] # "failed"
    /\ ~working => worker \notin executed
    /\ body[worker].age <= QueueBudget + ran
    /\ ran <= allowance /\ allowance <= body[worker].budget

PhaseOK ==
  /\ phase \in {"awaitCommands", "awaitSnapshots", "closed"} => ~idleActive
  /\ phase \in {"awaitSnapshots", "closed"} => Admitted = {}
  /\ phase = "closed" => snapshots = {}

(* The inductive invariant. *)
IInv == TypeOK /\ QueueOK /\ RequestsOK /\ WorkerOK /\ PhaseOK

-----------------------------------------------------------------------------
(* Queues: what an item that comes and one that goes do to the elements.   *)
LEMMA AppendElements ==
  ASSUME NEW S, NEW s \in Seq(S), NEW e \in S
  PROVE  /\ Append(s, e) \in Seq(S)
         /\ Elements(Append(s, e)) = Elements(s) \union {e}
         /\ Distinct(s) /\ e \notin Elements(s) => Distinct(Append(s, e))
<1> DEFINE t == Append(s, e)
<1>1. /\ t \in Seq(S) /\ DOMAIN s = 1..Len(s) /\ DOMAIN t = 1..Len(s) + 1
      /\ Len(s) \in Nat
      /\ \A i \in 1..Len(s) : t[i] = s[i]
      /\ t[Len(s) + 1] = e
  BY AppendProperties, LenProperties
<1> HIDE DEF t
<1>2. Elements(t) = Elements(s) \union {e}
  BY <1>1 DEF Elements
<1>3. ASSUME Distinct(s), e \notin Elements(s)
      PROVE  Distinct(t)
  BY <1>1, <1>3 DEF Distinct, Elements
<1> QED BY <1>1, <1>2, <1>3 DEF t

(* What follows the head of a queue was in it. *)
LEMMA TailElements ==
  ASSUME NEW S, NEW s \in Seq(S), s # <<>>
  PROVE  /\ Head(s) \in Elements(s) /\ Head(s) \in S
         /\ Tail(s) \in Seq(S)
         /\ Elements(s) = Elements(Tail(s)) \union {Head(s)}
         /\ Distinct(s) => Distinct(Tail(s)) /\ Head(s) \notin Elements(Tail(s))
<1> DEFINE t == Tail(s)
           h == Head(s)
<1>1. /\ h \in S /\ t \in Seq(S) /\ Len(s) \in Nat \ {0} /\ Len(t) = Len(s) - 1
      /\ DOMAIN s = 1..Len(s) /\ DOMAIN t = 1..Len(t)
      /\ \A i \in 1..Len(t) : t[i] = s[i + 1]
  BY HeadTailProperties, LenProperties, EmptySeq
<1>2. h = s[1]
  OBVIOUS
<1> HIDE DEF t, h
<1>3. Elements(t) \union {h} \subseteq Elements(s)
  BY <1>1, <1>2 DEF Elements
<1>4. ASSUME NEW i \in DOMAIN s PROVE s[i] \in Elements(t) \union {h}
  <2>1. CASE i = 1
    BY <2>1, <1>2
  <2>2. CASE i # 1
    <3>1. i - 1 \in DOMAIN t /\ t[i - 1] = s[i]
      BY <1>1, <1>4, <2>2
    <3> QED BY <3>1 DEF Elements
  <2> QED BY <2>1, <2>2
<1>5. Elements(s) \subseteq Elements(t) \union {h}
  BY <1>4 DEF Elements
<1>6. ASSUME Distinct(s) PROVE Distinct(t) /\ h \notin Elements(t)
  <2>1. \A i \in DOMAIN t : i + 1 \in DOMAIN s /\ t[i] = s[i + 1] /\ i + 1 # 1
    BY <1>1
  <2>2. 1 \in DOMAIN s
    BY <1>1
  <2>3. \A i \in DOMAIN t : t[i] # h
    BY <1>2, <1>6, <2>1, <2>2 DEF Distinct
  <2>4. \A i, j \in DOMAIN t : i \in Nat /\ j \in Nat /\ (i + 1 = j + 1 => i = j)
    BY <1>1
  <2>5. Distinct(t)
    BY <1>6, <2>1, <2>4 DEF Distinct
  <2> QED BY <2>3, <2>5 DEF Elements
<1> QED BY <1>1, <1>2, <1>3, <1>5, <1>6 DEF t, h, Elements

(* The commands that wait are the elements of the queue. *)
LEMMA QueuedIsElements == Queued = Elements(queue)
BY DEF Queued, Elements

-----------------------------------------------------------------------------
(* Type correctness *)

(* The mark of a request that sent nothing is well typed. *)
LEMMA NoBodyType == NoBody \in Bodies
BY BudgetAssumption DEF NoBody, Bodies, MaxAge

(* Forgetting what was sent keeps the type, and is all that happens.       *)
LEMMA ForgetType ==
  ASSUME TypeOK, NEW S, Forget(S)
  PROVE  /\ body' \in [Commands -> Bodies]
         /\ \A c \in Commands : body'[c] = IF c \in S THEN NoBody ELSE body[c]
BY NoBodyType DEF TypeOK, Forget

(* The worker's deadline, whatever the workload, is a time within the bound. *)
LEMMA BudgetType ==
  ASSUME TypeOK
  PROVE  ExecutionBudget \in 0..MaxAge /\ MaxAge \in Nat /\ workload \in Nat
BY BudgetAssumption DEF TypeOK, ExecutionBudget, MaxAge

(* A request's status is set, or that of one that waits for an answer.     *)
LEMMA SetType ==
  ASSUME TypeOK, NEW c, NEW o \in Statuses, Set(c, o) \/ Reply(c, o)
  PROVE  status' \in [Commands -> Statuses]
BY DEF TypeOK, Set, Reply

(* Settling an item keeps the types of what it touches. *)
LEMMA SettleType ==
  ASSUME TypeOK, NEW item, NEW o \in Statuses, Settle(item, o)
  PROVE  /\ idleActive' \in BOOLEAN
         /\ status' \in [Commands -> Statuses] /\ body' \in [Commands -> Bodies]
<1>1. body' \in [Commands -> Bodies]
  BY ForgetType DEF Settle
<1>2. status' \in [Commands -> Statuses]
  BY SetType DEF Settle, TypeOK
<1> QED BY <1>1, <1>2 DEF Settle

(* Every step keeps the types. *)
LEMMA TypeInv ==
  ASSUME TypeOK, [Next]_vars
  PROVE  TypeOK'
<1> USE DEF TypeOK
<1>1. Inspected \in {"healthy", "incompatible", "degraded"}
  BY DEF Inspected
<1>2. ASSUME NEW c \in Commands, Probe(c) PROVE TypeOK'
  <2>1. status' \in [Commands -> Statuses]
    BY <1>2, SetType DEF Probe, Statuses
  <2>2. body' \in [Commands -> Bodies]
    <3>1. CASE body' = [body EXCEPT ![c].expected = Version[runtime]]
      <4>1. Version[runtime] \in Versions
        BY DEF Versions
      <4> QED BY <3>1, <4>1 DEF Bodies
    <3>2. CASE Forget({c})
      BY <3>2, ForgetType
    <3> QED BY <1>2, <3>1, <3>2 DEF Probe
  <2> QED BY <1>1, <1>2, <2>1, <2>2 DEF Probe
<1>3. ASSUME NEW c \in Commands, Direct(c) PROVE TypeOK'
  BY <1>3 DEF Direct, Set, Statuses, daemon
<1>4. ASSUME NEW c \in Commands, Send(c) PROVE TypeOK'
  <2>1. status' \in [Commands -> Statuses]
    BY <1>4, SetType DEF Send, Statuses
  <2>2. body' \in [Commands -> Bodies]
    <3>1. CASE body' = [body EXCEPT ![c].budget = ExecutionBudget]
      BY <3>1, BudgetType DEF Bodies
    <3>2. CASE Forget({c})
      BY <3>2, ForgetType
    <3> QED BY <1>4, <3>1, <3>2 DEF Send
  <2> QED BY <1>1, <1>4, <2>1, <2>2 DEF Send
<1>5. ASSUME NEW c \in Commands, GiveUp(c) \/ Interrupt(c) \/ BodyFails(c) PROVE TypeOK'
  <2>1. status' \in [Commands -> Statuses]
    BY <1>5, SetType DEF GiveUp, Interrupt, BodyFails, Statuses
  <2>2. body' \in [Commands -> Bodies]
    BY <1>5, ForgetType DEF GiveUp, Interrupt, BodyFails
  <2> QED BY <1>5, <2>1, <2>2 DEF GiveUp, Interrupt, BodyFails, daemon
<1>6. ASSUME NEW c \in Commands, Admit(c) PROVE TypeOK'
  <2>1. status' \in [Commands -> Statuses]
    BY <1>6, SetType DEF Admit, Statuses
  <2>2. body' \in [Commands -> Bodies]
    BY <1>6, ForgetType DEF Admit
  <2>3. queue' \in Seq(Items)
    <3>1. Append(queue, c) \in Seq(Items)
      BY AppendElements DEF Items
    <3> QED BY <1>6, <3>1 DEF Admit
  <2> QED BY <1>6, <2>1, <2>2, <2>3 DEF Admit
<1>7. ASSUME NEW s \in Snapshots, SnapshotArrives(s) \/ SnapshotEnds(s) PROVE TypeOK'
  BY <1>1, <1>7 DEF SnapshotArrives, SnapshotEnds, client
<1>8. CASE TimerFires
  <2>1. Append(queue, Timer) \in Seq(Items)
    BY AppendElements DEF Items
  <2> QED BY <1>8, <2>1 DEF TimerFires, client
<1>9. CASE Launch
  <2> DEFINE item == Head(queue)
  <2>1. item \in Items /\ queue' \in Seq(Items)
    BY <1>9, TailElements DEF Launch, Ready
  <2>2. health' \in {"healthy", "incompatible", "degraded"}
    BY <1>1, <1>9 DEF Launch
  <2>3. CASE Settle(item, "failed") /\ UNCHANGED <<worker, ran, allowance>>
    <3>1. /\ idleActive' \in BOOLEAN
          /\ status' \in [Commands -> Statuses] /\ body' \in [Commands -> Bodies]
      BY <2>3, SettleType DEF Statuses
    <3> QED BY <1>9, <2>1, <2>2, <2>3, <3>1 DEF Launch
  <2>4. CASE /\ worker' = item /\ ran' = 0
             /\ allowance' = IF item = Timer THEN 0 ELSE ExecutionBudget
             /\ UNCHANGED <<idleActive, client>>
    BY <1>9, <2>1, <2>2, <2>4, BudgetType DEF Launch, client
  <2> QED BY <1>9, <2>3, <2>4 DEF Launch
<1>10. CASE Begin
  <2>1. CASE installed = runtime
    BY <1>10, <2>1 DEF Begin, client, Effects
  <2>2. CASE installed # runtime
    <3>1. /\ idleActive' \in BOOLEAN
          /\ status' \in [Commands -> Statuses] /\ body' \in [Commands -> Bodies]
      BY <1>10, <2>2, SettleType DEF Begin, Statuses
    <3>2. 0 \in 0..MaxAge
      BY BudgetAssumption DEF MaxAge
    <3> QED BY <1>10, <2>2, <3>1, <3>2 DEF Begin, NoWorker
  <2> QED BY <2>1, <2>2
<1>11. CASE Finish
  <2>1. /\ idleActive' \in BOOLEAN
        /\ status' \in [Commands -> Statuses] /\ body' \in [Commands -> Bodies]
    BY <1>11, SettleType DEF Finish, Statuses
  <2>2. 0 \in 0..MaxAge
    BY BudgetAssumption DEF MaxAge
  <2> QED BY <1>11, <2>1, <2>2 DEF Finish, NoWorker
<1>12. CASE Stop \/ Drain
  BY <1>12 DEF Stop, Drain, client, Phases
<1>13. CASE Close \/ Crash
  <2>1. status' \in [Commands -> Statuses]
    BY <1>13 DEF Close, Crash, Disconnect, Statuses
  <2>2. body' \in [Commands -> Bodies]
    BY <1>13, ForgetType DEF Close, Crash
  <2>3. 0 \in 0..MaxAge
    BY BudgetAssumption DEF MaxAge
  <2>4. queue' \in Seq(Items)
    BY <1>13, EmptySeq DEF Close, Crash
  <2> QED BY <1>13, <2>1, <2>2, <2>3, <2>4 DEF Close, Crash, NoWorker, Phases
<1>14. CASE Restart
  BY <1>14 DEF Restart, client, Phases
<1>15. CASE Reinstall \/ WorkloadChanges
  BY <1>15 DEF Reinstall, WorkloadChanges, daemon, client
<1>16. CASE Tick
  <2>1. ran' \in 0..MaxAge
    BY <1>16, BudgetType DEF Tick
  <2>2. body' \in [Commands -> Bodies]
    <3>1. ASSUME NEW c \in Commands, Aging(c)
          PROVE  [body[c] EXCEPT !.age = @ + 1] \in Bodies
      <4>1. body[c] \in Bodies /\ body[c].age + 1 \in 0..MaxAge
        BY <3>1, BudgetType DEF Aging, Bodies
      <4> QED BY <4>1 DEF Bodies
    <3> QED BY <1>16, <3>1 DEF Tick
  <2> QED BY <1>16, <2>1, <2>2 DEF Tick
<1>17. CASE UNCHANGED vars
  BY <1>17 DEF vars, daemon, client
<1> QED
  BY <1>2, <1>3, <1>4, <1>5, <1>6, <1>7, <1>8, <1>9, <1>10, <1>11, <1>12, <1>13, <1>14,
     <1>15, <1>16, <1>17 DEF Next

-----------------------------------------------------------------------------
(* The invariant, part by part. *)

(* The steps that only clients, installers and the clock take, and those   *)
(* of snapshots and of a stop, leave the queue alone.                      *)
Aside ==
  \/ \E c \in Commands :
       Probe(c) \/ Direct(c) \/ Send(c) \/ GiveUp(c) \/ Interrupt(c) \/ BodyFails(c)
  \/ \E s \in Snapshots : SnapshotArrives(s) \/ SnapshotEnds(s)
  \/ Stop \/ Drain \/ Close \/ Restart \/ Reinstall \/ WorkloadChanges \/ Tick

(* The steps of clients, snapshots and files leave the serial lane alone. *)
LEMMA AsideKeeps ==
  ASSUME Aside \/ UNCHANGED vars
  PROVE  UNCHANGED <<queue, worker, working, idleActive, allowance, executed>>
<1>1. CASE \E c \in Commands :
              Probe(c) \/ Direct(c) \/ Send(c) \/ GiveUp(c) \/ Interrupt(c) \/ BodyFails(c)
  BY <1>1 DEF Probe, Direct, Send, GiveUp, Interrupt, BodyFails, daemon
<1>2. CASE \E s \in Snapshots : SnapshotArrives(s) \/ SnapshotEnds(s)
  BY <1>2 DEF SnapshotArrives, SnapshotEnds
<1>3. CASE \/ Stop \/ Drain \/ Close \/ Restart \/ Reinstall \/ WorkloadChanges \/ Tick
           \/ UNCHANGED vars
  BY <1>3 DEF Stop, Drain, Close, Restart, Reinstall, WorkloadChanges, Tick, vars, daemon
<1> QED BY <1>1, <1>2, <1>3 DEF Aside

(* A command that arrives is in no place yet. *)
LEMMA ArrivalIsNew ==
  ASSUME RequestsOK, NEW c \in Commands, status[c] = "arrived"
  PROVE  c \notin Queued /\ c # worker /\ c \notin Admitted
BY NamesAssumption DEF RequestsOK, RequestOK, Admitted

(* What the queue hands on leaves it. *)
LEMMA LaunchTakes ==
  ASSUME TypeOK, Distinct(queue), Launch
  PROVE  /\ Head(queue) \in Items /\ worker = Nothing
         /\ Queued = Queued' \union {Head(queue)} /\ Head(queue) \notin Queued'
         /\ Distinct(queue')
<1>1. queue \in Seq(Items) /\ queue # <<>> /\ queue' = Tail(queue) /\ worker = Nothing
  BY DEF TypeOK, Launch, Ready
<1>2. /\ Head(queue) \in Items
      /\ Elements(queue) = Elements(queue') \union {Head(queue)}
      /\ Distinct(queue') /\ Head(queue) \notin Elements(queue')
  BY <1>1, TailElements
<1> QED BY <1>1, <1>2 DEF Queued, Elements

(* Every step keeps the queue free of repetitions. *)
LEMMA QueueInv ==
  ASSUME TypeOK, QueueOK, RequestsOK, [Next]_vars
  PROVE  QueueOK'
<1> USE NamesAssumption DEF TypeOK
<1>1. CASE Aside \/ UNCHANGED vars
  BY <1>1, AsideKeeps DEF QueueOK, Queued, Admitted
<1>2. ASSUME NEW c \in Commands, Admit(c) PROVE QueueOK'
  <2>1. CASE queue' = Append(queue, c)
    <3>1. c \notin Queued /\ c # worker
      BY <1>2, ArrivalIsNew DEF Admit
    <3>2. Queued' = Queued \union {c} /\ Distinct(queue')
      BY <2>1, <3>1, AppendElements, QueuedIsElements, c \in Items
      DEF QueueOK, Queued, Elements, Items
    <3> QED BY <1>2, <3>1, <3>2 DEF QueueOK, Admit, Admitted
  <2>2. CASE UNCHANGED queue
    BY <1>2, <2>2 DEF QueueOK, Admit, Admitted, Queued
  <2> QED BY <1>2, <2>1, <2>2 DEF Admit
<1>3. CASE TimerFires
  <2>1. Timer \notin Queued /\ Timer # worker
    BY <1>3 DEF TimerFires, TimerDue, QueueOK, Admitted
  <2>2. Queued' = Queued \union {Timer} /\ Distinct(queue')
    BY <1>3, <2>1, AppendElements, Timer \in Items
    DEF TimerFires, QueueOK, Queued, Elements, Items
  <2> QED BY <1>3, <2>1, <2>2 DEF QueueOK, TimerFires, Admitted
<1>4. CASE Launch
  <2> DEFINE item == Head(queue)
  <2>1. /\ Queued = Queued' \union {item} /\ item \notin Queued'
        /\ Distinct(queue') /\ item \in Items
    BY <1>4, LaunchTakes DEF QueueOK
  <2>2. worker = Nothing /\ working' = working
    BY <1>4 DEF Launch, Ready
  <2>3. CASE worker' = item /\ idleActive' = idleActive
    BY <2>1, <2>2, <2>3 DEF QueueOK, Admitted
  <2>4. CASE worker' = worker /\ idleActive' = (idleActive /\ item # Timer)
    BY <2>1, <2>2, <2>4 DEF QueueOK, Admitted
  <2> QED BY <1>4, <2>3, <2>4 DEF Launch, Settle
<1>5. CASE Begin \/ Finish
  <2>1. UNCHANGED queue
    BY <1>5 DEF Begin, Finish
  <2>2. CASE worker' = Nothing /\ working' = FALSE /\ idleActive' = (idleActive /\ worker # Timer)
    BY <2>1, <2>2 DEF QueueOK, Queued, Admitted, Items
  <2>3. CASE UNCHANGED <<worker, idleActive>> /\ worker # Nothing
    BY <2>1, <2>3 DEF QueueOK, Queued, Admitted
  <2> QED BY <1>5, <2>2, <2>3 DEF Begin, Finish, Settle, NoWorker
<1>6. CASE Crash
  <2>1. Queued' = {} /\ Distinct(queue')
    BY <1>6 DEF Crash, Queued, Distinct
  <2> QED BY <1>6, <2>1 DEF Crash, QueueOK, Admitted, NoWorker
<1> QED BY <1>1, <1>2, <1>3, <1>4, <1>5, <1>6 DEF Next, Aside

(* What settling an item does to the requests. *)
LEMMA SettleKeeps ==
  ASSUME TypeOK, NEW item \in Items, NEW o \in Statuses, Settle(item, o)
  PROVE  \A c \in Commands :
           /\ c # item => status'[c] = status[c] /\ body'[c] = body[c]
           /\ c = item => status'[c] = IF Connected(c) THEN o ELSE status[c]
BY NamesAssumption, ForgetType DEF TypeOK, Settle, Reply, Items

(* A client does not run out of patience while the worker is at its command. *)
LEMMA PatienceLasts ==
  ASSUME TypeOK, WorkerOK, NEW c \in Commands, c = worker
  PROVE  ~ GiveUp(c)
<1>1. /\ ran \in Nat /\ allowance \in Nat /\ QueueBudget \in Nat
      /\ body[c].age \in Nat /\ body[c].budget \in Nat
  BY BudgetAssumption DEF TypeOK, Bodies, MaxAge
<1>2. body[c].age <= QueueBudget + body[c].budget
  BY <1>1 DEF WorkerOK
<1> QED BY <1>1, <1>2 DEF GiveUp

(* Every step keeps each request where its status says it is. *)
LEMMA RequestsInv ==
  ASSUME IInv, [Next]_vars
  PROVE  RequestsOK'
<1> USE NamesAssumption DEF IInv
<1> SUFFICES ASSUME NEW c \in Commands PROVE RequestOK(c)'
  BY DEF RequestsOK
<1>0. /\ RequestOK(c) /\ c # Timer /\ c # Nothing
      /\ status \in [Commands -> Statuses] /\ body \in [Commands -> Bodies]
  BY DEF RequestsOK, TypeOK
<1>1. ASSUME NEW d \in Commands,
             Probe(d) \/ Direct(d) \/ Send(d) \/ GiveUp(d) \/ Interrupt(d) \/ BodyFails(d)
      PROVE  RequestOK(c)'
  <2>1. UNCHANGED <<Queued, Admitted, executed, runtime>>
    BY <1>1, AsideKeeps
    DEF Aside, Probe, Direct, Send, GiveUp, Interrupt, BodyFails, daemon, Queued, Admitted
  <2>2. CASE c # d
    <3>1. status'[c] = status[c] /\ body'[c] = body[c]
      BY <1>0, <1>1, <2>2
      DEF Probe, Direct, Send, GiveUp, Interrupt, BodyFails, Set, Forget
    <3> QED BY <1>0, <2>1, <3>1 DEF RequestOK
  <2>3. CASE c = d /\ (Probe(d) \/ Direct(d) \/ Send(d) \/ BodyFails(d))
    <3>1. /\ status[c] \in {"new", "probed", "arrived"}
          /\ status'[c] \in {"probed", "arrived", "direct", "failed", "gone"}
      BY <1>0, <2>3 DEF Probe, Direct, Send, BodyFails, Set
    <3> QED BY <1>0, <2>1, <3>1 DEF RequestOK, Admitted
  <2>4. CASE c = d /\ Interrupt(d)
    <3>1. /\ status[c] \in {"arrived", "queued"} /\ status'[c] = "gone"
          /\ c \in Admitted => body'[c] = body[c]
      BY <1>0, <2>4 DEF Interrupt, Set, Connected, Forget
    <3> QED BY <1>0, <2>1, <3>1 DEF RequestOK, Admitted
  <2>5. CASE c = d /\ GiveUp(d)
    <3>1. /\ status[c] \in {"arrived", "queued"} /\ status'[c] = "failed"
          /\ body[c].age > QueueBudget + body[c].budget
          /\ c \in Admitted => body'[c] = body[c]
      BY <1>0, <2>5 DEF GiveUp, Set, Connected, Forget
    <3>2. c # worker
      BY <2>5, PatienceLasts
    <3> QED BY <1>0, <2>1, <3>1, <3>2 DEF RequestOK, Admitted
  <2> QED BY <1>1, <2>2, <2>3, <2>4, <2>5
<1>2. ASSUME NEW d \in Commands, Admit(d) PROVE RequestOK(c)'
  <2>1. UNCHANGED <<worker, executed, runtime>>
    BY <1>2 DEF Admit
  <2>2. CASE Accepted(d)
    <3>1. d \notin Queued /\ d # worker
      BY <1>2, ArrivalIsNew DEF Admit
    <3>2. queue' = Append(queue, d) /\ status' = [status EXCEPT ![d] = "queued"] /\ body' = body
      BY <1>2, <2>2 DEF Admit, Set
    <3>3. Queued' = Queued \union {d}
      <4>1. Elements(queue') = Elements(queue) \union {d}
        BY <3>2, AppendElements, d \in Items DEF TypeOK, Items
      <4> QED BY <4>1 DEF Queued, Elements
    <3>4. body[d].expected = Version[runtime]
      BY <2>2 DEF Accepted
    <3>5. status[d] = "arrived"
      BY <1>2 DEF Admit
    <3> QED BY <1>0, <2>1, <3>2, <3>3, <3>4, <3>5 DEF RequestOK, Admitted
  <2>3. CASE ~ Accepted(d)
    <3>1. /\ queue' = queue /\ status[d] = "arrived"
          /\ status' = [status EXCEPT ![d] = "failed"]
          /\ c # d => body'[c] = body[c]
      BY <1>2, <2>3 DEF Admit, Set, Forget
    <3> QED BY <1>0, <2>1, <3>1 DEF RequestOK, Admitted, Queued
  <2> QED BY <2>2, <2>3
<1>3. CASE \E s \in Snapshots : SnapshotArrives(s) \/ SnapshotEnds(s)
  BY <1>0, <1>3 DEF SnapshotArrives, SnapshotEnds, client, RequestOK, Admitted, Queued
<1>4. CASE TimerFires
  <2>1. Elements(queue') = Elements(queue) \union {Timer}
    BY <1>4, AppendElements, Timer \in Items DEF TypeOK, TimerFires, Items
  <2>2. Queued' = Queued \union {Timer}
    BY <2>1 DEF Queued, Elements
  <2> QED BY <1>0, <1>4, <2>2 DEF TimerFires, client, RequestOK, Admitted
<1>5. CASE Launch
  <2> DEFINE item == Head(queue)
  <2>1. /\ item \in Items /\ worker = Nothing
        /\ Queued = Queued' \union {item} /\ item \notin Queued'
    BY <1>5, LaunchTakes DEF QueueOK
  <2>2. UNCHANGED <<executed, runtime>>
    BY <1>5 DEF Launch
  <2>3. CASE worker' = item /\ UNCHANGED client
    BY <1>0, <2>1, <2>2, <2>3 DEF RequestOK, Admitted, client
  <2>4. CASE Settle(item, "failed") /\ UNCHANGED worker
    <3>1. /\ c # item => status'[c] = status[c] /\ body'[c] = body[c]
          /\ c = item => status'[c] = IF Connected(c) THEN "failed" ELSE status[c]
      BY <2>1, <2>4, SettleKeeps DEF Statuses
    <3> QED BY <1>0, <2>1, <2>2, <2>4, <3>1 DEF RequestOK, Admitted, Connected
  <2> QED BY <1>5, <2>3, <2>4 DEF Launch
<1>6. CASE Begin \/ Finish
  <2>1. worker \in Items /\ worker \notin Queued /\ UNCHANGED <<queue, runtime>> /\ Queued' = Queued
    BY <1>6 DEF Begin, Finish, QueueOK, TypeOK, Queued
  <2>2. CASE UNCHANGED <<worker, client>> /\ executed' = executed \union Effects(worker)
    BY <1>0, <2>1, <2>2 DEF RequestOK, Admitted, client, Effects, WorkerOK
  <2>3. ASSUME NEW o \in {"failed", "answered"}, Settle(worker, o), worker' = Nothing,
               executed' = executed, o = "failed" => ~working
        PROVE  RequestOK(c)'
    <3>1. /\ c # worker => status'[c] = status[c] /\ body'[c] = body[c]
          /\ c = worker => status'[c] = IF Connected(c) THEN o ELSE status[c]
      BY <2>1, <2>3, SettleKeeps DEF Statuses
    <3> QED BY <1>0, <2>1, <2>3, <3>1 DEF RequestOK, Admitted, Connected, WorkerOK
  <2> QED BY <1>6, <2>2, <2>3 DEF Begin, Finish, NoWorker
<1>7. CASE Stop \/ Drain \/ Reinstall \/ WorkloadChanges \/ UNCHANGED vars
  BY <1>0, <1>7
  DEF Stop, Drain, Reinstall, WorkloadChanges, vars, daemon, client, RequestOK, Admitted, Queued
<1>8. CASE Close \/ Crash
  <2>1. /\ status'[c] = IF Connected(c) THEN "gone" ELSE status[c]
        /\ executed' = executed
    BY <1>8 DEF Close, Crash, Disconnect
  <2>2. Admitted' = {} /\ Queued' = {}
    <3>1. CASE Close
      BY <3>1 DEF Close, PhaseOK, Admitted, Queued
    <3>2. CASE Crash
      BY <3>2 DEF Crash, NoWorker, Admitted, Queued
    <3> QED BY <1>8, <3>1, <3>2
  <2> QED BY <1>0, <2>1, <2>2 DEF RequestOK, Connected
<1>9. CASE Restart
  <2>1. Admitted = {} /\ UNCHANGED <<Admitted, Queued, client, executed>>
    BY <1>9 DEF Restart, PhaseOK, Admitted, Queued
  <2> QED BY <1>0, <2>1 DEF RequestOK, client, Admitted
<1>10. CASE Tick
  <2>1. UNCHANGED <<status, Admitted, Queued, executed, runtime>>
    BY <1>10 DEF Tick, Admitted, Queued
  <2>2. /\ body'[c].expected = body[c].expected /\ body'[c].budget = body[c].budget
        /\ body'[c].age \in {body[c].age, body[c].age + 1}
    BY <1>0, <1>10 DEF Tick, Bodies
  <2>3. body[c].age \in Nat /\ body[c].budget \in Nat /\ QueueBudget \in Nat
    BY <1>0, BudgetAssumption DEF Bodies, MaxAge
  <2> QED BY <1>0, <2>1, <2>2, <2>3 DEF RequestOK
<1> QED BY <1>1, <1>2, <1>3, <1>4, <1>5, <1>6, <1>7, <1>8, <1>9, <1>10 DEF Next

(* Every step keeps the worker's client patient. *)
LEMMA WorkerInv ==
  ASSUME IInv, [Next]_vars
  PROVE  WorkerOK'
<1> USE NamesAssumption DEF IInv
<1>0. /\ status \in [Commands -> Statuses] /\ body \in [Commands -> Bodies]
      /\ QueueBudget \in Nat /\ ran \in Nat /\ allowance \in Nat
  BY BudgetAssumption DEF TypeOK, MaxAge
<1>1. ASSUME NEW d \in Commands,
             Probe(d) \/ Direct(d) \/ Send(d) \/ GiveUp(d) \/ Interrupt(d) \/ BodyFails(d)
      PROVE  WorkerOK'
  <2>1. UNCHANGED <<worker, working, executed, allowance, ran>>
    BY <1>1 DEF Probe, Direct, Send, GiveUp, Interrupt, BodyFails, daemon
  <2>2. CASE d # worker
    <3>1. worker \in Commands => status'[worker] = status[worker] /\ body'[worker] = body[worker]
      BY <1>0, <1>1, <2>2
      DEF Probe, Direct, Send, GiveUp, Interrupt, BodyFails, Set, Forget
    <3> QED BY <2>1, <3>1 DEF WorkerOK
  <2>3. CASE d = worker
    <3>1. d \in Admitted /\ RequestOK(d)
      BY <2>3 DEF Admitted, RequestsOK
    <3>2. status[d] \notin {"new", "probed", "arrived"} /\ ~ GiveUp(d)
      BY <2>3, <3>1, PatienceLasts DEF RequestOK
    <3>3. Interrupt(d)
      BY <1>1, <3>2 DEF Probe, Direct, Send, BodyFails
    <3>4. status'[d] = "gone" /\ body'[d] = body[d]
      BY <1>0, <3>1, <3>3 DEF Interrupt, Set, Forget
    <3> QED BY <2>1, <2>3, <3>4 DEF WorkerOK
  <2> QED BY <2>2, <2>3
<1>2. ASSUME NEW d \in Commands, Admit(d) PROVE WorkerOK'
  <2>1. d # worker /\ UNCHANGED <<worker, working, executed, allowance, ran>>
    BY <1>2, ArrivalIsNew DEF Admit
  <2>2. worker \in Commands => status'[worker] = status[worker] /\ body'[worker] = body[worker]
    BY <1>0, <1>2, <2>1 DEF Admit, Set, Forget
  <2> QED BY <2>1, <2>2 DEF WorkerOK
<1>3. CASE \E s \in Snapshots : SnapshotArrives(s) \/ SnapshotEnds(s)
  BY <1>3 DEF SnapshotArrives, SnapshotEnds, client, WorkerOK
<1>4. CASE TimerFires \/ Stop \/ Drain \/ Restart \/ Reinstall \/ WorkloadChanges \/ UNCHANGED vars
  BY <1>4
  DEF TimerFires, Stop, Drain, Restart, Reinstall, WorkloadChanges, vars, daemon, client, WorkerOK
<1>5. CASE Launch
  <2> DEFINE item == Head(queue)
  <2>1. item \in Items /\ worker = Nothing /\ item \in Queued /\ executed' = executed
    BY <1>5, LaunchTakes DEF QueueOK, Launch
  <2>2. CASE worker' = worker
    BY <2>1, <2>2 DEF WorkerOK, Items
  <2>3. ASSUME item \in Commands, Fresh(item), worker' = item, ran' = 0,
               allowance' = ExecutionBudget, UNCHANGED client
        PROVE  WorkerOK'
    <3>1. item \notin executed /\ status[item] # "failed"
      <4>1. body[item].age \in Nat /\ body[item].budget \in Nat /\ ExecutionBudget \in Nat
        BY <1>0, <2>3, BudgetType, BudgetAssumption DEF Bodies, MaxAge
      <4> QED BY <1>0, <2>1, <2>3, <4>1 DEF RequestsOK, RequestOK, Fresh
    <3>2. /\ body[item].age <= QueueBudget + 0 /\ ExecutionBudget <= body[item].budget
          /\ 0 <= ExecutionBudget
      BY <1>0, <2>3, BudgetType DEF Fresh
    <3> QED BY <2>1, <2>3, <3>1, <3>2 DEF WorkerOK, client
  <2>4. ASSUME item = Timer, worker' = item PROVE WorkerOK'
    BY <2>4 DEF WorkerOK
  <2>5. \/ worker' = worker
        \/ item = Timer /\ worker' = item
        \/ /\ item # Timer /\ Fresh(item) /\ worker' = item /\ ran' = 0
           /\ allowance' = ExecutionBudget /\ UNCHANGED client
    BY <1>5 DEF Launch
  <2> QED BY <2>1, <2>2, <2>3, <2>4, <2>5 DEF Items
<1>6. CASE Begin \/ Finish
  <2>1. CASE worker' = Nothing
    BY <2>1 DEF WorkerOK
  <2>2. CASE working' = TRUE /\ UNCHANGED <<worker, ran, allowance, client>>
    BY <2>2 DEF WorkerOK, client
  <2> QED BY <1>6, <2>1, <2>2 DEF Begin, Finish, NoWorker
<1>7. CASE Close
  <2>1. worker \notin Commands /\ worker' = worker
    BY <1>7 DEF Close, PhaseOK, Admitted
  <2> QED BY <2>1 DEF WorkerOK
<1>8. CASE Crash
  BY <1>8 DEF Crash, NoWorker, WorkerOK
<1>9. CASE Tick
  <2>1. UNCHANGED <<status, worker, working, executed, allowance>>
    BY <1>9 DEF Tick
  <2>2. ASSUME worker \in Commands PROVE WorkerOK'
    <3>1. body'[worker].budget = body[worker].budget
          /\ body'[worker].age \in {body[worker].age, body[worker].age + 1}
      BY <1>0, <1>9, <2>2 DEF Tick, Bodies
    <3>2. body[worker].age \in Nat /\ body[worker].budget \in Nat
      BY <1>0, <2>2, BudgetAssumption DEF Bodies, MaxAge
    <3>3. ran' = ran + 1 /\ ran < allowance
      BY <1>9, <2>2 DEF Tick
    <3> QED BY <1>0, <2>1, <2>2, <3>1, <3>2, <3>3 DEF WorkerOK
  <2> QED BY <2>1, <2>2 DEF WorkerOK
<1> QED BY <1>1, <1>2, <1>3, <1>4, <1>5, <1>6, <1>7, <1>8, <1>9 DEF Next

(* What is admitted is a command or the idle timer's item. *)
LEMMA AdmittedItems == TypeOK => Admitted \subseteq Items
<1> SUFFICES ASSUME TypeOK PROVE Queued \subseteq Items
  BY DEF TypeOK, Admitted
<1>1. \A i \in DOMAIN queue : queue[i] \in Items
  BY LenProperties, ElementOfSeq DEF TypeOK
<1> QED BY <1>1 DEF Queued

(* Every step keeps the order of the shutdown. *)
LEMMA PhaseInv ==
  ASSUME IInv, [Next]_vars
  PROVE  PhaseOK'
<1> USE NamesAssumption DEF IInv
<1>1. CASE Stop
  BY <1>1 DEF Stop, PhaseOK
<1>2. CASE Drain
  <2>1. UNCHANGED <<Admitted, idleActive>>
    BY <1>2 DEF Drain, Admitted, Queued
  <2>2. CASE phase = "awaitIdle" /\ ~idleActive /\ phase' = "awaitCommands"
    BY <2>1, <2>2 DEF PhaseOK
  <2>3. CASE /\ phase = "awaitCommands" /\ Admitted \intersect Commands = {}
             /\ phase' = "awaitSnapshots"
    <3>1. Timer \notin Admitted
      BY <2>3 DEF PhaseOK, QueueOK
    <3>2. Admitted = {}
      BY <2>3, <3>1, AdmittedItems DEF Items
    <3> QED BY <2>1, <2>3, <3>2 DEF PhaseOK
  <2> QED BY <1>2, <2>2, <2>3 DEF Drain
<1>3. CASE Close
  BY <1>3 DEF Close, PhaseOK, Admitted, Queued
<1>4. CASE Crash
  BY <1>4 DEF Crash, PhaseOK, Admitted, Queued, NoWorker
<1>5. CASE Restart
  BY <1>5 DEF Restart, PhaseOK
<1>6. ASSUME NEW c \in Commands, Admit(c) PROVE PhaseOK'
  <2>1. CASE Accepted(c)
    BY <1>6, <2>1 DEF Admit, Accepted, PhaseOK
  <2>2. CASE ~ Accepted(c)
    BY <1>6, <2>2 DEF Admit, PhaseOK, Admitted, Queued
  <2> QED BY <2>1, <2>2
<1>7. ASSUME NEW s \in Snapshots, SnapshotArrives(s) \/ SnapshotEnds(s) PROVE PhaseOK'
  BY <1>7 DEF SnapshotArrives, SnapshotEnds, PhaseOK, Admitted, Queued
<1>8. CASE TimerFires
  BY <1>8 DEF TimerFires, TimerDue, PhaseOK
<1>9. CASE Launch
  <2>1. Admitted # {}
    BY <1>9, LaunchTakes DEF QueueOK, Admitted
  <2>2. phase' = phase /\ (idleActive' => idleActive)
    BY <1>9 DEF Launch, Settle
  <2> QED BY <2>1, <2>2 DEF PhaseOK
<1>10. CASE Begin \/ Finish
  <2>1. Admitted # {}
    BY <1>10 DEF Begin, Finish, QueueOK, Admitted
  <2>2. phase' = phase /\ (idleActive' => idleActive)
    BY <1>10 DEF Begin, Finish, Settle
  <2> QED BY <2>1, <2>2 DEF PhaseOK
<1>11. CASE \/ \E c \in Commands :
                 Probe(c) \/ Direct(c) \/ Send(c) \/ GiveUp(c) \/ Interrupt(c) \/ BodyFails(c)
            \/ Reinstall \/ WorkloadChanges \/ Tick \/ UNCHANGED vars
  <2>1. UNCHANGED <<phase, idleActive, snapshots, queue, worker>>
    BY <1>11 DEF Probe, Direct, Send, GiveUp, Interrupt, BodyFails, Reinstall,
         WorkloadChanges, Tick, vars, daemon
  <2> QED BY <2>1 DEF PhaseOK, Admitted, Queued
<1> QED BY <1>1, <1>2, <1>3, <1>4, <1>5, <1>6, <1>7, <1>8, <1>9, <1>10, <1>11 DEF Next

(* The invariant holds at first and is kept. *)
LEMMA InitInv == Init => IInv
<1> SUFFICES ASSUME Init PROVE IInv
  OBVIOUS
<1> USE NamesAssumption, BudgetAssumption DEF Init
<1>1. TypeOK
  <2>1. 0 \in 0..MaxAge
    BY DEF MaxAge
  <2>2. queue \in Seq(Items)
    BY EmptySeq
  <2> QED BY <2>1, <2>2, NoBodyType DEF TypeOK, Phases, Statuses
<1>2. Queued = {} /\ Admitted = {}
  BY DEF Queued, Admitted
<1>3. QueueOK /\ WorkerOK /\ PhaseOK
  BY <1>2 DEF QueueOK, WorkerOK, PhaseOK, Distinct
<1>4. RequestsOK
  BY <1>2 DEF RequestsOK, RequestOK
<1> QED BY <1>1, <1>3, <1>4 DEF IInv

(* Every step keeps the inductive invariant. *)
LEMMA NextInv == IInv /\ [Next]_vars => IInv'
BY TypeInv, QueueInv, RequestsInv, WorkerInv, PhaseInv DEF IInv

(* The inductive invariant holds in every reachable state. *)
LEMMA Invariance == Spec => []IInv
BY InitInv, NextInv, PTL DEF Spec

-----------------------------------------------------------------------------
(* What is true of every behaviour. *)

(* Every part of the service's state has its type, for all constants.      *)
THEOREM TypeCorrect == Spec => []TypeOK
BY Invariance, PTL DEF IInv

(* A command whose client heard of a failure before it began, or lost      *)
(* patience, has not run.                                                  *)
THEOREM Untouched == Spec => []FailureMeansUntouched
<1>1. IInv => FailureMeansUntouched
  BY DEF IInv, RequestsOK, RequestOK, FailureMeansUntouched
<1> QED BY <1>1, Invariance, PTL

(* A stop answers what was admitted before anything is closed.             *)
THEOREM Drained == Spec => []DrainComplete
<1>1. IInv => DrainComplete
  BY DEF IInv, PhaseOK, RequestsOK, RequestOK, DrainComplete
<1> QED BY <1>1, Invariance, PTL

(* Only the worker executes, and only what it was handed. *)
LEMMA OnlyBeginExecutes ==
  ASSUME [Next]_vars, NEW c \in executed' \ executed
  PROVE  Begin /\ installed = runtime /\ c \in Effects(worker)
<1>1. CASE Begin
  BY <1>1 DEF Begin
<1>2. CASE Aside \/ UNCHANGED vars
  BY <1>2, AsideKeeps
<1>3. CASE TimerFires \/ Launch \/ Finish \/ Crash \/ \E d \in Commands : Admit(d)
  BY <1>3 DEF TimerFires, Launch, Finish, Crash, Admit
<1> QED BY <1>1, <1>2, <1>3 DEF Next, Aside

(* A command runs in a service of the version its client probed, while the *)
(* runtime of that service is the one on disk.                             *)
THEOREM RunsInProbedService == Spec => RunsWhatWasProbed
<1> DEFINE A == \A c \in executed' \ executed :
                  body[c].expected = Version[runtime] /\ installed = runtime
<1>1. ASSUME IInv, [Next]_vars PROVE A
  <2> SUFFICES ASSUME NEW c \in executed' \ executed
               PROVE  body[c].expected = Version[runtime] /\ installed = runtime
    OBVIOUS
  <2>1. c = worker /\ c \in Commands /\ installed = runtime /\ worker # Nothing
    BY <1>1, OnlyBeginExecutes DEF Effects, Begin
  <2>2. c \in Admitted
    BY <2>1 DEF Admitted
  <2> QED BY <1>1, <2>1, <2>2 DEF IInv, RequestsOK, RequestOK
<1> QED BY <1>1, Invariance, PTL DEF Spec, RunsWhatWasProbed

(* An unhealthy service starts nothing and stays unhealthy.                *)
THEOREM StaysClosed == Spec => FailsClosed
<1> DEFINE A == health # "healthy" =>
                  /\ worker' # Nothing => worker' = worker
                  /\ snapshots' \subseteq snapshots
                  /\ health' = "healthy" => phase = "closed"
<1>1. ASSUME IInv, [Next]_vars PROVE A
  <2> SUFFICES ASSUME health # "healthy"
               PROVE  /\ worker' # Nothing => worker' = worker
                      /\ snapshots' \subseteq snapshots
                      /\ health' = "healthy" => phase = "closed"
    OBVIOUS
  <2>0. Inspected # "healthy"
    BY DEF Inspected
  <2>1. CASE \E c \in Commands :
               \/ Probe(c) \/ Direct(c) \/ Send(c) \/ GiveUp(c) \/ Interrupt(c)
               \/ BodyFails(c) \/ Admit(c)
    BY <2>0, <2>1 DEF Probe, Direct, Send, GiveUp, Interrupt, BodyFails, Admit, daemon
  <2>2. CASE \E s \in Snapshots : SnapshotArrives(s) \/ SnapshotEnds(s)
    BY <2>0, <2>2 DEF SnapshotArrives, SnapshotEnds
  <2>3. CASE Launch
    BY <2>0, <2>3 DEF Launch
  <2>4. CASE Begin \/ Finish
    BY <2>4 DEF Begin, Finish, NoWorker
  <2>5. CASE TimerFires \/ Stop \/ Drain \/ Close \/ Crash \/ Restart
    BY <2>0, <2>5 DEF TimerFires, Stop, Drain, Close, Crash, Restart, NoWorker
  <2>6. CASE Reinstall \/ WorkloadChanges \/ Tick \/ UNCHANGED vars
    BY <2>6 DEF Reinstall, WorkloadChanges, Tick, vars, daemon
  <2> QED BY <1>1, <2>1, <2>2, <2>3, <2>4, <2>5, <2>6 DEF Next
<1> QED BY <1>1, Invariance, PTL DEF Spec, FailsClosed

-----------------------------------------------------------------------------
(* ServiceQueue implements SerialWork. *)

(* A step of the queue is a step of SerialWork or changes nothing it sees. *)
LEMMA SerialStep ==
  ASSUME IInv, [Next]_vars
  PROVE  [Serial!SNext]_(Serial!svars)
<1> USE NamesAssumption DEF IInv
<1>1. Serial!Items = Items /\ Serial!Waiting = Queued /\ Timer \in Items /\ Nothing \notin Items
  BY DEF Serial!Items, Items, Serial!Waiting, Queued
<1>2. CASE Aside \/ UNCHANGED vars
  BY <1>2, AsideKeeps DEF Serial!svars
<1>3. ASSUME NEW c \in Commands, Admit(c) PROVE [Serial!SNext]_(Serial!svars)
  <2>1. CASE Accepted(c)
    <3>1. c \notin Queued /\ c # worker
      BY <1>3, ArrivalIsNew DEF Admit
    <3>2. c \notin executed
      BY <1>3 DEF Admit, RequestsOK, RequestOK
    <3>3. queue' = Append(queue, c) /\ UNCHANGED <<worker, executed>>
      BY <1>3, <2>1 DEF Admit
    <3>4. Serial!SAdmit(c)
      BY <1>1, <3>1, <3>2, <3>3 DEF Serial!SAdmit
    <3> QED BY <1>1, <3>4 DEF Serial!SNext, Items
  <2>2. CASE ~ Accepted(c)
    BY <1>3, <2>2 DEF Admit, Serial!svars
  <2> QED BY <2>1, <2>2
<1>4. CASE TimerFires
  <2>1. Timer \notin Queued /\ Timer # worker /\ Timer \notin executed
    BY <1>4 DEF TimerFires, TimerDue, QueueOK, Admitted, TypeOK
  <2>2. Serial!SAdmit(Timer)
    BY <1>1, <1>4, <2>1 DEF TimerFires, Serial!SAdmit
  <2> QED BY <1>1, <2>2 DEF Serial!SNext
<1>5. CASE Launch
  <2>1. Serial!STake \/ Serial!SDrop
    BY <1>5 DEF Launch, Ready, Serial!STake, Serial!SDrop
  <2> QED BY <2>1 DEF Serial!SNext
<1>6. CASE Begin
  <2>1. worker \in Items /\ worker \notin executed
    BY <1>6 DEF Begin, TypeOK, WorkerOK, Items
  <2>2. CASE installed = runtime
    <3>1. Serial!SPerform
      BY <1>1, <1>6, <2>1, <2>2 DEF Begin, Effects, Serial!SPerform
    <3> QED BY <3>1 DEF Serial!SNext
  <2>3. CASE installed # runtime
    <3>1. Serial!SFinish
      BY <1>6, <2>3 DEF Begin, NoWorker, Serial!SFinish
    <3> QED BY <3>1 DEF Serial!SNext
  <2> QED BY <2>2, <2>3
<1>7. CASE Finish
  <2>1. Serial!SFinish
    BY <1>7 DEF Finish, NoWorker, QueueOK, Serial!SFinish
  <2> QED BY <2>1 DEF Serial!SNext
<1>8. CASE Crash
  <2>1. Serial!SDie
    BY <1>8 DEF Crash, NoWorker, Serial!SDie
  <2> QED BY <2>1 DEF Serial!SNext
<1> QED BY <1>2, <1>3, <1>4, <1>5, <1>6, <1>7, <1>8 DEF Next, Aside

(* The queue of the service is a serial one: in admission order, one at a  *)
(* time, no command twice, whatever expires, fails, stops or crashes.      *)
THEOREM QueueIsSerial == Spec => ImplementsSerialWork
<1>1. Init => Serial!SInit
  BY DEF Init, Serial!SInit
<1>2. IInv /\ [Next]_vars => [Serial!SNext]_(Serial!svars)
  BY SerialStep
<1> QED BY <1>1, <1>2, Invariance, PTL DEF Spec, ImplementsSerialWork, Serial!SSpec
=============================================================================
