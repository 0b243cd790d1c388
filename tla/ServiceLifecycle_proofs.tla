------------------------ MODULE ServiceLifecycle_proofs ------------------------
(***************************************************************************)
(* Proofs about ServiceLifecycle, for any number of services and commands. *)
(* The startup lock keeps everybody but its holder from listening, so what *)
(* the probe of a startup found is still so when it removes the socket.    *)
(***************************************************************************)
EXTENDS ServiceLifecycle, FiniteSetTheorems, TLAPS

(* Before a process has bound the socket.                                  *)
Unbound == {"off", "lock", "probe", "unlink", "reconcile", "listen"}

(* Who is starting holds the startup lock.                                 *)
LockOK == \A d \in Daemons : pc[d] \in Starting => lock = d

(* A socket file was bound by its process.                                 *)
SocketOK == socket # None => pc[socket] \notin Unbound

(* What the probe of a startup found stays so until it listens itself.     *)
ProbeOK == \A d \in Daemons : pc[d] \in {"unlink", "reconcile", "listen"} => ~SomebodyListens

(* Files that are removed at once are those of nobody who listens.         *)
PromptOK ==
  ~late =>
    /\ \A d \in Daemons :
         /\ Listening(d) => socket = d
         /\ pc[d] = "serving" => metadata = d
         /\ pc[d] \notin Removing
    /\ \A l \in Launchers : ~At(l, "removeMetadata") /\ ~At(l, "removeSocket")

(* The inductive invariant. *)
IInv == TypeOK /\ LockOK /\ SocketOK /\ ProbeOK /\ PromptOK

-----------------------------------------------------------------------------
(* A move of a command or of a service keeps their types. *)
LEMMA MoveType ==
  ASSUME TypeOK, NEW l \in Launchers, NEW place \in CliPlaces, Move(l, place)
  PROVE  cli' \in [Launchers -> CliPlaces \X BOOLEAN]
BY DEF TypeOK, Move

(* A step of one process, and the others. *)
LEMMA GoType ==
  ASSUME TypeOK, NEW d \in Daemons, NEW place \in Places, Go(d, place)
  PROVE  /\ pc' \in [Daemons -> Places]
         /\ \A e \in Daemons : pc'[e] = IF e = d THEN place ELSE pc[e]
BY DEF TypeOK, Go

(* Every step keeps the types. *)
LEMMA TypeInv ==
  ASSUME TypeOK, [Next]_vars
  PROVE  TypeOK'
<1> USE DEF TypeOK, Places, CliPlaces, Starting, Removing, Go, Unlock, Move, At
<1>1. ASSUME NEW d \in Daemons,
             \/ AcquireStartLock(d) \/ LockTimesOut(d) \/ RemoveStaleSocket(d)
             \/ ReconcileAtStart(d) \/ Listen(d) \/ Announce(d)
      PROVE  TypeOK'
  BY <1>1 DEF AcquireStartLock, LockTimesOut, RemoveStaleSocket, ReconcileAtStart, Listen,
              Announce
<1>2. ASSUME NEW d \in Daemons, ProbeExisting(d)
      PROVE  TypeOK'
  BY <1>2 DEF ProbeExisting
<1>3. ASSUME NEW d \in Daemons, Shutdown(d) \/ Panic(d) \/ Crash(d)
      PROVE  TypeOK'
  <2>1. /\ {lock', socket', metadata'} \subseteq Daemons \union {None}
        /\ pc' \in [Daemons -> Places] /\ busy' \in [Daemons -> BOOLEAN]
        /\ UNCHANGED <<outdated, cli, child, late>>
    <3>1. CASE Shutdown(d)
      BY <3>1 DEF Shutdown, Drained, CloseServer, RemoveMetadata, RemoveSocket
    <3>2. CASE Panic(d)
      BY <3>2 DEF Panic
    <3>3. CASE Crash(d)
      BY <3>3 DEF Crash
    <3> QED BY <1>3, <3>1, <3>2, <3>3
  <2>2. /\ \A e \in Daemons \ {d} : pc'[e] = pc[e] /\ busy'[e] = busy[e]
        /\ ~busy'[d]
    BY <1>3 DEF Shutdown, Drained, CloseServer, RemoveMetadata, RemoveSocket, Panic, Crash
  <2> QED BY <2>1, <2>2
<1>4. ASSUME NEW d \in Daemons, WorkStarts(d) \/ WorkEnds(d) \/ Signal(d)
      PROVE  TypeOK'
  <2>1. /\ {lock', socket', metadata'} \subseteq Daemons \union {None}
        /\ pc' \in [Daemons -> Places] /\ busy' \in [Daemons -> BOOLEAN]
        /\ UNCHANGED <<outdated, cli, child, late>>
    <3>1. CASE WorkStarts(d) \/ WorkEnds(d)
      <4>1. \E b \in BOOLEAN : busy' = [busy EXCEPT ![d] = b]
        BY <3>1 DEF WorkStarts, WorkEnds
      <4>2. busy' \in [Daemons -> BOOLEAN]
        BY <4>1
      <4> QED BY <3>1, <4>2 DEF WorkStarts, WorkEnds
    <3>2. CASE Signal(d)
      BY <3>2 DEF Signal, BeforeHandlers
    <3> QED BY <1>4, <3>1, <3>2
  <2>2. /\ \A e \in Daemons \ {d} : pc'[e] = pc[e] /\ busy'[e] = busy[e]
        /\ busy'[d] => pc'[d] \in {"serving", "draining"}
    BY <1>4 DEF WorkStarts, WorkEnds, Signal, BeforeHandlers
  <2> QED BY <2>1, <2>2
<1>5. ASSUME NEW l \in Launchers, Begin(l) \/ StartProbe(l) \/ RemoveByCli(l)
      PROVE  TypeOK'
  <2>1. /\ UNCHANGED <<lock, pc, busy, outdated, child, late>>
        /\ {socket', metadata'} \subseteq Daemons \union {None}
        /\ \E place \in CliPlaces, b \in BOOLEAN : cli' = [cli EXCEPT ![l] = <<place, b>>]
    BY <1>5 DEF Begin, StartProbe, RemoveByCli, After
  <2> QED BY <2>1
<1>6. ASSUME NEW l \in Launchers, Spawn(l)
      PROVE  TypeOK'
  BY <1>6 DEF Spawn
<1>7. ASSUME NEW l \in Launchers, WaitForService(l)
      PROVE  TypeOK'
  <2>1. \E place \in CliPlaces : Move(l, place)
    BY <1>7 DEF WaitForService
  <2>2. cli' \in [Launchers -> CliPlaces \X BOOLEAN]
    BY <2>1, MoveType
  <2>3. pc' = pc \/ (pc[child[l]] \in BeforeHandlers /\ Go(child[l], "dead"))
    BY <1>7 DEF WaitForService
  <2>4. /\ pc' \in [Daemons -> Places]
        /\ \A d \in Daemons : busy[d] => pc'[d] \in {"serving", "draining"}
    BY <2>3 DEF BeforeHandlers
  <2> QED BY <1>7, <2>2, <2>4 DEF WaitForService
<1>8. ASSUME NEW l \in Launchers, StopRequest(l) \/ WaitForStop(l)
      PROVE  TypeOK'
  <2>1. /\ cli' \in [Launchers -> CliPlaces \X BOOLEAN]
        /\ {socket', metadata'} \subseteq Daemons \union {None}
    BY <1>8 DEF StopRequest, WaitForStop, NobodyListens, After
  <2>2. pc' = pc \/ (ProbeResults # {"stale"} /\ "running" \in ProbeResults
                     /\ Go(socket, "draining"))
    BY <1>8 DEF StopRequest, WaitForStop
  <2>3. "running" \in ProbeResults => pc[socket] = "serving" /\ socket \in Daemons
    BY DEF ProbeResults, SomebodyListens
  <2>4. /\ pc' \in [Daemons -> Places]
        /\ \A d \in Daemons : busy[d] => pc'[d] \in {"serving", "draining"}
    BY <2>2, <2>3
  <2> QED BY <1>8, <2>1, <2>4 DEF StopRequest, WaitForStop
<1>9. CASE Upgrade
  <2>1. outdated' \in [Daemons -> BOOLEAN]
    BY <1>9 DEF Upgrade
  <2> QED BY <1>9, <2>1 DEF Upgrade
<1>10. CASE UNCHANGED vars
  BY <1>10 DEF vars
<1> QED BY <1>1, <1>2, <1>3, <1>4, <1>5, <1>6, <1>7, <1>8, <1>9, <1>10 DEF Next, Startup, Command

-----------------------------------------------------------------------------
(* What a probe tells. *)
LEMMA ProbeTells ==
  /\ "stale" \in ProbeResults => ~SomebodyListens
  /\ "running" \in ProbeResults => SomebodyListens /\ socket # None /\ pc[socket] = "serving"
BY DEF ProbeResults, SomebodyListens

(* While files are removed at once, whoever listens is found.              *)
LEMMA ListenersAreFound ==
  ASSUME PromptOK, ~late, ~SomebodyListens
  PROVE  \A d \in Daemons : ~Listening(d)
BY NoneAssumption DEF PromptOK, SomebodyListens

(* A command that moves on where no file is to be removed later.           *)
Onward(l) ==
  \E place \in CliPlaces \ {"removeMetadata", "removeSocket"}, b \in BOOLEAN :
    cli' = [cli EXCEPT ![l] = <<place, b>>]

(* What a command that leaves services and lock alone does to the files.   *)
LEMMA CommandKeeps ==
  ASSUME IInv, NEW l \in Launchers, UNCHANGED <<lock, pc, late>>,
         \/ Onward(l) /\ UNCHANGED <<socket, metadata>>
         \/ Onward(l) /\ ~SomebodyListens /\ socket' = None /\ metadata' = None
         \/ Onward(l) /\ late /\ socket' \in {socket, None}
         \/ late /\ socket' \in {socket, None}
  PROVE  LockOK' /\ SocketOK' /\ ProbeOK' /\ PromptOK'
<1>1. LockOK' /\ SocketOK' /\ ProbeOK'
  BY DEF IInv, LockOK, SocketOK, ProbeOK, SomebodyListens, Listening
<1>2. PromptOK'
  <2>1. SUFFICES ASSUME ~late PROVE PromptOK'
    BY DEF PromptOK
  <2>2. \A k \in Launchers : ~At(k, "removeMetadata")' /\ ~At(k, "removeSocket")'
    BY <2>1 DEF IInv, TypeOK, PromptOK, Onward, At
  <2>3. CASE UNCHANGED <<socket, metadata>>
    BY <2>1, <2>2, <2>3 DEF IInv, PromptOK, Listening
  <2>4. CASE ~SomebodyListens
    <3>1. \A d \in Daemons : ~Listening(d)
      BY <2>1, <2>4, ListenersAreFound DEF IInv
    <3> QED BY <2>1, <2>2, <3>1 DEF IInv, PromptOK, Listening
  <2> QED BY <2>1, <2>3, <2>4
<1> QED BY <1>1, <1>2

(* Every step keeps the lock with who is starting, and the socket with its *)
(* service.                                                                *)
LEMMA FilesInv ==
  ASSUME IInv, [Next]_vars
  PROVE  LockOK' /\ SocketOK' /\ ProbeOK' /\ PromptOK'
<1> DEFINE Rest == LockOK /\ SocketOK /\ ProbeOK /\ PromptOK
<1>0. /\ TypeOK /\ Rest /\ socket \in Daemons \union {None} /\ late \in BOOLEAN
      /\ \A d \in Daemons, place \in Places :
           Go(d, place) => \A e \in Daemons : pc'[e] = IF e = d THEN place ELSE pc[e]
  BY GoType DEF IInv, TypeOK
<1> USE NoneAssumption DEF LockOK, SocketOK, ProbeOK, PromptOK, SomebodyListens, Listening,
                           Starting, Removing, Unbound, Gone, Unlock, Places
<1>1. ASSUME NEW d \in Daemons, AcquireStartLock(d)
      PROVE  Rest'
  <2>1. \A e \in Daemons : pc[e] \notin Starting
    BY <1>0, <1>1 DEF AcquireStartLock, LockFree
  <2>2. \A e \in Daemons : pc'[e] = IF e = d THEN "probe" ELSE pc[e]
    BY <1>0, <1>1 DEF AcquireStartLock
  <2> QED BY <1>0, <1>1, <2>1, <2>2 DEF AcquireStartLock, At
<1>2. ASSUME NEW d \in Daemons, LockTimesOut(d)
      PROVE  Rest'
  <2>1. \A e \in Daemons : pc'[e] = IF e = d THEN "exited" ELSE pc[e]
    BY <1>0, <1>2 DEF LockTimesOut
  <2> QED BY <1>0, <1>2, <2>1 DEF LockTimesOut, At
<1>3. ASSUME NEW d \in Daemons, ProbeExisting(d)
      PROVE  Rest'
  <2>1. /\ pc[d] = "probe" /\ UNCHANGED <<socket, metadata, cli, late>>
        /\ \/ Go(d, "unlink") /\ lock' = lock /\ ~SomebodyListens
           \/ Go(d, "exited") /\ Unlock(d)
    BY <1>3, ProbeTells DEF ProbeExisting, Replaceable
  <2>2. CASE Go(d, "unlink") /\ lock' = lock /\ ~SomebodyListens
    <3>1. \A e \in Daemons : pc'[e] = IF e = d THEN "unlink" ELSE pc[e]
      BY <1>0, <2>2
    <3> QED BY <1>0, <2>1, <2>2, <3>1 DEF At
  <2>3. CASE Go(d, "exited") /\ Unlock(d)
    <3>1. \A e \in Daemons : pc'[e] = IF e = d THEN "exited" ELSE pc[e]
      BY <1>0, <2>3
    <3> QED BY <1>0, <2>1, <2>3, <3>1 DEF At
  <2> QED BY <2>1, <2>2, <2>3
<1>4. ASSUME NEW d \in Daemons, RemoveStaleSocket(d)
      PROVE  Rest'
  <2>1. \A e \in Daemons : pc'[e] = IF e = d THEN "reconcile" ELSE pc[e]
    BY <1>0, <1>4 DEF RemoveStaleSocket
  <2>2. ~late => \A e \in Daemons : ~Listening(e)
    BY <1>0, <1>4, ListenersAreFound DEF RemoveStaleSocket
  <2> QED BY <1>0, <1>4, <2>1, <2>2 DEF RemoveStaleSocket, At
<1>5. ASSUME NEW d \in Daemons, ReconcileAtStart(d)
      PROVE  Rest'
  <2>1. ~late => \A e \in Daemons : ~Listening(e)
    BY <1>0, <1>5, ListenersAreFound DEF ReconcileAtStart
  <2>2. CASE Go(d, "listen") /\ UNCHANGED <<lock, socket, metadata>>
    <3>1. \A e \in Daemons : pc'[e] = IF e = d THEN "listen" ELSE pc[e]
      BY <1>0, <2>2
    <3> QED BY <1>0, <1>5, <2>2, <3>1 DEF ReconcileAtStart, At
  <2>3. CASE Unlock(d) /\ late /\ Go(d, "failed") /\ UNCHANGED <<socket, metadata>>
    <3>1. \A e \in Daemons : pc'[e] = IF e = d THEN "failed" ELSE pc[e]
      BY <1>0, <2>3
    <3> QED BY <1>0, <1>5, <2>3, <3>1 DEF ReconcileAtStart, At
  <2>4. CASE Unlock(d) /\ ~late /\ Go(d, "exited") /\ metadata' = None /\ socket' = None
    <3>1. \A e \in Daemons : pc'[e] = IF e = d THEN "exited" ELSE pc[e]
      BY <1>0, <2>4
    <3> QED BY <1>0, <1>5, <2>1, <2>4, <3>1 DEF ReconcileAtStart, At
  <2> QED BY <1>5, <2>2, <2>3, <2>4 DEF ReconcileAtStart
<1>6. ASSUME NEW d \in Daemons, Listen(d)
      PROVE  Rest'
  <2>1. ~late => \A e \in Daemons : ~Listening(e)
    BY <1>0, <1>6, ListenersAreFound DEF Listen
  <2>2. lock = d /\ \A e \in Daemons \ {d} : pc[e] \notin Starting
    BY <1>0, <1>6 DEF Listen
  <2>3. CASE socket = None
    <3>1. \A e \in Daemons : pc'[e] = IF e = d THEN "announce" ELSE pc[e]
      BY <1>0, <1>6, <2>3 DEF Listen
    <3> QED BY <1>0, <1>6, <2>1, <2>2, <2>3, <3>1 DEF Listen, At
  <2>4. CASE socket # None
    <3>1. \A e \in Daemons : pc'[e] = IF e = d THEN "exited" ELSE pc[e]
      BY <1>0, <1>6, <2>4 DEF Listen
    <3> QED BY <1>0, <1>6, <2>1, <2>4, <3>1 DEF Listen, At
  <2> QED BY <2>3, <2>4
<1>7. ASSUME NEW d \in Daemons, Announce(d)
      PROVE  Rest'
  <2>1. \A e \in Daemons : pc'[e] = IF e = d THEN "serving" ELSE pc[e]
    BY <1>0, <1>7 DEF Announce
  <2> QED BY <1>0, <1>7, <2>1 DEF Announce, At
<1>8. ASSUME NEW d \in Daemons, WorkStarts(d) \/ WorkEnds(d)
      PROVE  Rest'
  BY <1>0, <1>8 DEF WorkStarts, WorkEnds, At
<1>9. ASSUME NEW d \in Daemons, Signal(d)
      PROVE  Rest'
  <2>1. CASE pc[d] = "serving"
    <3>1. \A e \in Daemons : pc'[e] = IF e = d THEN "draining" ELSE pc[e]
      BY <1>0, <1>9, <2>1 DEF Signal
    <3> QED BY <1>0, <1>9, <2>1, <3>1 DEF Signal, At
  <2>2. CASE pc[d] \in BeforeHandlers
    <3>1. \A e \in Daemons : pc'[e] = IF e = d THEN "dead" ELSE pc[e]
      BY <1>0, <1>9, <2>2 DEF Signal, BeforeHandlers
    <3> QED BY <1>0, <1>9, <2>2, <3>1 DEF Signal, At, BeforeHandlers
  <2> QED BY <1>9, <2>1, <2>2 DEF Signal
<1>10. ASSUME NEW d \in Daemons, Drained(d)
       PROVE  Rest'
  <2>1. \A e \in Daemons : pc'[e] = IF e = d THEN "close" ELSE pc[e]
    BY <1>0, <1>10 DEF Drained
  <2> QED BY <1>0, <1>10, <2>1 DEF Drained, At
<1>11. ASSUME NEW d \in Daemons, NEW place \in {"removeSocket", "exited"}, Go(d, place),
              socket' = None, metadata' \in {metadata, None}, Unlock(d) \/ lock' = lock,
              Listening(d) \/ late, place = "removeSocket" => late,
              UNCHANGED <<cli, late>>
       PROVE  Rest'
  <2>1. \A e \in Daemons : pc'[e] = IF e = d THEN place ELSE pc[e]
    BY <1>0, <1>11
  <2>2. ~late => \A e \in Daemons \ {d} : ~Listening(e)
    BY <1>0, <1>11
  <2> QED BY <1>0, <1>11, <2>1, <2>2 DEF At
<1>12. ASSUME NEW d \in Daemons, CloseServer(d) \/ RemoveSocket(d) \/ Panic(d)
       PROVE  Rest'
  <2>1. pc[d] = "removeSocket" => late
    BY <1>0
  <2> QED BY <1>11, <1>12, <2>1 DEF CloseServer, RemoveSocket, Panic
<1>13. ASSUME NEW d \in Daemons, RemoveMetadata(d)
       PROVE  Rest'
  <2>1. late /\ \A e \in Daemons : pc'[e] = IF e = d THEN "removeSocket" ELSE pc[e]
    BY <1>0, <1>13 DEF RemoveMetadata
  <2> QED BY <1>0, <1>13, <2>1 DEF RemoveMetadata, At
<1>14. ASSUME NEW d \in Daemons, Crash(d)
       PROVE  Rest'
  <2>1. \A e \in Daemons : pc'[e] = IF e = d THEN "dead" ELSE pc[e]
    BY <1>0, <1>14 DEF Crash
  <2> QED BY <1>0, <1>14, <2>1 DEF Crash, At
<1>15. ASSUME NEW l \in Launchers, Begin(l) \/ StartProbe(l)
       PROVE  Rest'
  <2>1. Onward(l)
    BY <1>15 DEF Begin, StartProbe, Onward, CliPlaces, Move, TypeOK, IInv
  <2> QED BY <1>15, <2>1, CommandKeeps DEF Begin, StartProbe
<1>16. ASSUME NEW l \in Launchers, Spawn(l)
       PROVE  Rest'
  <2>1. PICK d \in Daemons : pc[d] = "off" /\ Go(d, "lock")
    BY <1>16 DEF Spawn
  <2>2. \A e \in Daemons : pc'[e] = IF e = d THEN "lock" ELSE pc[e]
    BY <1>0, <2>1
  <2>3. ~late => \A k \in Launchers : ~At(k, "removeMetadata")' /\ ~At(k, "removeSocket")'
    BY <1>0, <1>16 DEF Spawn, Move, At, TypeOK
  <2> QED BY <1>0, <1>16, <2>1, <2>2, <2>3 DEF Spawn
<1>17. ASSUME NEW l \in Launchers, WaitForService(l)
       PROVE  Rest'
  <2>1. UNCHANGED <<lock, socket, metadata, late>>
        /\ (pc' = pc \/ (pc[child[l]] \in BeforeHandlers /\ Go(child[l], "dead")))
    BY <1>17 DEF WaitForService
  <2>2. \A e \in Daemons : pc'[e] = pc[e] \/ (pc[e] \in BeforeHandlers /\ pc'[e] = "dead")
    BY <1>0, <2>1 DEF Go, TypeOK
  <2>3. ~late => \A k \in Launchers : ~At(k, "removeMetadata")' /\ ~At(k, "removeSocket")'
    BY <1>0, <1>17 DEF WaitForService, Move, At, TypeOK
  <2> QED BY <1>0, <2>1, <2>2, <2>3 DEF BeforeHandlers, TypeOK
<1>18. ASSUME NEW l \in Launchers, ~SomebodyListens, NobodyListens(l),
              UNCHANGED <<lock, pc, late>>
       PROVE  Rest'
  <2>1. ~late => Onward(l)
    BY <1>18 DEF NobodyListens, After, Onward, CliPlaces, Move, TypeOK, IInv
  <2> QED BY <1>18, <2>1, CommandKeeps DEF NobodyListens
<1>19. ASSUME NEW l \in Launchers, Move(l, "failed"), UNCHANGED <<lock, pc, socket, metadata, late>>
       PROVE  Rest'
  <2>1. Onward(l)
    BY <1>19 DEF Onward, CliPlaces, Move, TypeOK, IInv
  <2> QED BY <1>19, <2>1, CommandKeeps
<1>20. ASSUME NEW l \in Launchers, "running" \in ProbeResults, Go(socket, "draining"),
              Move(l, "stopping"), UNCHANGED <<lock, socket, metadata, late>>
       PROVE  Rest'
  <2>1. pc[socket] = "serving" /\ socket \in Daemons
    BY <1>0, <1>20, ProbeTells DEF TypeOK
  <2>2. \A e \in Daemons : pc'[e] = IF e = socket THEN "draining" ELSE pc[e]
    BY <1>0, <1>20, <2>1
  <2>3. ~late => \A k \in Launchers : ~At(k, "removeMetadata")' /\ ~At(k, "removeSocket")'
    BY <1>0, <1>20 DEF Move, At, TypeOK
  <2> QED BY <1>0, <1>20, <2>1, <2>2, <2>3
<1>21. ASSUME NEW l \in Launchers, StopRequest(l) \/ WaitForStop(l)
       PROVE  Rest'
  BY <1>18, <1>19, <1>20, <1>21, ProbeTells DEF StopRequest, WaitForStop
<1>22. ASSUME NEW l \in Launchers, RemoveByCli(l)
       PROVE  Rest'
  <2>1. late /\ UNCHANGED <<lock, pc, late>> /\ socket' \in {socket, None}
    BY <1>0, <1>22 DEF RemoveByCli
  <2> QED BY <2>1, CommandKeeps
<1>23. CASE Upgrade \/ UNCHANGED vars
  BY <1>0, <1>23 DEF Upgrade, vars, At
<1> QED
  BY <1>1, <1>2, <1>3, <1>4, <1>5, <1>6, <1>7, <1>8, <1>9, <1>10, <1>12, <1>13, <1>14,
     <1>15, <1>16, <1>17, <1>21, <1>22, <1>23
  DEF Next, Startup, Shutdown, Command

(* The invariant holds at first. *)
LEMMA InitInv == Init => IInv
<1>1. Init => TypeOK
  <2> SUFFICES ASSUME Init PROVE TypeOK
    OBVIOUS
  <2>1. pc \in [Daemons -> Places]
    BY DEF Init, Places
  <2>2. cli \in [Launchers -> CliPlaces \X BOOLEAN]
    BY DEF Init, CliPlaces
  <2>3. busy \in [Daemons -> BOOLEAN] /\ outdated \in [Daemons -> BOOLEAN]
    BY DEF Init
  <2> QED BY <2>1, <2>2, <2>3 DEF Init, TypeOK
<1>2. Init => LockOK /\ SocketOK /\ ProbeOK /\ PromptOK
  BY DEF Init, LockOK, SocketOK, ProbeOK, PromptOK, Listening, Starting, Removing, At
<1> QED BY <1>1, <1>2 DEF IInv

(* The inductive invariant holds in every reachable state. *)
LEMMA Invariance == Spec => []IInv
<1>1. IInv /\ [Next]_vars => IInv'
  BY TypeInv, FilesInv DEF IInv
<1> QED BY <1>1, InitInv, PTL DEF Spec

-----------------------------------------------------------------------------
(* What is true of every behaviour. *)

(* While files are removed at once there is one service with authority, and *)
(* the one that serves is the one that is found.                           *)
THEOREM Authority == Spec => []AuthorityWhenPrompt
<1>1. IInv => AuthorityWhenPrompt
  <2> SUFFICES ASSUME IInv, ~late PROVE SingleAuthority /\ ServingIsReachable
    BY DEF AuthorityWhenPrompt
  <2> DEFINE S == {d \in Daemons : pc[d] \in {"serving", "draining"}}
  <2>1. S \subseteq {socket}
    BY DEF IInv, PromptOK, Listening
  <2>2. S = {} \/ S = {socket}
    BY <2>1
  <2>3. Cardinality(S) = 0 \/ Cardinality(S) = 1
    BY <2>2, FS_EmptySet, FS_Singleton
  <2> QED BY <2>3 DEF SingleAuthority, ServingIsReachable, IInv, PromptOK, Listening
<1> QED BY <1>1, Invariance, PTL

(* A startup removes the socket of nobody who listens, however late it is. *)
THEOREM LiveSocketKept == Spec => StartupKeepsLiveSocket
<1> DEFINE A == \A d \in Daemons :
                  pc[d] = "unlink" /\ pc'[d] = "reconcile" => ~SomebodyListens
<1>1. IInv => A
  BY DEF IInv, ProbeOK
<1> QED BY <1>1, Invariance, PTL DEF StartupKeepsLiveSocket

=============================================================================
