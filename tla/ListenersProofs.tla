--------------------------- MODULE ListenersProofs ---------------------------
(***************************************************************************)
(* The daemon's safety invariants for any number of connections, sessions, *)
(* permits and restarts.                                                   *)
(***************************************************************************)
EXTENDS Listeners, FiniteSetTheorems, TLAPS

\* A process that does not run its tasks has no admitted connection: the next
\* start may hand out every permit again.
NothingAdmittedWhenDown == ~ TasksRun => Admitted = {}

\* The inductive invariant.
IInv ==
    /\ TypeOK
    /\ PermitsBalanced
    /\ NothingAdmittedWhenDown
    /\ NoDeafDaemon
    /\ StopsForCause

\* The admitted connections are finitely many: their number is a number.
LEMMA AdmittedFinite ==
    ASSUME TypeOK
    PROVE  /\ IsFiniteSet(Admitted)
           /\ Cardinality(Admitted) \in Nat
  <1>1. Admitted \subseteq Conns
    BY DEF Admitted
  <1>2. IsFiniteSet(Admitted)
    BY <1>1, ListenersAssumption, FS_Subset
  <1> QED
    BY <1>2, FS_CardinalityType

\* A connection that is admitted adds one to the count.
LEMMA AdmitOne ==
    ASSUME TypeOK, NEW c \in Conns, c \notin Admitted,
           Admitted' = Admitted \cup {c}
    PROVE  Cardinality(Admitted') = Cardinality(Admitted) + 1
  BY AdmittedFinite, FS_AddElement

\* A connection that is over takes one from the count, which was positive.
LEMMA ReleaseOne ==
    ASSUME TypeOK, NEW c \in Conns, c \in Admitted,
           Admitted' = Admitted \ {c}
    PROVE  /\ Cardinality(Admitted') = Cardinality(Admitted) - 1
           /\ Cardinality(Admitted) >= 1
  <1>1. Cardinality(Admitted') = Cardinality(Admitted) - 1
    BY AdmittedFinite, FS_RemoveElement
  <1>2. Admitted # {}
    OBVIOUS
  <1>3. Cardinality(Admitted) # 0
    BY <1>2, AdmittedFinite, FS_EmptySet
  <1> QED
    BY <1>1, <1>3, AdmittedFinite

\* The initial states satisfy the invariant.
LEMMA InitIInv == Init => IInv
  <1> SUFFICES ASSUME Init PROVE IInv
    OBVIOUS
  <1>1. TypeOK
    BY ListenersAssumption DEF Init, TypeOK
  <1>2. Admitted = {}
    BY DEF Init, Admitted
  <1> QED
    BY <1>1, <1>2 DEF Init, IInv, PermitsBalanced, NothingAdmittedWhenDown,
        NoDeafDaemon, StopsForCause, TasksRun

\* A step that leaves the process and its loops as they are disturbs only the
\* account of the permits.
LEMMA SameLife ==
    ASSUME IInv, TypeOK', UNCHANGED <<life, udsLoop>>,
           quicLoop' = quicLoop \/ quicLoop' \in {"accepting", "acquiring"},
           quicLoop' = quicLoop \/ process = "serving",
           PermitsBalanced', NothingAdmittedWhenDown'
    PROVE  IInv'
  BY DEF IInv, life, NoDeafDaemon, StopsForCause, UdsBound, TypeOK

\* A step of a connection that neither admits nor releases it.
LEMMA SameAccount ==
    ASSUME IInv, Admitted' = Admitted, UNCHANGED <<permits, process>>
    PROVE  PermitsBalanced' /\ NothingAdmittedWhenDown'
  BY DEF IInv, PermitsBalanced, NothingAdmittedWhenDown, TasksRun

-----------------------------------------------------------------------------
(* The life of the process. *)

\* A started daemon has every configured listener and every permit.
LEMMA BootIInv == IInv /\ Boot => IInv'
  <1> SUFFICES ASSUME IInv, Boot PROVE IInv'
    OBVIOUS
  <1> USE DEF IInv
  <1>0. /\ udsLoop' \in {"off", "accepting"}
        /\ quicLoop' \in {"off", "accepting"}
        /\ metricsLoop' \in {"off", "accepting"}
    BY Zenon DEF Boot
  <1>1. TypeOK'
    BY <1>0, ListenersAssumption DEF Boot, TypeOK
  <1>2. Admitted = {} /\ Admitted' = Admitted
    BY DEF Boot, NothingAdmittedWhenDown, TasksRun, Admitted
  <1>3. Cardinality(Admitted') = 0
    BY <1>2, FS_EmptySet
  <1>4. PermitsBalanced' /\ NothingAdmittedWhenDown'
    BY <1>3, ListenersAssumption DEF Boot, PermitsBalanced,
        NothingAdmittedWhenDown, TasksRun
  <1>5. NoDeafDaemon' /\ StopsForCause'
    BY DEF Boot, NoDeafDaemon, StopsForCause, UdsBound
  <1> QED
    BY <1>1, <1>4, <1>5

\* A start that fails leaves the process down.
LEMMA BootFailsIInv == IInv /\ BootFails => IInv'
  <1> SUFFICES ASSUME IInv, BootFails PROVE IInv'
    OBVIOUS
  <1> USE DEF IInv
  <1>1. TypeOK'
    BY ListenersAssumption DEF BootFails, TypeOK, loops
  <1>2. Admitted' = Admitted /\ process = "down" /\ UNCHANGED <<permits, process>>
    BY DEF BootFails, Admitted
  <1>3. PermitsBalanced' /\ NothingAdmittedWhenDown'
    BY <1>2, SameAccount
  <1> QED
    BY <1>1, <1>2, <1>3 DEF NoDeafDaemon, StopsForCause

\* Whatever ends the tasks ends the admitted connections.
LEMMA VanishEmpties == TypeOK /\ Vanish => Admitted' = {}
  BY DEF TypeOK, Vanish, Admitted

\* A crash leaves nothing admitted.
LEMMA CrashIInv == IInv /\ Crash => IInv'
  <1> SUFFICES ASSUME IInv, Crash PROVE IInv'
    OBVIOUS
  <1> USE DEF IInv
  <1>1. TypeOK'
    BY DEF Crash, TypeOK, Vanish
  <1>2. Admitted' = {}
    BY VanishEmpties DEF Crash
  <1> QED
    BY <1>1, <1>2 DEF Crash, PermitsBalanced, NothingAdmittedWhenDown, TasksRun,
        NoDeafDaemon, StopsForCause

\* When the select resolves no permit changes hands: the dropped connection had
\* none.
LEMMA SelectIInv ==
    ASSUME IInv, SelectResolves, TypeOK', StopsForCause'
    PROVE  IInv'
  <1> USE DEF IInv
  <1>1. Admitted' = Admitted
    BY DEF SelectResolves, Admitted, TypeOK
  <1> QED
    BY <1>1 DEF SelectResolves, PermitsBalanced, NothingAdmittedWhenDown, TasksRun,
        NoDeafDaemon

\* The ways the select resolves, each a cause to stop.
LEMMA StopIInv ==
    ASSUME IInv, HandlerFails \/ ShutdownSignal \/ UdsAcceptFails \/ EndpointLost
    PROVE  IInv'
  <1> USE DEF HandlerFails, ShutdownSignal, UdsAcceptFails, EndpointLost
  <1>1. SelectResolves
    OBVIOUS
  <1>2. TypeOK'
    BY DEF IInv, TypeOK, SelectResolves, loops
  <1>3. StopsForCause'
    BY DEF StopsForCause
  <1> QED
    BY <1>1, <1>2, <1>3, SelectIInv

\* The handlers are installed while the daemon serves.
LEMMA ArmIInv == IInv /\ ArmSignals => IInv'
  <1> SUFFICES ASSUME IInv, ArmSignals PROVE IInv'
    OBVIOUS
  <1>1. TypeOK'
    BY DEF IInv, TypeOK, ArmSignals, loops
  <1>2. Admitted' = Admitted
    BY DEF ArmSignals, Admitted
  <1>3. PermitsBalanced' /\ NothingAdmittedWhenDown'
    BY <1>2, SameAccount DEF ArmSignals
  <1> QED
    BY <1>1, <1>3 DEF IInv, ArmSignals, loops, NoDeafDaemon, StopsForCause, UdsBound

\* The metrics listener parks; nothing else moves.
LEMMA MetricsIInv == IInv /\ MetricsAcceptFails => IInv'
  <1> SUFFICES ASSUME IInv, MetricsAcceptFails PROVE IInv'
    OBVIOUS
  <1>1. TypeOK'
    BY DEF IInv, TypeOK, MetricsAcceptFails, life
  <1>2. Admitted' = Admitted
    BY DEF MetricsAcceptFails, Admitted
  <1>3. PermitsBalanced' /\ NothingAdmittedWhenDown'
    BY <1>2, SameAccount DEF MetricsAcceptFails, life
  <1> QED
    BY <1>1, <1>3, SameLife DEF MetricsAcceptFails

\* main returns: its tasks still run.
LEMMA CleanUpIInv == IInv /\ CleanUp => IInv'
  <1> SUFFICES ASSUME IInv, CleanUp PROVE IInv'
    OBVIOUS
  <1> USE DEF IInv
  <1>1. TypeOK'
    BY DEF TypeOK, CleanUp, loops
  <1>2. Admitted' = Admitted
    BY DEF CleanUp, Admitted
  <1> QED
    BY <1>1, <1>2 DEF CleanUp, loops, PermitsBalanced, NothingAdmittedWhenDown,
        TasksRun, NoDeafDaemon, StopsForCause

\* The dropped runtime has no connections left.
LEMMA DropRuntimeIInv == IInv /\ DropRuntime => IInv'
  <1> SUFFICES ASSUME IInv, DropRuntime PROVE IInv'
    OBVIOUS
  <1> USE DEF IInv
  <1>1. TypeOK'
    BY DEF TypeOK, DropRuntime, Vanish, loops
  <1>2. Admitted' = {}
    BY VanishEmpties DEF DropRuntime
  <1> QED
    BY <1>1, <1>2 DEF DropRuntime, loops, PermitsBalanced, NothingAdmittedWhenDown,
        TasksRun, NoDeafDaemon, StopsForCause

\* The process is gone.
LEMMA ExitIInv == IInv /\ Exit => IInv'
  <1> SUFFICES ASSUME IInv, Exit PROVE IInv'
    OBVIOUS
  <1> USE DEF IInv
  <1>1. TypeOK'
    BY DEF TypeOK, Exit
  <1>2. Admitted' = Admitted
    BY DEF Exit, Admitted
  <1> QED
    BY <1>1, <1>2 DEF Exit, PermitsBalanced, NothingAdmittedWhenDown, TasksRun,
        NoDeafDaemon, StopsForCause

-----------------------------------------------------------------------------
(* Connections. *)

\* Steps of a connection outside the span in which it holds a permit, or
\* within it.
LEMMA ConnMovesIInv ==
    ASSUME NEW c \in Conns, IInv,
           ConnArrives(c) \/ QuicAccept(c) \/ HandshakeDone(c) \/ ConnLost(c)
    PROVE  IInv'
  <1>1. TypeOK'
    BY DEF IInv, TypeOK, ConnArrives, QuicAccept, HandshakeDone, ConnLost, life, loops
  <1>2. Admitted' = Admitted
    BY DEF IInv, TypeOK, Admitted, ConnArrives, QuicAccept, HandshakeDone, ConnLost
  <1>3. UNCHANGED <<life, permits, udsLoop>>
    BY DEF ConnArrives, QuicAccept, HandshakeDone, ConnLost, life, loops
  <1>4. PermitsBalanced' /\ NothingAdmittedWhenDown'
    BY <1>2, <1>3, SameAccount DEF life
  <1>5. quicLoop' = quicLoop \/ (quicLoop' = "acquiring" /\ process = "serving")
    BY DEF ConnArrives, QuicAccept, HandshakeDone, ConnLost, loops
  <1> QED
    BY <1>1, <1>3, <1>4, <1>5, SameLife

\* A permit is taken with the admission.
LEMMA AcquireIInv ==
    ASSUME NEW c \in Conns, IInv, Acquire(c)
    PROVE  IInv'
  <1>1. TypeOK'
    BY ListenersAssumption DEF IInv, TypeOK, Acquire, life
  <1>2. c \notin Admitted /\ Admitted' = Admitted \cup {c}
    BY DEF IInv, TypeOK, Admitted, Acquire
  <1>3. Cardinality(Admitted') = Cardinality(Admitted) + 1
    BY <1>2, AdmitOne DEF IInv
  <1>4. PermitsBalanced'
    BY <1>3, AdmittedFinite, ListenersAssumption
        DEF IInv, TypeOK, PermitsBalanced, TasksRun, Acquire, life
  <1>5. NothingAdmittedWhenDown'
    BY DEF NothingAdmittedWhenDown, TasksRun, Acquire, life
  <1> QED
    BY <1>1, <1>4, <1>5, SameLife DEF Acquire

\* A permit is returned with the end of the connection, and only then.
LEMMA ReleaseIInv ==
    ASSUME NEW c \in Conns, IInv, HandshakeFails(c) \/ ConnEnds(c)
    PROVE  IInv'
  <1>1. c \in Admitted /\ Admitted' = Admitted \ {c}
    BY DEF IInv, TypeOK, Admitted, HandshakeFails, ConnEnds
  <1>2. /\ Cardinality(Admitted') = Cardinality(Admitted) - 1
        /\ Cardinality(Admitted) >= 1
    BY <1>1, ReleaseOne DEF IInv
  <1>3. permits' = permits + 1 /\ TasksRun /\ UNCHANGED <<life, loops>>
    BY DEF HandshakeFails, ConnEnds
  <1>4. permits + Cardinality(Admitted) = MaxConnections
    BY <1>3 DEF IInv, PermitsBalanced
  <1>5. permits' \in 0..MaxConnections
    BY <1>2, <1>3, <1>4, AdmittedFinite, ListenersAssumption DEF IInv, TypeOK
  <1>6. TypeOK'
    BY <1>5 DEF IInv, TypeOK, HandshakeFails, ConnEnds, life, loops
  <1>7. PermitsBalanced'
    BY <1>2, <1>3, <1>4, AdmittedFinite DEF IInv, TypeOK, PermitsBalanced
  <1>8. NothingAdmittedWhenDown'
    BY <1>3 DEF NothingAdmittedWhenDown, TasksRun, life
  <1> QED
    BY <1>3, <1>6, <1>7, <1>8, SameLife DEF loops

-----------------------------------------------------------------------------
(* Sessions and the theorem. *)

\* No step of a session touches listeners or permits, whatever connection it
\* came over and however long it outlives it.
LEMMA SessionMovesIInv ==
    ASSUME NEW s \in Sessions, IInv,
           \/ UdsAccept(s) \/ StreamOpened(s) \/ AcceptBi(s) \/ StartCall(s)
           \/ CallRuns(s) \/ PeerAnswers(s) \/ CallReturns(s) \/ Answer(s)
           \/ BoxCloses(s) \/ ReadFails(s)
    PROVE  IInv'
  <1> USE DEF UdsAccept, StreamOpened, AcceptBi, StartCall, CallRuns, PeerAnswers,
        CallReturns, Answer, BoxCloses, ReadFails
  <1>1. UNCHANGED <<life, loops, permits, conn, threads>>
    OBVIOUS
  <1>2. /\ session' \in [Sessions -> {"none", "offered", "serving", "calling", "ended"}]
        /\ call' \in [Sessions -> {"none", "queued", "returned"} \cup Running]
    BY DEF IInv, TypeOK, Running
  <1>3. TypeOK'
    BY <1>1, <1>2 DEF IInv, TypeOK, life, loops
  <1>4. Admitted' = Admitted
    BY <1>1 DEF Admitted
  <1>5. PermitsBalanced' /\ NothingAdmittedWhenDown'
    BY <1>1, <1>4, SameAccount DEF life
  <1> QED
    BY <1>1, <1>3, <1>5, SameLife DEF loops

\* A step that changes nothing.
LEMMA StutterIInv == IInv /\ UNCHANGED vars => IInv'
  BY DEF vars, life, loops, IInv, TypeOK, PermitsBalanced, NothingAdmittedWhenDown,
      NoDeafDaemon, StopsForCause, TasksRun, Admitted, UdsBound

\* Every step of the daemon and of its environment keeps the invariant.
LEMMA NextIInv == IInv /\ [Next]_vars => IInv'
  <1> SUFFICES ASSUME IInv, [Next]_vars PROVE IInv'
    OBVIOUS
  <1>1. CASE Boot
    BY <1>1, BootIInv
  <1>2. CASE BootFails
    BY <1>2, BootFailsIInv
  <1>3. CASE Crash
    BY <1>3, CrashIInv
  <1>4. CASE HandlerFails \/ ShutdownSignal \/ UdsAcceptFails \/ EndpointLost
    BY <1>4, StopIInv
  <1>5. CASE MetricsAcceptFails
    BY <1>5, MetricsIInv
  <1>6. CASE CleanUp
    BY <1>6, CleanUpIInv
  <1>7. CASE DropRuntime
    BY <1>7, DropRuntimeIInv
  <1>8. CASE Exit
    BY <1>8, ExitIInv
  <1>9. CASE Over \/ UNCHANGED vars
    BY <1>9, StutterIInv DEF Over
  <1>10. CASE \E c \in Conns : \/ ConnArrives(c) \/ QuicAccept(c)
                              \/ HandshakeDone(c) \/ ConnLost(c)
    BY <1>10, ConnMovesIInv
  <1>11. CASE \E c \in Conns : Acquire(c)
    BY <1>11, AcquireIInv
  <1>12. CASE \E c \in Conns : HandshakeFails(c) \/ ConnEnds(c)
    BY <1>12, ReleaseIInv
  <1>13. CASE \E s \in Sessions :
            \/ UdsAccept(s) \/ StreamOpened(s) \/ AcceptBi(s) \/ StartCall(s)
            \/ CallRuns(s) \/ PeerAnswers(s) \/ CallReturns(s) \/ Answer(s)
            \/ BoxCloses(s) \/ ReadFails(s)
    BY <1>13, SessionMovesIInv
  <1>14. CASE ArmSignals
    BY <1>14, ArmIInv
  <1> QED
    BY <1>1, <1>2, <1>3, <1>4, <1>5, <1>6, <1>7, <1>8, <1>9, <1>10, <1>11, <1>12,
        <1>13, <1>14 DEF Next

\* The invariant holds in every reachable state.
THEOREM Invariance == Spec => []IInv
  BY InitIInv, NextIInv, PTL DEF Spec

\* No permit is lost or invented, whatever handshakes fail and connections end:
\* the ceiling of quic_accept_loop is exact for every max_connections.
THEOREM PermitsExact == Spec => []PermitsBalanced
  <1>1. IInv => PermitsBalanced
    BY DEF IInv
  <1> QED
    BY <1>1, Invariance, PTL

\* A serving daemon is reachable on every configured listener.
THEOREM NeverDeaf == Spec => []NoDeafDaemon
  <1>1. IInv => NoDeafDaemon
    BY DEF IInv
  <1> QED
    BY <1>1, Invariance, PTL

\* A daemon that stops has received a signal, could not install a signal handler
\* (shutdown_signal resolves then too) or has lost an egress listener; the metrics
\* endpoint never stops it.
THEOREM StopsOnlyForCause == Spec => []StopsForCause
  <1>1. IInv => StopsForCause
    BY DEF IInv
  <1> QED
    BY <1>1, Invariance, PTL
=============================================================================
