------------------------------ MODULE Listeners ------------------------------
(***************************************************************************)
(* The daemon process (fabricd/src/main.rs): start-up, the accept loops    *)
(* under one select, connection permits, sessions on detached tasks, calls *)
(* on blocking threads, shutdown, and the restarts of a supervisor.        *)
(*                                                                         *)
(* A session is seen from outside: it serves, it has a call on a blocking  *)
(* thread, it ends.  What it answers is module Session's subject.  tokio   *)
(* and quinn are external: when the runtime is dropped its tasks are       *)
(* dropped, calls that have not started are discarded, calls that run are  *)
(* waited for, and what they await on the dropped runtime fails.  A call   *)
(* that waits on a socket or a runtime of its own is not woken by that.    *)
(***************************************************************************)
EXTENDS Naturals, FiniteSets

CONSTANTS Conns,            \* QUIC connections
          Sessions,         \* sessions: a UDS connection or a QUIC stream each
          Uds,              \* the UDS listener, as the origin of a session
          Via,              \* where each session comes from
          BlockingThreads,  \* tokio's limit of blocking threads
          MaxConnections,   \* quic.max_connections
          MaxBoots          \* bound: starts of the daemon

ASSUME ListenersAssumption ==
    /\ Uds \notin Conns
    /\ IsFiniteSet(Conns)
    /\ Via \in [Sessions -> Conns \cup {Uds}]
    /\ BlockingThreads \in Nat \ {0}
    /\ MaxConnections \in Nat
    /\ MaxBoots \in Nat

VARIABLES
    config,       \* which listeners are configured
    process,      \* the life of the process
    boots,        \* how often it was started
    socket,       \* the socket file
    udsLoop, quicLoop, metricsLoop,   \* the accept loops
    signals,      \* the handlers of Ctrl+C and SIGTERM
    permits,      \* conn_limit: permits left
    conn,         \* the state of each QUIC connection
    session,      \* the state of each session
    call,         \* the call of each session on the blocking pool
    threads       \* the pool's threads that the calls of other sessions leave

loops == <<udsLoop, quicLoop, metricsLoop>>

life == <<config, process, boots, socket, signals>>

vars == <<life, loops, permits, conn, session, call, threads>>

\* A call on a blocking thread is in a wait with a timeout; in one without that is
\* driven by the daemon's runtime (the db login and its SET); or in one without
\* that nothing of the daemon can end (the Redis connect and handshake, a blocking
\* socket; RabbitMQ, a runtime of its own).
Waits == {"login", "handshake"}

Running == {"bounded"} \cup Waits

\* `socket` may be set explicitly; without it UDS is bound unless `quic` is.
Configs == [socket : BOOLEAN, quic : BOOLEAN, metrics : BOOLEAN]

UdsBound == config.socket \/ ~ config.quic

\* Connections whose handler task holds a permit.
Admitted == {c \in Conns : conn[c] \in {"handshake", "open", "lost"}}

\* The runtime's tasks run until the runtime is dropped.
TasksRun == process \in {"serving", "stopping", "exiting"}

Init ==
    /\ config \in Configs
    /\ process = "down"
    /\ boots = 0
    /\ socket = "none"
    /\ udsLoop = "off" /\ quicLoop = "off" /\ metricsLoop = "off"
    /\ signals = "unarmed"
    /\ permits = 0
    /\ conn = [c \in Conns |-> "none"]
    /\ session = [s \in Sessions |-> "none"]
    /\ call = [s \in Sessions |-> "none"]
    /\ threads \in 1..BlockingThreads

-----------------------------------------------------------------------------
(* main: bind, serve, clean up, exit. *)

Boot_KeepsStaleSocket ==
    /\ process = "down"
    /\ boots < MaxBoots
    /\ UdsBound => socket = "none"
    /\ process' = "serving"
    /\ boots' = boots + 1
    /\ signals' = "unarmed"
    /\ socket' = IF UdsBound THEN "bound" ELSE socket
    /\ udsLoop' = IF UdsBound THEN "accepting" ELSE "off"
    /\ quicLoop' = IF config.quic THEN "accepting" ELSE "off"
    /\ metricsLoop' = IF config.metrics THEN "accepting" ELSE "off"
    /\ permits' = MaxConnections
    /\ UNCHANGED <<config, conn, session, call, threads>>

\* Every configured listener is bound; a socket file an earlier run left behind
\* is removed first.
Boot ==
    /\ process = "down"
    /\ boots < MaxBoots
    /\ process' = "serving"
    /\ boots' = boots + 1
    /\ signals' = "unarmed"
    /\ socket' = IF UdsBound THEN "bound" ELSE socket
    /\ udsLoop' = IF UdsBound THEN "accepting" ELSE "off"
    /\ quicLoop' = IF config.quic THEN "accepting" ELSE "off"
    /\ metricsLoop' = IF config.metrics THEN "accepting" ELSE "off"
    /\ permits' = MaxConnections
    /\ UNCHANGED <<config, conn, session, call, threads>>

\* The QUIC endpoint or the metrics address cannot be bound: main returns the
\* error and leaves the socket file it has bound before.
BootFails ==
    /\ process = "down"
    /\ boots < MaxBoots
    /\ config.quic \/ config.metrics
    /\ boots' = boots + 1
    /\ socket' = IF UdsBound THEN "stale" ELSE socket
    /\ UNCHANGED <<config, process, signals, loops, permits, conn, session, call,
                   threads>>

\* Everything the process held is gone.
Vanish ==
    /\ conn' = [c \in Conns |-> IF conn[c] = "none" THEN "none" ELSE "gone"]
    /\ session' = [s \in Sessions |->
            IF session[s] = "none" THEN "none" ELSE "ended"]

Crash ==
    /\ process # "down"
    /\ boots < MaxBoots
    /\ process' = "down"
    /\ socket' = IF socket = "bound" THEN "stale" ELSE socket
    /\ udsLoop' = "off" /\ quicLoop' = "off" /\ metricsLoop' = "off"
    /\ call' = [s \in Sessions |-> "none"]
    /\ Vanish
    /\ UNCHANGED <<config, boots, signals, permits, threads>>

\* The select of run_listeners resolved: the other loops are dropped, and with
\* them the connection that was waiting for a permit.
SelectResolves ==
    /\ process = "serving"
    /\ process' = "stopping"
    /\ conn' = [c \in Conns |-> IF conn[c] = "held" THEN "gone" ELSE conn[c]]
    /\ UNCHANGED <<config, boots, socket, permits, session, call, threads>>

\* The select polls shutdown_signal for the first time: both handlers are
\* installed.  (Before that a signal ends the process as it ends any other.)
ArmSignals ==
    /\ process = "serving"
    /\ signals = "unarmed"
    /\ signals' = "armed"
    /\ UNCHANGED <<config, process, boots, socket, loops, permits, conn, session, call,
                   threads>>

\* One of the two cannot be installed: its branch is over at once, and
\* shutdown_signal resolves without a signal.
HandlerFails ==
    /\ signals = "unarmed"
    /\ signals' = "failed"
    /\ SelectResolves
    /\ UNCHANGED loops

\* Ctrl+C or SIGTERM.
ShutdownSignal ==
    /\ signals = "armed"
    /\ signals' = "received"
    /\ SelectResolves
    /\ UNCHANGED loops

UdsAcceptFails_Parks ==
    /\ process = "serving"
    /\ udsLoop = "accepting"
    /\ udsLoop' = "failed"
    /\ UNCHANGED <<life, quicLoop, metricsLoop, permits, conn, session, call, threads>>

\* An accept error ends the UDS loop, and the daemon with it.
UdsAcceptFails ==
    /\ udsLoop = "accepting"
    /\ udsLoop' = "failed"
    /\ SelectResolves
    /\ UNCHANGED <<signals, quicLoop, metricsLoop>>

\* endpoint.accept() returns None: the endpoint's driver is lost.
EndpointLost ==
    /\ quicLoop = "accepting"
    /\ quicLoop' = "failed"
    /\ SelectResolves
    /\ UNCHANGED <<signals, udsLoop, metricsLoop>>

MetricsAcceptFails_Returns ==
    /\ metricsLoop = "accepting"
    /\ metricsLoop' = "parked"
    /\ SelectResolves
    /\ UNCHANGED <<signals, udsLoop, quicLoop>>

\* An accept error stops the metrics listener, which parks.
MetricsAcceptFails ==
    /\ process = "serving"
    /\ metricsLoop = "accepting"
    /\ metricsLoop' = "parked"
    /\ UNCHANGED <<life, udsLoop, quicLoop, permits, conn, session, call, threads>>

CleanUp_WaitsForSessions ==
    /\ process = "stopping"
    /\ \A s \in Sessions : session[s] \in {"none", "ended"}
    /\ process' = "exiting"
    /\ socket' = IF UdsBound THEN "none" ELSE socket
    /\ UNCHANGED <<config, boots, signals, loops, permits, conn, session, call, threads>>

\* main removes the socket file and returns.
CleanUp ==
    /\ process = "stopping"
    /\ process' = "exiting"
    /\ socket' = IF UdsBound THEN "none" ELSE socket
    /\ UNCHANGED <<config, boots, signals, loops, permits, conn, session, call, threads>>

\* The runtime of #[tokio::main] is dropped.
DropRuntime ==
    /\ process = "exiting"
    /\ process' = "draining"
    /\ call' = [s \in Sessions |->
            IF call[s] \in Running THEN call[s] ELSE "none"]
    /\ Vanish
    /\ UNCHANGED <<config, boots, socket, signals, loops, permits, threads>>

\* The drop has waited for the blocking threads.
Exit ==
    /\ process = "draining"
    /\ \A s \in Sessions : call[s] = "none"
    /\ process' = "down"
    /\ udsLoop' = "off" /\ quicLoop' = "off" /\ metricsLoop' = "off"
    /\ UNCHANGED <<config, boots, socket, signals, permits, conn, session, call, threads>>

-----------------------------------------------------------------------------
(* quic_accept_loop and handle_quic_connection. *)

\* A peer's connection attempt waits in the endpoint.
ConnArrives(c) ==
    /\ process = "serving"
    /\ config.quic
    /\ conn[c] = "none"
    /\ conn' = [conn EXCEPT ![c] = "queued"]
    /\ UNCHANGED <<life, loops, permits, session, call, threads>>

\* endpoint.accept(): the loop now waits for a permit with the connection in
\* its hand.
QuicAccept(c) ==
    /\ process = "serving"
    /\ quicLoop = "accepting"
    /\ conn[c] = "queued"
    /\ conn' = [conn EXCEPT ![c] = "held"]
    /\ quicLoop' = "acquiring"
    /\ UNCHANGED <<life, udsLoop, metricsLoop, permits, session, call, threads>>

\* acquire_owned: the connection gets its handler task.
Acquire(c) ==
    /\ process = "serving"
    /\ conn[c] = "held"
    /\ permits > 0
    /\ permits' = permits - 1
    /\ conn' = [conn EXCEPT ![c] = "handshake"]
    /\ quicLoop' = "accepting"
    /\ UNCHANGED <<life, udsLoop, metricsLoop, session, call, threads>>

HandshakeDone(c) ==
    /\ TasksRun
    /\ conn[c] = "handshake"
    /\ conn' = [conn EXCEPT ![c] = "open"]
    /\ UNCHANGED <<life, loops, permits, session, call, threads>>

HandshakeFails_KeepsPermit(c) ==
    /\ TasksRun
    /\ conn[c] = "handshake"
    /\ conn' = [conn EXCEPT ![c] = "gone"]
    /\ UNCHANGED <<life, loops, permits, session, call, threads>>

\* The early return of handle_quic_connection; its caller drops the permit.
HandshakeFails(c) ==
    /\ TasksRun
    /\ conn[c] = "handshake"
    /\ conn' = [conn EXCEPT ![c] = "gone"]
    /\ permits' = permits + 1
    /\ UNCHANGED <<life, loops, session, call, threads>>

\* The peer closes the connection, or it idles out.
ConnLost(c) ==
    /\ TasksRun
    /\ conn[c] = "open"
    /\ conn' = [conn EXCEPT ![c] = "lost"]
    /\ UNCHANGED <<life, loops, permits, session, call, threads>>

\* accept_bi reports the loss once it has handed out the streams that came
\* before; the permit is dropped, the sessions of the connection are not.
ConnEnds(c) ==
    /\ TasksRun
    /\ conn[c] = "lost"
    /\ \A s \in Sessions : Via[s] = c => session[s] # "offered"
    /\ conn' = [conn EXCEPT ![c] = "gone"]
    /\ permits' = permits + 1
    /\ UNCHANGED <<life, loops, session, call, threads>>

-----------------------------------------------------------------------------
(* Sessions on their own tasks. *)

\* The transport of a session is usable.
Linked(s) == Via[s] \in {Uds} \cup {c \in Conns : conn[c] = "open"}

\* uds_accept_loop spawns a session.
UdsAccept(s) ==
    /\ process = "serving"
    /\ udsLoop = "accepting"
    /\ Via[s] = Uds
    /\ session[s] = "none"
    /\ session' = [session EXCEPT ![s] = "serving"]
    /\ UNCHANGED <<life, loops, permits, conn, call, threads>>

\* The box opens a stream on an established connection.
StreamOpened(s) ==
    /\ TasksRun
    /\ session[s] = "none"
    /\ Via[s] # Uds
    /\ Linked(s)
    /\ session' = [session EXCEPT ![s] = "offered"]
    /\ UNCHANGED <<life, loops, permits, conn, call, threads>>

\* accept_bi: a detached task serves the stream.
AcceptBi(s) ==
    /\ TasksRun
    /\ session[s] = "offered"
    /\ session' = [session EXCEPT ![s] = "serving"]
    /\ UNCHANGED <<life, loops, permits, conn, call, threads>>

\* A Call frame: dispatch hands it to the blocking pool and waits.
StartCall(s) ==
    /\ TasksRun
    /\ session[s] = "serving"
    /\ Linked(s)
    /\ session' = [session EXCEPT ![s] = "calling"]
    /\ call' = [call EXCEPT ![s] = "queued"]
    /\ UNCHANGED <<life, loops, permits, conn, threads>>

\* A thread of the pool takes the call up: it does its work, or first connects.
CallRuns(s) ==
    /\ TasksRun
    /\ call[s] = "queued"
    /\ Cardinality({t \in Sessions : call[t] \in Running}) < threads
    /\ \E how \in Running : call' = [call EXCEPT ![s] = how]
    /\ UNCHANGED <<life, loops, permits, conn, session, threads>>

\* The other side answers in an unbounded wait, and the call goes on.
PeerAnswers(s) ==
    /\ call[s] \in Waits
    /\ call' = [call EXCEPT ![s] = "bounded"]
    /\ UNCHANGED <<life, loops, permits, conn, session, threads>>

\* The call is over; nobody takes the result once the tasks are gone.
CallReturns(s) ==
    /\ call[s] \in Running
    /\ call' = [call EXCEPT ![s] = IF TasksRun THEN "returned" ELSE "none"]
    /\ UNCHANGED <<life, loops, permits, conn, session, threads>>

\* The waits that end by themselves: those with a timeout, and those on a runtime
\* that is dropped.
CallMustReturn(s) ==
    /\ call[s] = "bounded" \/ (call[s] = "login" /\ process = "draining")
    /\ CallReturns(s)

\* dispatch resumes and the reply is written; on a lost connection the write
\* fails and the session ends.
Answer(s) ==
    /\ TasksRun
    /\ call[s] = "returned"
    /\ call' = [call EXCEPT ![s] = "none"]
    /\ session' = [session EXCEPT ![s] = IF Linked(s) THEN "serving" ELSE "ended"]
    /\ UNCHANGED <<life, loops, permits, conn, threads>>

\* The box closes its stream.
BoxCloses(s) ==
    /\ TasksRun
    /\ session[s] = "serving"
    /\ session' = [session EXCEPT ![s] = "ended"]
    /\ UNCHANGED <<life, loops, permits, conn, call, threads>>

ReadFails_Retries(s) ==
    /\ TasksRun
    /\ session[s] = "serving"
    /\ ~ Linked(s)
    /\ UNCHANGED vars

\* read_frame fails on a lost connection and ends the session.
ReadFails(s) ==
    /\ TasksRun
    /\ session[s] = "serving"
    /\ ~ Linked(s)
    /\ session' = [session EXCEPT ![s] = "ended"]
    /\ UNCHANGED <<life, loops, permits, conn, call, threads>>

-----------------------------------------------------------------------------
\* No more starts are allowed by the bound.
Over ==
    /\ process = "down"
    /\ boots = MaxBoots
    /\ UNCHANGED vars

Next ==
    \/ Boot
    \/ BootFails
    \/ Crash
    \/ ArmSignals
    \/ HandlerFails
    \/ ShutdownSignal
    \/ UdsAcceptFails
    \/ EndpointLost
    \/ MetricsAcceptFails
    \/ CleanUp
    \/ DropRuntime
    \/ Exit
    \/ Over
    \/ \E c \in Conns : ConnArrives(c)
    \/ \E c \in Conns : QuicAccept(c)
    \/ \E c \in Conns : Acquire(c)
    \/ \E c \in Conns : HandshakeDone(c)
    \/ \E c \in Conns : HandshakeFails(c)
    \/ \E c \in Conns : ConnLost(c)
    \/ \E c \in Conns : ConnEnds(c)
    \/ \E s \in Sessions : UdsAccept(s)
    \/ \E s \in Sessions : StreamOpened(s)
    \/ \E s \in Sessions : AcceptBi(s)
    \/ \E s \in Sessions : StartCall(s)
    \/ \E s \in Sessions : CallRuns(s)
    \/ \E s \in Sessions : PeerAnswers(s)
    \/ \E s \in Sessions : CallReturns(s)
    \/ \E s \in Sessions : Answer(s)
    \/ \E s \in Sessions : BoxCloses(s)
    \/ \E s \in Sessions : ReadFails(s)

Spec == Init /\ [][Next]_vars

\* The supervisor restarts the daemon; main runs on after the select; a task
\* that can run does; the pool takes queued calls up in their order, so that none
\* is passed over for ever; a call in a wait with a timeout returns, and one that
\* waits on the dropped runtime.  Nothing is assumed of a wait without a timeout,
\* and peers and signals owe nothing.
Fairness ==
    /\ WF_vars(Boot)
    /\ WF_vars(CleanUp \/ DropRuntime \/ Exit)
    /\ \A c \in Conns : WF_vars(QuicAccept(c) \/ Acquire(c) \/ ConnEnds(c))
    /\ \A s \in Sessions :
        /\ WF_vars(AcceptBi(s) \/ Answer(s) \/ ReadFails(s) \/ CallMustReturn(s))
        /\ SF_vars(CallRuns(s))

FairSpec == Spec /\ Fairness

-----------------------------------------------------------------------------
\* The process, its loops, its connections and its sessions are each in one of
\* their states, and never more permits are free than there are.
TypeOK ==
    /\ config \in Configs
    /\ process \in {"down", "serving", "stopping", "exiting", "draining"}
    /\ boots \in 0..MaxBoots
    /\ socket \in {"none", "bound", "stale"}
    /\ udsLoop \in {"off", "accepting", "failed"}
    /\ quicLoop \in {"off", "accepting", "acquiring", "failed"}
    /\ metricsLoop \in {"off", "accepting", "parked"}
    /\ signals \in {"unarmed", "armed", "failed", "received"}
    /\ permits \in 0..MaxConnections
    /\ conn \in [Conns -> {"none", "queued", "held", "handshake", "open",
                           "lost", "gone"}]
    /\ session \in [Sessions -> {"none", "offered", "serving", "calling", "ended"}]
    /\ call \in [Sessions -> {"none", "queued", "returned"} \cup Running]
    /\ threads \in 1..BlockingThreads

\* Every permit is either free or held by one connection that is not over,
\* however handshakes fail and connections end, so that no more than
\* max_connections are admitted and no slot is ever lost (quic_accept_loop).
PermitsBalanced ==
    TasksRun => permits + Cardinality(Admitted) = MaxConnections

\* While the daemon serves, no configured egress listener is dead and the
\* socket file names the live UDS listener: a box is never left with a daemon
\* that runs but cannot be reached (run_listeners, main).
NoDeafDaemon ==
    process = "serving" =>
        /\ UdsBound => udsLoop = "accepting" /\ socket = "bound"
        /\ config.quic => quicLoop \in {"accepting", "acquiring"}

\* The daemon stops for a signal it has received, for a handler it could not
\* install when it began to serve, or for a dead egress listener, never for the
\* loss of the metrics endpoint (shutdown_signal, run_listeners,
\* metrics_accept_loop).
StopsForCause ==
    process \in {"stopping", "exiting", "draining"} =>
        \/ signals \in {"received", "failed"}
        \/ udsLoop = "failed"
        \/ quicLoop = "failed"

\* A waiting connection is admitted, or the daemon goes, as long as the ones
\* admitted keep falling below the ceiling: no sequence of failed handshakes
\* and closed connections shuts the listener (quic_accept_loop).
WaitingAdmitted ==
    []<>(Cardinality(Admitted) < MaxConnections) =>
        \A c \in Conns : conn[c] = "queued" ~> conn[c] \notin {"queued", "held"}

\* No thread of the pool is left to calls that wait for one.
Exhausted == Cardinality({s \in Sessions : call[s] \in Waits}) >= threads

\* A session that outlives its connection ends by itself, unless its own call
\* stays for ever in a wait without a timeout, or such calls of others leave no
\* blocking thread to take its call up (handle_quic_connection, serve, dispatch).
DetachedSessionsEnd ==
    \A s \in {t \in Sessions : Via[t] # Uds} :
        \/ <>[](call[s] \in Waits)
        \/ <>[]Exhausted
        \/ conn[Via[s]] \in {"lost", "gone"}
              /\ session[s] \in {"offered", "serving", "calling"} ~> session[s] = "ended"

\* Once the daemon stops it exits, open sessions, queued calls and calls that wait
\* on its runtime notwithstanding: only a call that stays for ever in a wait on a
\* socket or a runtime of its own holds it (main, shutdown_signal).
ShutdownCompletes ==
    \/ \E s \in Sessions : <>[](call[s] = "handshake")
    \/ process \in {"stopping", "exiting", "draining"} ~> process = "down"

\* A daemon that is down comes back, whatever a crash or a failed start left of
\* its socket file (main).
Restarts ==
    process = "down" /\ boots < MaxBoots ~>
        process = "serving" \/ boots = MaxBoots
=============================================================================
