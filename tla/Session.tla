------------------------------- MODULE Session -------------------------------
(***************************************************************************)
(* fabricd's core: the concurrent sessions that run `serve`                *)
(* (fabricd/src/main.rs) over a fresh BackendSet each                      *)
(* (fabric-backends/src/backendset.rs), sharing the operator table, the    *)
(* db circuit breaker and the auth-failure counter.                        *)
(*                                                                         *)
(* A step is a stretch of code between two points where another task can   *)
(* run: an await of `serve`, a wait inside the blocking thread of a call.  *)
(* A session is in one of the control states of PC:                        *)
(*   await_init  reading the first frame                                   *)
(*   rejecting   writing the response after which `serve` returns          *)
(*   acking      writing Ack                                               *)
(*   serving     reading the next frame                                    *)
(*   queued      a call handed to spawn_blocking, no thread running it yet *)
(*   connecting  inside the slot's get_or_init, past the breaker           *)
(*   driving     inside the backend's `call`                               *)
(*   replying    writing a response, then back to serving                  *)
(*   closed      `serve` has returned and dropped its BackendSet           *)
(***************************************************************************)
EXTENDS Resources, ClientAuth, Breaker

CONSTANTS Sessions,         \* the sessions, each one UDS connection or QUIC stream
          QuicSessions,     \* those that came in through the QUIC listener
          Table,            \* Shared.table
          Ceiling,          \* Shared.max_statement_timeout_ms
          Inits,            \* Init frames the boxes send
          Calls,            \* Call frames the boxes send
          MaxSends,         \* max_sends of the mail bindings; 0 = no limit
          BlockingThreads,  \* size of tokio's blocking pool
          PanicUnwinds,     \* the build's panic strategy: FALSE = abort (release)
          MaxFrames         \* bound: frames one box sends in its session

\* The control states of a session, explained above.
PC == {"await_init", "rejecting", "acking", "serving", "queued", "connecting",
       "driving", "replying", "closed"}

WireInit ==
    [tenant : Tenants \cup {None}, token : Tokens \cup {NoToken},
     names : Selections]

\* A call names a capability (or anything else); of its payload only whether
\* it can be unpacked matters here.
WireCall == [name : Kinds \cup Names, payload : {"valid", "malformed"}]

(***************************************************************************)
(* Responses.  Driver error codes are grouped into classes: the code a     *)
(* connect failure, a driver failure or an unreadable payload gets in each *)
(* backend is not told apart from its siblings.                            *)
(***************************************************************************)
ReplyCodes ==
    {"OK", "IO_UNKNOWN", "NOT_CONFIGURED", "DB_CIRCUIT_OPEN", "CONNECT_FAILED",
     "BAD_PAYLOAD", "DRIVER_ERROR", "MAIL_OP_LIMIT"}

Codes == ReplyCodes \cup ResolveCodes \cup {"UNAUTHENTICATED"}

NoCounts == [k \in Kinds |-> 0]

WireResponse ==
    [type : {"Ack", "InitError", "Reply", "Metrics", "ProtocolError"},
     code : Codes, ops : [Kinds -> Nat]]

Response(type, code) == [type |-> type, code |-> code, ops |-> NoCounts]

Ack == Response("Ack", "OK")

InitError(code) == Response("InitError", code)

Reply(code) == Response("Reply", code)

ProtocolError == Response("ProtocolError", "OK")

-----------------------------------------------------------------------------
ASSUME SessionAssumption ==
    /\ QuicSessions \subseteq Sessions
    /\ Table \in Tables
    /\ Ceiling \in Nat
    /\ Inits \subseteq WireInit
    /\ Calls \subseteq WireCall
    /\ None \notin WireInit
    /\ None \notin WireCall
    /\ None \notin WireResponse
    /\ MaxSends \in Nat
    /\ BlockingThreads \in Nat \ {0}
    /\ PanicUnwinds \in BOOLEAN
    /\ MaxFrames \in Nat
    /\ Names \cap Kinds = {}

VARIABLES
    pc,             \* control state of each session
    init,           \* the Init frame it received
    request,        \* kind of the request it has taken and not answered
    call,           \* the call its blocking thread runs
    response,       \* the response it is writing
    slots,          \* its BackendSet: one slot per kind
    breaker,        \* Shared.breaker, per target
    auth_failures,  \* Shared.auth_failures
    delivered,      \* the last response the box received
    frames,         \* frames the box has sent
    called,         \* per kind, calls the box has sent
    oks,            \* per kind, Reply(Ok) the box has received
    attempts,       \* per kind, connects the session started
    panics,         \* per kind, connects of the session that panicked
    threads         \* blocking threads that sessions not seen here leave to these

shared == <<breaker, auth_failures>>

box == <<delivered, frames, called, oks>>

history == <<attempts, panics, threads>>

vars == <<pc, init, request, call, response, slots, shared, box, history>>

-----------------------------------------------------------------------------
(***************************************************************************)
(* BackendSet: per kind a slot, wired or not, with the connect-once cell   *)
(* (empty, the backend, or the classified connect error) and the number of *)
(* operations in the backend's metrics collector.                          *)
(***************************************************************************)
Slot ==
    [state : {"none", "empty", "ok", "err"},
     config : TenantResourceBinding \cup {None}, code : Codes, ops : Nat]

NoSlot == [state |-> "none", config |-> None, code |-> "OK", ops |-> 0]

NoBackends == [k \in Kinds |-> NoSlot]

\* from_configs: amq is stateless and built eagerly, the others lazily.
from_configs(configs) ==
    [k \in Kinds |->
        IF configs[k] = None THEN NoSlot
        ELSE [state |-> IF k = "amq" THEN "ok" ELSE "empty",
              config |-> configs[k], code |-> "OK", ops |-> 0]]

\* BackendSet::metrics: a capability that never connected reports nothing.
metrics(set) ==
    [k \in Kinds |-> IF set[k].state = "ok" THEN set[k].ops ELSE 0]

\* Kinds whose payload BackendSet unpacks, after connecting; the others pass
\* it on to the backend's metered call.
UnpackedKinds == {"db", "mongo", "auth"}

Kind(s) == call[s].name

Guarded(k) == k = "db" /\ BreakerOn

Unpacks(c) == c.name \in UnpackedKinds => c.payload = "valid"

-----------------------------------------------------------------------------
Init ==
    /\ pc = [s \in Sessions |-> "await_init"]
    /\ init = [s \in Sessions |-> None]
    /\ request = [s \in Sessions |-> "nothing"]
    /\ call = [s \in Sessions |-> None]
    /\ response = [s \in Sessions |-> None]
    /\ slots = [s \in Sessions |-> NoBackends]
    /\ breaker = [t \in Targets |-> ClosedBreaker]
    /\ auth_failures = 0
    /\ delivered = [s \in Sessions |-> None]
    /\ frames = [s \in Sessions |-> 0]
    /\ called = [s \in Sessions |-> NoCounts]
    /\ oks = [s \in Sessions |-> NoCounts]
    /\ attempts = [s \in Sessions |-> NoCounts]
    /\ panics = [s \in Sessions |-> NoCounts]
    /\ threads \in 1..BlockingThreads

\* The session takes a frame of the given kind from its stream.
Take(s, kind) ==
    /\ frames[s] < MaxFrames
    /\ frames' = [frames EXCEPT ![s] = @ + 1]
    /\ request' = [request EXCEPT ![s] = kind]

\* The session starts to write r and goes on from `next` when it is written.
StartWriting(s, r, next) ==
    /\ response' = [response EXCEPT ![s] = r]
    /\ pc' = [pc EXCEPT ![s] = next]

-----------------------------------------------------------------------------
(* Opening a session. *)

\* A Call or Drain as first frame: ProtocolError, then the session ends.
FirstFrameNotInit(s, kind) ==
    /\ pc[s] = "await_init"
    /\ kind \in {"Call", "Drain"}
    /\ Take(s, kind)
    /\ StartWriting(s, ProtocolError, "rejecting")
    /\ UNCHANGED <<init, call, slots, shared, delivered, called, oks, history>>

\* UDS is gated by file permissions: its authenticator accepts every token.
Authenticated(s, i, verified) ==
    s \in QuicSessions => authenticate(i.token, verified)

ReceiveInit(s, i) ==
    /\ pc[s] = "await_init"
    /\ Take(s, "Init")
    /\ init' = [init EXCEPT ![s] = i]
    /\ UNCHANGED <<call, breaker, delivered, called, oks, history>>

\* The token is judged before the table is looked at.
RejectClient(s, i, verified) ==
    /\ ReceiveInit(s, i)
    /\ ~Authenticated(s, i, verified)
    /\ auth_failures' = auth_failures + 1
    /\ StartWriting(s, InitError("UNAUTHENTICATED"), "rejecting")
    /\ UNCHANGED slots

\* Slip: the names are looked up before the token is judged.
RejectNames_BeforeAuth(s, i, verified) ==
    LET result == resolve(Table, i.tenant, i.names)
    IN  /\ ReceiveInit(s, i)
        /\ result.code # "OK"
        /\ StartWriting(s, InitError(result.code), "rejecting")
        /\ UNCHANGED <<slots, auth_failures>>

RejectNames(s, i, verified) ==
    LET result == resolve(Table, i.tenant, i.names)
    IN  /\ ReceiveInit(s, i)
        /\ Authenticated(s, i, verified)
        /\ result.code # "OK"
        /\ StartWriting(s, InitError(result.code), "rejecting")
        /\ UNCHANGED <<slots, auth_failures>>

AcceptInit(s, i, verified) ==
    LET result == resolve(Table, i.tenant, i.names)
    IN  /\ ReceiveInit(s, i)
        /\ Authenticated(s, i, verified)
        /\ result.code = "OK"
        /\ slots' = [slots EXCEPT ![s] =
                        from_configs(clamp_db_statement_timeout(result.configs,
                                                                Ceiling))]
        /\ StartWriting(s, Ack, "acking")
        /\ UNCHANGED auth_failures

-----------------------------------------------------------------------------
(* The request loop. *)

ReceiveCall(s, c) ==
    /\ pc[s] = "serving"
    /\ Take(s, "Call")
    /\ call' = [call EXCEPT ![s] = c]
    /\ called' = IF c.name \in Kinds
                 THEN [called EXCEPT ![s][c.name] = @ + 1]
                 ELSE called
    /\ pc' = [pc EXCEPT ![s] = "queued"]
    /\ UNCHANGED <<init, response, slots, shared, delivered, oks, history>>

\* Slip: draining empties the collectors.
ReceiveDrain_Clears(s) ==
    /\ pc[s] = "serving"
    /\ Take(s, "Drain")
    /\ StartWriting(s, [type |-> "Metrics", code |-> "OK",
                        ops |-> metrics(slots[s])], "replying")
    /\ slots' = [slots EXCEPT ![s] = [k \in Kinds |-> [@[k] EXCEPT !.ops = 0]]]
    /\ UNCHANGED <<init, call, shared, delivered, called, oks, history>>

ReceiveDrain(s) ==
    /\ pc[s] = "serving"
    /\ Take(s, "Drain")
    /\ StartWriting(s, [type |-> "Metrics", code |-> "OK",
                        ops |-> metrics(slots[s])], "replying")
    /\ UNCHANGED <<init, call, slots, shared, delivered, called, oks, history>>

\* Slip: the session is opened again.
ReceiveSecondInit_Reopens(s) ==
    /\ pc[s] = "serving"
    /\ Take(s, "Init")
    /\ StartWriting(s, Ack, "acking")
    /\ UNCHANGED <<init, call, slots, shared, delivered, called, oks, history>>

\* A second Init is a protocol error that leaves the session as it was.
ReceiveSecondInit(s) ==
    /\ pc[s] = "serving"
    /\ Take(s, "Init")
    /\ StartWriting(s, ProtocolError, "replying")
    /\ UNCHANGED <<init, call, slots, shared, delivered, called, oks, history>>

\* EOF or a read error ends `serve`; its BackendSet is dropped.
EndOfInput(s) ==
    /\ pc[s] \in {"await_init", "serving"}
    /\ pc' = [pc EXCEPT ![s] = "closed"]
    /\ slots' = [slots EXCEPT ![s] = NoBackends]
    /\ UNCHANGED <<init, request, call, response, shared, box, history>>

\* The response reaches the box; after a rejection `serve` returns.
WriteResponse(s) ==
    /\ pc[s] \in {"rejecting", "acking", "replying"}
    /\ delivered' = [delivered EXCEPT ![s] = response[s]]
    /\ oks' = IF response[s].type = "Reply" /\ response[s].code = "OK"
              THEN [oks EXCEPT ![s][Kind(s)] = @ + 1]
              ELSE oks
    /\ request' = [request EXCEPT ![s] = "nothing"]
    /\ response' = [response EXCEPT ![s] = None]
    /\ call' = [call EXCEPT ![s] = None]
    /\ pc' = [pc EXCEPT ![s] = IF @ = "rejecting" THEN "closed" ELSE "serving"]
    /\ UNCHANGED <<init, slots, shared, frames, called, history>>

\* The box is gone: the write fails, `serve` returns the error.
WriteFails(s) ==
    /\ pc[s] \in {"rejecting", "acking", "replying"}
    /\ pc' = [pc EXCEPT ![s] = "closed"]
    /\ request' = [request EXCEPT ![s] = "nothing"]
    /\ response' = [response EXCEPT ![s] = None]
    /\ call' = [call EXCEPT ![s] = None]
    /\ slots' = [slots EXCEPT ![s] = NoBackends]
    /\ UNCHANGED <<init, shared, box, history>>

-----------------------------------------------------------------------------
(* A call on its blocking thread: BackendSet::call. *)

\* The blocking threads in use.
Busy == {s \in Sessions : pc[s] \in {"connecting", "driving"}}

\* A thread of the pool picks s's call up.
Scheduled(s) ==
    /\ pc[s] = "queued"
    /\ Cardinality(Busy) < threads

\* The call ends without having run the backend.
Answer(s, code) ==
    /\ StartWriting(s, Reply(code), "replying")
    /\ UNCHANGED <<init, request, call, box>>

\* Past the slot, `backend` in hand: unpack the payload, then run the backend.
EnterBackend(s) ==
    IF Unpacks(call[s])
    THEN /\ pc' = [pc EXCEPT ![s] = "driving"]
         /\ UNCHANGED <<init, request, call, response, box>>
    ELSE Answer(s, "BAD_PAYLOAD")

UnknownEgress(s) ==
    /\ Scheduled(s)
    /\ Kind(s) \notin Kinds
    /\ Answer(s, "IO_UNKNOWN")
    /\ UNCHANGED <<slots, shared, history>>

NotConfigured(s) ==
    /\ Scheduled(s)
    /\ Kind(s) \in Kinds
    /\ slots[s][Kind(s)].state = "none"
    /\ Answer(s, "NOT_CONFIGURED")
    /\ UNCHANGED <<slots, shared, history>>

\* The connect-once cell holds an error: every later call gets it again.
CachedFailure(s) ==
    /\ Scheduled(s)
    /\ Kind(s) \in Kinds
    /\ slots[s][Kind(s)].state = "err"
    /\ Answer(s, slots[s][Kind(s)].code)
    /\ UNCHANGED <<slots, shared, history>>

\* Slip: one lock around all connects, which a call on a connected backend
\* takes, too.
ReuseBackend_WaitsForConnects(s) ==
    /\ Scheduled(s)
    /\ Kind(s) \in Kinds
    /\ slots[s][Kind(s)].state = "ok"
    /\ \A t \in Sessions : pc[t] # "connecting"
    /\ EnterBackend(s)
    /\ UNCHANGED <<slots, shared, history>>

\* The cell holds the backend: the call reuses the connection.
ReuseBackend(s) ==
    /\ Scheduled(s)
    /\ Kind(s) \in Kinds
    /\ slots[s][Kind(s)].state = "ok"
    /\ EnterBackend(s)
    /\ UNCHANGED <<slots, shared, history>>

\* First use: get_or_init runs connect_resource, for db behind the breaker.
FirstUse(s) ==
    /\ Scheduled(s)
    /\ Kind(s) \in Kinds
    /\ slots[s][Kind(s)].state = "empty"

Settle(s, state, code) ==
    slots' = [slots EXCEPT ![s][Kind(s)].state = state,
                           ![s][Kind(s)].code = code]

Target(s) == slots[s][Kind(s)].config.target

\* Slip: the breaker is told the outcomes but never asked.
StartConnect_Unguarded(s) ==
    /\ FirstUse(s)
    /\ pc' = [pc EXCEPT ![s] = "connecting"]
    /\ attempts' = [attempts EXCEPT ![s][Kind(s)] = @ + 1]
    /\ UNCHANGED <<init, request, call, response, slots, shared, box, panics,
                   threads>>

StartConnect(s) ==
    /\ FirstUse(s)
    /\ IF Guarded(Kind(s))
       THEN \E a \in allow(breaker[Target(s)]) :
               /\ a.admitted
               /\ breaker' = [breaker EXCEPT ![Target(s)] = a.next]
       ELSE UNCHANGED breaker
    /\ pc' = [pc EXCEPT ![s] = "connecting"]
    /\ attempts' = [attempts EXCEPT ![s][Kind(s)] = @ + 1]
    /\ UNCHANGED <<init, request, call, response, slots, auth_failures, box,
                   panics, threads>>

\* The breaker refuses: no connect, and the refusal is cached like any other
\* connect error.
CircuitOpen(s) ==
    /\ FirstUse(s)
    /\ Guarded(Kind(s))
    /\ \E a \in allow(breaker[Target(s)]) :
          /\ ~a.admitted
          /\ breaker' = [breaker EXCEPT ![Target(s)] = a.next]
    /\ Settle(s, "err", "DB_CIRCUIT_OPEN")
    /\ Answer(s, "DB_CIRCUIT_OPEN")
    /\ UNCHANGED <<auth_failures, history>>

\* The outcome of a guarded connect goes into the breaker.
RecordOutcome(s, ok) ==
    IF Guarded(Kind(s))
    THEN \E b \in record(breaker[Target(s)], ok) :
            breaker' = [breaker EXCEPT ![Target(s)] = b]
    ELSE UNCHANGED breaker

ConnectSucceeds_Unrecorded(s) ==
    /\ pc[s] = "connecting"
    /\ Settle(s, "ok", "OK")
    /\ EnterBackend(s)
    /\ UNCHANGED <<shared, history>>

ConnectSucceeds(s) ==
    /\ pc[s] = "connecting"
    /\ RecordOutcome(s, TRUE)
    /\ Settle(s, "ok", "OK")
    /\ EnterBackend(s)
    /\ UNCHANGED <<auth_failures, history>>

\* Slips: the error is not cached; it is cached with its raw text for a code.
ConnectFails_NotCached(s) ==
    /\ pc[s] = "connecting"
    /\ RecordOutcome(s, FALSE)
    /\ Answer(s, "CONNECT_FAILED")
    /\ UNCHANGED <<slots, auth_failures, history>>

ConnectFails_RawCode(s) ==
    /\ pc[s] = "connecting"
    /\ RecordOutcome(s, FALSE)
    /\ Settle(s, "err", "connection refused")
    /\ Answer(s, "CONNECT_FAILED")
    /\ UNCHANGED <<auth_failures, history>>

ConnectFails(s) ==
    /\ pc[s] = "connecting"
    /\ RecordOutcome(s, FALSE)
    /\ Settle(s, "err", "CONNECT_FAILED")
    /\ Answer(s, "CONNECT_FAILED")
    /\ UNCHANGED <<auth_failures, history>>

\* mail refuses a call over max_sends before it starts, unmetered.
SendsExhausted(s) ==
    /\ Kind(s) = "mail"
    /\ MaxSends # 0
    /\ slots[s]["mail"].ops >= MaxSends

MailLimit(s) ==
    /\ pc[s] = "driving"
    /\ SendsExhausted(s)
    /\ Answer(s, "MAIL_OP_LIMIT")
    /\ UNCHANGED <<slots, shared, history>>

\* The backend's dispatch returns, either way: the operation is metered.
BackendReturns(s, code) ==
    /\ pc[s] = "driving"
    /\ ~SendsExhausted(s)
    /\ code \in {"OK", "DRIVER_ERROR"}
    /\ slots' = [slots EXCEPT ![s][Kind(s)].ops = @ + 1]
    /\ Answer(s, code)
    /\ UNCHANGED <<shared, history>>

\* The blocking task panics in a build that unwinds (the dev profile): nothing it
\* had not finished is done (an initialising cell stays empty, the breaker is told
\* nothing, nothing is metered), and the join error is answered.
BackendPanics(s) ==
    /\ PanicUnwinds
    /\ pc[s] \in {"connecting", "driving"}
    /\ StartWriting(s, ProtocolError, "replying")
    /\ panics' = IF pc[s] = "connecting"
                 THEN [panics EXCEPT ![s][Kind(s)] = @ + 1]
                 ELSE panics
    /\ UNCHANGED <<init, request, call, slots, shared, box, attempts, threads>>

\* The same panic in a build that aborts (panic = "abort" of the release profile,
\* which the Dockerfile ships): the process ends, and with it every session and
\* all that was shared.  A session that had sent nothing stands for one of the
\* daemon that is started next.
DaemonAborts ==
    /\ ~ PanicUnwinds
    /\ Busy # {}
    /\ pc' = [s \in Sessions |->
                IF pc[s] = "await_init" THEN "await_init" ELSE "closed"]
    /\ request' = [s \in Sessions |-> "nothing"]
    /\ call' = [s \in Sessions |-> None]
    /\ response' = [s \in Sessions |-> None]
    /\ slots' = [s \in Sessions |-> NoBackends]
    /\ breaker' = [t \in Targets |-> ClosedBreaker]
    /\ auth_failures' = 0
    /\ UNCHANGED <<init, box, history>>

\* Time passes: an open breaker may be probed again.
CoolDown(t) ==
    /\ breaker[t].st = "open"
    /\ breaker' = [breaker EXCEPT ![t].st = "cooled"]
    /\ UNCHANGED <<pc, init, request, call, response, slots, auth_failures, box,
                   history>>

-----------------------------------------------------------------------------
Opening(s) ==
    \/ \E kind \in {"Call", "Drain"} : FirstFrameNotInit(s, kind)
    \/ \E i \in Inits, verified \in BOOLEAN :
          \/ RejectClient(s, i, verified)
          \/ RejectNames(s, i, verified)
          \/ AcceptInit(s, i, verified)

\* Steps the box or the network takes: the daemon cannot force them.
BoxStep(s) ==
    \/ Opening(s)
    \/ \E c \in Calls : ReceiveCall(s, c)
    \/ ReceiveDrain(s)
    \/ ReceiveSecondInit(s)
    \/ EndOfInput(s)

Write(s) == WriteResponse(s) \/ WriteFails(s)

RunCall(s) ==
    \/ UnknownEgress(s)
    \/ NotConfigured(s)
    \/ CachedFailure(s)
    \/ ReuseBackend(s)
    \/ StartConnect(s)
    \/ CircuitOpen(s)

ConnectEnds(s) == ConnectSucceeds(s) \/ ConnectFails(s)

BackendEnds(s) ==
    \/ MailLimit(s)
    \/ \E code \in {"OK", "DRIVER_ERROR"} : BackendReturns(s, code)

\* All the sessions are over: the daemon waits for the next one.
Idle ==
    /\ \A s \in Sessions : pc[s] = "closed"
    /\ UNCHANGED vars

Next ==
    \/ \E s \in Sessions :
          \/ BoxStep(s)
          \/ Write(s)
          \/ RunCall(s)
          \/ ConnectEnds(s)
          \/ BackendEnds(s)
          \/ BackendPanics(s)
    \/ DaemonAborts
    \/ \E t \in Targets : CoolDown(t)
    \/ Idle

Spec == Init /\ [][Next]_vars

(***************************************************************************)
(* Fairness.  A box that waits for a response reads it or goes away; the   *)
(* blocking pool serves its queue in order; and the driver call of every   *)
(* kind but amq is bounded by a client-side timeout (the execution         *)
(* deadline for db and mongo, socket or HTTP timeouts for mail, redis and  *)
(* auth).  Nothing bounds a connect (the `SET statement_timeout` of db and *)
(* the redis handshake have no timeout), a publish to RabbitMQ, or the     *)
(* box's next frame: these get no fairness.                                *)
(***************************************************************************)
BoundedKinds == Kinds \ {"amq"}

BoundedEnds(s) ==
    /\ pc[s] = "driving"
    /\ Kind(s) \in BoundedKinds
    /\ BackendEnds(s)

FairSpec ==
    /\ Spec
    /\ \A s \in Sessions :
          /\ WF_vars(Write(s))
          /\ SF_vars(RunCall(s))
          /\ WF_vars(BoundedEnds(s))

-----------------------------------------------------------------------------
\* Every session is at a point of `serve` with a frame, a call, a response and a
\* backend set of the right shape; codes are those the wire knows.
TypeOK ==
    /\ pc \in [Sessions -> PC]
    /\ init \in [Sessions -> WireInit \cup {None}]
    /\ request \in [Sessions -> {"nothing", "Init", "Call", "Drain"}]
    /\ call \in [Sessions -> WireCall \cup {None}]
    /\ response \in [Sessions -> WireResponse \cup {None}]
    /\ slots \in [Sessions -> [Kinds -> Slot]]
    /\ breaker \in [Targets -> BreakerState]
    /\ auth_failures \in Nat
    /\ delivered \in [Sessions -> WireResponse \cup {None}]
    /\ frames \in [Sessions -> Nat]
    /\ called \in [Sessions -> [Kinds -> Nat]]
    /\ oks \in [Sessions -> [Kinds -> Nat]]
    /\ attempts \in [Sessions -> [Kinds -> Nat]]
    /\ panics \in [Sessions -> [Kinds -> Nat]]
    /\ threads \in 1..BlockingThreads

\* Whatever a session can connect to was provisioned by the operator for the
\* tenant in the Init the daemon received, under a name that Init selected and
\* for that capability, however its frames interleave with other tenants'
\* (resolve at session open, then the lazy slots of BackendSet).
TenantIsolation ==
    \A s \in Sessions, k \in Kinds : slots[s][k].state # "none" =>
        /\ init[s] # None
        /\ init[s].names[k] # None
        /\ Table[init[s].names[k]] # None
        /\ Table[init[s].names[k]].tenant = init[s].tenant
        /\ Table[init[s].names[k]].kind = k
        /\ slots[s][k].config.target = Table[init[s].names[k]].target

\* Responses that tell a box something about the operator table.
Telling(r) ==
    /\ r # None
    /\ r.type # "ProtocolError"
    /\ r.code # "UNAUTHENTICATED"

\* Before a QUIC box has presented a configured, non-empty secret it learns
\* nothing of the operator table, not even that a name does not resolve, and
\* nothing is wired for it (serve authenticates before it resolves; build
\* drops empty secrets).
AuthenticatedFirst ==
    \A s \in QuicSessions :
        (/\ AuthMode = "static"
         /\ \/ Telling(response[s])
            \/ Telling(delivered[s])
            \/ \E k \in Kinds : slots[s][k].state # "none")
        => /\ init[s] # None
           /\ init[s].token \in {StaticToken, PreviousToken}
           /\ init[s].token \notin {NoToken, EmptyToken}

\* A session connects each backend at most once, however many calls name it and
\* whether or not the connect worked; only a connect that panicked, in a build
\* that unwinds, is tried again (the get_or_init cells of the slots).
ConnectOnce ==
    \A s \in Sessions, k \in Kinds : attempts[s][k] <= 1 + panics[s][k]

\* The sessions inside a guarded connect to t.
Connecting(t) ==
    {s \in Sessions : pc[s] = "connecting" /\ Guarded(Kind(s)) /\ Target(s) = t}

\* While a target's breaker is open no session starts a connect to it: only
\* those let through before the trip may still be inside (connect_through_breaker
\* asks `allow` before it waits and `record`s after).
TripHonoured ==
    [][\A t \in Targets :
          (breaker[t].st = "open" /\ breaker'[t].st = "open")
              => Connecting(t)' \subseteq Connecting(t)]_vars

\* A half-open breaker always has its probe on the way: some session is inside a
\* connect whose outcome will close or reopen it.  The one way to lose the probe
\* is a connect that panics between `allow` and `record` in a build that unwinds;
\* where a panic aborts, the breaker goes with it.
ProbeAccounted ==
    \A t \in Targets : breaker[t].st = "half_open" =>
        \/ Connecting(t) # {}
        \/ \E s \in Sessions : panics[s]["db"] > 0

\* The metrics a box drains account for its session: at least one metered
\* operation for every Ok it has received from a backend, and no more than the
\* calls it made, also after failed connects, panics and earlier drains.
DrainCoversReplies ==
    \A s \in Sessions :
        (response[s] # None /\ response[s].type = "Metrics") =>
            \A k \in Kinds : /\ oks[s][k] <= response[s].ops[k]
                             /\ response[s].ops[k] <= called[s][k]

\* Sessions in a wait that nothing bounds, each on a blocking thread.
Hanging ==
    {s \in Sessions : \/ pc[s] = "connecting"
                      \/ pc[s] = "driving" /\ Kind(s) \notin BoundedKinds}

\* No thread is left to the calls that wait for one.
Exhausted == Cardinality(Hanging) >= threads

\* A call on a connected backend with a bounded driver is answered, or its session
\* ends, although other sessions hang in connects, as long as these do not hold
\* the whole blocking pool for ever: a pool exhausted by hung connects is the one
\* thing that starves it (dispatch, spawn_blocking, block_on_db's deadline).
ConnectedCallsAnswered ==
    \/ <>[]Exhausted
    \/ \A s \in Sessions :
          (/\ pc[s] \in {"queued", "driving"}
           /\ Kind(s) \in BoundedKinds
           /\ slots[s][Kind(s)].state = "ok")
          ~> pc[s] \in {"serving", "closed"}

-----------------------------------------------------------------------------
(***************************************************************************)
(* Session implements the wire contract.                                   *)
(***************************************************************************)
Phase(s) ==
    CASE pc[s] \in {"await_init", "rejecting", "acking"} -> "opening"
      [] pc[s] = "closed" -> "closed"
      [] OTHER -> "open"

AnswerType(s) ==
    IF delivered[s] = None THEN "nothing" ELSE delivered[s].type

Contract == INSTANCE WireContract WITH
    phase <- [s \in Sessions |-> Phase(s)],
    owed <- request,
    answer <- [s \in Sessions |-> AnswerType(s)]

\* Every session behaves as the wire contract says: one response of the right
\* kind per request, nothing after the end, one opening.
ImplementsContract == Contract!Spec
=============================================================================
