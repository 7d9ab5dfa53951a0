# fabricd: a TLA+ development

`fabricd` is an egress daemon. A *box* (a sandbox host) connects over a Unix
socket or QUIC, opens a session with an `Init` frame that names the resources it
wants, and makes calls on them. The daemon holds the credentials, resolves names
within the box's tenant, connects lazily to PostgreSQL, MongoDB, Redis, mail,
RabbitMQ/NATS and OIDC back ends, and answers every request with one response.

This directory models that behaviour in TLA+, checks it with TLC on small
instances, and proves the central safety properties with TLAPS for all
instances. File names below are relative to `src/crates/`.

## 1. Inventory of the system

| Component | State | Operations | Hard part | Correct when | Modules |
|---|---|---|---|---|---|
| Credential table (`fabric-backends/src/resources.rs`) | name → binding (tenant, kind, target, limits) | `pick`, `resolve`, clamp | absence and foreign tenancy must look alike; 0 means "no limit" twice | a session gets only its tenant's bindings, all or nothing, and learns nothing of others | `Resources`, `SessionOpen` |
| Session server (`fabricd/src/main.rs`: `serve`, `dispatch`) | per session: where it is, the `Init`, the call in flight | read a frame, authenticate, resolve, dispatch on a blocking thread, write | many sessions interleave; a panic ends the call or, in the shipped build, the daemon; boxes that vanish mid-response | one response of the right kind per request, auth before anything else | `Session`, `WireContract` |
| Backend set (`fabric-backends/src/backendset.rs`) | one connect-once slot per kind, operation metrics | build, call, drain | a failed connect is cached; one that panicked (in a build that unwinds) is not | at most one connect; drains neither lose nor invent | `Session` |
| Client auth (`fabricd/src/auth.rs`) | configured secrets | `build`, `authenticate` | empty and absent tokens, rotation | only configured, non-empty secrets pass | `ClientAuth`, `Session` |
| sa-token verifier (`fabric-backends/src/sa_token.rs`) | cached key map | refresh loop, `verify` | the cache is swapped while tokens are judged; fetches fail or hang | a verdict is that of one fetched key set; rotations are learned | `SaToken` |
| Circuit breaker (external `runlet_wire`, used in `db.rs`) | per target: closed / open / half-open | `allow`, `record` | asked before a wait, told after it, by many sessions | an open breaker admits nobody; a probe is not lost | `Breaker`, `Session` |
| db backend (`fabric-backends/src/db.rs`) | connection, absolute deadline | connect, query, execute, begin, commit, rollback | a timed-out request has already been sent | what was told committed is, and after which failures that is worth nothing; every call returns; nothing stays open | `DbBackend` |
| redis backend (`fabric-backends/src/kv.rs`) | one blocking connection behind a mutex | get, set, delete, increment, expire | the connection goes on being used after a read timed out, and after a write stopped half way | nothing runs twice; an answer belongs to its call unless a write stopped half way; a time to live is never lost | `Redis` |
| mongo backend (`fabric-backends/src/mongo.rs`) | client, absolute deadline, document cap | four reads, six writes | cursors in batches under one deadline; writes that go on without their caller; an `insert_many` in several commands | a read is complete or says so; a reported count is what changed | `Mongo` |
| mail backend (`fabric-backends/src/mail.rs`) | transport with a kept connection, send limit | send | several recipients, one transaction; a reply that is lost | only allowed recipients, all or none, no more than the limit | `Mail` |
| auth backend (`fabric-backends/src/auth.rs`) | remembered discovery document | user_info, introspect | the issuer changes its document; a fault must not look like a bad token | a verdict is the endpoint's own; one document per session | `AuthOidc` |
| amq backend (`fabric-backends/src/amq.rs`) | none between calls | send, request | a client and a runtime per call, dropped with it | a batch answered `published` was written; nothing goes out twice or out of order | `Amq` |
| Listeners and process (`fabricd/src/main.rs`) | accept loops, permits, socket file | boot, accept, handshake, shutdown | detached tasks, one select over everything, waits without a timeout on a shared pool of threads, crash and restart | no permit lost, no half-dead daemon, shutdown ends | `Listeners` |
| configuration, TLS and endpoint set-up; metrics text | none after start-up | | | | not modelled |

Interactions: a listener spawns a task per session; a session shares the table
(read only), the breaker and the auth-failure counter with all others; a call
runs on a blocking thread of tokio's pool and drives its back end from there;
the sa-token verifier shares its cache between the refresh task and all QUIC
sessions; a resolved accept loop ends the process for everyone.

`PROJECT.json` lists what is hard to test in this code, each item at the line
where it bites, with the properties that would catch it going wrong.

## 2. Modules

`Resources` translates `pick`, `resolve` (a chain of six picks with the first
error winning: `Unresolved` lists the kinds that fail, in the code's order) and
the clamp as operators. `SessionOpen` opens exactly one session
against an arbitrary table; `ExistenceNeverLeaks` compares the outcome with that
of the same table stripped of all other tenants' bindings.

`Session` is the core. Its steps are the stretches of `serve`, `dispatch` and
`BackendSet` between two points where another task can run; the control states
are explained at its head. It extends `Resources`, `ClientAuth` and `Breaker`. A
frame the box sends, a wait on the blocking pool, a connect, a driver call, a
write, each with its ways to fail (a closed stream, a malformed payload, a
refusal by the breaker, a failed or panicking connect, a driver error, a
panicking driver) are actions. Driver error codes are grouped by class: a
property that tells two codes of one class apart does not exist. The back ends
differ where the daemon treats them differently (what each does inside a call is
in a module of its own): amq is built eagerly and unbounded in time, mail has a
send limit, db goes through the breaker, and db, mongo and auth unpack their
payload after connecting. What a panic does depends on the build, the constant
`PanicUnwinds`: a development build unwinds, and `dispatch` answers with a
protocol error (`BackendPanics`); the release profile, which the Dockerfile
ships, aborts, and with the process every session ends (`DaemonAborts`). The
variable `threads` is what the rest of the daemon leaves of the blocking pool.

`WireContract` is the abstract specification: what a box that only sees frames
may rely on, with one request outstanding per session; any set of sessions may
end at once. `ImplementsContract` is the refinement, under the mapping at the
end of `Session`.

`Breaker` models the external circuit breaker by what fabricd documents of it.
What is not documented is nondeterministic (whether a half-open breaker admits a
second probe; what a late outcome does to an open one), so nothing shown of the
daemon depends on it.

`DbBackend` is one session's database connection: an absolute deadline anchored
after the connect, calls that may time out with their request queued, a server
that executes in order, fails statements, loses the connection, or stays silent.
It tracks what the box was told of its writes, and which of that was told in
doubt: an Ok after a failed or timed-out call, up to the next rollback answered
Ok, and a rollback answered Ok after a commit or rollback that was not.
External, and modelled from how `db.rs` uses them: tokio-postgres queues a
request when its future is first polled, dropping the future does not take it
back, and a dropped client ends the connection after what is queued; PostgreSQL
answers COMMIT of a failed transaction without an error. A tick is longer than
the granularity of tokio's timer: at the deadline an answer may still win over
the timeout. The connect has two parts: dialling, which `connect_timeout`
bounds, and the greeting (login and `SET statement_timeout`), which nothing
bounds.

`Redis` is one session's connection and the one key its calls are about. The
client library's pipelining on a connection whose last read timed out is
external: it counts the replies still to come and drops them first. A read may
time out whenever there is no reply. A write may time out with nothing, or a part
of its command, written (`WriteTimesOut`); the connection is used again, no reply
is skipped for it, and the server takes the bytes of later commands for the rest
of the part it has (`Swallow`, `SwallowSome`): the command that this makes up may
be refused or executed, and a later command may lose its beginning. A poisoned
mutex is left out: a panic ends the shipped build, and the lock has no other user.

`Mongo` has the server as a table of what each call's operation is doing there.
A call selects a server, sends, waits, and for a cursor drains batches up to the
cap, all under one deadline. A large `insert_many` is several commands of the
driver, and what ends a later one comes after the earlier ones were applied. An
operation given up by the daemon goes on at the server; `max_time` may end it
where the code sets it.

`Mail` has the checks of `do_send` as operators over small address sets (upper
and lower case, allowed and not, malformed) and the SMTP transaction as steps:
test the kept connection or connect anew, MAIL, one RCPT per recipient, DATA,
the message. Any wait may time out. A relay that has the whole message may
accept it after the daemon stopped waiting.

`AuthOidc` is discovery and the two questions, each request in its two waits
(head and body, either of which may fail or time out), with an issuer that may
publish another document at any time.

`SaToken` has the issuer's published key set, the refresh loop with its phases,
and `verify` in its three steps (header, lookup under the read lock, signature
and claims without it). Whether a token's audience, issuer and expiry hold is a
property of the token at the moment it is judged.

`Amq` is a call of the producer with every point at which it can fail, over
either broker. What a client library holds when its connection is lost, or when
the per-call runtime is dropped, is gone.

`Listeners` is the process: start-up under each configuration of listeners, the
accept loops and their select, permits, connections, sessions on detached tasks,
calls on blocking threads, shutdown, crash, and a supervisor's restart. A
session is seen from outside only. A call that runs is in a wait with a timeout,
or in one of two without: the db login and its `SET`, driven by the daemon's
runtime, or a wait that nothing of the daemon can end (the connect to Redis on a
blocking socket, RabbitMQ on a runtime of its own). tokio's runtime drop is
external: tasks are dropped, queued blocking calls discarded, running ones waited
for; what a running call awaits on the dropped runtime fails, the other waits go
on. The handlers of Ctrl+C and SIGTERM are installed when the select first polls
`shutdown_signal`; one that cannot be installed resolves it at once.

`MC*` modules give the constants their small values. `*Proofs` hold the
theorems. `SessionOpen`, `SaToken` and `Amq` prefix the names that every
specification has (`OpenSpec`, `SaSpec`, `AmqSpec`, ...), so that one module of
proofs can extend them beside another specification. Definitions named
`X_Something` next to a definition `X` are deliberate faults: plausible bugs of
that code, which are used to show that each property can fail.

## 3. What is checked

| Run | Instance | Shows |
|---|---|---|
| `session_open` | 2 names, 2 tenants and loopback, timeouts 0, below, at and above the ceiling, every table and selection of db and mongo | `OnlyAuthorisedEndpoints`, `ExistenceNeverLeaks`, `StatementTimeoutCapped` |
| `session_race` | 2 QUIC sessions, 2 tenants, one shared target, threshold 1, 3 frames each, six kinds of `Init`, connects that may hang, 1 or 2 blocking threads, panics that abort | `TenantIsolation`, `AuthenticatedFirst`, `ConnectOnce`, `ProbeAccounted`, `TripHonoured`, `ImplementsContract`, `ConnectedCallsAnswered` |
| `session_solo` | 1 session, 5 frames, db + mail with one send + amq, malformed payloads, unwired kinds, threshold 2, panics that unwind | `DrainCoversReplies` |
| `db_backend` | 4 calls, 2 ticks, budget 1 | `AssuredDurable`, `DiscardedNeverDurable`, `CallTimeBounded`, `CallReturned`, `NoTransactionLeft`, `ConnectSettles` |
| `redis` | 4 calls, every command, writes that stop half way, a counter that overflows at 2 | `RepliesMatched`, `TtlNeverLost` |
| `mongo` | 2 calls, budget 2, caps 0 to 2, batches of 2, up to 3 matches | `ReadComplete`, `ReportedApplied`, `CallReturned` |
| `mail` | 2 calls, up to one address in each of to, cc and bcc, limits 0 and 1 on sends, 0 to 2 on recipients | `RelayedAllowed`, `SendsCapped`, `OkRelayedToAll`, `RefusedNotRelayed` |
| `auth_oidc` | 4 calls, 3 documents, each subset of explicit endpoints | `VerdictFromEndpoint`, `OneDocument` |
| `sa_token` | 4 key sets (one empty, one with unusable entries and a reused kid), 3 rotations, 2 failures, 6 tokens | `VerdictFromOneFetch`, `RotationLearned` |
| `amq` | 2 calls, batches up to one above the limit of 3, both brokers | `PublishedWereSent`, `RefusedUnsent` |
| `listeners` | 2 connections for 1 permit, a stream and a UDS session, 1 or 2 blocking threads, 2 starts, all 8 configurations | `PermitsBalanced`, `NoDeafDaemon`, `StopsForCause`, `WaitingAdmitted`, `DetachedSessionsEnd`, `ShutdownCompletes`, `Restarts` |

Each module has a type invariant `TypeOK`; the session's is part of
`session_race`, the others are there for the proofs to build on. The run
`db_cancelled` shows a disagreement between the code and what is written about
it (section 5).

Why the bounds are enough. Two sessions are what a race on the breaker, the
counter or a target needs, and with one thread left of the pool a single hung
connect exhausts it; with threshold 1 one failure trips the breaker, and three
frames are an `Init` and two requests, the least with which a cached failure is
reused. Five frames let a drain follow calls, failures and another drain. Four
database calls are begin, write, commit and one to interfere; a budget of one
tick and two ticks of clock give every order of answer and deadline, before and
after. Four Redis calls are two that time out, reading or writing, one that
finds what they left, and one after it; two Mongo calls are one given up and one
that runs beside what is left of it, and three matches with batches and a cap of
two put the cap inside a batch, at its end and past the last document. Two mail
calls are one that fills the send limit and one that meets it, over the kept
connection or a new one; one address per field gives three recipients, one more
than the largest cap. Four questions to the issuer are a discovery that fails,
one that succeeds and two that use the memo after the document has changed. One
judging session suffices for the verifier, because sessions only read the cache;
three rotations return a key that was withdrawn. Two connections for one permit
make the second wait; two starts let the second find what a crash or a failed
start left behind. The safety properties of all runs are proved without these
bounds (section 4).

Fairness, and why the code grants it.
- `Session`: a session writes its response or its box goes away; the blocking
  pool serves its queue (strong fairness, since a thread may be taken by others
  again and again, while tokio's queue is in order); the driver calls of all
  kinds but amq end, because each is under a client-side timeout. No fairness
  for connects (the db login, `SET statement_timeout` and the Redis handshake
  have no timeout), for amq, or for boxes. Hung connects keep their threads, so
  `ConnectedCallsAnswered` has one exception: that they hold the whole pool for
  ever (`Exhausted`). Without it TLC finds the starvation: one thread left, one
  session hung in its connect, the other queued for a connected back end.
- `DbBackend`: what is ready is polled, and the clock runs. Nothing is assumed
  of the server; `NoTransactionLeft` states its own premise that the server goes
  on executing, `ConnectSettles` that a server which accepted the connection
  greets.
- `Mongo`: what is ready is polled, and the clock runs. Nothing is assumed of
  the server.
- `SaToken`: the refresh task is scheduled and its timer fires; a request ends
  unless it hangs, which `RotationLearned` names as the exception.
- `Listeners`: the supervisor restarts, `main` runs on after the select, tasks
  that can run do, the blocking pool serves its queue (strong fairness, as
  above). A call returns only from a wait with a timeout, or from one on the
  daemon's runtime once that is dropped; nothing is assumed of the other waits,
  whatever the back end. `DetachedSessionsEnd` therefore excepts a session whose
  own call stays in such a wait for ever and a pool that such calls hold for
  ever, `ShutdownCompletes` only a call that stays for ever in a wait on a
  socket or runtime of its own. Peers owe nothing: `WaitingAdmitted` states the
  premise that the number of admitted connections keeps falling below the
  ceiling.

## 4. What is proved

All 28 safety invariants of the passing runs, the action property `TripHonoured`
and the refinement `ImplementsContract`, for arbitrary constants under the named
assumptions of the modules (`NoneAssumption`, `SessionAssumption`, ...: the
constants have their types, option values differ from proper ones, capability
tags are not resource names, the set of QUIC connections is finite). The
theorems are about each module's `Spec`; the fairness conditions of the runs
only remove behaviours.

Each module of proofs states an inductive invariant, then one lemma per action
or group of actions that it survives, then the theorems. TLC checked every
inductive invariant on the instance of the component's run as well.

- `SessionOpenProofs`: `AuthorisedEndpoints`, `NoLeak`, `TimeoutCapped`. These
  follow from what `pick`, `resolve` and the clamp return, which is stated once
  as lemmas (`pick` of a foreign binding equals `pick` of an absent one;
  stripping foreign bindings commutes with `resolve`); `SessionProofs` cites
  them too.
- `SessionProofs`, from `IInv`:
  - `TypeCorrect`, `Isolation`, `OneConnect`. `TenantIsolation` is not inductive
    alone: a slot is wired by the step that accepts the `Init`, much earlier
    than it is used, so the invariant carries that a session past its opening
    has an `Init`, that a call in flight names a wired kind (`ControlOK`), that
    a slot's configuration is the one resolved (`SlotsOK`), and that an attempt
    is accounted for by a cell that is settled, a connect in progress or a panic
    (`OnceOK`).
  - `DrainAccounts`, with the account `MeterOK` on top: what is metered was
    called, and a reply Ok that is written, or about to be, was metered before
    it.
  - `AuthFirst` and `ProbeNeverLost` are kept by every step once `IInv` is;
    `TripsHonoured` is a property of the steps. `PanicUnwinds` is any Boolean
    there: the theorems hold of both builds.
  - `Implements`: the initial states map to initial states of `WireContract`,
    and each action to one of its steps or to a stutter (everything on the
    blocking thread, the breaker's clock); an abort ends a set of sessions at
    once, which is one step of the contract. `OwedOK` is what makes it work: it
    relates the request a session owes an answer to with the type of the
    response being written.
- `ListenersProofs`: `PermitsExact`, `NeverDeaf`, `StopsOnlyForCause`. The
  balance of permits needs that nothing is admitted while the tasks do not run:
  otherwise a restart would hand out permits twice. A stop without a live cause
  is excluded by the state of the signal handlers, which only a received signal
  or a failed installation changes together with the select. That the permits
  never exceed `max_connections` is not a guard of the code; it follows from the
  balance and from a released connection having been admitted.
- `DbBackendProofs`: `OkIsDurable`, `RolledBackIsGone`, `BudgetHolds`. What the
  box believes and what the server makes of it are apart by the requests on
  their way, so the invariant has that the request of a call is the last one
  queued (`OrderOK`), that no write is executed twice (`FreshOK`), that a box
  without a failure since its last rollback is in step with the server up to the
  call in progress (`SureOK`), that an answer under way is true (`DoneOK`), and,
  for the rollback, that a box whose commits and rollbacks were all answered Ok
  since the last that was has nothing of its open transaction committed nor a
  commit of it queued (`EndOK`): unlike `SureOK` it survives failed and
  timed-out statements. The provisos are in the properties: what was told in
  doubt is recorded beside what was told. The budget needs the clock and the
  time already spent in one sum (`TimeOK`).
- `MailProofs`: `RecipientsPermitted`, `CapHolds`, `OkMeansAll`,
  `RefusedIsFinal`. The cap is on answers that are counted, the property on
  messages that the relay saw; `CountOK` relates the two: every message was
  counted, or is the one of the send in progress. This is an argument on
  cardinalities.
- `AuthProofs`: `TokenJudged`, `EndpointsOfOneDocument` (`OidcMemoOK`: every
  endpoint asked so far is of the remembered document, and while there is none
  nothing was asked), and for the verifier `OneFetchJudges`. There the key that
  a verify cloned out of the cache may be gone when it decodes: `SaDecodeOK`
  says that some document in force since the verify began carries it, which
  rests on what `build_key_map` keeps of a document (the last usable entry of a
  kid, found with a minimality argument in place of an induction).
- `QueueProofs`:
  - Redis: `OwnReplies`, `TtlStays`. As long as no write stopped half way the
    driver's count of late replies must be exact (`KvSkipOK`) and the wire in
    the order of the calls (`KvWireOK`), or one more reply would be taken for
    the call's own.
  - amq: `PublishedIsWritten`, `RefusedIsUnsent`. Written and held messages
    together are the first messages of the batch, in order (`MqOrderOK`) and,
    while the connection holds, without a gap (`MqWholeOK`).
- `MongoProofs`: `ReadsComplete`, `ReportsApplied`. The documents that a cursor
  has handed out, holds and leaves at the server add up to its total
  (`MoCursorOK`); a command that runs has changed nothing yet, and an answer
  tells what was changed (`MoServerOK`, `MoInboxOK`). Of the errors, those that
  are classified as the developer's mistake (`MoMistakes`) come with nothing
  changed, or with the earlier commands of a split `insert_many`
  (`LeftByRefusal`).

Only model-checked: the liveness properties `ConnectedCallsAnswered`,
`CallReturned` (db and mongo), `NoTransactionLeft`, `ConnectSettles`,
`RotationLearned`, `WaitingAdmitted`, `DetachedSessionsEnd`,
`ShutdownCompletes` and `Restarts`. They rest on fairness and `ENABLED`, which
the proof system does not reason about.

## 5. Disagreements between the code and its documentation

`db_cancelled` checks what `db.rs:363` says, that a timeout cancels the query,
and finds it violated: the request is already queued and is still executed, a
commit included. A box that gets `DB_TIMEOUT` for a commit does not know its
outcome.

Read off the code while modelling it, and not the subject of a run:
- A call carries the capability tag; the wire contract's example
  (`docs/go-rewrite-wire-contract.md:134`) calls a resource by its logical name,
  which `Egress::call` answers with `IO_UNKNOWN`.
- `db.rs:247` says total db time stays within the budget; the deadline is taken
  after the connect, whose time is not counted. `CallTimeBounded` is what holds.
- `db.rs:546` says an integer is always a number or a string; an `OID` column is
  read as `i32`, which the driver refuses, and becomes null.
- `db.rs:29` says `DB_CONNECTION` is a failure to reach the database; SQLSTATE
  08P01 is classified so, with which PostgreSQL refuses a parameter shorter than
  its column, and parameters are sent in their own binary form whatever the
  column is.
- `kv.rs:36` calls `timeout_ms` a connect and command timeout; the connect is
  made before the timeouts are set. `kv.rs:134` keeps `REDIS_CONNECTION` for I/O
  failures; a malformed URL and a refused login get it too.
- `main.rs:586` says `shutdown_signal` resolves upon Ctrl+C or SIGTERM; it also
  resolves, and the daemon stops, when either handler cannot be installed
  (`main.rs:589` and `:600`).
- `main.rs:575` says a panic in a back end becomes a protocol error; the release
  profile has `panic = "abort"` (`Cargo.toml:265`), and that is the build the
  Dockerfile ships (`Dockerfile:25`): there the daemon ends with all sessions.
- `kv.rs:181` applies a write timeout to a connection that is used again
  afterwards: a command that was written in part is completed with the bytes of
  the next ones, and replies no longer belong to their calls. Nothing in the
  repository promises otherwise; `RepliesMatched` says where the match ends.
- `mongo.rs:365` says a timeout cancels the operation; a write that was sent
  goes on. `mongo.rs:88` gives every operation a server-side limit; it is set on
  `find`, `count` and `aggregate` only. `mongo.rs:41` says `MONGO_WRITE` is a
  violated constraint; an `insert_many` that violates one is answered
  `MONGO_ERROR`.
- `mail.rs:126` calls `timeout_ms` a connect and send timeout; it is the
  socket's, and starts anew with every reply of the relay.
- `auth.rs:29` says a 5xx of the issuer is `AUTH_UNAVAILABLE`; a 5xx of the
  discovery endpoint is answered `AUTH_REQUEST`.

## 6. Not modelled

Data without control: parameters, column values and the row cap of `db.rs`, BSON
conversion and the connection string of `mongo.rs`, the body and headers of a
mail, metric byte counts, the text of `GET /metrics` and of messages.
Configuration loading, TLS and endpoint set-up: I/O before anything runs, and no
state after it. The inside of `runlet_wire`'s circuit breaker, which is not in
the repository. `$out` and `$merge` stages of a Mongo aggregate, which write.
Two daemons whose lives overlap on one socket path: the second replaces the
file, and the first removes it when it goes; nothing in the repository says
starts may overlap. How long a single wait of Redis, mail or OIDC takes: a
timeout may end it at any moment. Expiry of a token between being presented and
being judged. Tests, the conformance suite and packaging.

## 7. Plan

Done: resolution, session core, breaker use, all six back ends, verifier,
listeners; proofs of all safety properties and of the refinement.

Next, in this order:
1. What the liveness properties rest on and can be proved without fairness: that
   a call past its deadline has a step that ends it, that a measure of the work
   left falls with every step of a call.
2. A composition of `Listeners` with `WireContract` sessions: what a box sees
   across a shutdown.
