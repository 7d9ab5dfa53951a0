------------------------------ MODULE DbBackend ------------------------------
(***************************************************************************)
(* One session's db backend (fabric-backends/src/db.rs): a connection kept *)
(* for the whole session, calls one at a time, all of them under one       *)
(* absolute deadline, and the PostgreSQL server behind it.                 *)
(*                                                                         *)
(* tokio-postgres and PostgreSQL are external: a request is queued for the *)
(* connection task the first time its future is polled, dropping the       *)
(* future does not take it back, requests are executed in order, and a     *)
(* dropped client terminates the connection after what it has queued.      *)
(* `timeout` polls the call once before it looks at the clock, and the     *)
(* timer is no finer than a millisecond: at the deadline an answer may     *)
(* still win.                                                              *)
(***************************************************************************)
EXTENDS Integers, Sequences

CONSTANTS Budget,         \* deps.timeout: Init's timeout_ms, in ticks
          ConnectTimeout, \* connect_timeout, in ticks
          MaxClock,       \* bound: ticks a session lasts
          MaxCalls,       \* bound: db calls of a session
          None            \* Rust's Option::None

Actions == {"query", "execute", "begin", "commit", "rollback"}

\* A statement is prepared in a round trip of its own; the rest are simple
\* commands.
Statements == {"query", "execute"}

Calls == 1..MaxCalls

\* A request on its way to the server: the call it belongs to (0 for the end of
\* the connection) and what it asks.
Requests == [id : 0..MaxCalls, cmd : Actions \cup {"prepare", "terminate"}]

\* The call block_on_db drives: the answer it waits for comes to its last
\* request.
Operations == [id : Calls, action : Actions, awaits : {"prepare", "run"}]

ASSUME DbAssumption ==
    /\ Budget \in Nat
    /\ ConnectTimeout \in Nat
    /\ MaxClock \in Nat
    /\ MaxCalls \in Nat
    /\ None \notin Operations

VARIABLES
    clock,      \* Instant::now()
    deadline,   \* DbBackend.deadline
    link,       \* the connection as the daemon sees it
    op,         \* the call in progress, or None
    inbox,      \* the answer that reached the connection task for op
    wire,       \* requests queued to the server, in order
    txn,        \* the server's transaction state of this connection
    pending,    \* writes of the open transaction
    durable,    \* writes that are committed
    calls,      \* calls the box has made
    told,       \* what each call was answered
    box,        \* what the box has reason to believe of its transaction
    assured,    \* writes the box was told are committed
    discarded,  \* writes the box was told are rolled back
    doubtful,   \* those of the two it was told after an answer that left it unsure
    spent       \* ticks spent inside the connect and inside calls

server == <<txn, pending, durable>>

view == <<calls, told, box, assured, discarded, doubtful>>

vars == <<clock, deadline, link, op, inbox, wire, server, view, spent>>

-----------------------------------------------------------------------------
Init ==
    /\ clock = 0
    /\ deadline = 0
    /\ link = "none"
    /\ op = None
    /\ inbox = "nothing"
    /\ wire = <<>>
    /\ txn = "none"
    /\ pending = {}
    /\ durable = {}
    /\ calls = 0
    /\ told = [c \in Calls |-> "nothing"]
    /\ box = [open |-> FALSE, sure |-> TRUE, ended |-> FALSE, writes |-> {}]
    /\ assured = {}
    /\ discarded = {}
    /\ doubtful = {}
    /\ spent = [connect |-> 0, calls |-> 0]

-----------------------------------------------------------------------------
(* DbBackend::connect, on first use. *)

StartConnect ==
    /\ link = "none"
    /\ clock + ConnectTimeout <= MaxClock
    /\ link' = "dialing"
    /\ UNCHANGED <<clock, deadline, op, inbox, wire, server, view, spent>>

\* The TCP connection is there; connect_timeout bounds no more than this.
Dialed ==
    /\ link = "dialing"
    /\ link' = "greeting"
    /\ UNCHANGED <<clock, deadline, op, inbox, wire, server, view, spent>>

\* Slip: no connect_timeout.
DialTimesOut_Never ==
    /\ FALSE
    /\ UNCHANGED vars

DialTimesOut ==
    /\ link = "dialing"
    /\ spent.connect >= ConnectTimeout
    /\ link' = "failed"
    /\ UNCHANGED <<clock, deadline, op, inbox, wire, server, view, spent>>

\* Logged in and the statement timeout set, two waits for the server without a
\* timeout: only now is the deadline anchored.
ConnectDone ==
    /\ link = "greeting"
    /\ clock + Budget <= MaxClock
    /\ link' = "up"
    /\ deadline' = clock + Budget
    /\ UNCHANGED <<clock, op, inbox, wire, server, view, spent>>

\* The session caches the failure: it has no db from here on.
ConnectFails ==
    /\ link \in {"dialing", "greeting"}
    /\ link' = "failed"
    /\ UNCHANGED <<clock, deadline, op, inbox, wire, server, view, spent>>

-----------------------------------------------------------------------------
(* DbBackend::call. *)

\* What ends a transaction.
Ends == {"commit", "rollback"}

\* What the box makes of an answer.  An error or a timeout leaves it unsure of
\* its transaction until a rollback succeeds; and if it is that of a commit or a
\* rollback, the transaction may have ended without the box's knowledge, until
\* one of the two succeeds.
Believe(id, action, result) ==
    CASE result # "OK" ->
            [box EXCEPT !.sure = FALSE, !.ended = @ \/ action \in Ends]
      [] result = "OK" /\ action = "begin" -> [box EXCEPT !.open = TRUE]
      [] result = "OK" /\ action = "query" -> box
      [] result = "OK" /\ action = "execute" ->
            IF box.open THEN [box EXCEPT !.writes = @ \cup {id}] ELSE box
      [] result = "OK" /\ action = "commit" ->
            [box EXCEPT !.open = FALSE, !.ended = FALSE, !.writes = {}]
      [] result = "OK" /\ action = "rollback" ->
            [open |-> FALSE, sure |-> TRUE, ended |-> FALSE, writes |-> {}]

\* The writes an Ok answer tells the box are committed.
Promised(id, action) ==
    CASE action = "execute" /\ ~box.open -> {id}
      [] action = "commit" -> box.writes
      [] OTHER -> {}

\* The writes an Ok answer tells the box are rolled back.
RolledBack(action) == IF action = "rollback" THEN box.writes ELSE {}

\* The call returns to the box.
Answer(id, action, result) ==
    /\ op' = None
    /\ inbox' = "nothing"
    /\ told' = [told EXCEPT ![id] = result]
    /\ box' = Believe(id, action, result)
    /\ IF result = "OK"
       THEN /\ assured' = assured \cup Promised(id, action)
            /\ discarded' = discarded \cup RolledBack(action)
            /\ doubtful' = doubtful
                  \cup (IF box.sure THEN {} ELSE Promised(id, action))
                  \cup (IF box.ended THEN RolledBack(action) ELSE {})
       ELSE UNCHANGED <<assured, discarded, doubtful>>

\* Slip: rollback and commit swapped.
Command_Swapped(action) ==
    CASE action = "rollback" -> "commit"
      [] action = "commit" -> "rollback"
      [] action = "begin" -> "begin"
      [] action \in Statements -> "prepare"

\* dispatch: the first request an action sends.
Command(action) == IF action \in Statements THEN "prepare" ELSE action

NewCall ==
    /\ link \in {"up", "down"}
    /\ op = None
    /\ calls < MaxCalls
    /\ calls' = calls + 1

\* Slip: every call gets the whole budget again.
StartCall_FreshDeadline(action) ==
    /\ NewCall
    /\ link = "up"
    /\ deadline' = clock + Budget
    /\ op' = [id |-> calls + 1, action |-> action,
              awaits |-> IF action \in Statements THEN "prepare" ELSE "run"]
    /\ inbox' = "nothing"
    /\ wire' = Append(wire, [id |-> calls + 1, cmd |-> Command(action)])
    /\ UNCHANGED <<clock, link, server, told, box, assured, discarded,
                   doubtful, spent>>

\* The first poll queues the request, whatever is left of the budget.
StartCall(action) ==
    /\ NewCall
    /\ link = "up"
    /\ op' = [id |-> calls + 1, action |-> action,
              awaits |-> IF action \in Statements THEN "prepare" ELSE "run"]
    /\ inbox' = "nothing"
    /\ wire' = Append(wire, [id |-> calls + 1, cmd |-> Command(action)])
    /\ UNCHANGED <<clock, deadline, link, server, told, box, assured, discarded,
                   doubtful, spent>>

\* The connection is lost: the driver refuses the call at once.
CallOnDeadLink(action) ==
    /\ NewCall
    /\ link = "down"
    /\ Answer(calls + 1, action, "ERROR")
    /\ UNCHANGED <<clock, deadline, link, wire, server, spent>>

\* Parameters that do not parse, or an unknown action: nothing is sent.
UsageError ==
    /\ NewCall
    /\ told' = [told EXCEPT ![calls + 1] = "ERROR"]
    /\ UNCHANGED <<clock, deadline, link, op, inbox, wire, server, box, assured,
                   discarded, doubtful, spent>>

\* Slip: the answer to the prepare is taken for the statement's.
PrepareAnswered_IsAnswer ==
    /\ op # None
    /\ op.awaits = "prepare"
    /\ inbox = "ok"
    /\ Answer(op.id, op.action, "OK")
    /\ UNCHANGED <<clock, deadline, link, wire, server, calls, spent>>

\* The statement is prepared: the same poll queues its execution.
PrepareAnswered ==
    /\ op # None
    /\ op.awaits = "prepare"
    /\ inbox = "ok"
    /\ IF link = "up"
       THEN /\ op' = [op EXCEPT !.awaits = "run"]
            /\ inbox' = "nothing"
            /\ wire' = Append(wire, [id |-> op.id, cmd |-> op.action])
            /\ UNCHANGED <<told, box, assured, discarded, doubtful>>
       ELSE Answer(op.id, op.action, "ERROR") /\ UNCHANGED wire
    /\ UNCHANGED <<clock, deadline, link, server, calls, spent>>

CallReturns ==
    /\ op # None
    /\ \/ op.awaits = "run" /\ inbox = "ok" /\ Answer(op.id, op.action, "OK")
       \/ inbox = "error" /\ Answer(op.id, op.action, "ERROR")
    /\ UNCHANGED <<clock, deadline, link, wire, server, calls, spent>>

\* Slip: the timer only bounds the wait for the statement itself.
TimeOut_RunOnly ==
    /\ op # None
    /\ op.awaits = "run"
    /\ clock >= deadline
    /\ inbox = "nothing"
    /\ Answer(op.id, op.action, "TIMEOUT")
    /\ UNCHANGED <<clock, deadline, link, wire, server, calls, spent>>

\* block_on_db's timer fires first: the future is dropped.
TimeOut ==
    /\ op # None
    /\ clock >= deadline
    /\ inbox = "nothing"
    /\ Answer(op.id, op.action, "TIMEOUT")
    /\ UNCHANGED <<clock, deadline, link, wire, server, calls, spent>>

-----------------------------------------------------------------------------
Terminate == [id |-> 0, cmd |-> "terminate"]

\* Slip: the client outlives its session.
EndSession_Leaks ==
    /\ op = None
    /\ link \in {"none", "failed", "up", "down"}
    /\ link' = "closed"
    /\ UNCHANGED <<clock, deadline, op, inbox, wire, server, view, spent>>

\* The session's BackendSet is dropped, and the client with it: the connection
\* task finishes what is queued and says goodbye.
EndSession ==
    /\ op = None
    /\ link \in {"none", "failed", "up", "down"}
    /\ link' = "closed"
    /\ wire' = IF link = "up" THEN Append(wire, Terminate) ELSE wire
    /\ UNCHANGED <<clock, deadline, op, inbox, server, view, spent>>

\* The connection breaks.  What had reached the server is still executed, then
\* it notices; the call in progress gets an error.
ConnectionLost(n) ==
    /\ link = "up"
    /\ n \in 0..Len(wire)
    /\ link' = "down"
    /\ wire' = Append(SubSeq(wire, 1, n), Terminate)
    /\ inbox' = IF op # None /\ inbox = "nothing" THEN "error" ELSE inbox
    /\ UNCHANGED <<clock, deadline, op, server, view, spent>>

-----------------------------------------------------------------------------
(***************************************************************************)
(* PostgreSQL, external: what one request does to the connection's         *)
(* transaction, as the set of [txn, pending, durable, ok] it can lead to.  *)
(* A failed transaction refuses everything but its end, and its COMMIT is  *)
(* a rollback that is answered without an error.                           *)
(***************************************************************************)
Outcome(t, p, d, ok) == [txn |-> t, pending |-> p, durable |-> d, ok |-> ok]

Refused == {Outcome(IF txn = "none" THEN "none" ELSE "failed", pending, durable,
                    FALSE)}

Effects(r) ==
    CASE r.cmd \in {"prepare", "query"} ->
            IF txn = "failed" THEN Refused
            ELSE Refused \cup {Outcome(txn, pending, durable, TRUE)}
      [] r.cmd = "execute" ->
            IF txn = "failed" THEN Refused
            ELSE Refused \cup
                 {IF txn = "open"
                  THEN Outcome(txn, pending \cup {r.id}, durable, TRUE)
                  ELSE Outcome(txn, pending, durable \cup {r.id}, TRUE)}
      [] r.cmd = "begin" ->
            IF txn = "failed" THEN Refused
            ELSE {Outcome("open", pending, durable, TRUE)}
      [] r.cmd = "commit" ->
            {Outcome("none", {},
                     IF txn = "open" THEN durable \cup pending ELSE durable,
                     TRUE)}
            \cup (IF txn = "open" THEN {Outcome("none", {}, durable, FALSE)}
                  ELSE {})
      [] r.cmd \in {"rollback", "terminate"} ->
            {Outcome("none", {}, durable, TRUE)}

ServerStep ==
    /\ wire # <<>>
    /\ wire' = Tail(wire)
    /\ \E e \in Effects(Head(wire)) :
          /\ txn' = e.txn
          /\ pending' = e.pending
          /\ durable' = e.durable
          /\ inbox' = IF link = "up" /\ op # None /\ Head(wire).id = op.id
                      THEN (IF e.ok THEN "ok" ELSE "error")
                      ELSE inbox
    /\ UNCHANGED <<clock, deadline, link, op, view, spent>>

\* Time passes; the timer of a call that is due fires first.
Tick ==
    /\ clock < MaxClock
    /\ op # None => clock < deadline
    /\ link = "dialing" => spent.connect < ConnectTimeout
    /\ clock' = clock + 1
    /\ spent' = [connect |-> IF link \in {"dialing", "greeting"} THEN spent.connect + 1
                             ELSE spent.connect,
                 calls |-> IF op # None THEN spent.calls + 1 ELSE spent.calls]
    /\ UNCHANGED <<deadline, link, op, inbox, wire, server, view>>

\* The session is over and the server has seen its end.
Over ==
    /\ link = "closed"
    /\ wire = <<>>
    /\ UNCHANGED vars

-----------------------------------------------------------------------------
Call ==
    \/ \E action \in Actions : StartCall(action) \/ CallOnDeadLink(action)
    \/ UsageError

\* What block_on_db and the timer do on their own.
Drive == PrepareAnswered \/ CallReturns \/ TimeOut

Next ==
    \/ StartConnect \/ Dialed \/ DialTimesOut \/ ConnectDone \/ ConnectFails
    \/ Call
    \/ Drive
    \/ EndSession
    \/ \E n \in 0..Len(wire) : ConnectionLost(n)
    \/ ServerStep
    \/ Tick
    \/ Over

Spec == Init /\ [][Next]_vars

\* The runtime polls what is ready and the clock runs; nothing is assumed of the
\* box, of the connect or of the server.
FairSpec == Spec /\ WF_vars(Drive) /\ WF_vars(DialTimesOut) /\ WF_vars(Tick)

-----------------------------------------------------------------------------
\* The session's connection, its call and the server's transaction are in one of
\* their states, and the deadline is within the time a session lasts.
TypeOK ==
    /\ clock \in 0..MaxClock
    /\ deadline \in 0..MaxClock
    /\ link \in {"none", "dialing", "greeting", "failed", "up", "down", "closed"}
    /\ op \in Operations \cup {None}
    /\ inbox \in {"nothing", "ok", "error"}
    /\ wire \in Seq(Requests)
    /\ txn \in {"none", "open", "failed"}
    /\ pending \subseteq Calls
    /\ durable \subseteq Calls
    /\ calls \in 0..MaxCalls
    /\ told \in [Calls -> {"nothing", "OK", "ERROR", "TIMEOUT"}]
    /\ box \in [open : BOOLEAN, sure : BOOLEAN, ended : BOOLEAN, writes : SUBSET Calls]
    /\ assured \subseteq Calls
    /\ discarded \subseteq Calls
    /\ doubtful \subseteq Calls
    /\ spent \in [connect : Nat, calls : Nat]

\* What the box was told is committed is committed: a write answered Ok outside
\* a transaction, and every write answered Ok inside one whose commit was
\* answered Ok, unless a call was answered with an error or a timeout since the
\* session began or the last rollback was answered Ok (do_execute, do_simple: both
\* wait for the server's answer to the right request).  After such an answer an Ok
\* promises nothing: PostgreSQL answers the COMMIT of a failed transaction without
\* an error and rolls it back, and do_simple does not look at what it did.
AssuredDurable == assured \ doubtful \subseteq durable

\* What the box was told is rolled back is never committed, whatever statements
\* failed or timed out before and also when the connection breaks with requests
\* still queued, unless a commit or a rollback before it was answered with an
\* error or a timeout and none was answered Ok since.  In that case the promise is
\* empty: a commit that timed out is still queued, is executed, and the rollback
\* behind it is answered Ok (block_on_db, do_simple).
DiscardedNeverDurable == discarded \cap durable \subseteq doubtful

\* However many calls a session makes and however many of them time out, the
\* time it spends inside db calls is bounded by its one budget (the deadline is
\* absolute, block_on_db waits for what is left of it).
CallTimeBounded == spent.calls <= Budget

\* What db.rs says of a timed-out call: dropping its future cancels the query.
\* No write or commit of it is then left to be executed.
TimedOutCancelled ==
    \A i \in DOMAIN wire :
        wire[i].cmd \in {"execute", "commit"} => told[wire[i].id] # "TIMEOUT"

\* Every call returns although the server may never answer (block_on_db frees
\* the blocking thread at the deadline).
CallReturned == op # None ~> op = None

\* The connect settles as long as a server that has accepted the connection
\* answers the login and the SET: an unreachable one is given up at the
\* connect_timeout (connect).  Without that premise a session can wait for ever.
ConnectSettles ==
    WF_vars(link = "greeting" /\ (ConnectDone \/ ConnectFails))
        => (link \in {"dialing", "greeting"} ~> link \in {"up", "failed"})

\* A session that ends leaves no transaction open behind it, as long as the
\* server keeps executing: also one that a timed-out call left open.
NoTransactionLeft ==
    WF_vars(ServerStep) => (link = "closed" ~> txn = "none" /\ wire = <<>>)
=============================================================================
