-------------------------------- MODULE Mongo --------------------------------
(***************************************************************************)
(* One session's mongo backend (fabric-backends/src/mongo.rs): a client    *)
(* that connects lazily, calls one at a time under one absolute deadline,  *)
(* reads that drain a cursor up to a cap, and the server behind it.        *)
(*                                                                         *)
(* The mongodb driver and the server are external: a call first selects a  *)
(* server and takes a connection, then sends; a future dropped before that *)
(* sends nothing, one dropped later closes the connection, upon which the  *)
(* server may abandon a read but finishes a write.  insert_many stops at   *)
(* the first document that fails, and has an error kind of its own since   *)
(* version 3 of the driver; a large one is sent as several commands, and   *)
(* what ends a later one comes after the earlier ones were applied.        *)
(* update_many and delete_many may stop half way, and a connection that    *)
(* breaks hides how far a write came.  A cursor hands out batches;         *)
(* max_time limits the time the server spends on it.  An aggregate only    *)
(* reads ($out and $merge are left out).                                   *)
(***************************************************************************)
EXTENDS Naturals, FiniteSetsExt

CONSTANTS Budget,    \* deps.timeout: Init's timeout_ms, in ticks
          MaxDocs,   \* bound: config.max_docs of the instances
          BatchSize, \* documents the server puts into a batch
          MaxMatch,  \* bound: documents a filter matches, or a call inserts
          MaxCalls,  \* bound: mongo calls of a session
          None       \* Rust's Option::None

ASSUME MongoAssumption ==
    /\ {Budget, MaxDocs, MaxMatch, MaxCalls} \subseteq Nat
    /\ BatchSize \in Nat \ {0}

Calls == 1..MaxCalls

Cursors == {"find", "aggregate"}

Reads == Cursors \cup {"find_one", "count"}

Writes == {"insert_one", "insert_many", "update_one", "update_many",
           "delete_one", "delete_many"}

\* The actions that pass op_timeout to the server.
Timed == {"find", "count", "aggregate"}

VARIABLES
    left,      \* ticks from now to MongoBackend.deadline
    max_docs,  \* MongoBackend.max_docs
    client,    \* the backend: none, ready or failed
    op,        \* the call in progress, or None
    inbox,     \* the server's answer that op waits for, or None
    server,    \* for each call, what the server has of it
    calls,     \* calls made
    told       \* the last answer: call, code, documents and the truncated flag

vars == <<left, max_docs, client, op, inbox, server, calls, told>>

\* A call in progress: where it is and, for a cursor, the documents it has, those
\* left of the batch at hand and those the server still has.
Operations ==
    [id : Calls, action : Reads \cup Writes, size : 1..MaxMatch,
     at : {"selecting", "waiting", "draining"}, got : 0..MaxMatch,
     batch : 0..BatchSize, rest : 0..MaxMatch]

\* The server's side of a call: the action, the documents an insert_many brings,
\* whether it runs, the documents it changed and the documents its cursor yields
\* in all.
Records ==
    [action : Reads \cup Writes \cup {None}, size : 0..MaxMatch,
     st : {"none", "running", "done"}, applied : 0..MaxMatch, total : 0..MaxMatch]

NotSent == [action |-> None, size |-> 0, st |-> "none", applied |-> 0, total |-> 0]

NoAnswer == [id |-> 0, code |-> "none", docs |-> 0, affected |-> 0, truncated |-> FALSE]

Init ==
    /\ left = 0
    /\ max_docs \in 0..MaxDocs
    /\ client = "none"
    /\ op = None
    /\ inbox = None
    /\ server = [c \in Calls |-> NotSent]
    /\ calls = 0
    /\ told = NoAnswer

-----------------------------------------------------------------------------
\* MongoBackend::connect_resource builds the client, which touches no network,
\* and anchors the deadline; a bad URI or option is the only failure.
Connect ==
    /\ client = "none"
    /\ \/ client' = "ready" /\ left' = Budget
       \/ client' = "failed" /\ UNCHANGED left
    /\ UNCHANGED <<max_docs, op, inbox, server, calls, told>>

\* Slip: a failed write is the developer's mistake like a failed query.
classify_WriteAsQuery(e) ==
    CASE e \in {"authentication", "io", "selection", "not_authorised"} -> "MONGO_CONNECTION"
      [] e \in {"write", "duplicate_key", "argument", "bad_command"} -> "MONGO_QUERY"
      [] e \in {"insert_many", "time_limit", "other"} -> "MONGO_ERROR"

\* classify, classify_command: the driver's and the server's errors by class.
classify(e) ==
    CASE e \in {"authentication", "io", "selection", "not_authorised"} -> "MONGO_CONNECTION"
      [] e \in {"write", "duplicate_key"} -> "MONGO_WRITE"
      [] e \in {"argument", "bad_command"} -> "MONGO_QUERY"
      [] e \in {"insert_many", "time_limit", "other"} -> "MONGO_ERROR"

-----------------------------------------------------------------------------
(* MongoBackend::call, dispatch and run. *)

\* The call returns and is metered: zeros unless it is Ok.
Answer(code, docs, affected, truncated) ==
    /\ op' = None
    /\ inbox' = None
    /\ told' = [id |-> op.id, code |-> code, docs |-> docs, affected |-> affected,
                truncated |-> truncated]

Fails(e) == Answer(classify(e), 0, 0, FALSE)

NewCall ==
    /\ client = "ready"
    /\ op = None
    /\ calls < MaxCalls
    /\ calls' = calls + 1

\* An unknown action, a payload, filter, update or pipeline that does not
\* convert, an insert_many without documents: an answer on the first poll, also
\* after the deadline.
UsageError ==
    /\ NewCall
    /\ told' = [NoAnswer EXCEPT !.id = calls + 1, !.code = "MONGO_QUERY"]
    /\ UNCHANGED <<left, max_docs, client, op, inbox, server>>

StartCall(action, size) ==
    /\ NewCall
    /\ size > 0
    /\ action # "insert_many" => size = 1
    /\ op' = [id |-> calls + 1, action |-> action, size |-> size, at |-> "selecting",
              got |-> 0, batch |-> 0, rest |-> 0]
    /\ UNCHANGED <<left, max_docs, client, inbox, server, told>>

\* A server is selected, a connection taken, the command sent.
Sent ==
    /\ op # None
    /\ op.at = "selecting"
    /\ op' = [op EXCEPT !.at = "waiting"]
    /\ server' = [server EXCEPT ![op.id] =
                     [NotSent EXCEPT !.action = op.action, !.size = op.size, !.st = "running"]]
    /\ UNCHANGED <<left, max_docs, client, inbox, calls, told>>

\* No server within serverSelectionTimeoutMS, or it refuses the credentials.
SelectionFails ==
    /\ op # None
    /\ op.at = "selecting"
    /\ \E e \in {"selection", "authentication"} : Fails(e)
    /\ UNCHANGED <<left, max_docs, client, server, calls>>

ErrorAnswer ==
    /\ op # None
    /\ inbox # None
    /\ ~ inbox.ok
    /\ Fails(inbox.err)
    /\ UNCHANGED <<left, max_docs, client, server, calls>>

\* docs_affected: inserted ids, the modified count, the deleted count.
Affected(r) == r.n

\* do_insert_one, do_insert_many, do_update, do_delete.
WriteAnswer ==
    /\ op # None
    /\ op.action \in Writes
    /\ inbox # None
    /\ inbox.ok
    /\ Answer("OK", 0, Affected(inbox), FALSE)
    /\ UNCHANGED <<left, max_docs, client, server, calls>>

\* do_find_one, do_count.
PlainReadAnswer ==
    /\ op # None
    /\ op.action \in {"find_one", "count"}
    /\ inbox # None
    /\ inbox.ok
    /\ Answer("OK", IF op.action = "find_one" THEN inbox.n ELSE 0, 0, FALSE)
    /\ UNCHANGED <<left, max_docs, client, server, calls>>

\* do_find, do_aggregate: the cursor, or its next batch, has come.
BatchArrives ==
    /\ op # None
    /\ op.action \in Cursors
    /\ inbox # None
    /\ inbox.ok
    /\ op' = [op EXCEPT !.at = "draining", !.batch = inbox.n, !.rest = inbox.matched]
    /\ inbox' = None
    /\ UNCHANGED <<left, max_docs, client, server, calls, told>>

\* Slip: the cap is checked after the document that exceeds it.
Full_OffByOne == op.got > max_docs

Full == op.got >= max_docs

\* drain_cursor, one turn of its loop with a document at hand.
Advance ==
    /\ op # None
    /\ op.at = "draining"
    /\ op.batch > 0
    /\ IF Full
       THEN Answer("OK", op.got, 0, TRUE)
       ELSE /\ op' = [op EXCEPT !.got = @ + 1, !.batch = @ - 1]
            /\ UNCHANGED <<inbox, told>>
    /\ UNCHANGED <<left, max_docs, client, server, calls>>

\* A document that does not deserialize.
DocumentFails ==
    /\ op # None
    /\ op.at = "draining"
    /\ op.batch > 0
    /\ ~ Full
    /\ Fails("other")
    /\ UNCHANGED <<left, max_docs, client, server, calls>>

\* The batch is used up: the driver asks for the next one.
GetMore ==
    /\ op # None
    /\ op.at = "draining"
    /\ op.batch = 0
    /\ op.rest > 0
    /\ op' = [op EXCEPT !.at = "waiting"]
    /\ server' = [server EXCEPT ![op.id].st = "running"]
    /\ UNCHANGED <<left, max_docs, client, inbox, calls, told>>

\* The cursor is exhausted.
Drained ==
    /\ op # None
    /\ op.at = "draining"
    /\ op.batch = 0
    /\ op.rest = 0
    /\ Answer("OK", op.got, 0, FALSE)
    /\ UNCHANGED <<left, max_docs, client, server, calls>>

\* Slip: the timer bounds the command, not the batches after it.
TimeOut_FirstBatchOnly ==
    /\ op # None
    /\ op.at \in {"selecting", "waiting"}
    /\ op.got = 0
    /\ inbox = None
    /\ left = 0
    /\ Answer("MONGO_TIMEOUT", 0, 0, FALSE)
    /\ UNCHANGED <<left, max_docs, client, server, calls>>

\* dispatch: the timer wins over a future that waits, which is dropped.
TimeOut ==
    /\ op # None
    /\ op.at \in {"selecting", "waiting"}
    /\ inbox = None
    /\ left = 0
    /\ Answer("MONGO_TIMEOUT", 0, 0, FALSE)
    /\ UNCHANGED <<left, max_docs, client, server, calls>>

-----------------------------------------------------------------------------
(***************************************************************************)
(* The server, external: what it does with a command it runs, as the set   *)
(* of [ok, err, applied, n, matched] it can end with.  For a cursor, n are *)
(* the documents of the batch and matched those still to come.             *)
(***************************************************************************)
Done(applied, n, matched) ==
    [ok |-> TRUE, err |-> "none", applied |-> applied, n |-> n, matched |-> matched]

Error(e, applied) ==
    [ok |-> FALSE, err |-> e, applied |-> applied, n |-> 0, matched |-> 0]

Errors == {Error(e, 0) : e \in {"bad_command", "not_authorised", "io", "other"}}

\* What ends an insert_many before its last document: a document that fails, or a
\* command of several that the driver or the server refuses.
LaterErrors == {"insert_many", "argument", "bad_command", "not_authorised", "other"}

\* What an insert_many of that many documents can end with.
InsertManyEnds(size) ==
    {Done(size, size, 0)}
    \cup {Error(e, k) : e \in LaterErrors, k \in 0..(size - 1)}
    \cup {Error("io", k) : k \in 1..size}

One(a) == a \in {"find_one", "update_one", "delete_one"}

\* What a first command can lead to; a cursor of m documents fills a batch.
Outcomes(c) ==
    LET s == server[c]
        most == IF One(s.action) THEN Min({1, MaxMatch}) ELSE MaxMatch
    IN  Errors \cup
        CASE s.action \in Cursors ->
                {Done(0, Min({m, BatchSize}), m - Min({m, BatchSize})) : m \in 0..MaxMatch}
          [] s.action \in {"find_one", "count"} -> {Done(0, m, 0) : m \in 0..most}
          [] s.action = "insert_one" -> {Done(1, 1, 0), Error("write", 0), Error("io", 1)}
          [] s.action = "insert_many" -> InsertManyEnds(s.size)
          [] s.action \in {"update_one", "update_many", "delete_one", "delete_many"} ->
                {Done(k, k, most) : k \in 0..most}
                \cup {Error("write", k) : k \in 0..(most - 1)}
                \cup {Error("io", k) : k \in 1..most}

\* The next batch of the cursor of the call in progress.
NextBatch == {Done(0, Min({op.rest, BatchSize}), op.rest - Min({op.rest, BatchSize})),
              Error("io", 0), Error("other", 0)}

Waiting(c) == op # None /\ op.id = c /\ op.at = "waiting"

ServerAnswers(c) ==
    /\ server[c].st = "running"
    /\ \E r \in IF Waiting(c) /\ op.rest > 0 THEN NextBatch ELSE Outcomes(c) :
          /\ server' = [server EXCEPT ![c].st = "done",
                                      ![c].applied = @ + r.applied,
                                      ![c].total =
                            IF server[c].action \in Cursors /\ @ = 0
                            THEN r.n + r.matched ELSE @]
          /\ inbox' = IF Waiting(c) THEN r ELSE inbox
    /\ UNCHANGED <<left, max_docs, client, op, calls, told>>

\* max_time, which is op_timeout, is over: the server gives up the read.
ServerLimit(c) ==
    /\ server[c].st = "running"
    /\ server[c].action \in Timed
    /\ server' = [server EXCEPT ![c].st = "done"]
    /\ inbox' = IF Waiting(c) THEN Error("time_limit", 0) ELSE inbox
    /\ UNCHANGED <<left, max_docs, client, op, calls, told>>

\* The connection of a dropped read is closed, and the server notices.
ServerAbandons(c) ==
    /\ server[c].st = "running"
    /\ server[c].action \in Reads
    /\ ~ Waiting(c)
    /\ server' = [server EXCEPT ![c].st = "done"]
    /\ UNCHANGED <<left, max_docs, client, op, inbox, calls, told>>

\* Time passes.
Tick ==
    /\ left > 0
    /\ left' = left - 1
    /\ UNCHANGED <<max_docs, client, op, inbox, server, calls, told>>

\* The session makes no more calls.
Over ==
    /\ op = None
    /\ client = "failed" \/ calls = MaxCalls
    /\ UNCHANGED vars

-----------------------------------------------------------------------------
Call ==
    \/ UsageError
    \/ \E action \in Reads \cup Writes, size \in 1..MaxMatch : StartCall(action, size)

\* What the call's future and its timer do.
Drive == \/ ErrorAnswer \/ WriteAnswer \/ PlainReadAnswer \/ BatchArrives
         \/ Advance \/ GetMore \/ Drained \/ TimeOut

Next ==
    \/ Connect
    \/ Call
    \/ Sent
    \/ SelectionFails
    \/ Drive
    \/ DocumentFails
    \/ \E c \in Calls : ServerAnswers(c) \/ ServerLimit(c) \/ ServerAbandons(c)
    \/ Tick
    \/ Over

Spec == Init /\ [][Next]_vars

\* The runtime polls what is ready and the clock runs; nothing is assumed of the
\* server.
FairSpec == Spec /\ WF_vars(Drive) /\ WF_vars(Tick)

-----------------------------------------------------------------------------
\* A call is at one of its steps, no more documents are held than are matched,
\* the server's answer is there only for a call that waits for it, and the
\* deadline is never further away than the budget.
TypeOK ==
    /\ left \in 0..Budget
    /\ max_docs \in 0..MaxDocs
    /\ client \in {"none", "ready", "failed"}
    /\ op \in Operations \cup {None}
    /\ inbox # None => op # None /\ op.at = "waiting" /\ inbox.ok \in BOOLEAN
    /\ server \in [Calls -> Records]
    /\ calls \in 0..MaxCalls
    /\ told \in [id : 0..MaxCalls,
                 code : {"none", "OK", "MONGO_CONNECTION", "MONGO_WRITE", "MONGO_QUERY",
                         "MONGO_ERROR", "MONGO_TIMEOUT"},
                 docs : 0..MaxMatch, affected : 0..MaxMatch, truncated : BOOLEAN]

\* A read over a cursor that is answered Ok has every document the cursor yields,
\* up to the cap, and says that it is truncated exactly when there were more:
\* whatever the batches, at the cap's boundary, at a cap of zero, and never as a
\* part of a read that failed (drain_cursor).
ReadComplete ==
    told.code = "OK" /\ server[told.id].action \in Cursors =>
        /\ told.docs = Min({server[told.id].total, max_docs})
        /\ told.truncated = (server[told.id].total > max_docs)

\* What a refused call may have changed: nothing, but for an insert_many of several
\* commands, of which the earlier ones are applied.
LeftByRefusal(s) ==
    s.applied = 0 \/ (s.action = "insert_many" /\ s.applied < s.size)

\* What the answer says of a write is so.  Answered Ok, it changed as many
\* documents as are reported and metered; refused as the developer's mistake
\* (MONGO_QUERY), it is over, and it changed nothing unless it is an insert_many
\* that the driver sent in several commands, which is never refused with all its
\* documents in (do_insert_many, do_update, do_delete, classify).
ReportedApplied ==
    /\ told.code = "OK" => told.affected = server[told.id].applied
    /\ told.code = "MONGO_QUERY" =>
          LeftByRefusal(server[told.id]) /\ server[told.id].st # "running"

\* Every call returns although the server may never answer (dispatch frees the
\* blocking thread at the deadline).
CallReturned == op # None ~> op = None
=============================================================================
