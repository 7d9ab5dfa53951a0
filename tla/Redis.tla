-------------------------------- MODULE Redis --------------------------------
(***************************************************************************)
(* One session's redis backend (fabric-backends/src/kv.rs): a blocking     *)
(* connection kept for the whole session behind a mutex, one command per   *)
(* call, and the key the calls are about.                                  *)
(*                                                                         *)
(* The redis crate (version 1, synchronous) and the server are external.   *)
(* The connection is used again after a command timed out, so the driver   *)
(* has to know how many replies are still to come and drops them first; it *)
(* never connects again by itself.  A read times out at any moment at      *)
(* which there is no reply.  A write that times out may have sent a part   *)
(* of its command; the driver keeps the connection, and the server takes   *)
(* what the next calls send for the rest of that command.  The server      *)
(* executes what it received in order, also when nobody waits for the      *)
(* answer any more.                                                        *)
(***************************************************************************)
EXTENDS Naturals, Sequences

CONSTANTS MaxCalls, \* bound: redis calls of a session
          MaxInt,   \* i64::MAX, where INCR refuses
          None      \* Rust's Option::None

Calls == 1..MaxCalls

\* What a call asks: the action and, for set and expire, what it says of time:
\* nothing, zero (or less) or a time to live.  The value set is a text.
Asked == [action : {"get", "delete", "increment"}, ttl : {"none"}]
         \cup [action : {"set"}, ttl : {"none", "zero", "some"}]
         \cup [action : {"expire"}, ttl : {"zero", "some"}]

\* A call that waits for its reply.
Waiting == [id : Calls, asked : Asked]

ASSUME RedisAssumption ==
    /\ MaxCalls \in Nat /\ MaxInt \in Nat \ {0}
    /\ None \notin Waiting

\* A command on its way to the server, with the call it belongs to and what
\* that call asked.  It is there as a whole; only a part of it was written; the
\* part and the bytes of later commands make up a whole; or it is what is left
\* of a command that lost its first bytes in that way.
Requests == [id : Calls, cmd : {"get", "set", "delete", "increment", "expire"},
             ttl : {"none", "zero", "some"}, asked : Asked,
             form : {"whole", "part", "mixed", "rest"}]

\* The key: not there, a text that is no number, or a number; with an expiry or
\* without one.
Keys == [kind : {"absent", "text"}, n : {0}, ttl : BOOLEAN]
        \cup [kind : {"int"}, n : 0..MaxInt, ttl : BOOLEAN]

NoKey == [kind |-> "absent", n |-> 0, ttl |-> FALSE]

VARIABLES
    link,      \* the connection
    torn,      \* a write stopped in the middle of a command on this connection
    op,        \* the call that waits for its reply: its id and what it asked
    skip,      \* the driver: replies of timed-out commands still to come
    wire,      \* commands the server has not executed yet, in order
    replies,   \* replies the driver has not read yet: whose, and Ok or not
    key,       \* the key the calls are about
    calls,     \* calls made
    told,      \* the last answer: to which call, its code, and whose reply it is
    ran,       \* how often the server executed each call's command
    promise    \* the last write of the key asked for a time to live

server == <<key, ran, promise>>

vars == <<link, torn, op, skip, wire, replies, calls, told, server>>

Init ==
    /\ link = "none"
    /\ torn = FALSE
    /\ op = None
    /\ skip = 0
    /\ wire = <<>>
    /\ replies = <<>>
    /\ key \in {NoKey, [kind |-> "int", n |-> MaxInt - 1, ttl |-> FALSE]}
    /\ calls = 0
    /\ told = [id |-> 0, code |-> "none", from |-> 0]
    /\ ran = [c \in Calls |-> 0]
    /\ promise = FALSE

-----------------------------------------------------------------------------
(* RedisBackend::connect_resource, on first use. *)

StartConnect ==
    /\ link = "none"
    /\ link' = "connecting"
    /\ UNCHANGED <<torn, op, skip, wire, replies, calls, told, server>>

\* get_connection returns and the timeouts are set.
Connected ==
    /\ link = "connecting"
    /\ link' = "up"
    /\ UNCHANGED <<torn, op, skip, wire, replies, calls, told, server>>

\* A URL that does not parse, a refused login, an I/O error, a zero timeout: all
\* are a redis::RedisError and are answered REDIS_CONNECTION (is_connect_error).
ConnectFails ==
    /\ link = "connecting"
    /\ link' = "failed"
    /\ UNCHANGED <<torn, op, skip, wire, replies, calls, told, server>>

-----------------------------------------------------------------------------
(* RedisBackend::call. *)

\* The call returns; an Ok is made of the reply to call `from`.
Answer(c, code, from) ==
    /\ op' = None
    /\ told' = [id |-> c, code |-> code, from |-> from]

NewCall ==
    /\ link \in {"up", "closed"}
    /\ op = None
    /\ calls < MaxCalls
    /\ calls' = calls + 1

\* An unknown action or a payload that does not parse.  (The mutex of lock_conn is
\* never found poisoned: it has no other user, and a panic ends the daemon.)
Refused ==
    /\ NewCall
    /\ Answer(calls + 1, "REDIS_ERROR", 0)
    /\ UNCHANGED <<link, torn, skip, wire, replies, server>>

\* The connection was lost: the driver does not connect again.
OnClosedLink ==
    /\ NewCall
    /\ link = "closed"
    /\ Answer(calls + 1, "REDIS_CONNECTION", 0)
    /\ UNCHANGED <<link, torn, skip, wire, replies, server>>

\* Slip: a set with a time to live is a SET and then an EXPIRE, sent together.
Commands_TwoForSet(c, what) ==
    LET Command(cmd, ttl) ==
            [id |-> c, cmd |-> cmd, ttl |-> ttl, asked |-> what, form |-> "whole"]
    IN  IF what = [action |-> "set", ttl |-> "some"]
        THEN <<Command("set", "none"), Command("expire", "some")>>
        ELSE <<Command(what.action, what.ttl)>>

\* do_get, do_set, do_delete, do_increment, do_expire: one command each, the
\* time to live is part of the SETEX.
Commands(c, what) ==
    <<[id |-> c, cmd |-> what.action, ttl |-> what.ttl, asked |-> what,
       form |-> "whole"]>>

Send(what) ==
    /\ NewCall
    /\ link = "up"
    /\ op' = [id |-> calls + 1, asked |-> what]
    /\ wire' = wire \o Commands(calls + 1, what)
    /\ UNCHANGED <<link, torn, skip, replies, told, server>>

\* The write times out, with nothing or a part of the command written.  The driver
\* counts no reply to skip, and keeps the connection.
WriteTimesOut(what, part) ==
    /\ NewCall
    /\ link = "up"
    /\ Answer(calls + 1, "REDIS_TIMEOUT", 0)
    /\ torn' = (torn \/ part)
    /\ wire' = IF part
               THEN Append(wire, [Commands(calls + 1, what)[1] EXCEPT !.form = "part"])
               ELSE wire
    /\ UNCHANGED <<link, skip, replies, server>>

\* The reply to an earlier command that timed out.
SkipLate ==
    /\ op # None
    /\ replies # <<>>
    /\ skip > 0
    /\ replies' = Tail(replies)
    /\ skip' = skip - 1
    /\ UNCHANGED <<link, torn, op, wire, calls, told, server>>

ReadReply ==
    /\ op # None
    /\ replies # <<>>
    /\ skip = 0
    /\ replies' = Tail(replies)
    /\ Answer(op.id, IF Head(replies).ok THEN "OK" ELSE "REDIS_ERROR",
              Head(replies).id)
    /\ UNCHANGED <<link, torn, skip, wire, calls, server>>

\* Slip: a call whose reply does not come sends its command again and waits on.
ReadTimesOut_Resends ==
    /\ op # None
    /\ replies = <<>>
    /\ link = "up"
    /\ skip' = skip + 1
    /\ wire' = wire \o Commands(op.id, op.asked)
    /\ UNCHANGED <<link, torn, op, replies, calls, told, server>>

\* classify: the socket's read timeout.
ReadTimesOut ==
    /\ op # None
    /\ replies = <<>>
    /\ link = "up"
    /\ skip' = skip + 1
    /\ Answer(op.id, "REDIS_TIMEOUT", 0)
    /\ UNCHANGED <<link, torn, wire, replies, calls, server>>

\* classify: the end of the stream.
ReadEof ==
    /\ op # None
    /\ replies = <<>>
    /\ link = "closed"
    /\ Answer(op.id, "REDIS_CONNECTION", 0)
    /\ UNCHANGED <<link, torn, skip, wire, replies, calls, server>>

-----------------------------------------------------------------------------
(***************************************************************************)
(* The server and the network, external: what a command does to the key,   *)
(* whether its reply is an error, and whether the last write of the key    *)
(* asked for a time to live.                                               *)
(***************************************************************************)
Failed == [key |-> key, ok |-> FALSE, promise |-> promise]

Done(k) == [key |-> k, ok |-> TRUE, promise |-> promise /\ k.kind # "absent"]

Effect(r) ==
    CASE r.cmd = "get" -> Done(key)
      [] r.cmd = "set" ->
            IF r.ttl = "zero" THEN Failed
            ELSE [key |-> [kind |-> "text", n |-> 0, ttl |-> r.ttl = "some"],
                  ok |-> TRUE, promise |-> r.asked.ttl = "some"]
      [] r.cmd = "delete" -> Done(NoKey)
      [] r.cmd = "increment" ->
            IF key.kind = "text" \/ key.n = MaxInt THEN Failed
            ELSE Done([key EXCEPT !.kind = "int", !.n = @ + 1])
      [] r.cmd = "expire" ->
            CASE key.kind = "absent" -> Done(key)
              [] key.kind # "absent" /\ r.ttl = "zero" -> Done(NoKey)
              [] key.kind # "absent" /\ r.ttl = "some" ->
                    Done([key EXCEPT !.ttl = TRUE])

\* A command with foreign bytes in it does what it says, is about another key, or
\* is refused; one that has lost its beginning is refused.
Effects(r) ==
    CASE r.form = "whole" -> {Effect(r)}
      [] r.form = "mixed" -> {Effect(r), Done(key), Failed}
      [] r.form = "rest" -> {Failed}
      [] r.form = "part" -> {}

ServerStep ==
    /\ wire # <<>>
    /\ \E e \in Effects(Head(wire)) :
           /\ key' = e.key
           /\ promise' = e.promise
           /\ replies' = IF link = "up"
                         THEN Append(replies, [id |-> Head(wire).id, ok |-> e.ok])
                         ELSE replies
    /\ ran' = [ran EXCEPT ![Head(wire).id] = @ + 1]
    /\ wire' = Tail(wire)
    /\ UNCHANGED <<link, torn, op, skip, calls, told>>

\* What follows a part of a command is taken for the rest of it, which it may or
\* may not complete.
Swallow(form) ==
    /\ Len(wire) > 1
    /\ Head(wire).form = "part"
    /\ wire' = <<[Head(wire) EXCEPT !.form = form]>> \o Tail(Tail(wire))
    /\ UNCHANGED <<link, torn, op, skip, replies, calls, told, server>>

\* Its first bytes complete the part, the others are read as a command.
SwallowSome ==
    /\ Len(wire) > 1
    /\ Head(wire).form = "part"
    /\ wire[2].form = "whole"
    /\ wire' = [wire EXCEPT ![1].form = "mixed", ![2].form = "rest"]
    /\ UNCHANGED <<link, torn, op, skip, replies, calls, told, server>>

KeyExpires ==
    /\ key.ttl
    /\ key' = NoKey
    /\ promise' = FALSE
    /\ UNCHANGED <<link, torn, op, skip, wire, replies, calls, told, ran>>

\* The connection breaks: the first n commands had reached the server.
ConnectionLost(n) ==
    /\ link = "up"
    /\ n \in 0..Len(wire)
    /\ link' = "closed"
    /\ wire' = SubSeq(wire, 1, n)
    /\ UNCHANGED <<torn, op, skip, replies, calls, told, server>>

\* The session makes no more calls.
Over ==
    /\ op = None
    /\ link = "failed" \/ calls = MaxCalls
    /\ UNCHANGED vars

-----------------------------------------------------------------------------
Call ==
    \/ Refused
    \/ OnClosedLink
    \/ \E what \in Asked : Send(what)
    \/ \E what \in Asked, part \in BOOLEAN : WriteTimesOut(what, part)

\* What a call that waits does.
Drive == SkipLate \/ ReadReply \/ ReadTimesOut \/ ReadEof

Next ==
    \/ StartConnect
    \/ Connected
    \/ ConnectFails
    \/ Call
    \/ Drive
    \/ ServerStep
    \/ \E form \in {"part", "mixed"} : Swallow(form)
    \/ SwallowSome
    \/ KeyExpires
    \/ \E n \in 0..Len(wire) : ConnectionLost(n)
    \/ Over

Spec == Init /\ [][Next]_vars

-----------------------------------------------------------------------------
Codes == {"OK", "REDIS_ERROR", "REDIS_CONNECTION", "REDIS_TIMEOUT"}

\* The connection, the call and the replies still to come are in one of their
\* states, and no more late replies are expected than calls were made.
TypeOK ==
    /\ link \in {"none", "connecting", "up", "closed", "failed"}
    /\ torn \in BOOLEAN
    /\ op \in Waiting \cup {None}
    /\ skip \in 0..calls
    /\ wire \in Seq(Requests)
    /\ replies \in Seq([id : Calls, ok : BOOLEAN])
    /\ key \in Keys
    /\ calls \in 0..MaxCalls
    /\ told \in [id : 0..MaxCalls, code : Codes \cup {"none"}, from : 0..MaxCalls]
    /\ ran \in [Calls -> Nat]
    /\ promise \in BOOLEAN

\* No call is executed twice, whatever times out or breaks: the daemon leaves the
\* retry of a REDIS_TIMEOUT to the box.  As long as no write has stopped in the
\* middle of a command, a call that is answered Ok was executed, and its answer is
\* the server's reply to this very call, never the late reply to one that timed
\* out before it (do_get to do_expire: one command, one reply).  After such a
\* write nothing is promised of the replies: the connection is used again, and the
\* replies on it no longer correspond to the calls.
RepliesMatched ==
    /\ \A c \in Calls : ran[c] <= 1
    /\ told.code = "OK" /\ ~ torn => told.from = told.id /\ ran[told.id] = 1

\* A key written by a set with a time to live is never there without one, not
\* even when the call fails half way or its command is only written in part
\* (do_set: the value and the time to live are one command).
TtlNeverLost == promise => key.ttl
=============================================================================
