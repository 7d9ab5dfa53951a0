--------------------------------- MODULE Amq ---------------------------------
(***************************************************************************)
(* The amq producer of a session (fabric-backends/src/amq.rs): each call   *)
(* opens a connection of its own inside a runtime of its own, publishes a  *)
(* batch or makes a request, and drops both.                               *)
(*                                                                         *)
(* amqprs and async_nats are external: publishing hands a message to the   *)
(* client's task, which writes it to the socket later; a flush, and the    *)
(* close of a channel, wait until what was handed over is written; what    *)
(* the task holds when the connection is lost or the runtime is dropped is *)
(* gone.  async_nats reconnects by itself.                                 *)
(*                                                                         *)
(* The names every backend's module would define start with Amq here, so   *)
(* that QueueProofs can extend this module beside Redis.                   *)
(***************************************************************************)
EXTENDS Naturals, Sequences

CONSTANTS MaxBatch,    \* config.max_batch
          MaxMessages, \* bound: messages in a send
          MaxAmqCalls  \* bound: calls of the session

ASSUME AmqAssumption ==
    /\ MaxBatch \in Nat
    /\ MaxMessages \in Nat
    /\ MaxAmqCalls \in Nat

VARIABLES
    backend,   \* config.backend
    amqCalls,  \* calls made
    phase,     \* where the call is
    action,    \* send or request
    batch,     \* messages of the send
    next,      \* messages handed to the client so far
    buffer,    \* messages the client's task has not written yet
    sent,      \* messages written to the socket, in order
    lost,      \* the connection was lost during the call
    reply,     \* what the call was answered
    metric     \* the AmqMetric the call recorded: messages it counts

amqVars == <<backend, amqCalls, phase, action, batch, next, buffer, sent, lost,
             reply, metric>>

Phases == {"idle", "connecting", "channel", "publishing", "flushing", "closing",
           "requesting"}

AmqCodes == {"OK", "AMQ_ERROR", "AMQ_CONNECTION", "AMQ_BATCH_TOO_LARGE",
             "AMQ_TIMEOUT", "AMQ_UNSUPPORTED"}

AmqInit ==
    /\ backend \in {"rabbitmq", "nats"}
    /\ amqCalls = 0
    /\ phase = "idle"
    /\ action = "none"
    /\ batch = 0
    /\ next = 0
    /\ buffer = <<>>
    /\ sent = <<>>
    /\ lost = FALSE
    /\ reply = "none"
    /\ metric = 0

-----------------------------------------------------------------------------
\* AmqProducer::call ends: the metric counts a success only, and the runtime of
\* the call is dropped with whatever its client still holds.
Reply(code) ==
    /\ phase' = "idle"
    /\ reply' = code
    /\ metric' = IF code # "OK" THEN 0 ELSE IF action = "send" THEN batch ELSE 1
    /\ buffer' = <<>>

AmqNewCall ==
    /\ phase = "idle"
    /\ amqCalls < MaxAmqCalls
    /\ amqCalls' = amqCalls + 1
    /\ next' = 0
    /\ buffer' = <<>>
    /\ sent' = <<>>
    /\ lost' = FALSE
    /\ UNCHANGED backend

\* An unknown action, or a payload that does not parse.
CallMalformed ==
    /\ AmqNewCall
    /\ action' = "none"
    /\ batch' = 0
    /\ phase' = "idle"
    /\ reply' = "AMQ_ERROR"
    /\ metric' = 0

\* do_send refuses an empty batch and one above the limit.
SendRefused(n) ==
    /\ AmqNewCall
    /\ n = 0 \/ n > MaxBatch
    /\ action' = "send"
    /\ batch' = 0
    /\ phase' = "idle"
    /\ reply' = IF n = 0 THEN "AMQ_ERROR" ELSE "AMQ_BATCH_TOO_LARGE"
    /\ metric' = 0

StartSend(n) ==
    /\ AmqNewCall
    /\ n > 0 /\ n <= MaxBatch
    /\ action' = "send"
    /\ batch' = n
    /\ phase' = "connecting"
    /\ reply' = "none"
    /\ metric' = 0

\* do_request is for NATS only.
StartRequest ==
    /\ AmqNewCall
    /\ action' = "request"
    /\ batch' = 0
    /\ phase' = IF backend = "nats" THEN "connecting" ELSE "idle"
    /\ reply' = IF backend = "nats" THEN "none" ELSE "AMQ_UNSUPPORTED"
    /\ metric' = 0

-----------------------------------------------------------------------------
AmqConnected ==
    /\ phase = "connecting"
    /\ phase' = CASE backend = "rabbitmq" -> "channel"
                  [] backend = "nats" /\ action = "send" -> "publishing"
                  [] backend = "nats" /\ action = "request" -> "requesting"
    /\ UNCHANGED <<backend, amqCalls, action, batch, next, buffer, sent, lost,
                   reply, metric>>

ChannelOpened ==
    /\ phase = "channel"
    /\ phase' = "publishing"
    /\ UNCHANGED <<backend, amqCalls, action, batch, next, buffer, sent, lost,
                   reply, metric>>

\* TLS set-up, the connect or the channel fails.
AmqConnectFails ==
    /\ phase \in {"connecting", "channel"}
    /\ Reply("AMQ_CONNECTION")
    /\ UNCHANGED <<backend, amqCalls, action, batch, next, sent, lost>>

\* One turn of the loop over the messages; a RabbitMQ client whose connection
\* is lost takes no more.
Publish ==
    /\ phase = "publishing"
    /\ next < batch
    /\ backend = "rabbitmq" => ~ lost
    /\ next' = next + 1
    /\ buffer' = Append(buffer, next')
    /\ UNCHANGED <<backend, amqCalls, phase, action, batch, sent, lost, reply,
                   metric>>

\* Slip: a failed publish is reported like a failed connect.
PublishFails_AsConnection ==
    /\ phase = "publishing"
    /\ next < batch
    /\ Reply("AMQ_CONNECTION")
    /\ UNCHANGED <<backend, amqCalls, action, batch, next, sent, lost>>

\* The call gives up in the middle of the batch.
PublishFails ==
    /\ phase = "publishing"
    /\ next < batch
    /\ Reply("AMQ_ERROR")
    /\ UNCHANGED <<backend, amqCalls, action, batch, next, sent, lost>>

BatchPublished_NoWait ==
    /\ phase = "publishing"
    /\ next = batch
    /\ Reply("OK")
    /\ UNCHANGED <<backend, amqCalls, action, batch, next, sent, lost>>

\* After the last message NATS is flushed, a RabbitMQ channel closed.
BatchPublished ==
    /\ phase = "publishing"
    /\ next = batch
    /\ phase' = IF backend = "nats" THEN "flushing" ELSE "closing"
    /\ UNCHANGED <<backend, amqCalls, action, batch, next, buffer, sent, lost,
                   reply, metric>>

Flushed ==
    /\ phase = "flushing"
    /\ buffer = <<>>
    /\ Reply("OK")
    /\ UNCHANGED <<backend, amqCalls, action, batch, next, sent, lost>>

FlushFails ==
    /\ phase = "flushing"
    /\ Reply("AMQ_ERROR")
    /\ UNCHANGED <<backend, amqCalls, action, batch, next, sent, lost>>

\* The results of both closes are dropped: a lost connection is not noticed.
Closed ==
    /\ phase = "closing"
    /\ buffer = <<>>
    /\ Reply("OK")
    /\ UNCHANGED <<backend, amqCalls, action, batch, next, sent, lost>>

\* nats_request.
Replied ==
    /\ phase = "requesting"
    /\ Reply("OK")
    /\ UNCHANGED <<backend, amqCalls, action, batch, next, sent, lost>>

RequestFails ==
    /\ phase = "requesting"
    /\ Reply("AMQ_ERROR")
    /\ UNCHANGED <<backend, amqCalls, action, batch, next, sent, lost>>

\* Nobody answers within request_timeout_ms, or nobody listens.
RequestTimesOut ==
    /\ phase = "requesting"
    /\ Reply("AMQ_TIMEOUT")
    /\ UNCHANGED <<backend, amqCalls, action, batch, next, sent, lost>>

-----------------------------------------------------------------------------
(* The client's task and the network, external. *)

ClientWrites ==
    /\ buffer # <<>>
    /\ buffer' = Tail(buffer)
    /\ sent' = Append(sent, Head(buffer))
    /\ UNCHANGED <<backend, amqCalls, phase, action, batch, next, lost, reply,
                   metric>>

AmqConnectionLost ==
    /\ phase \in {"channel", "publishing", "flushing", "closing", "requesting"}
    /\ ~ lost
    /\ lost' = TRUE
    /\ buffer' = <<>>
    /\ UNCHANGED <<backend, amqCalls, phase, action, batch, next, sent, reply,
                   metric>>

\* The session makes no more calls.
AmqOver ==
    /\ phase = "idle"
    /\ amqCalls = MaxAmqCalls
    /\ UNCHANGED amqVars

AmqNext ==
    \/ CallMalformed
    \/ \E n \in 0..MaxMessages : SendRefused(n)
    \/ \E n \in 0..MaxMessages : StartSend(n)
    \/ StartRequest
    \/ AmqConnected
    \/ ChannelOpened
    \/ AmqConnectFails
    \/ Publish
    \/ PublishFails
    \/ BatchPublished
    \/ Flushed
    \/ FlushFails
    \/ Closed
    \/ Replied
    \/ RequestFails
    \/ RequestTimesOut
    \/ ClientWrites
    \/ AmqConnectionLost
    \/ AmqOver

AmqSpec == AmqInit /\ [][AmqNext]_amqVars

-----------------------------------------------------------------------------
\* A call is in one phase, a batch is within the configured limit, and no more
\* messages are handed over than it has.
AmqTypeOK ==
    /\ backend \in {"rabbitmq", "nats"}
    /\ amqCalls \in 0..MaxAmqCalls
    /\ phase \in Phases
    /\ action \in {"none", "send", "request"}
    /\ batch \in 0..MaxBatch
    /\ next \in 0..batch
    /\ buffer \in Seq(1..MaxBatch)
    /\ sent \in Seq(1..MaxBatch)
    /\ lost \in BOOLEAN
    /\ reply \in AmqCodes \cup {"none"}
    /\ metric \in 0..(MaxBatch + 1)

\* Whatever fails, a send never puts a message on the wire twice or ahead of an
\* earlier one of its batch.  One that is answered `published` and counted in its
\* metric has put its whole batch there before its runtime and its client are
\* dropped, as long as the connection held; a lost connection breaks this,
\* because NATS reconnects and RabbitMQ's close errors are dropped (do_send,
\* nats_publish, publish_batch).
PublishedWereSent ==
    /\ \A i, j \in DOMAIN sent : i < j => sent[i] < sent[j]
    /\ reply = "OK" /\ action = "send" /\ ~ lost =>
          /\ sent = [i \in 1..batch |-> i]
          /\ metric = batch

\* A call answered with one of these codes has put nothing on the wire, so that
\* the box may repeat it without publishing anything twice (do_send: the limit
\* is checked first, and everything up to the open channel is AMQ_CONNECTION).
RefusedUnsent ==
    reply \in {"AMQ_CONNECTION", "AMQ_BATCH_TOO_LARGE", "AMQ_UNSUPPORTED"} =>
        sent = <<>>
=============================================================================
