-------------------------------- MODULE Mail ---------------------------------
(***************************************************************************)
(* One session's mail backend (fabric-backends/src/mail.rs): the checks of *)
(* a send (the cap on sends, the recipients and their domains, the         *)
(* addresses), and the SMTP transaction by which it reaches the relay.     *)
(*                                                                         *)
(* lettre (0.11, synchronous) and the relay are external.  A transport     *)
(* keeps a connection that a send left intact and tests it with NOOP; any  *)
(* reply that is not positive, and any I/O error, ends the transaction and *)
(* closes the connection.  The timeout is the socket's: any wait for a     *)
(* reply may end with it.  A relay that has the whole message may accept   *)
(* it although nobody waits for its reply any more.                        *)
(***************************************************************************)
EXTENDS Naturals, Sequences, SequencesExt

CONSTANTS MaxRecipients, \* bound: config.max_recipients of the instances
          MaxSends,      \* bound: config.max_sends of the instances
          MaxPer,        \* bound: addresses in each of to, cc and bcc
          MaxCalls,      \* bound: mail calls of a session
          None           \* Rust's Option::None

Calls == 1..MaxCalls

\* A domain as it is written, and its lower-case form.
Domains == [name : {"own", "other"}, upper : BOOLEAN]

to_lowercase(d) == [d EXCEPT !.upper = FALSE]

\* An address parses to a mailbox of a domain, or does not.
Addresses == [parses : {TRUE}, domain : Domains]
             \cup [parses : {FALSE}, domain : {[name |-> "other", upper |-> FALSE]}]

\* A send's payload: the recipients, and From and Reply-To, which may be empty.
Payloads ==
    [to : BoundedSeq(Addresses, MaxPer), cc : BoundedSeq(Addresses, MaxPer),
     bcc : BoundedSeq(Addresses, MaxPer),
     from : {"empty", "good", "bad"}, reply_to : {"empty", "good", "bad"}]

\* A send whose transaction runs: the recipients it has still to name and those
\* it has named.
Sends ==
    [id : Calls, at : {"noop", "connect", "mail", "rcpt", "data", "body"},
     todo : Seq(Addresses), envelope : Seq(Addresses), recipients : Nat]

ASSUME MailAssumption ==
    /\ {MaxRecipients, MaxSends, MaxPer, MaxCalls} \subseteq Nat
    /\ None \notin Sends

VARIABLES
    config,    \* max_recipients, allowed_recipient_domains, max_sends, and
               \* whether the default From parses
    transport, \* the backend's transport: none, ready or failed
    op,        \* the send whose transaction runs, or None
    pooled,    \* the transport holds an idle connection
    metrics,   \* metrics recorded
    reported,  \* metrics the last drain reported
    calls,     \* calls made
    told,      \* the last answer: call, code and the recipients it is metered with
    handed,    \* for each call, the envelope of a message the relay still decides on
    relayed    \* for each call, the envelopes the relay accepted

settings == <<config, transport>>

relay == <<handed, relayed>>

vars == <<settings, op, pooled, metrics, reported, calls, told, relay>>

Init ==
    /\ config \in [max_recipients : 0..MaxRecipients,
                   allowed : {{}, {[name |-> "own", upper |-> TRUE]}},
                   max_sends : 0..MaxSends, default_from : {"good", "bad"}]
    /\ transport = "none"
    /\ op = None
    /\ pooled = FALSE
    /\ metrics = 0
    /\ reported = 0
    /\ calls = 0
    /\ told = [id |-> 0, code |-> "none", recipients |-> 0]
    /\ handed = [c \in Calls |-> <<>>]
    /\ relayed = [c \in Calls |-> <<>>]

\* MailBackend::connect_resource and build_transport: a bad host name fails, the
\* network is not used.
Connect ==
    /\ transport = "none"
    /\ transport' \in {"ready", "failed"}
    /\ UNCHANGED <<config, op, pooled, metrics, reported, calls, told, relay>>

-----------------------------------------------------------------------------
(* The checks of a send. *)

\* Slip: the blind copies are not looked at.
Recipients_NoBcc(p) == p.to \o p.cc

\* The chain over to, cc and bcc.
Recipients(p) == p.to \o p.cc \o p.bcc

count_recipients(p) == Len(p.to) + Len(p.cc) + Len(p.bcc)

domain_allowed(d) == \E a \in config.allowed : to_lowercase(a) = to_lowercase(d)

enforce_recipient_domains(p) ==
    config.allowed # {} =>
        \A a \in Range(Recipients(p)) : a.parses /\ domain_allowed(a.domain)

\* build_message: every address has to parse, the default From when it is used.
build_message(p) ==
    /\ (IF p.from = "empty" THEN config.default_from ELSE p.from) = "good"
    /\ \A a \in Range(p.to \o p.cc \o p.bcc) : a.parses
    /\ p.reply_to # "bad"

\* do_send, up to the transport.
Sendable(p) ==
    /\ count_recipients(p) > 0
    /\ count_recipients(p) <= config.max_recipients
    /\ enforce_recipient_domains(p)
    /\ build_message(p)

-----------------------------------------------------------------------------
(* MailBackend::call. *)

\* sandbox::record: every call that was dispatched is metered, failed or not.
Record(code) == metrics' = metrics + 1

\* The call returns with this code, metered with zeros unless it is Ok.
Answer(c, code, recipients) ==
    /\ op' = None
    /\ told' = [id |-> c, code |-> code, recipients |-> recipients]

NewCall ==
    /\ transport = "ready"
    /\ op = None
    /\ calls < MaxCalls
    /\ calls' = calls + 1

Exhausted == config.max_sends # 0 /\ metrics >= config.max_sends

OpLimit ==
    /\ NewCall
    /\ Exhausted
    /\ Answer(calls + 1, "MAIL_OP_LIMIT", 0)
    /\ UNCHANGED <<settings, pooled, metrics, reported, relay>>

\* dispatch: an unknown action, or a payload that does not parse.
NotASend ==
    /\ NewCall
    /\ ~ Exhausted
    /\ Answer(calls + 1, "MAIL_ERROR", 0)
    /\ Record("MAIL_ERROR")
    /\ UNCHANGED <<settings, pooled, reported, relay>>

RejectSend(p) ==
    /\ NewCall
    /\ ~ Exhausted
    /\ ~ Sendable(p)
    /\ Answer(calls + 1, "MAIL_ERROR", 0)
    /\ Record("MAIL_ERROR")
    /\ UNCHANGED <<settings, pooled, reported, relay>>

\* transport.send: the idle connection is tested, or one is opened.
StartSend(p) ==
    /\ NewCall
    /\ ~ Exhausted
    /\ Sendable(p)
    /\ op' = [id |-> calls + 1, at |-> IF pooled THEN "noop" ELSE "connect",
              todo |-> p.to \o p.cc \o p.bcc, envelope |-> <<>>,
              recipients |-> count_recipients(p)]
    /\ pooled' = FALSE
    /\ UNCHANGED <<settings, metrics, reported, told, relay>>

\* Slip: a read that timed out counts as a reply to try again later.
classify_TimeoutTransient(e) ==
    CASE e \in {"4xx", "timeout"} -> "MAIL_TRANSIENT"
      [] e = "5xx" -> "MAIL_PERMANENT"
      [] e = "io" -> "MAIL_ERROR"

classify(e) ==
    CASE e = "4xx" -> "MAIL_TRANSIENT"
      [] e = "5xx" -> "MAIL_PERMANENT"
      [] e \in {"timeout", "io"} -> "MAIL_ERROR"

Fails(e) ==
    /\ Answer(op.id, classify(e), 0)
    /\ Record(classify(e))

-----------------------------------------------------------------------------
(* The SMTP transaction, external. *)

Waits(stage) == op # None /\ op.at = stage

\* The pooled connection answers, or is given up for a new one: at a bad reply,
\* an I/O error or the timeout.
Tested ==
    /\ Waits("noop")
    /\ op' = [op EXCEPT !.at = "mail"]
    /\ UNCHANGED <<settings, pooled, metrics, reported, calls, told, relay>>

TestFails ==
    /\ Waits("noop")
    /\ op' = [op EXCEPT !.at = "connect"]
    /\ UNCHANGED <<settings, pooled, metrics, reported, calls, told, relay>>

\* The connection with its greeting, TLS and login, then MAIL, are accepted.
Proceed(stage, next) ==
    /\ Waits(stage)
    /\ op' = [op EXCEPT !.at = next]
    /\ UNCHANGED <<settings, pooled, metrics, reported, calls, told, relay>>

\* RCPT: the next recipient is accepted; after the last comes DATA.
RcptAccepted ==
    /\ Waits("rcpt")
    /\ op' = [op EXCEPT !.envelope = Append(@, Head(op.todo)), !.todo = Tail(@),
                        !.at = IF Len(op.todo) = 1 THEN "data" ELSE "rcpt"]
    /\ UNCHANGED <<settings, pooled, metrics, reported, calls, told, relay>>

\* DATA is accepted, the message is sent and the relay has it.
DataAccepted ==
    /\ Waits("data")
    /\ op' = [op EXCEPT !.at = "body"]
    /\ handed' = [handed EXCEPT ![op.id] = op.envelope]
    /\ UNCHANGED <<settings, pooled, metrics, reported, calls, told, relayed>>

\* The relay accepts a message, which do_send learns if it still waits.
RelayAccepts(c) ==
    /\ handed[c] # <<>>
    /\ handed' = [handed EXCEPT ![c] = <<>>]
    /\ relayed' = [relayed EXCEPT ![c] = Append(@, handed[c])]
    /\ IF Waits("body") /\ op.id = c
       THEN /\ Answer(c, "OK", op.recipients)
            /\ Record("OK")
            /\ pooled' = TRUE
       ELSE UNCHANGED <<op, told, metrics, pooled>>
    /\ UNCHANGED <<settings, reported, calls>>

\* A negative reply: the relay has not taken the message, and will not.
Refused(e) ==
    /\ op # None
    /\ op.at # "noop"
    /\ handed' = [handed EXCEPT ![op.id] = <<>>]
    /\ Fails(e)
    /\ UNCHANGED <<settings, pooled, reported, calls, relayed>>

\* Slip: a refused recipient is left out.
RcptRefused_Skipped(e) ==
    /\ Waits("rcpt")
    /\ Len(op.todo) > 1
    /\ op' = [op EXCEPT !.todo = Tail(@)]
    /\ UNCHANGED <<settings, pooled, metrics, reported, calls, told, relay>>

\* One refused recipient ends the transaction for all.
RcptRefused(e) == Waits("rcpt") /\ Refused(e)

\* The connection breaks: a message that was handed over may still be accepted.
IoError ==
    /\ op # None
    /\ op.at # "noop"
    /\ Fails("io")
    /\ UNCHANGED <<settings, pooled, reported, calls, relay>>

\* The read times out, and so may the relay be late with the reply.
TimesOut ==
    /\ op # None
    /\ op.at # "noop"
    /\ Fails("timeout")
    /\ UNCHANGED <<settings, pooled, reported, calls, relay>>

\* The relay drops a message that it never acknowledged.
RelayDrops(c) ==
    /\ handed[c] # <<>>
    /\ ~ (Waits("body") /\ op.id = c)
    /\ handed' = [handed EXCEPT ![c] = <<>>]
    /\ UNCHANGED <<settings, op, pooled, metrics, reported, calls, told, relayed>>

\* Slip: a drain empties the collector.
Drain_Empties ==
    /\ op = None
    /\ reported' = metrics
    /\ metrics' = 0
    /\ UNCHANGED <<settings, op, pooled, calls, told, relay>>

\* drain_metrics clones the metrics out.
Drain ==
    /\ op = None
    /\ reported' = metrics
    /\ UNCHANGED <<settings, op, pooled, metrics, calls, told, relay>>

\* The session makes no more calls.
Over ==
    /\ op = None
    /\ transport = "failed" \/ calls = MaxCalls
    /\ UNCHANGED vars

-----------------------------------------------------------------------------
Call ==
    \/ OpLimit
    \/ NotASend
    \/ op = None /\ calls < MaxCalls /\ \E p \in Payloads : RejectSend(p) \/ StartSend(p)

Next ==
    \/ Connect
    \/ Call
    \/ Tested
    \/ TestFails
    \/ Proceed("connect", "mail")
    \/ Proceed("mail", "rcpt")
    \/ RcptAccepted
    \/ DataAccepted
    \/ \E c \in Calls : RelayAccepts(c) \/ RelayDrops(c)
    \/ \E e \in {"4xx", "5xx"} : RcptRefused(e)
    \/ \E e \in {"4xx", "5xx"} : op # None /\ op.at # "rcpt" /\ Refused(e)
    \/ IoError
    \/ TimesOut
    \/ Drain
    \/ Over

Spec == Init /\ [][Next]_vars

-----------------------------------------------------------------------------
Codes == {"OK", "MAIL_ERROR", "MAIL_TRANSIENT", "MAIL_PERMANENT", "MAIL_OP_LIMIT"}

\* A send is at one of its stages, no connection is idle while a
\* send uses it, and no call is metered more than once.
TypeOK ==
    /\ config \in [max_recipients : Nat, allowed : SUBSET Domains,
                   max_sends : Nat, default_from : {"good", "bad"}]
    /\ transport \in {"none", "ready", "failed"}
    /\ op \in Sends \cup {None}
    /\ op # None => /\ op.id = calls
                    /\ ~ pooled
                    /\ Len(op.todo) + Len(op.envelope) = op.recipients
    /\ pooled \in BOOLEAN
    /\ metrics \in 0..calls
    /\ reported \in 0..metrics
    /\ calls \in 0..MaxCalls
    /\ told \in [id : 0..MaxCalls, code : Codes \cup {"none"}, recipients : Nat]
    /\ handed \in [Calls -> Seq(Addresses)]
    /\ relayed \in [Calls -> Seq(Seq(Addresses))]
    /\ \A c \in Calls : Len(relayed[c]) <= 1

\* What the relay accepted, or still may, goes only to recipients in the allowed
\* domains, whatever their case and whichever of to, cc and bcc names them, and
\* to no more than max_recipients (do_send, enforce_recipient_domains).
RelayedAllowed ==
    \A c \in Calls : \A m \in Range(relayed[c]) \cup {handed[c]} :
        /\ Len(m) <= config.max_recipients
        /\ config.allowed # {} =>
              \A a \in Range(m) : \E d \in config.allowed : d.name = a.domain.name

\* No session relays more messages than max_sends, failed sends that were
\* relayed after all and any number of drains included (call, op_count).
SendsCapped ==
    config.max_sends # 0 =>
        Cardinality({c \in Calls : relayed[c] # <<>> \/ handed[c] # <<>>})
            <= config.max_sends

\* A send that is answered Ok was relayed, once, to as many recipients as it is
\* metered with: never to some of them only (do_send).
OkRelayedToAll ==
    told.code = "OK" =>
        /\ Len(relayed[told.id]) = 1
        /\ Len(relayed[told.id][1]) = told.recipients

\* A send that the relay refused, or the limit, is not relayed later: repeating
\* a MAIL_TRANSIENT never sends a message twice (classify).
RefusedNotRelayed ==
    told.code \in {"MAIL_TRANSIENT", "MAIL_PERMANENT", "MAIL_OP_LIMIT"} =>
        relayed[told.id] = <<>> /\ handed[told.id] = <<>>
=============================================================================
