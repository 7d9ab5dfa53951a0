------------------------------ MODULE MailProofs ------------------------------
(***************************************************************************)
(* Safety of the mail backend for any caps, any number of calls and any    *)
(* payloads.                                                               *)
(*                                                                         *)
(* The inductive invariant IInv says how far the send in progress has come *)
(* and that its recipients passed the checks (SendOK), that the relay gets *)
(* a message of a call at most once (OnceOK), that the last answer is of a *)
(* call that is over (ToldOK), and that every message the relay ever saw   *)
(* was counted, or is the one under way (CountOK).                         *)
(***************************************************************************)
EXTENDS Mail, FiniteSetTheorems, TLAPS

\* The recipient checks of do_send, for one address and for a message.
Permitted(a) ==
    config.allowed # {} => \E d \in config.allowed : d.name = a.domain.name

Permissible(m) ==
    /\ Len(m) <= config.max_recipients
    /\ \A a \in Range(m) : Permitted(a)

\* The relay has a message of this call, or had.
Sent == {c \in Calls : relayed[c] # <<>> \/ handed[c] # <<>>}

\* The call in progress, whose message is not counted yet.
Open == IF op # None THEN {op.id} ELSE {}

Unanswered == IF op # None THEN 1 ELSE 0

\* Where the send in progress is, and whom it is for.
SendOK ==
    op # None =>
        /\ op.recipients <= config.max_recipients
        /\ \A a \in Range(op.todo) \cup Range(op.envelope) : Permitted(a)
        /\ op.at \in {"noop", "connect", "mail", "rcpt"} => op.todo # <<>>
        /\ op.at \in {"data", "body"} => op.todo = <<>>
        /\ relayed[op.id] = <<>>
        /\ handed[op.id] = IF op.at = "body" THEN op.envelope ELSE <<>>

\* The relay holds or has accepted a message, never both.
OnceOK ==
    \A c \in Calls : /\ handed[c] # <<>> => relayed[c] = <<>>
                     /\ c > calls => handed[c] = <<>> /\ relayed[c] = <<>>

\* The last answer is of a call that is over.
ToldOK ==
    /\ told.id <= calls
    /\ op # None => told.id # op.id
    /\ told.code # "none" => told.id \in Calls

\* Every message the relay ever saw was counted, or is the one under way.
CountOK ==
    /\ Cardinality(Sent \ Open) <= metrics
    /\ config.max_sends # 0 => metrics + Unanswered <= config.max_sends
    /\ metrics + Unanswered <= calls

\* The invariant that is inductive.
IInv ==
    /\ TypeOK
    /\ SendOK
    /\ OnceOK
    /\ ToldOK
    /\ CountOK
    /\ RelayedAllowed
    /\ OkRelayedToAll
    /\ RefusedNotRelayed
-----------------------------------------------------------------------------
(* Addresses, envelopes and counts. *)

\* Where the numbers are.
LEMMA Numbers ==
    /\ MaxCalls \in Nat /\ MaxRecipients \in Nat /\ MaxSends \in Nat /\ MaxPer \in Nat
    /\ \A c : c \in Calls <=> c \in Nat /\ 1 <= c /\ c <= MaxCalls
BY MailAssumption DEF Calls

\* The counters and the caps are numbers.
LEMMA Counters ==
    ASSUME TypeOK
    PROVE  /\ calls \in Nat /\ calls <= MaxCalls
           /\ metrics \in Nat /\ metrics <= calls
           /\ reported \in Nat /\ reported <= metrics
           /\ config.max_sends \in Nat /\ config.max_recipients \in Nat
<1>1. /\ calls \in 0..MaxCalls /\ metrics \in 0..calls /\ reported \in 0..metrics
      /\ config \in [max_recipients : Nat, allowed : SUBSET Domains,
                     max_sends : Nat, default_from : {"good", "bad"}]
  BY DEF TypeOK
<1>2. config.max_sends \in Nat /\ config.max_recipients \in Nat
  BY <1>1
<1>3. QED
  BY <1>1, <1>2, Numbers

\* What is in a sequence, and when there is nothing.
LEMMA Elements ==
    ASSUME NEW S, NEW s \in Seq(S)
    PROVE  /\ \A a \in Range(s) : a \in S
           /\ s = <<>> <=> Len(s) = 0
           /\ Len(s) \in Nat
<1>1. \A i \in DOMAIN s : s[i] \in S
  OBVIOUS
<1>2. s = <<>> <=> Len(s) = 0
  <2>1. Len(s) = 0 => s = <<>>
    OBVIOUS
  <2>2. s = <<>> => Len(s) = 0
    OBVIOUS
  <2>3. QED
    BY <2>1, <2>2
<1>3. QED
  BY <1>1, <1>2 DEF Range

\* The recipient lists of a payload are sequences of addresses.
LEMMA PayloadType ==
    ASSUME NEW p \in Payloads
    PROVE  /\ p.to \in Seq(Addresses) /\ p.cc \in Seq(Addresses)
           /\ p.bcc \in Seq(Addresses)
<1>1. \A s \in BoundedSeq(Addresses, MaxPer) : s \in Seq(Addresses)
  <2>1. ASSUME NEW m \in 0..MaxPer, NEW s \in [1..m -> Addresses]
        PROVE  s \in Seq(Addresses)
    BY <2>1, Numbers
  <2>2. ASSUME NEW s \in BoundedSeq(Addresses, MaxPer)
        PROVE  \E m \in 0..MaxPer : s \in [1..m -> Addresses]
    BY <2>2 DEF BoundedSeq, SeqOf
  <2>3. QED
    BY <2>1, <2>2
<1>2. QED
  BY <1>1 DEF Payloads

\* The recipients of a send that passes the checks are permitted, and counted.
LEMMA SendablePermitted ==
    ASSUME TypeOK, NEW p \in Payloads, Sendable(p)
    PROVE  LET todo == p.to \o p.cc \o p.bcc
           IN  /\ todo \in Seq(Addresses) /\ todo # <<>>
               /\ Len(todo) = count_recipients(p)
               /\ count_recipients(p) \in Nat
               /\ count_recipients(p) <= config.max_recipients
               /\ \A a \in Range(todo) : Permitted(a)
<1> DEFINE todo == p.to \o p.cc \o p.bcc
<1>1. /\ todo \in Seq(Addresses) /\ Len(todo) = Len(p.to) + Len(p.cc) + Len(p.bcc)
      /\ Len(p.to) \in Nat /\ Len(p.cc) \in Nat /\ Len(p.bcc) \in Nat
  BY PayloadType
<1>2. todo = Recipients(p)
  BY DEF Recipients
<1> HIDE DEF todo
<1>3. /\ Len(todo) = count_recipients(p) /\ count_recipients(p) \in Nat
      /\ todo # <<>>
  <2>1. count_recipients(p) > 0
    BY DEF Sendable
  <2>2. count_recipients(p) = Len(p.to) + Len(p.cc) + Len(p.bcc)
    BY DEF count_recipients
  <2>3. Len(todo) \in Nat
    BY <1>1, Elements
  <2>4. Len(todo) = count_recipients(p)
    BY <1>1, <2>2
  <2>5. Len(todo) # 0
    BY <2>1, <2>4
  <2>6. todo # <<>>
    BY <1>1, <2>5, Elements
  <2>7. QED
    BY <2>3, <2>4, <2>6
<1>4. \A a, d \in Domains : to_lowercase(a) = to_lowercase(d) => a.name = d.name
  BY DEF Domains, to_lowercase
<1>5. \A a \in Range(todo) : Permitted(a)
  <2>1. SUFFICES ASSUME NEW a \in Range(todo), config.allowed # {}
                 PROVE  \E d \in config.allowed : d.name = a.domain.name
    BY DEF Permitted
  <2>2. domain_allowed(a.domain)
    BY <1>2, <2>1 DEF Sendable, enforce_recipient_domains
  <2>3. a \in Addresses
    BY <1>1, <2>1, Elements
  <2>4. a.domain \in Domains
    <3>1. [name |-> "other", upper |-> FALSE] \in Domains
      BY DEF Domains
    <3>2. QED
      BY <2>3, <3>1 DEF Addresses
  <2>5. config.allowed \subseteq Domains
    BY DEF TypeOK
  <2>6. QED
    BY <1>4, <2>2, <2>4, <2>5 DEF domain_allowed
<1>6. QED
  BY <1>1, <1>3, <1>5 DEF Sendable, todo

\* The next recipient moves from the list to the envelope.
LEMMA EnvelopeGrows ==
    ASSUME NEW todo \in Seq(Addresses), NEW envelope \in Seq(Addresses), todo # <<>>
    PROVE  /\ Append(envelope, Head(todo)) \in Seq(Addresses)
           /\ Tail(todo) \in Seq(Addresses)
           /\ Len(Tail(todo)) + Len(Append(envelope, Head(todo)))
                 = Len(todo) + Len(envelope)
           /\ Tail(todo) = <<>> <=> Len(todo) = 1
           /\ Range(Tail(todo)) \subseteq Range(todo)
           /\ Range(Append(envelope, Head(todo))) \subseteq Range(envelope) \cup Range(todo)
<1>1. /\ Head(todo) \in Addresses /\ Head(todo) = todo[1] /\ 1 \in DOMAIN todo
      /\ Tail(todo) \in Seq(Addresses) /\ Len(Tail(todo)) = Len(todo) - 1
      /\ Len(todo) \in Nat /\ Len(envelope) \in Nat
      /\ \A i \in 1..(Len(todo) - 1) : Tail(todo)[i] = todo[i + 1]
  OBVIOUS
<1>2. /\ Append(envelope, Head(todo)) \in Seq(Addresses)
      /\ Len(Append(envelope, Head(todo))) = Len(envelope) + 1
      /\ \A i \in 1..Len(envelope) : Append(envelope, Head(todo))[i] = envelope[i]
      /\ Append(envelope, Head(todo))[Len(envelope) + 1] = Head(todo)
  BY <1>1
<1>3. Range(Tail(todo)) \subseteq Range(todo)
  <2>1. \A i \in DOMAIN Tail(todo) : i + 1 \in DOMAIN todo /\ Tail(todo)[i] = todo[i + 1]
    BY <1>1
  <2>2. QED
    BY <2>1 DEF Range
<1>4. Range(Append(envelope, Head(todo))) \subseteq Range(envelope) \cup Range(todo)
  <2>1. \A i \in DOMAIN Append(envelope, Head(todo)) :
           \/ i \in DOMAIN envelope /\ Append(envelope, Head(todo))[i] = envelope[i]
           \/ Append(envelope, Head(todo))[i] = todo[1]
    BY <1>1, <1>2
  <2>2. QED
    BY <1>1, <2>1 DEF Range
<1>5. Tail(todo) = <<>> <=> Len(todo) = 1
  <2>1. Len(Tail(todo)) = 0 <=> Len(todo) = 1
    BY <1>1
  <2>2. QED
    BY <1>1, <2>1, Elements
<1>6. QED
  BY <1>1, <1>2, <1>3, <1>4, <1>5

\* The calls whose message the relay has seen can be counted, and there is one
\* more at most than without the one under way.
LEMMA SentCount ==
    /\ IsFiniteSet(Sent)
    /\ Cardinality(Sent) \in Nat
    /\ \A x : /\ Cardinality(Sent \ {x}) \in Nat
              /\ Cardinality(Sent) <= Cardinality(Sent \ {x}) + 1
<1>1. IsFiniteSet(Calls)
  BY Numbers, FS_Interval DEF Calls
<1>2. IsFiniteSet(Sent)
  BY <1>1, FS_Subset DEF Sent
<1>3. Cardinality(Sent) \in Nat
  BY <1>2, FS_CardinalityType
<1>4. \A x : /\ IsFiniteSet(Sent \ {x})
             /\ Cardinality(Sent \ {x}) =
                   IF x \in Sent THEN Cardinality(Sent) - 1 ELSE Cardinality(Sent)
  BY <1>2, FS_RemoveElement
<1>5. \A x : Cardinality(Sent \ {x}) \in Nat
  BY <1>4, FS_CardinalityType
<1>6. ASSUME NEW x PROVE Cardinality(Sent) <= Cardinality(Sent \ {x}) + 1
  <2>1. Cardinality(Sent \ {x}) =
           IF x \in Sent THEN Cardinality(Sent) - 1 ELSE Cardinality(Sent)
    BY <1>4
  <2>2. QED
    BY <1>3, <2>1
<1>7. QED
  BY <1>2, <1>3, <1>5, <1>6

LEMMA OneMoreSent ==
    ASSUME NEW x, NEW n \in Nat, Cardinality(Sent \ {x}) <= n
    PROVE  Cardinality(Sent) <= n + 1
<1>1. /\ Cardinality(Sent) \in Nat /\ Cardinality(Sent \ {x}) \in Nat
      /\ Cardinality(Sent) <= Cardinality(Sent \ {x}) + 1
  BY SentCount
<1>2. QED
  BY <1>1

\* Fewer calls, or the same, count no more.
LEMMA FewerSent ==
    ASSUME NEW S, NEW T, IsFiniteSet(T), S \subseteq T, NEW n, Cardinality(T) <= n, n \in Nat
    PROVE  Cardinality(S) <= n
BY FS_Subset, FS_CardinalityType

-----------------------------------------------------------------------------
(* Steps that leave the relay alone. *)

\* Nothing is sent, told or counted.
LEMMA KeptParts ==
    ASSUME IInv, UNCHANGED <<config, op, metrics, calls, told, relay>>
    PROVE  /\ SendOK' /\ OnceOK' /\ ToldOK' /\ CountOK'
           /\ RelayedAllowed' /\ OkRelayedToAll' /\ RefusedNotRelayed'
<1>1. SendOK' /\ OnceOK' /\ ToldOK'
  BY DEF IInv, SendOK, OnceOK, ToldOK, Permitted, relay
<1>2. CountOK'
  BY DEF IInv, CountOK, Sent, Open, Unanswered, relay
<1>3. RelayedAllowed' /\ OkRelayedToAll' /\ RefusedNotRelayed'
  BY DEF IInv, RelayedAllowed, OkRelayedToAll, RefusedNotRelayed, relay
<1>4. QED
  BY <1>1, <1>2, <1>3

\* The connect of the backend, a drain, and the end.
LEMMA QuietStep ==
    ASSUME IInv, Connect \/ Drain \/ Over \/ UNCHANGED vars
    PROVE  IInv'
<1>1. /\ UNCHANGED <<config, op, metrics, calls, told, relay>>
      /\ transport' \in {"none", "ready", "failed"}
      /\ UNCHANGED pooled
      /\ reported' \in 0..metrics
  BY DEF Connect, Drain, Over, vars, settings, IInv, TypeOK
<1>2. TypeOK'
  BY <1>1 DEF IInv, TypeOK, relay
<1>3. QED
  BY <1>1, <1>2, KeptParts DEF IInv
-----------------------------------------------------------------------------
(* The calls. *)

\* A call that is refused before the transport: by the cap, or by a check.
LEMMA NoSendStep ==
    ASSUME IInv, OpLimit \/ NotASend \/ (\E p \in Payloads : RejectSend(p))
    PROVE  IInv'
<1>1. PICK code \in {"MAIL_OP_LIMIT", "MAIL_ERROR"} :
         /\ op = None /\ calls < MaxCalls /\ calls' = calls + 1 /\ op' = None
         /\ told' = [id |-> calls + 1, code |-> code, recipients |-> 0]
         /\ \/ UNCHANGED metrics
            \/ metrics' = metrics + 1 /\ ~ Exhausted
         /\ UNCHANGED <<config, transport, pooled, reported, handed, relayed>>
  BY DEF OpLimit, NotASend, RejectSend, NewCall, Answer, Record, settings, relay
<1>2. /\ calls \in Nat /\ calls + 1 \in Calls /\ metrics \in Nat /\ metrics <= calls
      /\ reported \in Nat /\ reported <= metrics
      /\ config.max_sends \in Nat
  BY <1>1, Numbers, Counters DEF IInv
<1>3. TypeOK'
  <2>1. metrics' \in 0..calls' /\ reported' \in 0..metrics' /\ calls' \in 0..MaxCalls
    BY <1>1, <1>2, Numbers
  <2>2. told' \in [id : 0..MaxCalls, code : Codes \cup {"none"}, recipients : Nat]
    BY <1>1, <1>2, Numbers DEF Codes
  <2>3. QED
    BY <1>1, <2>1, <2>2 DEF IInv, TypeOK
<1>4. /\ handed[calls + 1] = <<>> /\ relayed[calls + 1] = <<>>
  BY <1>2 DEF IInv, OnceOK
<1>5. SendOK' /\ RelayedAllowed'
  BY <1>1 DEF IInv, SendOK, RelayedAllowed
<1>6. OnceOK' /\ ToldOK'
  BY <1>1, <1>2, Numbers DEF IInv, OnceOK, ToldOK
<1>7. CountOK'
  <2>1. Sent' = Sent /\ Open = {} /\ Open' = {} /\ Unanswered = 0 /\ Unanswered' = 0
    BY <1>1 DEF Sent, Open, Unanswered
  <2>2. Cardinality(Sent) <= metrics /\ Cardinality(Sent) \in Nat
    BY <2>1, SentCount DEF IInv, CountOK
  <2>3. config.max_sends # 0 => metrics' <= config.max_sends
    BY <1>1, <1>2, <2>1 DEF IInv, CountOK, Exhausted
  <2>4. QED
    BY <1>1, <1>2, <2>1, <2>2, <2>3 DEF CountOK
<1>8. OkRelayedToAll' /\ RefusedNotRelayed'
  BY <1>1, <1>4 DEF OkRelayedToAll, RefusedNotRelayed
<1>9. QED
  BY <1>3, <1>5, <1>6, <1>7, <1>8 DEF IInv

\* A send starts with recipients that passed every check, below the cap.
LEMMA StartSendStep ==
    ASSUME IInv, NEW p \in Payloads, StartSend(p)
    PROVE  IInv'
<1> DEFINE todo == p.to \o p.cc \o p.bcc
           n == count_recipients(p)
<1>1. /\ op = None /\ calls < MaxCalls /\ calls' = calls + 1 /\ ~ Exhausted
      /\ op' = [id |-> calls + 1, at |-> IF pooled THEN "noop" ELSE "connect",
                todo |-> todo, envelope |-> <<>>, recipients |-> n]
      /\ pooled' = FALSE
      /\ UNCHANGED <<config, transport, metrics, reported, told, handed, relayed>>
  BY DEF StartSend, NewCall, settings, relay
<1>2. /\ todo \in Seq(Addresses) /\ todo # <<>> /\ Len(todo) = n /\ n \in Nat
      /\ n <= config.max_recipients /\ \A a \in Range(todo) : Permitted(a)
  BY SendablePermitted DEF IInv, StartSend
<1> HIDE DEF todo, n
<1>3. /\ calls \in Nat /\ calls + 1 \in Calls /\ metrics \in Nat /\ metrics <= calls
      /\ config.max_sends \in Nat
  BY <1>1, Numbers, Counters DEF IInv
<1>4. /\ op' \in Sends /\ op' # None /\ op'.id = calls + 1 /\ op'.todo = todo
      /\ op'.envelope = <<>> /\ op'.recipients = n /\ op'.at \in {"noop", "connect"}
  <2>1. <<>> \in Seq(Addresses)
    OBVIOUS
  <2>2. op' \in Sends
    BY <1>1, <1>2, <1>3, <2>1 DEF Sends
  <2>3. QED
    BY <1>1, <2>2, MailAssumption
<1>5. TypeOK'
  <2>1. metrics' \in 0..calls' /\ calls' \in 0..MaxCalls
    BY <1>1, <1>3, Numbers
  <2>2. Len(op'.todo) + Len(op'.envelope) = op'.recipients
    BY <1>2, <1>4
  <2>3. QED
    BY <1>1, <1>4, <2>1, <2>2 DEF IInv, TypeOK
<1>6. /\ handed[calls + 1] = <<>> /\ relayed[calls + 1] = <<>>
  BY <1>3 DEF IInv, OnceOK
<1>7. SendOK'
  <2>1. Range(op'.envelope) = {}
    BY <1>4 DEF Range
  <2>2. \A a : Permitted(a)' <=> Permitted(a)
    BY <1>1 DEF Permitted
  <2>3. QED
    BY <1>1, <1>2, <1>4, <1>6, <2>1, <2>2 DEF SendOK
<1>8. OnceOK' /\ ToldOK'
  <2>1. told.id \in Nat
    BY Numbers DEF IInv, TypeOK
  <2>2. QED
    BY <1>1, <1>3, <1>4, <2>1, Numbers DEF IInv, OnceOK, ToldOK
<1>9. CountOK'
  <2>1. Sent' = Sent /\ Open = {} /\ Open' = {calls + 1} /\ Unanswered = 0 /\ Unanswered' = 1
    BY <1>1, <1>4 DEF Sent, Open, Unanswered
  <2>2. Sent \ Open' = Sent
    BY <1>6, <2>1 DEF Sent
  <2>3. Cardinality(Sent) <= metrics
    BY <2>1 DEF IInv, CountOK
  <2>4. config.max_sends # 0 => metrics + 1 <= config.max_sends
    BY <1>1, <1>3 DEF Exhausted
  <2>5. metrics + 1 <= calls'
    BY <1>1, <1>3
  <2>6. QED
    BY <1>1, <2>1, <2>2, <2>3, <2>4, <2>5 DEF CountOK
<1>10. RelayedAllowed' /\ OkRelayedToAll' /\ RefusedNotRelayed'
  BY <1>1 DEF IInv, RelayedAllowed, OkRelayedToAll, RefusedNotRelayed
<1>11. QED
  BY <1>5, <1>7, <1>8, <1>9, <1>10 DEF IInv

\* What is known of a send in progress.
LEMMA InProgress ==
    ASSUME IInv, op # None
    PROVE  /\ op \in Sends /\ op.id \in Calls /\ op.id = calls /\ ~ pooled
           /\ op.todo \in Seq(Addresses) /\ op.envelope \in Seq(Addresses)
           /\ op.recipients \in Nat
           /\ Len(op.todo) + Len(op.envelope) = op.recipients
<1>1. op \in Sends /\ op.id = calls /\ ~ pooled
      /\ Len(op.todo) + Len(op.envelope) = op.recipients
  BY DEF IInv, TypeOK
<1>2. QED
  BY <1>1 DEF Sends

\* The dialogue moves on: no message is handed over yet.
LEMMA AdvanceStep ==
    ASSUME IInv, op # None, op' \in Sends, op'.id = op.id, op'.recipients = op.recipients,
           Len(op'.todo) + Len(op'.envelope) = op.recipients,
           Range(op'.todo) \cup Range(op'.envelope)
              \subseteq Range(op.todo) \cup Range(op.envelope),
           op.at # "body",
           \/ op'.at \in {"noop", "connect", "mail", "rcpt"} /\ op'.todo # <<>>
           \/ op'.at = "data" /\ op'.todo = <<>>,
           UNCHANGED <<settings, pooled, metrics, reported, calls, told, relay>>
    PROVE  IInv'
<1>1. op' # None
  BY MailAssumption
<1>2. TypeOK'
  BY <1>1 DEF IInv, TypeOK, settings, relay
<1>3. SendOK'
  BY <1>1 DEF IInv, SendOK, Permitted, settings, relay
<1>4. OnceOK' /\ ToldOK'
  BY <1>1 DEF IInv, OnceOK, ToldOK, relay
<1>5. CountOK'
  BY <1>1 DEF IInv, CountOK, Sent, Open, Unanswered, settings, relay
<1>6. RelayedAllowed' /\ OkRelayedToAll' /\ RefusedNotRelayed'
  BY DEF IInv, RelayedAllowed, OkRelayedToAll, RefusedNotRelayed, settings, relay
<1>7. QED
  BY <1>2, <1>3, <1>4, <1>5, <1>6 DEF IInv

\* NOOP, the new connection, MAIL.
LEMMA DialogueStep ==
    ASSUME IInv, Tested \/ TestFails \/ Proceed("connect", "mail") \/ Proceed("mail", "rcpt")
    PROVE  IInv'
<1>1. PICK at \in {"connect", "mail", "rcpt"} :
         /\ op # None /\ op.at \in {"noop", "connect", "mail"}
         /\ op' = [op EXCEPT !.at = at]
         /\ UNCHANGED <<settings, pooled, metrics, reported, calls, told, relay>>
  BY DEF Tested, TestFails, Proceed, Waits
<1>2. /\ op \in Sends /\ op.todo # <<>> /\ Len(op.todo) + Len(op.envelope) = op.recipients
  BY <1>1, InProgress DEF IInv, SendOK
<1>3. /\ op' \in Sends /\ op'.id = op.id /\ op'.recipients = op.recipients /\ op'.at = at
      /\ op'.todo = op.todo /\ op'.envelope = op.envelope
  BY <1>1, <1>2 DEF Sends
<1>4. QED
  BY <1>1, <1>2, <1>3, AdvanceStep

\* RCPT for the next recipient.
LEMMA RcptAcceptedStep ==
    ASSUME IInv, RcptAccepted
    PROVE  IInv'
<1>1. /\ op # None /\ op.at = "rcpt"
      /\ op' = [op EXCEPT !.envelope = Append(@, Head(op.todo)), !.todo = Tail(@),
                          !.at = IF Len(op.todo) = 1 THEN "data" ELSE "rcpt"]
      /\ UNCHANGED <<settings, pooled, metrics, reported, calls, told, relay>>
  BY DEF RcptAccepted, Waits
<1>2. /\ op \in Sends /\ op.todo # <<>> /\ Len(op.todo) + Len(op.envelope) = op.recipients
      /\ op.todo \in Seq(Addresses) /\ op.envelope \in Seq(Addresses)
  BY <1>1, InProgress DEF IInv, SendOK
<1>3. /\ Append(op.envelope, Head(op.todo)) \in Seq(Addresses)
      /\ Tail(op.todo) \in Seq(Addresses)
      /\ Len(Tail(op.todo)) + Len(Append(op.envelope, Head(op.todo))) = op.recipients
      /\ Tail(op.todo) = <<>> <=> Len(op.todo) = 1
      /\ Range(Tail(op.todo)) \cup Range(Append(op.envelope, Head(op.todo)))
            \subseteq Range(op.todo) \cup Range(op.envelope)
  BY <1>2, EnvelopeGrows
<1>4. /\ op'.id = op.id /\ op'.recipients = op.recipients
      /\ op'.at = IF Len(op.todo) = 1 THEN "data" ELSE "rcpt"
      /\ op'.todo = Tail(op.todo) /\ op'.envelope = Append(op.envelope, Head(op.todo))
      /\ op' \in Sends
  BY <1>1, <1>2, <1>3 DEF Sends
<1>5. QED
  BY <1>1, <1>2, <1>3, <1>4, AdvanceStep
-----------------------------------------------------------------------------
(* The message and its end. *)

\* The relay has the message: its envelope is the whole list of recipients.
LEMMA DataAcceptedStep ==
    ASSUME IInv, DataAccepted
    PROVE  IInv'
<1>1. /\ op # None /\ op.at = "data"
      /\ op' = [op EXCEPT !.at = "body"]
      /\ handed' = [handed EXCEPT ![op.id] = op.envelope]
      /\ UNCHANGED <<config, transport, pooled, metrics, reported, calls, told, relayed>>
  BY DEF DataAccepted, Waits, settings
<1>2. /\ op \in Sends /\ op.id \in Calls /\ op.id = calls
      /\ op.todo = <<>> /\ op.envelope \in Seq(Addresses)
      /\ op.recipients <= config.max_recipients /\ op.recipients \in Nat
      /\ Len(op.todo) + Len(op.envelope) = op.recipients
      /\ \A a \in Range(op.envelope) : Permitted(a)
      /\ relayed[op.id] = <<>>
  BY <1>1, InProgress DEF IInv, SendOK
<1>3. /\ op' \in Sends /\ op' # None /\ op'.id = op.id /\ op'.recipients = op.recipients
      /\ op'.at = "body" /\ op'.todo = op.todo /\ op'.envelope = op.envelope
  BY <1>1, <1>2, MailAssumption DEF Sends
<1>4. Len(op.envelope) = op.recipients
  BY <1>2
<1>5. /\ handed \in [Calls -> Seq(Addresses)] /\ handed'[op.id] = op.envelope
      /\ \A c \in Calls : c # op.id => handed'[c] = handed[c]
  BY <1>1, <1>2 DEF IInv, TypeOK
<1>6. TypeOK'
  BY <1>1, <1>2, <1>3, <1>5 DEF IInv, TypeOK
<1>7. SendOK'
  BY <1>1, <1>2, <1>3, <1>5 DEF IInv, SendOK, Permitted
<1>8. OnceOK' /\ ToldOK'
  BY <1>1, <1>2, <1>3, <1>5, Numbers DEF IInv, OnceOK, ToldOK
<1>9. CountOK'
  <2>1. Open' = Open /\ Unanswered' = Unanswered /\ Open = {op.id}
    BY <1>1, <1>3 DEF Open, Unanswered
  <2>2. Sent' \ {op.id} = Sent \ {op.id}
    BY <1>1, <1>5 DEF Sent
  <2>3. QED
    BY <1>1, <2>1, <2>2 DEF IInv, CountOK
<1>10. RelayedAllowed'
  BY <1>1, <1>2, <1>4, <1>5 DEF IInv, RelayedAllowed, Permitted
<1>11. OkRelayedToAll' /\ RefusedNotRelayed'
  <2>1. told.id # op.id /\ (told.code # "none" => told.id \in Calls)
    BY <1>1 DEF IInv, ToldOK
  <2>2. QED
    BY <1>1, <1>5, <2>1 DEF IInv, OkRelayedToAll, RefusedNotRelayed
<1>12. QED
  BY <1>6, <1>7, <1>8, <1>9, <1>10, <1>11 DEF IInv

\* A send that ends with an error is counted, and unless the error leaves it
\* open the relay has nothing of it.
LEMMA FailStep ==
    ASSUME IInv, op # None, NEW code \in {"MAIL_ERROR", "MAIL_TRANSIENT", "MAIL_PERMANENT"},
           Answer(op.id, code, 0), Record(code),
           UNCHANGED <<settings, pooled, reported, calls, relayed>>,
           \/ UNCHANGED handed /\ code = "MAIL_ERROR"
           \/ handed' = [handed EXCEPT ![op.id] = <<>>]
    PROVE  IInv'
<1>1. /\ op' = None /\ told' = [id |-> op.id, code |-> code, recipients |-> 0]
      /\ metrics' = metrics + 1
      /\ UNCHANGED <<config, transport>>
  BY DEF Answer, Record, settings
<1>2. op.id \in Calls /\ op.id = calls /\ relayed[op.id] = <<>>
  BY InProgress DEF IInv, SendOK
<1>3. /\ handed \in [Calls -> Seq(Addresses)] /\ handed' \in [Calls -> Seq(Addresses)]
      /\ \A c \in Calls : handed'[c] = handed[c] \/ handed'[c] = <<>>
      /\ code # "MAIL_ERROR" => handed'[op.id] = <<>>
  <2>1. handed \in [Calls -> Seq(Addresses)] /\ <<>> \in Seq(Addresses)
    BY DEF IInv, TypeOK
  <2>2. QED
    BY <1>2, <2>1
<1>4. /\ calls \in Nat /\ metrics \in Nat /\ reported \in Nat /\ reported <= metrics
      /\ config.max_sends \in Nat /\ metrics + 1 <= calls
  BY Counters DEF IInv, CountOK, Unanswered
<1>5. TypeOK'
  <2>1. metrics' \in 0..calls' /\ reported' \in 0..metrics'
    BY <1>1, <1>4
  <2>2. told' \in [id : 0..MaxCalls, code : Codes \cup {"none"}, recipients : Nat]
    BY <1>1, <1>2, Numbers DEF Codes
  <2>3. QED
    BY <1>1, <1>3, <2>1, <2>2 DEF IInv, TypeOK
<1>6. SendOK' /\ ToldOK'
  BY <1>1, <1>2, <1>4 DEF SendOK, ToldOK
<1>7. OnceOK'
  BY <1>3 DEF IInv, OnceOK
<1>8. CountOK'
  <2>1. Sent' \subseteq Sent /\ Open' = {} /\ Open = {op.id}
        /\ Unanswered = 1 /\ Unanswered' = 0
    BY <1>1, <1>3 DEF Sent, Open, Unanswered
  <2>2. Cardinality(Sent) <= metrics + 1
    <3>1. Cardinality(Sent \ {op.id}) <= metrics
      BY <2>1 DEF IInv, CountOK
    <3>2. QED
      BY <1>4, <3>1, OneMoreSent
  <2>3. Cardinality(Sent') <= metrics + 1
    BY <1>4, <2>1, <2>2, SentCount, FewerSent
  <2>4. Sent' \ Open' = Sent'
    BY <2>1
  <2>5. QED
    BY <1>1, <1>4, <2>1, <2>3, <2>4 DEF IInv, CountOK
<1>9. RelayedAllowed'
  <2>1. \A c \in Calls : /\ Len(handed'[c]) <= config.max_recipients
                         /\ Range(handed'[c]) \subseteq Range(handed[c])
    <3>1. Len(<<>>) = 0 /\ Range(<<>>) = {}
      BY DEF Range
    <3>2. config.max_recipients \in Nat
      BY Counters DEF IInv
    <3>3. QED
      BY <1>3, <3>1, <3>2 DEF IInv, RelayedAllowed
  <2>2. QED
    BY <1>1, <2>1 DEF IInv, RelayedAllowed
<1>10. OkRelayedToAll' /\ RefusedNotRelayed'
  BY <1>1, <1>2, <1>3 DEF OkRelayedToAll, RefusedNotRelayed
<1>11. QED
  BY <1>5, <1>6, <1>7, <1>8, <1>9, <1>10 DEF IInv

\* A refusal by the relay, a broken connection and a late reply.
LEMMA ErrorStep ==
    ASSUME IInv,
           \/ \E e \in {"4xx", "5xx"} : op # None /\ Refused(e)
           \/ IoError
           \/ TimesOut
    PROVE  IInv'
<1>1. ASSUME NEW e \in {"4xx", "5xx"}, op # None, Refused(e) PROVE IInv'
  <2>1. classify(e) \in {"MAIL_TRANSIENT", "MAIL_PERMANENT"}
    BY DEF classify
  <2>2. QED
    BY <1>1, <2>1, FailStep DEF Refused, Fails
<1>2. CASE IoError \/ TimesOut
  <2>1. classify("io") = "MAIL_ERROR" /\ classify("timeout") = "MAIL_ERROR"
    BY DEF classify
  <2>2. QED
    BY <1>2, <2>1, FailStep DEF IoError, TimesOut, Fails, relay
<1>3. QED
  BY <1>1, <1>2
\* The relay accepts a message, once, and do_send learns it if it still waits.
LEMMA RelayAcceptsStep ==
    ASSUME IInv, NEW c \in Calls, RelayAccepts(c)
    PROVE  IInv'
<1> DEFINE m == handed[c]
<1>t. /\ handed \in [Calls -> Seq(Addresses)] /\ relayed \in [Calls -> Seq(Seq(Addresses))]
      /\ m \in Seq(Addresses) /\ <<>> \in Seq(Addresses)
  BY DEF IInv, TypeOK
<1>1. /\ m # <<>> /\ handed' = [handed EXCEPT ![c] = <<>>]
      /\ relayed' = [relayed EXCEPT ![c] = Append(@, m)]
      /\ UNCHANGED <<config, transport, reported, calls>>
  BY DEF RelayAccepts, settings
<1>2. relayed[c] = <<>> /\ c <= calls
  BY <1>1, Numbers, Counters DEF IInv, OnceOK
<1>3. /\ handed' \in [Calls -> Seq(Addresses)] /\ handed'[c] = <<>>
      /\ \A d \in Calls : d # c => handed'[d] = handed[d] /\ relayed'[d] = relayed[d]
  BY <1>1, <1>t
<1>4. /\ relayed' \in [Calls -> Seq(Seq(Addresses))]
      /\ relayed'[c] = <<m>> /\ Len(relayed'[c]) = 1 /\ relayed'[c][1] = m
      /\ relayed'[c] # <<>> /\ Range(relayed'[c]) = {m}
  <2>1. Append(<<>>, m) = <<m>> /\ <<m>> \in Seq(Seq(Addresses))
    BY <1>t
  <2>2. relayed'[c] = <<m>>
    BY <1>1, <1>2, <1>t, <2>1
  <2>3. relayed' \in [Calls -> Seq(Seq(Addresses))]
    BY <1>1, <1>2, <1>t, <2>1
  <2>4. Range(<<m>>) = {m}
    BY DEF Range
  <2>5. QED
    BY <2>1, <2>2, <2>3, <2>4
<1> HIDE DEF m
<1>5. OnceOK'
  BY <1>1, <1>2, <1>3, <1>4, Numbers, Counters DEF IInv, OnceOK
<1>6. RelayedAllowed'
  <2>1. \A d \in Calls : \A x \in Range(relayed[d]) \cup {handed[d]} : Permissible(x)
    BY DEF IInv, RelayedAllowed, Permissible, Permitted
  <2>2. Permissible(<<>>) /\ Permissible(m)
    <3>1. Len(<<>>) = 0 /\ Range(<<>>) = {} /\ config.max_recipients \in Nat
      BY Counters DEF Range, IInv
    <3>2. QED
      BY <2>1, <3>1 DEF Permissible, m
  <2>3. ASSUME NEW d \in Calls, NEW x \in Range(relayed'[d]) \cup {handed'[d]}
        PROVE  Permissible(x)
    <3>1. CASE d = c
      BY <1>3, <1>4, <2>2, <2>3, <3>1
    <3>2. CASE d # c
      BY <1>3, <2>1, <2>3, <3>2
    <3>3. QED
      BY <3>1, <3>2
  <2>4. QED
    BY <1>1, <2>3 DEF RelayedAllowed, Permissible, Permitted
<1>7. Sent' = Sent
  BY <1>1, <1>3, <1>4 DEF Sent, m
<1>8. ASSUME NEW d \in Calls PROVE Len(relayed'[d]) <= 1
  <2>1. Len(relayed[d]) <= 1
    BY DEF IInv, TypeOK
  <2>2. CASE d = c
    <3>1. Len(relayed'[d]) = 1
      BY <1>4, <2>2
    <3>2. QED
      BY <3>1
  <2>3. CASE d # c
    BY <1>3, <2>1, <2>3
  <2>4. QED
    BY <2>2, <2>3
<1>9. CASE Waits("body") /\ op.id = c
  <2>1. /\ op # None /\ op.at = "body" /\ op.id = c
        /\ op' = None /\ told' = [id |-> c, code |-> "OK", recipients |-> op.recipients]
        /\ metrics' = metrics + 1 /\ pooled' = TRUE
    BY <1>9 DEF RelayAccepts, Waits, Answer, Record
  <2>2. /\ op.id = calls /\ op.recipients \in Nat /\ op.todo = <<>> /\ m = op.envelope
        /\ Len(op.todo) + Len(op.envelope) = op.recipients
        /\ op.envelope \in Seq(Addresses)
    BY <2>1, InProgress DEF IInv, SendOK, m
  <2>3. Len(m) = op.recipients
    BY <2>2
  <2>4. /\ calls \in Nat /\ metrics \in Nat /\ reported \in Nat /\ reported <= metrics
        /\ config.max_sends \in Nat /\ metrics + 1 <= calls
    BY <2>1, Counters DEF IInv, CountOK, Unanswered
  <2>5. TypeOK'
    <3>1. metrics' \in 0..calls' /\ reported' \in 0..metrics'
      BY <1>1, <2>1, <2>4
    <3>2. told' \in [id : 0..MaxCalls, code : Codes \cup {"none"}, recipients : Nat]
      BY <2>1, <2>2, Numbers DEF Codes
    <3>3. QED
      BY <1>1, <1>3, <1>4, <1>8, <2>1, <3>1, <3>2 DEF IInv, TypeOK
  <2>6. SendOK' /\ ToldOK'
    BY <1>1, <1>2, <2>1 DEF SendOK, ToldOK
  <2>7. CountOK'
    <3>1. Open' = {} /\ Open = {c} /\ Unanswered = 1 /\ Unanswered' = 0
      BY <2>1 DEF Open, Unanswered
    <3>2. Cardinality(Sent \ {c}) <= metrics
      BY <3>1 DEF IInv, CountOK
    <3>3. Cardinality(Sent) <= metrics + 1
      BY <2>4, <3>2, OneMoreSent
    <3>4. Sent' \ Open' = Sent
      BY <1>7, <3>1
    <3>5. QED
      BY <1>1, <2>1, <2>4, <3>1, <3>3, <3>4 DEF IInv, CountOK
  <2>8. OkRelayedToAll' /\ RefusedNotRelayed'
    BY <1>4, <2>1, <2>3 DEF OkRelayedToAll, RefusedNotRelayed
  <2>9. QED
    BY <1>5, <1>6, <2>5, <2>6, <2>7, <2>8 DEF IInv
<1>10. CASE ~ (Waits("body") /\ op.id = c)
  <2>1. UNCHANGED <<op, told, metrics, pooled>>
    BY <1>10 DEF RelayAccepts
  <2>2. op # None => op.id # c /\ op.id \in Calls
    BY <1>1, <1>10, InProgress DEF IInv, SendOK, Waits, m
  <2>3. TypeOK'
    BY <1>1, <1>3, <1>4, <1>8, <2>1 DEF IInv, TypeOK
  <2>4. SendOK'
    BY <1>1, <1>3, <2>1, <2>2 DEF IInv, SendOK, Permitted
  <2>5. ToldOK'
    BY <1>1, <2>1 DEF IInv, ToldOK
  <2>6. CountOK'
    BY <1>1, <1>7, <2>1 DEF IInv, CountOK, Open, Unanswered
  <2>7. OkRelayedToAll'
    <3>1. told.code = "OK" => told.id \in Calls /\ told.id # c
      <4>1. Len(<<>>) = 0
        OBVIOUS
      <4>2. QED
        BY <1>2, <4>1 DEF IInv, ToldOK, OkRelayedToAll
    <3>2. QED
      BY <1>3, <2>1, <3>1 DEF IInv, OkRelayedToAll
  <2>8. RefusedNotRelayed'
    <3>1. told.code \in {"MAIL_TRANSIENT", "MAIL_PERMANENT", "MAIL_OP_LIMIT"} =>
             told.id \in Calls /\ told.id # c
      BY <1>1 DEF IInv, ToldOK, RefusedNotRelayed, m
    <3>2. QED
      BY <1>3, <2>1, <3>1 DEF IInv, RefusedNotRelayed
  <2>9. QED
    BY <1>5, <1>6, <2>3, <2>4, <2>5, <2>6, <2>7, <2>8 DEF IInv
<1>11. QED
  BY <1>9, <1>10

\* The relay drops a message nobody waits for.
LEMMA RelayDropsStep ==
    ASSUME IInv, NEW c \in Calls, RelayDrops(c)
    PROVE  IInv'
<1>1. /\ handed[c] # <<>> /\ handed' = [handed EXCEPT ![c] = <<>>]
      /\ ~ (Waits("body") /\ op.id = c)
      /\ UNCHANGED <<config, transport, op, pooled, metrics, reported, calls, told, relayed>>
  BY DEF RelayDrops, settings
<1>2. handed \in [Calls -> Seq(Addresses)] /\ <<>> \in Seq(Addresses)
  BY DEF IInv, TypeOK
<1>3. /\ handed' \in [Calls -> Seq(Addresses)] /\ handed'[c] = <<>>
      /\ \A d \in Calls : d # c => handed'[d] = handed[d]
  BY <1>1, <1>2
<1>4. op # None => op.id # c /\ op.id \in Calls
  BY <1>1, InProgress DEF IInv, SendOK, Waits
<1>5. TypeOK'
  BY <1>1, <1>3 DEF IInv, TypeOK
<1>6. SendOK'
  BY <1>1, <1>3, <1>4 DEF IInv, SendOK, Permitted
<1>7. OnceOK' /\ ToldOK'
  BY <1>1, <1>3 DEF IInv, OnceOK, ToldOK
<1>8. CountOK'
  <2>1. Sent' \ Open' \subseteq Sent \ Open /\ Unanswered' = Unanswered
    BY <1>1, <1>3 DEF Sent, Open, Unanswered
  <2>2. IsFiniteSet(Sent \ Open)
    BY SentCount, FS_Difference
  <2>3. Cardinality(Sent \ Open) <= metrics /\ metrics \in Nat
    BY Counters DEF IInv, CountOK
  <2>4. Cardinality(Sent' \ Open') <= metrics
    BY <2>1, <2>2, <2>3, FewerSent
  <2>5. QED
    BY <1>1, <2>1, <2>4 DEF IInv, CountOK
<1>9. RelayedAllowed'
  <2>1. Len(<<>>) = 0 /\ Range(<<>>) = {} /\ config.max_recipients \in Nat
    BY Counters DEF Range, IInv
  <2>2. QED
    BY <1>1, <1>3, <2>1 DEF IInv, RelayedAllowed
<1>10. OkRelayedToAll' /\ RefusedNotRelayed'
  BY <1>1, <1>3 DEF IInv, ToldOK, OkRelayedToAll, RefusedNotRelayed
<1>11. QED
  BY <1>5, <1>6, <1>7, <1>8, <1>9, <1>10 DEF IInv

-----------------------------------------------------------------------------
(* What follows for every behaviour. *)

\* A session starts with nothing sent.
LEMMA InitIInv == Init => IInv
<1> SUFFICES ASSUME Init PROVE IInv
  OBVIOUS
<1>1. TypeOK
  <2>1. config \in [max_recipients : Nat, allowed : SUBSET Domains,
                    max_sends : Nat, default_from : {"good", "bad"}]
    <3>1. {{}, {[name |-> "own", upper |-> TRUE]}} \subseteq SUBSET Domains
      BY DEF Domains
    <3>2. 0..MaxRecipients \subseteq Nat /\ 0..MaxSends \subseteq Nat
      BY Numbers
    <3>3. QED
      BY <3>1, <3>2 DEF Init
  <2>2. told \in [id : 0..MaxCalls, code : Codes \cup {"none"}, recipients : Nat]
    BY Numbers DEF Init
  <2>3. <<>> \in Seq(Addresses) /\ <<>> \in Seq(Seq(Addresses)) /\ Len(<<>>) <= 1
    OBVIOUS
  <2>4. /\ handed \in [Calls -> Seq(Addresses)]
        /\ relayed \in [Calls -> Seq(Seq(Addresses))]
        /\ \A c \in Calls : Len(relayed[c]) <= 1
    BY <2>3 DEF Init
  <2>5. metrics \in 0..calls /\ reported \in 0..metrics /\ calls \in 0..MaxCalls
    BY Numbers DEF Init
  <2>6. QED
    BY <2>1, <2>2, <2>4, <2>5 DEF Init, TypeOK
<1>2. SendOK /\ OnceOK /\ ToldOK
  BY DEF Init, SendOK, OnceOK, ToldOK
<1>3. CountOK
  <2>1. Sent \ Open = {} /\ Unanswered = 0 /\ metrics = 0 /\ calls = 0
    BY DEF Init, Sent, Unanswered
  <2>2. Cardinality(Sent \ Open) = 0
    BY <2>1, FS_EmptySet
  <2>3. config.max_sends \in Nat
    BY <1>1, Counters
  <2>4. QED
    BY <2>1, <2>2, <2>3 DEF CountOK
<1>4. RelayedAllowed
  <2>1. Len(<<>>) = 0 /\ Range(<<>>) = {} /\ config.max_recipients \in Nat
    BY <1>1, Counters DEF Range
  <2>2. QED
    BY <2>1 DEF Init, RelayedAllowed
<1>5. OkRelayedToAll /\ RefusedNotRelayed
  BY DEF Init, OkRelayedToAll, RefusedNotRelayed
<1>6. QED
  BY <1>1, <1>2, <1>3, <1>4, <1>5 DEF IInv

\* Every step of the daemon and of the relay keeps the invariant.
LEMMA NextIInv == IInv /\ [Next]_vars => IInv'
<1> SUFFICES ASSUME IInv, [Next]_vars PROVE IInv'
  OBVIOUS
<1>1. CASE Call
  BY <1>1, NoSendStep, StartSendStep DEF Call
<1>2. QED
  BY <1>1, QuietStep, DialogueStep, RcptAcceptedStep, DataAcceptedStep, ErrorStep,
     RelayAcceptsStep, RelayDropsStep DEF Next, RcptRefused, Waits

\* The inductive invariant holds in every reachable state.
THEOREM Invariance == Spec => []IInv
BY InitIInv, NextIInv, PTL DEF Spec

\* Every variable keeps its type, and no call is relayed or metered twice.
THEOREM TypeCorrect == Spec => []TypeOK
<1>1. IInv => TypeOK
  BY DEF IInv
<1>2. QED
  BY <1>1, Invariance, PTL

\* Mail goes to permitted recipients only, and to no more than the cap, whichever
\* list names them and however the transaction goes (do_send).
THEOREM RecipientsPermitted == Spec => []RelayedAllowed
<1>1. IInv => RelayedAllowed
  BY DEF IInv
<1>2. QED
  BY <1>1, Invariance, PTL

\* The cap on sends holds although a send that failed, and was counted, may still
\* be relayed after the next one has started (call, op_count).
THEOREM CapHolds == Spec => []SendsCapped
<1>1. ASSUME IInv PROVE SendsCapped
  <2>1. SUFFICES ASSUME config.max_sends # 0
                 PROVE  Cardinality(Sent) <= config.max_sends
    BY DEF SendsCapped, Sent
  <2>2. metrics \in Nat /\ config.max_sends \in Nat /\ Cardinality(Sent) \in Nat
    BY <1>1, Counters, SentCount DEF IInv
  <2>3. Cardinality(Sent \ Open) <= metrics /\ metrics + Unanswered <= config.max_sends
    BY <1>1, <2>1 DEF IInv, CountOK
  <2>4. CASE op = None
    BY <2>2, <2>3, <2>4 DEF Open, Unanswered
  <2>5. CASE op # None
    <3>1. Cardinality(Sent \ {op.id}) <= metrics /\ metrics + 1 <= config.max_sends
      BY <2>3, <2>5 DEF Open, Unanswered
    <3>2. Cardinality(Sent) <= metrics + 1
      BY <2>2, <3>1, OneMoreSent
    <3>3. QED
      BY <2>2, <3>1, <3>2
  <2>6. QED
    BY <2>4, <2>5
<1>2. QED
  BY <1>1, Invariance, PTL

\* Ok means relayed once and to every recipient (do_send).
THEOREM OkMeansAll == Spec => []OkRelayedToAll
<1>1. IInv => OkRelayedToAll
  BY DEF IInv
<1>2. QED
  BY <1>1, Invariance, PTL

\* What the relay or the cap refused is not relayed later, so that repeating it
\* sends no message twice (classify).
THEOREM RefusedIsFinal == Spec => []RefusedNotRelayed
<1>1. IInv => RefusedNotRelayed
  BY DEF IInv
<1>2. QED
  BY <1>1, Invariance, PTL
=============================================================================
