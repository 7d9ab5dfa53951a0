----------------------------- MODULE QueueProofs -----------------------------
(***************************************************************************)
(* Safety of the two backends whose promise is about what is queued on a   *)
(* connection, for any number of calls, replies and messages: redis        *)
(* (module Redis) and the amq producer (module Amq).  Each part has its    *)
(* inductive invariant (KvInv, MqInv) and its theorems, which are about    *)
(* the specification of one of the modules alone.                          *)
(***************************************************************************)
EXTENDS Redis, Amq, TLAPS

-----------------------------------------------------------------------------
(* Queues: facts about sequences that the proofs below share. *)

\* The elements of a queue.
LEMMA Elements ==
    ASSUME NEW S, NEW q \in Seq(S)
    PROVE  Len(q) \in Nat /\ DOMAIN q = 1..Len(q) /\ \A i \in DOMAIN q : q[i] \in S
  OBVIOUS

\* The head of a queue and what stays when it is taken.
LEMMA FirstAndRest ==
    ASSUME NEW S, NEW q \in Seq(S), q # <<>>
    PROVE  /\ Len(q) \in Nat /\ Len(q) > 0 /\ DOMAIN q = 1..Len(q)
           /\ Head(q) = q[1] /\ 1 \in DOMAIN q /\ q[1] \in S
           /\ Tail(q) \in Seq(S)
           /\ Len(Tail(q)) = Len(q) - 1
           /\ DOMAIN Tail(q) = 1..(Len(q) - 1)
           /\ \A i \in DOMAIN Tail(q) : i + 1 \in DOMAIN q /\ Tail(q)[i] = q[i + 1]
  OBVIOUS

\* A queue with one more element.
LEMMA OneMore ==
    ASSUME NEW S, NEW q \in Seq(S), NEW e \in S
    PROVE  /\ Len(q) \in Nat /\ DOMAIN q = 1..Len(q)
           /\ Append(q, e) \in Seq(S)
           /\ Len(Append(q, e)) = Len(q) + 1
           /\ DOMAIN Append(q, e) = 1..(Len(q) + 1)
           /\ Append(q, e)[Len(q) + 1] = e
           /\ \A i \in DOMAIN q : i # Len(q) + 1 /\ Append(q, e)[i] = q[i]
           /\ \A i \in DOMAIN Append(q, e) : i # Len(q) + 1 => i \in DOMAIN q
  OBVIOUS

\* Joining a queue of one is appending.
LEMMA JoinOne ==
    ASSUME NEW S, NEW q \in Seq(S), NEW e \in S
    PROVE  q \o <<e>> = Append(q, e)
  OBVIOUS

\* The first n elements of a queue.
LEMMA Prefix ==
    ASSUME NEW S, NEW q \in Seq(S), NEW n \in 0..Len(q)
    PROVE  /\ SubSeq(q, 1, n) \in Seq(S)
           /\ DOMAIN SubSeq(q, 1, n) = 1..n /\ 1..n \subseteq DOMAIN q
           /\ \A i \in 1..n : SubSeq(q, 1, n)[i] = q[i]
  OBVIOUS

\* A queue is empty or has a length.
LEMMA NonEmpty == ASSUME NEW S, NEW q \in Seq(S) PROVE Len(q) > 0 <=> q # <<>>
  OBVIOUS

-----------------------------------------------------------------------------
(* The redis backend. *)

\* A call waits only on a connection that was opened, and is not counted among
\* those whose reply is late.
KvLinkOK ==
    /\ link \in {"none", "connecting", "failed"} =>
          op = None /\ wire = <<>> /\ replies = <<>> /\ skip = 0
    /\ op # None => skip < calls

\* The commands under way are those of different calls, in the order of the
\* calls, and were not executed yet; replies are those of executed ones.  Only a
\* write that stopped half-way leaves one that is not whole.
KvWireOK ==
    /\ \A i \in DOMAIN wire : wire[i].id <= calls /\ ran[wire[i].id] = 0
    /\ \A i, j \in DOMAIN wire : i < j => wire[i].id < wire[j].id
    /\ \A i \in DOMAIN wire :
          wire[i].cmd = wire[i].asked.action /\ wire[i].ttl = wire[i].asked.ttl
    /\ \A i \in DOMAIN wire : wire[i].form # "whole" => torn
    /\ \A i \in DOMAIN replies : ran[replies[i].id] = 1
    /\ \A c \in Calls : c > calls => ran[c] = 0

\* How many replies are still to come, and that the one of the call that waits is
\* the last of them: the driver's count of late replies is exact, until a write
\* stops in the middle of a command.
KvSkipOK ==
    ~ torn =>
        /\ link = "up" /\ op = None => Len(replies) + Len(wire) = skip
        /\ link = "up" /\ op # None => Len(replies) + Len(wire) = skip + 1
        /\ link = "up" /\ op # None /\ wire # <<>> => wire[Len(wire)].id = op.id
        /\ op # None => Len(replies) <= skip + 1
        /\ op # None /\ Len(replies) = skip + 1 => replies[Len(replies)].id = op.id

\* The last answer is of a call.
KvToldOK == told.code = "OK" => told.id \in Calls

\* The invariant that is inductive: that a reply is of its call needs the count of
\* the replies to skip, and that the order of the wire is the order of the calls.
KvInv ==
    /\ TypeOK
    /\ KvLinkOK
    /\ KvWireOK
    /\ KvSkipOK
    /\ KvToldOK
    /\ RepliesMatched
    /\ TtlNeverLost

\* The numbers of the model.
LEMMA KvNumbers ==
    ASSUME TypeOK
    PROVE  /\ MaxCalls \in Nat /\ MaxInt \in Nat /\ MaxInt > 0
           /\ calls \in Nat /\ calls <= MaxCalls
           /\ skip \in Nat /\ skip <= calls
           /\ Len(wire) \in Nat /\ Len(replies) \in Nat
           /\ DOMAIN wire = 1..Len(wire) /\ DOMAIN replies = 1..Len(replies)
           /\ \A i \in DOMAIN wire : wire[i] \in Requests /\ wire[i].id \in Calls
                                     /\ wire[i].id \in Nat
           /\ \A i \in DOMAIN replies : replies[i].id \in Calls
           /\ \A c \in Calls : c \in Nat
  <1>1. /\ wire \in Seq(Requests) /\ replies \in Seq([id : Calls, ok : BOOLEAN])
        /\ MaxCalls \in Nat
    BY RedisAssumption DEF TypeOK
  <1>2. /\ Len(wire) \in Nat /\ Len(replies) \in Nat
        /\ DOMAIN wire = 1..Len(wire) /\ DOMAIN replies = 1..Len(replies)
        /\ \A i \in DOMAIN wire : wire[i] \in Requests
        /\ \A i \in DOMAIN replies : replies[i] \in [id : Calls, ok : BOOLEAN]
    BY <1>1, Elements
  <1>3. \A c \in Calls : c \in Nat
    BY <1>1 DEF Calls
  <1>4. \A i \in DOMAIN wire : wire[i].id \in Calls
    BY <1>2 DEF Requests
  <1>5. \A i \in DOMAIN replies : replies[i].id \in Calls
    BY <1>2
  <1>6. /\ MaxInt \in Nat /\ MaxInt > 0 /\ calls \in Nat /\ calls <= MaxCalls
        /\ skip \in Nat /\ skip <= calls
    BY RedisAssumption DEF TypeOK
  <1> QED BY <1>1, <1>2, <1>3, <1>4, <1>5, <1>6

\* No connection, no call, and no promise of a lifetime.
LEMMA KvInit == ASSUME Init PROVE KvInv
  <1>n. MaxCalls \in Nat /\ MaxInt \in Nat /\ MaxInt > 0
    BY RedisAssumption
  <1>1. key \in Keys
    <2>1. NoKey \in Keys
      BY DEF NoKey, Keys
    <2>2. MaxInt - 1 \in 0..MaxInt
      BY <1>n
    <2>3. [kind |-> "int", n |-> MaxInt - 1, ttl |-> FALSE] \in Keys
      BY <2>2 DEF Keys
    <2> QED BY <2>1, <2>3 DEF Init
  <1>2. wire = <<>> /\ replies = <<>> /\ skip = 0 /\ calls = 0 /\ op = None
    BY DEF Init
  <1>3. TypeOK
    <2>1. wire \in Seq(Requests) /\ replies \in Seq([id : Calls, ok : BOOLEAN])
      BY <1>2
    <2>2. 0 \in 0..MaxCalls /\ skip \in 0..calls
      BY <1>n, <1>2
    <2>3. told \in [id : 0..MaxCalls, code : Codes \cup {"none"}, from : 0..MaxCalls]
      BY <2>2 DEF Init
    <2> QED BY <1>1, <2>1, <2>2, <2>3 DEF Init, TypeOK
  <1>4. KvLinkOK /\ KvSkipOK /\ KvToldOK
    BY <1>2 DEF Init, KvLinkOK, KvSkipOK, KvToldOK
  <1>5. \A c \in Calls : ran[c] = 0
    BY DEF Init
  <1>6. KvWireOK
    BY <1>2, <1>5 DEF KvWireOK
  <1>7. RepliesMatched /\ TtlNeverLost
    BY <1>5 DEF Init, RepliesMatched, TtlNeverLost
  <1> QED BY <1>3, <1>4, <1>6, <1>7 DEF KvInv

\* The connection is made on first use, with nothing under way.
LEMMA KvConnects ==
    ASSUME KvInv, link \in {"none", "connecting"},
           link' \in {"connecting", "up", "failed"},
           UNCHANGED <<torn, op, skip, wire, replies, calls, told, key, ran, promise>>
    PROVE  KvInv'
  <1>1. op = None /\ wire = <<>> /\ replies = <<>> /\ skip = 0
    BY DEF KvInv, KvLinkOK
  <1>2. TypeOK'
    BY DEF KvInv, TypeOK
  <1>3. KvLinkOK' /\ KvSkipOK'
    BY <1>1 DEF KvLinkOK, KvSkipOK
  <1>4. KvWireOK'
    BY DEF KvInv, KvWireOK
  <1>5. KvToldOK' /\ RepliesMatched' /\ TtlNeverLost'
    BY DEF KvInv, KvToldOK, RepliesMatched, TtlNeverLost
  <1> QED BY <1>2, <1>3, <1>4, <1>5 DEF KvInv

\* An answer keeps what is known of answers.
LEMMA KvAnswer ==
    ASSUME KvInv, NEW c \in 0..MaxCalls, NEW code \in Codes, NEW from \in 0..MaxCalls,
           Answer(c, code, from), UNCHANGED ran,
           code = "OK" => c \in Calls,
           code = "OK" /\ ~ torn' => from = c /\ ran[c] = 1
    PROVE  /\ op' = None
           /\ told' \in [id : 0..MaxCalls, code : Codes \cup {"none"},
                         from : 0..MaxCalls]
           /\ KvToldOK' /\ RepliesMatched'
  <1>1. told' = [id |-> c, code |-> code, from |-> from] /\ op' = None
    BY DEF Answer
  <1>2. told'.id = c /\ told'.code = code /\ told'.from = from
    BY <1>1
  <1>3. KvToldOK' /\ RepliesMatched'
    BY <1>2 DEF KvInv, KvToldOK, RepliesMatched
  <1> QED BY <1>1, <1>3

\* A call that is refused, or that finds the connection closed, sends nothing.
LEMMA KvRefused ==
    ASSUME KvInv, NewCall,
           NEW code \in Codes \ {"OK"}, Answer(calls + 1, code, 0),
           UNCHANGED <<link, torn, skip, wire, replies, key, ran, promise>>
    PROVE  KvInv'
  <1>n. calls \in Nat /\ calls' = calls + 1 /\ calls + 1 <= MaxCalls /\ MaxCalls \in Nat
        /\ skip \in Nat /\ skip <= calls
    BY KvNumbers DEF KvInv, NewCall
  <1>0. calls + 1 \in 0..MaxCalls /\ 0 \in 0..MaxCalls /\ skip \in 0..(calls + 1)
    BY <1>n
  <1>1. /\ op' = None
        /\ told' \in [id : 0..MaxCalls, code : Codes \cup {"none"}, from : 0..MaxCalls]
        /\ KvToldOK' /\ RepliesMatched'
    BY <1>0, KvAnswer
  <1>2. TypeOK'
    BY <1>0, <1>1, <1>n DEF KvInv, TypeOK
  <1>3. KvLinkOK' /\ KvSkipOK'
    BY <1>1 DEF KvInv, KvLinkOK, KvSkipOK, NewCall
  <1>4. KvWireOK'
    <2>1. \A i \in DOMAIN wire : wire[i].id <= calls'
      BY <1>n, KvNumbers DEF KvInv, KvWireOK
    <2>2. \A c \in Calls : c > calls' => ran[c] = 0
      BY <1>n, KvNumbers DEF KvInv, KvWireOK
    <2> QED BY <2>1, <2>2 DEF KvInv, KvWireOK
  <1>5. TtlNeverLost'
    BY DEF KvInv, TtlNeverLost
  <1> QED BY <1>1, <1>2, <1>3, <1>4, <1>5 DEF KvInv

\* A new call's command joins the wire: it is the last one under way, and none of
\* its call was.
LEMMA KvJoins ==
    ASSUME KvInv, NewCall, NEW r \in Requests, r.id = calls + 1,
           r.cmd = r.asked.action, r.ttl = r.asked.ttl, r.form # "whole" => torn',
           torn => torn', wire' = Append(wire, r), UNCHANGED <<replies, ran>>
    PROVE  /\ wire' \in Seq(Requests) /\ Len(wire') = Len(wire) + 1
           /\ Len(wire) \in Nat /\ wire'[Len(wire')] = r
           /\ KvWireOK'
  <1>n. calls \in Nat /\ calls' = calls + 1 /\ calls + 1 <= MaxCalls /\ MaxCalls \in Nat
    BY KvNumbers DEF KvInv, NewCall
  <1>0. calls + 1 \in Calls
    BY <1>n DEF Calls
  <1>w. wire \in Seq(Requests)
    BY DEF KvInv, TypeOK
  <1>5. /\ wire' \in Seq(Requests) /\ Len(wire') = Len(wire) + 1
        /\ DOMAIN wire' = 1..(Len(wire) + 1) /\ wire'[Len(wire) + 1] = r
        /\ \A i \in DOMAIN wire : wire'[i] = wire[i]
        /\ \A i \in DOMAIN wire' : i # Len(wire) + 1 => i \in DOMAIN wire
        /\ Len(wire) \in Nat /\ DOMAIN wire = 1..Len(wire)
    BY <1>w, OneMore
  <1>8. KvWireOK'
    <2>1. ASSUME NEW i \in DOMAIN wire'
          PROVE  /\ wire'[i].id <= calls' /\ ran[wire'[i].id] = 0
                 /\ wire'[i].cmd = wire'[i].asked.action
                 /\ wire'[i].ttl = wire'[i].asked.ttl
                 /\ wire'[i].form # "whole" => torn'
      <3>1. CASE i = Len(wire) + 1
        <4>1. wire'[i] = r
          BY <1>5, <3>1
        <4>2. ran[calls + 1] = 0
          BY <1>0, <1>n DEF KvInv, KvWireOK
        <4> QED BY <1>n, <4>1, <4>2
      <3>2. CASE i # Len(wire) + 1
        <4>1. i \in DOMAIN wire /\ wire'[i] = wire[i]
          BY <1>5, <3>2
        <4>2. wire[i].id \in Nat /\ wire[i].id <= calls
          BY <4>1, KvNumbers DEF KvInv, KvWireOK
        <4>3. wire[i].id <= calls'
          BY <1>n, <4>2
        <4> QED BY <4>1, <4>3 DEF KvInv, KvWireOK
      <3> QED BY <3>1, <3>2
    <2>2. ASSUME NEW i \in DOMAIN wire', NEW j \in DOMAIN wire', i < j
          PROVE  wire'[i].id < wire'[j].id
      <3>1. i # Len(wire) + 1
        BY <1>5, <2>2
      <3>2. i \in DOMAIN wire /\ wire'[i] = wire[i]
        BY <1>5, <3>1
      <3>3. wire[i].id \in Nat /\ wire[i].id <= calls
        BY <3>2, KvNumbers DEF KvInv, KvWireOK
      <3>4. CASE j = Len(wire) + 1
        <4>1. wire'[j].id = calls + 1
          BY <1>5, <3>4
        <4> QED BY <1>n, <3>2, <3>3, <4>1
      <3>5. CASE j # Len(wire) + 1
        BY <1>5, <2>2, <3>2, <3>5 DEF KvInv, KvWireOK
      <3> QED BY <3>4, <3>5
    <2>3. \A i \in DOMAIN replies : ran[replies[i].id] = 1
      BY DEF KvInv, KvWireOK
    <2>4. ASSUME NEW c \in Calls, c > calls' PROVE ran[c] = 0
      <3>1. c \in Nat /\ c > calls
        BY <1>n, <2>4, KvNumbers DEF KvInv
      <3> QED BY <3>1 DEF KvInv, KvWireOK
    <2> QED BY <2>1, <2>2, <2>3, <2>4 DEF KvWireOK
  <1> QED BY <1>5, <1>8

\* A command is sent.
LEMMA KvSend ==
    ASSUME KvInv, NEW what \in Asked, Send(what)
    PROVE  KvInv'
  <1> DEFINE r == [id |-> calls + 1, cmd |-> what.action, ttl |-> what.ttl,
                   asked |-> what, form |-> "whole"]
             o == [id |-> calls + 1, asked |-> what]
  <1>n. /\ calls \in Nat /\ calls' = calls + 1 /\ calls + 1 <= MaxCalls /\ MaxCalls \in Nat
        /\ skip \in Nat /\ skip <= calls
    BY KvNumbers DEF KvInv, Send, NewCall
  <1>0. calls + 1 \in Calls /\ calls + 1 \in 0..MaxCalls /\ skip \in 0..(calls + 1)
    BY <1>n DEF Calls
  <1>1. r \in Requests /\ o \in Waiting
    BY <1>0 DEF Requests, Waiting, Asked
  <1>2. /\ link = "up" /\ op = None /\ op' = o /\ NewCall
        /\ wire' = wire \o <<r>>
        /\ UNCHANGED <<link, torn, skip, replies, told, key, ran, promise>>
    BY DEF Send, NewCall, Commands, server
  <1>3. /\ r.id = calls + 1 /\ r.cmd = r.asked.action /\ r.ttl = r.asked.ttl
        /\ r.form = "whole" /\ o.id = calls + 1 /\ o # None
    BY <1>1, RedisAssumption
  <1> HIDE DEF r, o
  <1>w. wire \in Seq(Requests)
    BY DEF KvInv, TypeOK
  <1>4. wire' = Append(wire, r)
    BY <1>1, <1>2, <1>w, JoinOne
  <1>5. /\ wire' \in Seq(Requests) /\ Len(wire') = Len(wire) + 1
        /\ Len(wire) \in Nat /\ wire'[Len(wire')] = r
        /\ KvWireOK'
    BY <1>1, <1>2, <1>3, <1>4, KvJoins
  <1>6. TypeOK'
    <2>1. op' \in Waiting
      BY <1>1, <1>2
    <2>2. skip' \in 0..calls' /\ calls' \in 0..MaxCalls
      BY <1>n, <1>0, <1>2
    <2> QED BY <1>2, <1>5, <2>1, <2>2 DEF KvInv, TypeOK
  <1>7. KvLinkOK'
    <2>1. skip < calls + 1
      BY <1>n
    <2> QED BY <1>2, <1>n, <2>1 DEF KvLinkOK
  <1>9. KvSkipOK'
    <2> SUFFICES ASSUME ~ torn PROVE KvSkipOK'
      BY <1>2 DEF KvSkipOK
    <2>1. Len(replies) + Len(wire) = skip /\ Len(replies) \in Nat
      BY <1>2, KvNumbers DEF KvInv, KvSkipOK
    <2>2. /\ Len(replies) + Len(wire') = skip + 1 /\ Len(replies) <= skip + 1
          /\ Len(replies) # skip + 1
      BY <1>5, <1>n, <2>1
    <2>3. wire'[Len(wire')].id = op'.id
      BY <1>2, <1>3, <1>5
    <2> QED BY <1>2, <1>3, <2>2, <2>3 DEF KvSkipOK
  <1>10. KvToldOK' /\ RepliesMatched' /\ TtlNeverLost'
    BY <1>2 DEF KvInv, KvToldOK, RepliesMatched, TtlNeverLost
  <1> QED BY <1>5, <1>6, <1>7, <1>9, <1>10 DEF KvInv

\* A write times out: the part that was written, if any, joins the wire, and from
\* then on nothing is claimed of replies.
LEMMA KvWriteTimesOut ==
    ASSUME KvInv, NEW what \in Asked, NEW part \in BOOLEAN, WriteTimesOut(what, part)
    PROVE  KvInv'
  <1>1. /\ NewCall /\ link = "up" /\ op = None /\ Answer(calls + 1, "REDIS_TIMEOUT", 0)
        /\ torn' = (torn \/ part)
        /\ UNCHANGED <<link, skip, replies, key, ran, promise>>
    BY DEF WriteTimesOut, NewCall, server
  <1>2. CASE ~ part
    <2>1. wire' = wire /\ torn' = torn
      BY <1>1, <1>2 DEF WriteTimesOut, KvInv, TypeOK
    <2> QED BY <1>1, <2>1, KvRefused DEF Codes
  <1>3. CASE part
    <2> DEFINE r == [id |-> calls + 1, cmd |-> what.action, ttl |-> what.ttl,
                     asked |-> what, form |-> "part"]
    <2>n. calls \in Nat /\ calls' = calls + 1 /\ calls + 1 <= MaxCalls
          /\ MaxCalls \in Nat /\ skip \in Nat /\ skip <= calls
      BY <1>1, KvNumbers DEF KvInv, NewCall
    <2>0. /\ calls + 1 \in Calls /\ calls + 1 \in 0..MaxCalls /\ 0 \in 0..MaxCalls
          /\ skip \in 0..(calls + 1)
      BY <2>n DEF Calls
    <2>1. r \in Requests
      BY <2>0 DEF Requests, Asked
    <2>2. [Commands(calls + 1, what)[1] EXCEPT !.form = "part"] = r
      BY DEF Commands
    <2>3. wire' = Append(wire, r) /\ torn'
      BY <1>1, <1>3, <2>2 DEF WriteTimesOut
    <2>4. /\ r.id = calls + 1 /\ r.cmd = r.asked.action /\ r.ttl = r.asked.ttl
      OBVIOUS
    <2> HIDE DEF r
    <2>5. wire' \in Seq(Requests) /\ KvWireOK'
      BY <1>1, <2>1, <2>3, <2>4, KvJoins
    <2>6. /\ op' = None
          /\ told' \in [id : 0..MaxCalls, code : Codes \cup {"none"}, from : 0..MaxCalls]
          /\ KvToldOK' /\ RepliesMatched'
      BY <1>1, <2>0, KvAnswer DEF Codes
    <2>7. TypeOK'
      <3>1. torn' \in BOOLEAN
        BY <1>1 DEF KvInv, TypeOK
      <3>2. skip' \in 0..calls' /\ calls' \in 0..MaxCalls
        BY <1>1, <2>n, <2>0
      <3> QED BY <1>1, <2>5, <2>6, <3>1, <3>2 DEF KvInv, TypeOK
    <2>8. KvLinkOK' /\ KvSkipOK' /\ TtlNeverLost'
      BY <1>1, <2>3, <2>6 DEF KvInv, KvLinkOK, KvSkipOK, TtlNeverLost
    <2> QED BY <2>5, <2>6, <2>7, <2>8 DEF KvInv
  <1> QED BY <1>2, <1>3

\* The driver drops the reply to a call that timed out.
LEMMA KvSkips == ASSUME KvInv, SkipLate PROVE KvInv'
  <1>1. /\ op # None /\ replies # <<>> /\ skip > 0
        /\ replies' = Tail(replies) /\ skip' = skip - 1
        /\ UNCHANGED <<link, torn, op, wire, calls, told, key, ran, promise>>
    BY DEF SkipLate, server
  <1>2. replies \in Seq([id : Calls, ok : BOOLEAN])
    BY DEF KvInv, TypeOK
  <1>3. /\ replies' \in Seq([id : Calls, ok : BOOLEAN])
        /\ Len(replies) \in Nat /\ Len(replies') = Len(replies) - 1
        /\ DOMAIN replies' = 1..(Len(replies) - 1)
        /\ \A i \in DOMAIN replies' :
              i + 1 \in DOMAIN replies /\ replies'[i] = replies[i + 1]
    BY <1>1, <1>2, FirstAndRest
  <1>n. skip \in Nat /\ skip <= calls /\ calls \in Nat /\ skip < calls /\ Len(wire) \in Nat
    BY <1>1, KvNumbers DEF KvInv, KvLinkOK
  <1>4. TypeOK'
    <2>1. skip' \in 0..calls'
      BY <1>1, <1>n
    <2> QED BY <1>1, <1>3, <2>1 DEF KvInv, TypeOK
  <1>5. KvLinkOK'
    <2>1. skip - 1 < calls
      BY <1>n
    <2> QED BY <1>1, <2>1 DEF KvInv, KvLinkOK
  <1>6. KvWireOK'
    <2>1. \A i \in DOMAIN replies' : ran[replies'[i].id] = 1
      BY <1>3 DEF KvInv, KvWireOK
    <2> QED BY <1>1, <2>1 DEF KvInv, KvWireOK
  <1>7. KvSkipOK'
    <2> SUFFICES ASSUME ~ torn PROVE KvSkipOK'
      BY <1>1 DEF KvSkipOK
    <2>1. Len(replies) <= skip + 1 /\ (link = "up" => Len(replies) + Len(wire) = skip + 1)
      BY <1>1 DEF KvInv, KvSkipOK
    <2>2. /\ Len(replies') <= skip' + 1
          /\ link = "up" => Len(replies') + Len(wire) = skip' + 1
      BY <1>1, <1>3, <1>n, <2>1
    <2>3. ASSUME Len(replies') = skip' + 1 PROVE replies'[Len(replies')].id = op.id
      <3>0. Len(replies) - 1 = (skip - 1) + 1
        <4>1. Len(replies') = Len(replies) - 1 /\ skip' = skip - 1
          BY <1>1, <1>3
        <4> QED BY <2>3, <4>1
      <3>n. Len(replies) \in Nat /\ skip \in Nat /\ skip > 0
        BY <1>1, <1>3, <1>n
      <3>1. Len(replies) = skip + 1 /\ Len(replies) - 1 \in 1..(Len(replies) - 1)
        BY <3>n, <3>0
      <3>2. replies'[Len(replies) - 1] = replies[(Len(replies) - 1) + 1]
        BY <1>3, <3>1
      <3>3. (Len(replies) - 1) + 1 = Len(replies)
        BY <1>3
      <3>4. replies[Len(replies)].id = op.id
        BY <1>1, <3>1 DEF KvInv, KvSkipOK
      <3> QED BY <1>3, <3>2, <3>3, <3>4
    <2> QED BY <1>1, <2>2, <2>3 DEF KvInv, KvSkipOK
  <1>8. KvToldOK' /\ RepliesMatched' /\ TtlNeverLost'
    BY <1>1 DEF KvInv, KvToldOK, RepliesMatched, TtlNeverLost
  <1> QED BY <1>4, <1>5, <1>6, <1>7, <1>8 DEF KvInv

\* With no late reply to come, the reply at hand is the only one and is that of
\* the call that waits.
LEMMA KvReads == ASSUME KvInv, ReadReply PROVE KvInv'
  <1> DEFINE code == IF Head(replies).ok THEN "OK" ELSE "REDIS_ERROR"
  <1>1. /\ op # None /\ replies # <<>> /\ skip = 0
        /\ replies' = Tail(replies)
        /\ Answer(op.id, code, Head(replies).id)
        /\ UNCHANGED <<link, torn, skip, wire, calls, key, ran, promise>>
    BY DEF ReadReply, server
  <1>c. code \in Codes
    BY DEF Codes
  <1> HIDE DEF code
  <1>2. replies \in Seq([id : Calls, ok : BOOLEAN])
    BY DEF KvInv, TypeOK
  <1>3. /\ replies' \in Seq([id : Calls, ok : BOOLEAN])
        /\ Len(replies) \in Nat /\ Len(replies') = Len(replies) - 1 /\ Len(replies) > 0
        /\ DOMAIN replies' = 1..(Len(replies) - 1)
        /\ Head(replies) = replies[1] /\ 1 \in DOMAIN replies
        /\ \A i \in DOMAIN replies' :
              i + 1 \in DOMAIN replies /\ replies'[i] = replies[i + 1]
    BY <1>1, <1>2, FirstAndRest
  <1>4. ASSUME ~ torn PROVE Len(replies) = 1
    <2>1. Len(replies) <= 0 + 1
      BY <1>1, <1>4 DEF KvInv, KvSkipOK
    <2> QED BY <1>3, <2>1
  <1>5. ASSUME ~ torn PROVE Head(replies).id = op.id /\ ran[op.id] = 1
    <2>0. Len(replies) = 1
      BY <1>4, <1>5
    <2>1. Len(replies) = skip + 1
      BY <1>1, <2>0
    <2>2. replies[1].id = op.id
      BY <1>1, <1>5, <2>0, <2>1 DEF KvInv, KvSkipOK
    <2>3. ran[replies[1].id] = 1
      BY <1>3 DEF KvInv, KvWireOK
    <2> QED BY <1>3, <2>2, <2>3
  <1>n. MaxCalls \in Nat /\ Len(wire) \in Nat
    BY KvNumbers DEF KvInv
  <1>6. op.id \in Calls /\ op.id \in 0..MaxCalls
    <2>1. op.id \in Calls
      BY <1>1 DEF KvInv, TypeOK, Waiting
    <2> QED BY <1>n, <2>1 DEF Calls
  <1>7. /\ op' = None
        /\ told' \in [id : 0..MaxCalls, code : Codes \cup {"none"}, from : 0..MaxCalls]
        /\ KvToldOK' /\ RepliesMatched'
    <2>1. Head(replies).id \in 0..MaxCalls
      <3>1. Head(replies).id \in Calls
        BY <1>3, KvNumbers DEF KvInv
      <3> QED BY <1>n, <3>1 DEF Calls
    <2>2. ~ torn' => Head(replies).id = op.id /\ ran[op.id] = 1
      BY <1>1, <1>5
    <2> QED BY <1>1, <1>c, <1>6, <2>1, <2>2, KvAnswer
  <1>8. TypeOK'
    BY <1>1, <1>3, <1>7 DEF KvInv, TypeOK
  <1>9. KvLinkOK'
    BY <1>1, <1>7 DEF KvInv, KvLinkOK
  <1>10. KvWireOK'
    <2>1. \A i \in DOMAIN replies' : ran[replies'[i].id] = 1
      BY <1>3 DEF KvInv, KvWireOK
    <2> QED BY <1>1, <2>1 DEF KvInv, KvWireOK
  <1>11. KvSkipOK'
    <2> SUFFICES ASSUME ~ torn PROVE KvSkipOK'
      BY <1>1 DEF KvSkipOK
    <2>1. link = "up" => Len(replies) + Len(wire) = skip + 1
      BY <1>1 DEF KvInv, KvSkipOK
    <2>2. link = "up" => Len(replies') + Len(wire) = skip
      BY <1>1, <1>3, <1>4, <1>n, <2>1
    <2> QED BY <1>1, <1>7, <2>2 DEF KvSkipOK
  <1>12. TtlNeverLost'
    BY <1>1 DEF KvInv, TtlNeverLost
  <1> QED BY <1>7, <1>8, <1>9, <1>10, <1>11, <1>12 DEF KvInv

\* The call gives up: its reply is counted as one to drop (the timeout), or the
\* stream has ended.
LEMMA KvGivesUp ==
    ASSUME KvInv, op # None,
           NEW code \in Codes \ {"OK"}, Answer(op.id, code, 0),
           UNCHANGED <<link, torn, wire, replies, calls, key, ran, promise>>,
           skip' \in {skip, skip + 1}, link = "up" => skip' = skip + 1
    PROVE  KvInv'
  <1>n. /\ MaxCalls \in Nat /\ skip \in Nat /\ skip < calls /\ calls \in Nat
        /\ Len(wire) \in Nat /\ Len(replies) \in Nat
    BY KvNumbers DEF KvInv, KvLinkOK
  <1>1. op.id \in 0..MaxCalls /\ 0 \in 0..MaxCalls
    <2>1. op.id \in Calls
      BY DEF KvInv, TypeOK, Waiting
    <2> QED BY <1>n, <2>1 DEF Calls
  <1>2. /\ op' = None
        /\ told' \in [id : 0..MaxCalls, code : Codes \cup {"none"}, from : 0..MaxCalls]
        /\ KvToldOK' /\ RepliesMatched'
    BY <1>1, KvAnswer
  <1>3. TypeOK'
    <2>1. skip' \in 0..calls
      BY <1>n
    <2> QED BY <1>2, <2>1 DEF KvInv, TypeOK
  <1>4. KvLinkOK'
    BY <1>2 DEF KvInv, KvLinkOK
  <1>5. KvWireOK'
    BY DEF KvInv, KvWireOK
  <1>6. KvSkipOK'
    <2> SUFFICES ASSUME ~ torn PROVE KvSkipOK'
      BY DEF KvSkipOK
    <2>1. link = "up" => Len(replies) + Len(wire) = skip + 1
      BY DEF KvInv, KvSkipOK
    <2> QED BY <1>2, <2>1 DEF KvSkipOK
  <1>7. TtlNeverLost'
    BY DEF KvInv, TtlNeverLost
  <1> QED BY <1>2, <1>3, <1>4, <1>5, <1>6, <1>7 DEF KvInv

\* What an effect is: the key of it keeps the promise of it.
KvEffectOK(e) ==
    /\ e.key \in Keys /\ e.ok \in BOOLEAN /\ e.promise \in BOOLEAN
    /\ e.promise => e.key.ttl

\* A command that writes no new value leaves the key with its time to live, or
\* leaves no key.
LEMMA KvDone ==
    ASSUME promise \in BOOLEAN, NEW k \in Keys, promise /\ k.kind # "absent" => k.ttl
    PROVE  KvEffectOK(Done(k))
  <1> DEFINE e == Done(k)
  <1>1. e.key = k /\ e.ok = TRUE /\ e.promise = (promise /\ k.kind # "absent")
    BY DEF Done
  <1>2. e.ok \in BOOLEAN /\ e.promise \in BOOLEAN
    BY <1>1, Zenon
  <1> QED BY <1>1, <1>2 DEF KvEffectOK

\* What a command does to the key, whole or mixed with others: a key that is there
\* after a set keeps the time to live it was given, until it is deleted, expires
\* or is set again.
LEMMA KvEffect ==
    ASSUME key \in Keys, NEW r \in Requests,
           r.cmd = r.asked.action, r.ttl = r.asked.ttl, promise \in BOOLEAN,
           TtlNeverLost
    PROVE  \A e \in Effects(r) : KvEffectOK(e)
  <1>1. r.asked \in Asked
    BY DEF Requests
  <1>k. /\ key.kind \in {"absent", "text", "int"} /\ key.ttl \in BOOLEAN
        /\ key = [kind |-> key.kind, n |-> key.n, ttl |-> key.ttl]
    BY DEF Keys
  <1>d. KvEffectOK(Done(key))
    BY KvDone DEF TtlNeverLost
  <1>f. KvEffectOK(Failed)
    <2>1. Failed.key = key /\ Failed.ok = FALSE /\ Failed.promise = promise
      BY DEF Failed
    <2> QED BY <2>1 DEF KvEffectOK, TtlNeverLost
  <1>n. KvEffectOK(Done(NoKey))
    <2>1. NoKey \in Keys /\ NoKey.kind = "absent"
      BY DEF NoKey, Keys
    <2> QED BY <2>1, KvDone
  <1>2. KvEffectOK(Effect(r))
    <2>1. CASE r.cmd = "get"
      BY <1>d, <2>1 DEF Effect
    <2>2. CASE r.cmd = "set" /\ r.ttl = "zero"
      BY <1>f, <2>2 DEF Effect
    <2>3. CASE r.cmd = "set" /\ r.ttl # "zero"
      <3> DEFINE k == [kind |-> "text", n |-> 0, ttl |-> r.ttl = "some"]
                 e == [key |-> k, ok |-> TRUE, promise |-> r.asked.ttl = "some"]
      <3>1. Effect(r) = e
        BY <2>3 DEF Effect
      <3>2. k \in Keys /\ k.ttl = (r.ttl = "some")
        BY DEF Keys
      <3>3. e.key = k /\ e.ok = TRUE /\ e.promise = (r.asked.ttl = "some")
        OBVIOUS
      <3> HIDE DEF k
      <3>4. e.ok \in BOOLEAN /\ e.promise \in BOOLEAN
        BY <3>3, Zenon
      <3>5. KvEffectOK(e)
        BY <3>2, <3>3, <3>4 DEF KvEffectOK
      <3> QED BY <3>1, <3>5
    <2>4. CASE r.cmd = "delete"
      BY <1>n, <2>4 DEF Effect
    <2>5. CASE r.cmd = "increment"
      <3>1. CASE key.kind = "text" \/ key.n = MaxInt
        BY <1>f, <2>5, <3>1 DEF Effect
      <3>2. CASE ~ (key.kind = "text" \/ key.n = MaxInt)
        <4> DEFINE k == [key EXCEPT !.kind = "int", !.n = @ + 1]
        <4>1. key.n \in 0..MaxInt /\ key.n # MaxInt /\ MaxInt \in Nat
          BY <3>2, RedisAssumption DEF Keys
        <4>2. key.n + 1 \in 0..MaxInt
          BY <4>1
        <4>3. k = [kind |-> "int", n |-> key.n + 1, ttl |-> key.ttl]
          <5>1. k = [key EXCEPT !.kind = "int", !.n = @ + 1]
            OBVIOUS
          <5> HIDE DEF k
          <5> QED BY <1>k, <5>1
        <4>4. k \in Keys
          BY <1>k, <4>2, <4>3 DEF Keys
        <4>5. k.ttl = key.ttl
          BY <4>3
        <4>6. Effect(r) = Done(k)
          BY <2>5, <3>2 DEF Effect
        <4> HIDE DEF k
        <4>7. KvEffectOK(Done(k))
          BY <4>4, <4>5, KvDone DEF TtlNeverLost
        <4> QED BY <4>6, <4>7
      <3> QED BY <3>1, <3>2
    <2>6. CASE r.cmd = "expire"
      <3>0. r.ttl \in {"zero", "some"}
        BY <1>1, <2>6 DEF Asked
      <3>1. CASE key.kind = "absent"
        BY <1>d, <2>6, <3>1 DEF Effect
      <3>2. CASE key.kind # "absent" /\ r.ttl = "zero"
        BY <1>n, <2>6, <3>2 DEF Effect
      <3>3. CASE key.kind # "absent" /\ r.ttl = "some"
        <4> DEFINE k == [key EXCEPT !.ttl = TRUE]
        <4>1. k = [kind |-> key.kind, n |-> key.n, ttl |-> TRUE]
          <5>1. k = [key EXCEPT !.ttl = TRUE]
            OBVIOUS
          <5> HIDE DEF k
          <5> QED BY <1>k, <5>1
        <4>2. k \in Keys
          BY <4>1 DEF Keys
        <4>3. k.ttl
          BY <4>1
        <4>4. Effect(r) = Done(k)
          BY <2>6, <3>3 DEF Effect
        <4> HIDE DEF k
        <4>5. KvEffectOK(Done(k))
          BY <4>2, <4>3, KvDone
        <4> QED BY <4>4, <4>5
      <3> QED BY <3>0, <3>1, <3>2, <3>3
    <2>7. r.cmd \in {"get", "set", "delete", "increment", "expire"}
      BY DEF Requests
    <2> QED BY <2>1, <2>2, <2>3, <2>4, <2>5, <2>6, <2>7
  <1>3. Effects(r) \subseteq {Effect(r), Done(key), Failed}
    <2>1. r.form \in {"whole", "part", "mixed", "rest"}
      BY DEF Requests
    <2> QED BY <2>1 DEF Effects
  <1> QED BY <1>d, <1>f, <1>2, <1>3

\* The server executes the first command under way: for the first time, and its
\* reply joins the replies as long as the connection is up.
LEMMA KvServes == ASSUME KvInv, ServerStep PROVE KvInv'
  <1> DEFINE r == Head(wire)
  <1>0. PICK e \in Effects(r) :
            /\ key' = e.key /\ promise' = e.promise
            /\ replies' = IF link = "up" THEN Append(replies, [id |-> r.id, ok |-> e.ok])
                          ELSE replies
    BY DEF ServerStep
  <1> DEFINE a == [id |-> r.id, ok |-> e.ok]
  <1>w. wire \in Seq(Requests) /\ wire # <<>>
    BY DEF KvInv, TypeOK, ServerStep
  <1>1. /\ Len(wire) \in Nat /\ Len(wire) > 0 /\ DOMAIN wire = 1..Len(wire)
        /\ r = wire[1] /\ 1 \in DOMAIN wire /\ r \in Requests
        /\ Tail(wire) \in Seq(Requests)
        /\ Len(Tail(wire)) = Len(wire) - 1
        /\ DOMAIN Tail(wire) = 1..(Len(wire) - 1)
        /\ \A i \in DOMAIN Tail(wire) : i + 1 \in DOMAIN wire /\ Tail(wire)[i] = wire[i + 1]
    BY <1>w, FirstAndRest
  <1>2. /\ r.id \in Calls /\ r.id \in Nat /\ r.id <= calls /\ ran[r.id] = 0
        /\ r.cmd = r.asked.action /\ r.ttl = r.asked.ttl
    BY <1>1, KvNumbers DEF KvInv, KvWireOK
  <1>3. /\ e.key \in Keys /\ e.ok \in BOOLEAN /\ e.promise \in BOOLEAN
        /\ e.promise => e.key.ttl
    <2>1. KvEffectOK(e)
      BY <1>1, <1>2, KvEffect DEF KvInv, TypeOK
    <2> QED BY <2>1 DEF KvEffectOK
  <1>4. /\ wire' = Tail(wire) /\ key' = e.key
        /\ link = "up" => replies' = Append(replies, a)
        /\ link # "up" => replies' = replies
        /\ ran' = [ran EXCEPT ![r.id] = @ + 1]
        /\ promise' = e.promise
        /\ UNCHANGED <<link, torn, op, skip, calls, told>>
    BY <1>0 DEF ServerStep
  <1>5. /\ a \in [id : Calls, ok : BOOLEAN] /\ a.id = r.id
    BY <1>2, <1>3
  <1> HIDE DEF r, a
  <1>6. /\ ran \in [Calls -> Nat]
        /\ ran' \in [Calls -> Nat] /\ ran'[r.id] = 1
        /\ \A c \in Calls : c # r.id => ran'[c] = ran[c]
    BY <1>2, <1>4 DEF KvInv, TypeOK
  <1>n. /\ calls \in Nat /\ skip \in Nat /\ Len(replies) \in Nat
        /\ DOMAIN replies = 1..Len(replies)
        /\ replies \in Seq([id : Calls, ok : BOOLEAN])
    BY KvNumbers DEF KvInv, TypeOK
  <1>7. ASSUME link = "up"
        PROVE  /\ replies' \in Seq([id : Calls, ok : BOOLEAN])
               /\ Len(replies') = Len(replies) + 1
               /\ DOMAIN replies' = 1..(Len(replies) + 1)
               /\ replies'[Len(replies) + 1] = a
               /\ \A i \in DOMAIN replies : replies'[i] = replies[i]
               /\ \A i \in DOMAIN replies' : i # Len(replies) + 1 => i \in DOMAIN replies
    <2> DEFINE T == [id : Calls, ok : BOOLEAN]
    <2>1. replies \in Seq(T) /\ a \in T /\ replies' = Append(replies, a)
      BY <1>4, <1>5, <1>7, <1>n
    <2> HIDE DEF T
    <2>2. /\ replies' \in Seq(T)
          /\ Len(replies') = Len(replies) + 1
          /\ DOMAIN replies' = 1..(Len(replies) + 1)
          /\ replies'[Len(replies) + 1] = a
          /\ \A i \in DOMAIN replies : replies'[i] = replies[i]
          /\ \A i \in DOMAIN replies' : i # Len(replies) + 1 => i \in DOMAIN replies
      BY <2>1, OneMore
    <2> QED BY <2>2 DEF T
  <1>8. TypeOK'
    <2>1. replies' \in Seq([id : Calls, ok : BOOLEAN])
      BY <1>4, <1>7, <1>n
    <2> QED BY <1>1, <1>3, <1>4, <1>6, <2>1 DEF KvInv, TypeOK
  <1>9. KvLinkOK'
    <2>1. link \notin {"none", "connecting", "failed"}
      BY <1>w DEF KvInv, KvLinkOK
    <2> QED BY <1>4, <2>1 DEF KvInv, KvLinkOK
  <1>10. KvWireOK'
    <2>1. ASSUME NEW i \in DOMAIN wire'
          PROVE  /\ i \in Nat /\ i + 1 \in DOMAIN wire /\ wire'[i] = wire[i + 1]
                 /\ wire'[i].id <= calls /\ ran'[wire'[i].id] = 0
                 /\ wire'[i].cmd = wire'[i].asked.action
                 /\ wire'[i].ttl = wire'[i].asked.ttl
                 /\ wire'[i].form # "whole" => torn
      <3>1. i \in Nat /\ i + 1 \in DOMAIN wire /\ wire'[i] = wire[i + 1] /\ 1 < i + 1
        BY <1>1, <1>4
      <3>2. r.id < wire[i + 1].id /\ wire[i + 1].id \in Calls
        BY <1>1, <3>1, KvNumbers DEF KvInv, KvWireOK
      <3>3. wire[i + 1].id # r.id
        BY <1>2, <3>1, <3>2, KvNumbers DEF KvInv
      <3>4. ran'[wire[i + 1].id] = ran[wire[i + 1].id]
        BY <1>6, <3>2, <3>3
      <3> QED BY <3>1, <3>4 DEF KvInv, KvWireOK
    <2>2. ASSUME NEW i \in DOMAIN wire', NEW j \in DOMAIN wire', i < j
          PROVE  wire'[i].id < wire'[j].id
      <3>1. i + 1 < j + 1
        BY <2>1, <2>2
      <3> QED BY <2>1, <3>1 DEF KvInv, KvWireOK
    <2>3. ASSUME NEW c \in Calls, ran[c] = 1 PROVE ran'[c] = 1
      BY <1>2, <1>6, <2>3
    <2>4. ASSUME NEW i \in DOMAIN replies' PROVE ran'[replies'[i].id] = 1
      <3>1. \A k \in DOMAIN replies : ran'[replies[k].id] = 1
        BY <2>3, KvNumbers DEF KvInv, KvWireOK
      <3>2. CASE link # "up"
        BY <1>4, <3>1, <3>2
      <3>3. CASE link = "up" /\ i = Len(replies) + 1
        BY <1>5, <1>6, <1>7, <3>3
      <3>4. CASE link = "up" /\ i # Len(replies) + 1
        BY <1>7, <3>1, <3>4
      <3> QED BY <3>2, <3>3, <3>4
    <2>5. ASSUME NEW c \in Calls, c > calls PROVE ran'[c] = 0
      <3>1. c # r.id
        BY <1>2, <1>n, <2>5, KvNumbers DEF KvInv
      <3> QED BY <1>6, <2>5, <3>1 DEF KvInv, KvWireOK
    <2> QED BY <1>4, <2>1, <2>2, <2>4, <2>5 DEF KvWireOK
  <1>11. KvSkipOK'
    <2> SUFFICES ASSUME ~ torn PROVE KvSkipOK'
      BY <1>4 DEF KvSkipOK
    <2>1. CASE link # "up"
      BY <1>4, <2>1 DEF KvInv, KvSkipOK
    <2>2. CASE link = "up" /\ op = None
      <3>1. (Len(replies) + 1) + (Len(wire) - 1) = Len(replies) + Len(wire)
        BY <1>1, <1>n
      <3>2. Len(replies') + Len(wire') = Len(replies) + Len(wire)
        BY <1>1, <1>4, <1>7, <2>2, <3>1
      <3> QED BY <1>4, <2>2, <3>2 DEF KvInv, KvSkipOK
    <2>3. CASE link = "up" /\ op # None
      <3>1. Len(replies) + Len(wire) = skip + 1 /\ wire[Len(wire)].id = op.id
        BY <1>w, <2>3 DEF KvInv, KvSkipOK
      <3>2. Len(replies') + Len(wire') = skip + 1
        <4>1. (Len(replies) + 1) + (Len(wire) - 1) = Len(replies) + Len(wire)
          BY <1>1, <1>n
        <4> QED BY <1>1, <1>4, <1>7, <2>3, <3>1, <4>1
      <3>3. Len(replies) + 1 <= skip + 1
        BY <1>1, <1>n, <3>1
      <3>4. ASSUME wire' # <<>> PROVE wire'[Len(wire')].id = op.id
        <4>1. Len(wire') > 0 /\ Len(wire') = Len(wire) - 1
          BY <1>1, <1>4, <3>4, NonEmpty
        <4>2. Len(wire') \in DOMAIN wire'
          BY <1>1, <1>4, <4>1
        <4>3. wire'[Len(wire')] = wire[Len(wire') + 1]
          BY <1>1, <1>4, <4>2
        <4>4. Len(wire') + 1 = Len(wire)
          BY <1>1, <4>1
        <4> QED BY <3>1, <4>3, <4>4
      <3>5. ASSUME Len(replies) + 1 = skip + 1 PROVE replies'[Len(replies) + 1].id = op.id
        <4>1. Len(wire) = 1
          BY <1>1, <1>n, <3>1, <3>5
        <4>2. r.id = op.id
          BY <1>1, <3>1, <4>1
        <4> QED BY <1>5, <1>7, <2>3, <4>2
      <3>6. Len(replies') = Len(replies) + 1
        BY <1>7, <2>3
      <3> QED BY <1>4, <2>3, <3>2, <3>3, <3>4, <3>5, <3>6 DEF KvSkipOK
    <2> QED BY <2>1, <2>2, <2>3
  <1>12. KvToldOK' /\ RepliesMatched'
    <2>1. ASSUME NEW c \in Calls PROVE ran'[c] <= 1
      <3>1. CASE c = r.id
        BY <1>6, <3>1
      <3>2. CASE c # r.id
        BY <1>6, <3>2 DEF KvInv, RepliesMatched
      <3> QED BY <3>1, <3>2
    <2>2. ASSUME told.code = "OK", ~ torn
          PROVE  told.from = told.id /\ ran'[told.id] = 1
      BY <1>2, <1>6, <2>2 DEF KvInv, KvToldOK, RepliesMatched
    <2> QED BY <1>4, <2>1, <2>2 DEF KvInv, KvToldOK, RepliesMatched
  <1>13. TtlNeverLost'
    BY <1>3, <1>4 DEF TtlNeverLost
  <1> QED BY <1>8, <1>9, <1>10, <1>11, <1>12, <1>13 DEF KvInv

\* The commands under way change their form, or one of them is swallowed: those that
\* stay are the same commands in the same order.
LEMMA KvMixes ==
    ASSUME KvInv, wire # <<>>, Head(wire).form = "part", wire' \in Seq(Requests),
           NEW f \in [DOMAIN wire' -> DOMAIN wire],
           \A i, j \in DOMAIN wire' : i < j => f[i] < f[j],
           \A i \in DOMAIN wire' :
              /\ wire'[i].id = wire[f[i]].id /\ wire'[i].cmd = wire[f[i]].cmd
              /\ wire'[i].ttl = wire[f[i]].ttl /\ wire'[i].asked = wire[f[i]].asked,
           UNCHANGED <<link, torn, op, skip, replies, calls, told, key, ran, promise>>
    PROVE  KvInv'
  <1>1. torn
    <2>1. wire \in Seq(Requests)
      BY DEF KvInv, TypeOK
    <2>2. Head(wire) = wire[1] /\ 1 \in DOMAIN wire
      BY <2>1, FirstAndRest
    <2> QED BY <2>2 DEF KvInv, KvWireOK
  <1>2. TypeOK'
    BY DEF KvInv, TypeOK
  <1>3. KvLinkOK'
    <2>1. link \notin {"none", "connecting", "failed"}
      BY DEF KvInv, KvLinkOK
    <2> QED BY <2>1 DEF KvInv, KvLinkOK
  <1>4. KvWireOK'
    <2>1. \A i \in DOMAIN wire' : f[i] \in DOMAIN wire
      OBVIOUS
    <2>2. /\ \A i \in DOMAIN wire' : wire'[i].id <= calls /\ ran[wire'[i].id] = 0
          /\ \A i \in DOMAIN wire' : /\ wire'[i].cmd = wire'[i].asked.action
                                     /\ wire'[i].ttl = wire'[i].asked.ttl
      BY <2>1 DEF KvInv, KvWireOK
    <2>3. ASSUME NEW i \in DOMAIN wire', NEW j \in DOMAIN wire', i < j
          PROVE  wire'[i].id < wire'[j].id
      <3>1. f[i] < f[j] /\ f[i] \in DOMAIN wire /\ f[j] \in DOMAIN wire
        BY <2>1, <2>3
      <3>2. wire[f[i]].id < wire[f[j]].id
        BY <3>1 DEF KvInv, KvWireOK
      <3> QED BY <3>2
    <2>4. /\ \A i \in DOMAIN replies : ran[replies[i].id] = 1
          /\ \A c \in Calls : c > calls => ran[c] = 0
      BY DEF KvInv, KvWireOK
    <2> QED BY <1>1, <2>2, <2>3, <2>4 DEF KvWireOK
  <1>5. KvSkipOK' /\ KvToldOK' /\ RepliesMatched' /\ TtlNeverLost'
    BY <1>1 DEF KvInv, KvSkipOK, KvToldOK, RepliesMatched, TtlNeverLost
  <1> QED BY <1>2, <1>3, <1>4, <1>5 DEF KvInv

\* A part of a command takes the command behind it for its rest.
LEMMA KvSwallow ==
    ASSUME KvInv, NEW form \in {"part", "mixed"}, Swallow(form)
    PROVE  KvInv'
  <1> DEFINE h == [Head(wire) EXCEPT !.form = form]
             t == Tail(Tail(wire))
             f == [i \in DOMAIN wire' |-> IF i = 1 THEN 1 ELSE i + 1]
  <1>1. /\ Len(wire) > 1 /\ Head(wire).form = "part" /\ wire' = <<h>> \o t
        /\ UNCHANGED <<link, torn, op, skip, replies, calls, told, key, ran, promise>>
    BY DEF Swallow, server
  <1>2. wire \in Seq(Requests) /\ wire # <<>>
    BY <1>1 DEF KvInv, TypeOK
  <1>3. /\ Len(wire) \in Nat /\ DOMAIN wire = 1..Len(wire) /\ Head(wire) = wire[1]
        /\ Head(wire) \in Requests
        /\ Tail(wire) \in Seq(Requests) /\ Len(Tail(wire)) = Len(wire) - 1
        /\ DOMAIN Tail(wire) = 1..(Len(wire) - 1)
        /\ \A i \in DOMAIN Tail(wire) : Tail(wire)[i] = wire[i + 1]
    BY <1>2, FirstAndRest
  <1>4. Tail(wire) # <<>>
    <2>1. Len(Tail(wire)) > 0
      BY <1>1, <1>3
    <2> QED BY <1>3, <2>1, NonEmpty
  <1>5. /\ t \in Seq(Requests) /\ Len(t) = (Len(wire) - 1) - 1
        /\ DOMAIN t = 1..((Len(wire) - 1) - 1)
        /\ \A i \in DOMAIN t : i + 1 \in DOMAIN Tail(wire) /\ t[i] = Tail(wire)[i + 1]
    BY <1>3, <1>4, FirstAndRest
  <1>6. /\ h \in Requests /\ h.id = wire[1].id /\ h.cmd = wire[1].cmd
        /\ h.ttl = wire[1].ttl /\ h.asked = wire[1].asked
    BY <1>3 DEF Requests
  <1> HIDE DEF h, t
  <1>7. /\ wire' \in Seq(Requests) /\ DOMAIN wire' = 1..(1 + Len(t)) /\ wire'[1] = h
        /\ \A i \in DOMAIN wire' : i # 1 => i - 1 \in DOMAIN t /\ wire'[i] = t[i - 1]
    BY <1>1, <1>5, <1>6
  <1>8. ASSUME NEW i \in DOMAIN wire'
        PROVE  /\ f[i] \in DOMAIN wire
               /\ wire'[i].id = wire[f[i]].id /\ wire'[i].cmd = wire[f[i]].cmd
               /\ wire'[i].ttl = wire[f[i]].ttl /\ wire'[i].asked = wire[f[i]].asked
    <2>1. CASE i = 1
      <3>1. f[i] = 1
        BY <2>1
      <3> QED BY <1>1, <1>3, <1>6, <1>7, <2>1, <3>1
    <2>2. CASE i # 1
      <3>1. f[i] = i + 1
        BY <2>2
      <3>2. i - 1 \in DOMAIN t /\ wire'[i] = t[i - 1]
        BY <1>7, <2>2
      <3>3. i \in Nat /\ i >= 2 /\ i <= Len(wire) - 1 /\ (i - 1) + 1 = i
        BY <1>3, <1>5, <3>2
      <3>4. wire'[i] = Tail(wire)[i]
        BY <1>5, <3>2, <3>3
      <3>5. wire'[i] = wire[i + 1] /\ i + 1 \in DOMAIN wire
        BY <1>3, <3>3, <3>4
      <3> QED BY <3>1, <3>5
    <2> QED BY <2>1, <2>2
  <1>9. f \in [DOMAIN wire' -> DOMAIN wire]
    BY <1>8
  <1>10. \A i, j \in DOMAIN wire' : i < j => f[i] < f[j]
    BY <1>5, <1>7
  <1> HIDE DEF f
  <1> QED BY <1>1, <1>2, <1>7, <1>8, <1>9, <1>10, KvMixes

\* A part of a command takes the first bytes of the command behind it.
LEMMA KvSwallowSome ==
    ASSUME KvInv, SwallowSome
    PROVE  KvInv'
  <1> DEFINE f == [i \in DOMAIN wire' |-> i]
  <1>1. /\ Len(wire) > 1 /\ Head(wire).form = "part"
        /\ wire' = [wire EXCEPT ![1].form = "mixed", ![2].form = "rest"]
        /\ UNCHANGED <<link, torn, op, skip, replies, calls, told, key, ran, promise>>
    BY DEF SwallowSome, server
  <1>2. wire \in Seq(Requests) /\ wire # <<>>
    BY <1>1 DEF KvInv, TypeOK
  <1>3. /\ Len(wire) \in Nat /\ DOMAIN wire = 1..Len(wire)
        /\ \A i \in DOMAIN wire : wire[i] \in Requests
    BY <1>2, Elements
  <1>4. 1 \in DOMAIN wire /\ 2 \in DOMAIN wire
    BY <1>1, <1>3
  <1>5. /\ DOMAIN wire' = DOMAIN wire
        /\ wire'[1] = [wire[1] EXCEPT !.form = "mixed"]
        /\ wire'[2] = [wire[2] EXCEPT !.form = "rest"]
        /\ \A i \in DOMAIN wire : i # 1 /\ i # 2 => wire'[i] = wire[i]
    <2> DEFINE w == [wire EXCEPT ![1].form = "mixed"]
    <2>1. /\ DOMAIN w = DOMAIN wire /\ w[1] = [wire[1] EXCEPT !.form = "mixed"]
          /\ \A i \in DOMAIN wire : i # 1 => w[i] = wire[i]
      BY <1>4
    <2>2. wire' = [w EXCEPT ![2].form = "rest"]
      BY <1>1
    <2> HIDE DEF w
    <2>3. /\ DOMAIN wire' = DOMAIN w /\ wire'[2] = [w[2] EXCEPT !.form = "rest"]
          /\ \A i \in DOMAIN w : i # 2 => wire'[i] = w[i]
      BY <1>4, <2>1, <2>2
    <2>4. w[2] = wire[2]
      BY <1>4, <2>1
    <2> QED BY <1>4, <2>1, <2>3, <2>4
  <1>6. ASSUME NEW i \in DOMAIN wire'
        PROVE  /\ wire'[i] \in Requests
               /\ wire'[i].id = wire[i].id /\ wire'[i].cmd = wire[i].cmd
               /\ wire'[i].ttl = wire[i].ttl /\ wire'[i].asked = wire[i].asked
    <2>1. wire[i] \in Requests /\ i \in DOMAIN wire
      BY <1>3, <1>5
    <2>2. wire'[i] \in {wire[i], [wire[i] EXCEPT !.form = "mixed"],
                         [wire[i] EXCEPT !.form = "rest"]}
      BY <1>5, <2>1
    <2> QED BY <2>1, <2>2 DEF Requests
  <1>7. wire' \in Seq(Requests)
    <2>1. wire' \in [1..Len(wire) -> Requests]
      <3>1. wire' = [i \in 1..Len(wire) |-> wire'[i]]
        BY <1>1, <1>2, <1>3
      <3> QED BY <1>3, <1>5, <1>6, <3>1
    <2> QED BY <1>3, <2>1
  <1>8. f \in [DOMAIN wire' -> DOMAIN wire] /\ \A i \in DOMAIN wire' : f[i] = i
    BY <1>5
  <1> HIDE DEF f
  <1>9. \A i, j \in DOMAIN wire' : i < j => f[i] < f[j]
    BY <1>8
  <1>10. ASSUME NEW i \in DOMAIN wire'
         PROVE  /\ wire'[i].id = wire[f[i]].id /\ wire'[i].cmd = wire[f[i]].cmd
                /\ wire'[i].ttl = wire[f[i]].ttl /\ wire'[i].asked = wire[f[i]].asked
    BY <1>6, <1>8
  <1> QED BY <1>1, <1>2, <1>7, <1>8, <1>9, <1>10, KvMixes

\* KeyExpires: nothing is left to keep a promise about.
LEMMA KvExpires == ASSUME KvInv, KeyExpires PROVE KvInv'
  <1>1. /\ key' = NoKey /\ promise' = FALSE
        /\ UNCHANGED <<link, torn, op, skip, wire, replies, calls, told, ran>>
    BY DEF KeyExpires
  <1>2. key' \in Keys
    BY <1>1 DEF Keys, NoKey
  <1>3. TypeOK'
    BY <1>1, <1>2 DEF KvInv, TypeOK
  <1>4. KvLinkOK' /\ KvWireOK' /\ KvSkipOK' /\ KvToldOK'
    BY <1>1 DEF KvInv, KvLinkOK, KvWireOK, KvSkipOK, KvToldOK
  <1>5. RepliesMatched' /\ TtlNeverLost'
    BY <1>1 DEF KvInv, RepliesMatched, TtlNeverLost
  <1> QED BY <1>3, <1>4, <1>5 DEF KvInv

\* The connection breaks: some of the commands under way still reach the server,
\* their replies reach nobody.
LEMMA KvBreaks ==
    ASSUME KvInv, NEW n \in 0..Len(wire), ConnectionLost(n)
    PROVE  KvInv'
  <1>1. /\ link' = "closed" /\ wire' = SubSeq(wire, 1, n)
        /\ UNCHANGED <<torn, op, skip, replies, calls, told, key, ran, promise>>
    BY DEF ConnectionLost, server
  <1>2. wire \in Seq(Requests)
    BY DEF KvInv, TypeOK
  <1>3. /\ wire' \in Seq(Requests)
        /\ DOMAIN wire' \subseteq DOMAIN wire
        /\ \A i \in DOMAIN wire' : wire'[i] = wire[i]
    BY <1>1, <1>2, Prefix
  <1>4. TypeOK'
    BY <1>1, <1>3 DEF KvInv, TypeOK
  <1>5. KvLinkOK' /\ KvSkipOK'
    BY <1>1 DEF KvInv, KvLinkOK, KvSkipOK
  <1>6. KvWireOK'
    <2>1. /\ \A i \in DOMAIN wire' : wire'[i].id <= calls /\ ran[wire'[i].id] = 0
          /\ \A i \in DOMAIN wire' : /\ wire'[i].cmd = wire'[i].asked.action
                                     /\ wire'[i].ttl = wire'[i].asked.ttl
          /\ \A i \in DOMAIN wire' : wire'[i].form # "whole" => torn
      BY <1>3 DEF KvInv, KvWireOK
    <2>2. \A i, j \in DOMAIN wire' : i < j => wire'[i].id < wire'[j].id
      BY <1>3 DEF KvInv, KvWireOK
    <2> QED BY <1>1, <2>1, <2>2 DEF KvInv, KvWireOK
  <1>7. KvToldOK' /\ RepliesMatched' /\ TtlNeverLost'
    BY <1>1 DEF KvInv, KvToldOK, RepliesMatched, TtlNeverLost
  <1> QED BY <1>4, <1>5, <1>6, <1>7 DEF KvInv

\* Every step keeps the invariant.
LEMMA KvStep ==
    ASSUME KvInv, [Next]_vars
    PROVE  KvInv'
  <1>1. CASE StartConnect
    BY <1>1, KvConnects DEF StartConnect, server
  <1>2. CASE Connected
    BY <1>2, KvConnects DEF Connected, server
  <1>3. CASE ConnectFails
    BY <1>3, KvConnects DEF ConnectFails, server
  <1>4. CASE Refused
    BY <1>4, KvRefused DEF Refused, server, Codes
  <1>5. CASE OnClosedLink
    BY <1>5, KvRefused DEF OnClosedLink, server, Codes
  <1>6. ASSUME NEW what \in Asked, Send(what) PROVE KvInv'
    BY <1>6, KvSend
  <1>7. CASE SkipLate
    BY <1>7, KvSkips
  <1>8. CASE ReadReply
    BY <1>8, KvReads
  <1>9. CASE ReadTimesOut
    <2>1. /\ op # None /\ Answer(op.id, "REDIS_TIMEOUT", 0) /\ skip' = skip + 1
          /\ UNCHANGED <<link, torn, wire, replies, calls, key, ran, promise>>
      BY <1>9 DEF ReadTimesOut, server
    <2> QED BY <2>1, KvGivesUp DEF Codes
  <1>10. CASE ReadEof
    <2>1. /\ op # None /\ Answer(op.id, "REDIS_CONNECTION", 0) /\ link = "closed"
          /\ UNCHANGED <<link, torn, skip, wire, replies, calls, key, ran, promise>>
      BY <1>10 DEF ReadEof, server
    <2> QED BY <2>1, KvGivesUp DEF Codes
  <1>11. ASSUME NEW what \in Asked, NEW part \in BOOLEAN, WriteTimesOut(what, part)
         PROVE  KvInv'
    BY <1>11, KvWriteTimesOut
  <1>12. CASE ServerStep
    BY <1>12, KvServes
  <1>13. CASE KeyExpires
    BY <1>13, KvExpires
  <1>14. ASSUME NEW n \in 0..Len(wire), ConnectionLost(n) PROVE KvInv'
    BY <1>14, KvBreaks
  <1>15. ASSUME NEW form \in {"part", "mixed"}, Swallow(form) PROVE KvInv'
    BY <1>15, KvSwallow
  <1>16. CASE SwallowSome
    BY <1>16, KvSwallowSome
  <1>17. CASE UNCHANGED vars
    BY <1>17 DEF vars, server, KvInv, TypeOK, KvLinkOK, KvWireOK, KvSkipOK,
       KvToldOK, RepliesMatched, TtlNeverLost
  <1> QED
    BY <1>1, <1>2, <1>3, <1>4, <1>5, <1>6, <1>7, <1>8, <1>9, <1>10, <1>11, <1>12,
       <1>13, <1>14, <1>15, <1>16, <1>17 DEF Next, Call, Drive, Over

\* The redis backend keeps its inductive invariant.
THEOREM RedisInvariance == Spec => []KvInv
  <1>1. Init => KvInv
    BY KvInit
  <1>2. KvInv /\ [Next]_vars => KvInv'
    BY KvStep
  <1> QED BY <1>1, <1>2, PTL DEF Spec

\* No call is executed twice; and as long as no write stopped in the middle of a
\* command, an Ok is the server's reply to that very call, also after any number
\* of calls that timed out with their replies under way (do_get to do_expire).
THEOREM OwnReplies ==
    Spec => []RepliesMatched
  <1>1. KvInv => RepliesMatched
    BY DEF KvInv
  <1> QED BY <1>1, RedisInvariance, PTL

\* A key written by a set with a time to live is never there without one, whatever
\* call fails half way (do_set).
THEOREM TtlStays ==
    Spec => []TtlNeverLost
  <1>1. KvInv => TtlNeverLost
    BY DEF KvInv
  <1> QED BY <1>1, RedisInvariance, PTL

-----------------------------------------------------------------------------
(* The amq producer. *)

\* What each phase of a call has behind it: no answer yet, nothing handed to the
\* client before the channel is open, and the whole batch once it is waited for.
MqPhaseOK ==
    /\ phase # "idle" => reply = "none"
    /\ phase = "idle" => buffer = <<>>
    /\ phase \in {"connecting", "channel"} => sent = <<>> /\ buffer = <<>> /\ next = 0
    /\ phase = "connecting" => action \in {"send", "request"}
    /\ phase = "connecting" /\ backend = "rabbitmq" => action = "send"
    /\ phase = "requesting" => action = "request"
    /\ phase \in {"channel", "publishing", "flushing", "closing"} => action = "send"
    /\ phase \in {"flushing", "closing"} => next = batch

\* Written messages w and held messages h of n handed over, in the order of the
\* batch.
InOrder(w, h, n) ==
    /\ \A i, j \in DOMAIN w : i < j => w[i] < w[j]
    /\ \A i \in DOMAIN w : w[i] <= n
    /\ \A i, j \in DOMAIN h : i < j => h[i] < h[j]
    /\ \A i \in DOMAIN h : h[i] <= n
    /\ \A i \in DOMAIN w, j \in DOMAIN h : w[i] < h[j]

\* None of the n is missing.
Unbroken(w, h, n) ==
    /\ Len(w) + Len(h) = n
    /\ \A i \in DOMAIN w : w[i] = i
    /\ \A j \in DOMAIN h : h[j] = Len(w) + j

\* What is written, then what the client's task still holds, is in the order of
\* the batch; as long as the connection holds, nothing handed over is missing.
MqOrderOK == InOrder(sent, buffer, next)

\* With the connection up, nothing that was handed over is missing.
MqWholeOK == ~ lost /\ phase # "idle" => Unbroken(sent, buffer, next)

\* The invariant that is inductive: what an answer says of the batch needs what was
\* written and held at every phase before it.
MqInv ==
    /\ AmqTypeOK
    /\ MqPhaseOK
    /\ MqOrderOK
    /\ MqWholeOK
    /\ PublishedWereSent
    /\ RefusedUnsent

\* The numbers of the model.
LEMMA MqNumbers ==
    ASSUME AmqTypeOK
    PROVE  /\ MaxBatch \in Nat /\ MaxAmqCalls \in Nat /\ amqCalls \in Nat
           /\ batch \in Nat /\ batch <= MaxBatch
           /\ next \in Nat /\ next <= batch
           /\ sent \in Seq(Nat) /\ buffer \in Seq(Nat)
  BY AmqAssumption DEF AmqTypeOK

\* One more message is handed over.
LEMMA HandedOver ==
    ASSUME NEW w \in Seq(Nat), NEW h \in Seq(Nat), NEW n \in Nat, InOrder(w, h, n)
    PROVE  /\ InOrder(w, Append(h, n + 1), n + 1)
           /\ Unbroken(w, h, n) => Unbroken(w, Append(h, n + 1), n + 1)
  <1> DEFINE g == Append(h, n + 1)
  <1>1. /\ Len(h) \in Nat /\ Len(w) \in Nat /\ DOMAIN w = 1..Len(w) /\ DOMAIN h = 1..Len(h)
        /\ Len(g) = Len(h) + 1 /\ DOMAIN g = 1..(Len(h) + 1)
        /\ g[Len(h) + 1] = n + 1
    OBVIOUS
  <1>2. ASSUME NEW i \in DOMAIN g
        PROVE  \/ i = Len(h) + 1 /\ g[i] = n + 1
               \/ i \in DOMAIN h /\ i < Len(h) + 1 /\ g[i] = h[i] /\ h[i] \in Nat
    BY <1>1
  <1>3. \A i \in DOMAIN w : w[i] \in Nat
    BY <1>1
  <1> HIDE DEF g
  <1>4. InOrder(w, g, n + 1)
    <2>1. \A i \in DOMAIN w : w[i] <= n + 1
      BY <1>3 DEF InOrder
    <2>2. ASSUME NEW i \in DOMAIN g PROVE g[i] <= n + 1
      BY <1>2 DEF InOrder
    <2>3. ASSUME NEW i \in DOMAIN g, NEW j \in DOMAIN g, i < j PROVE g[i] < g[j]
      <3>1. i \in Nat /\ j \in Nat
        BY <1>1
      <3>2. i # Len(h) + 1
        BY <1>1, <1>2, <2>3, <3>1
      <3>3. i \in DOMAIN h /\ g[i] = h[i] /\ h[i] \in Nat /\ h[i] <= n
        BY <1>2, <3>2 DEF InOrder
      <3>4. CASE j = Len(h) + 1
        BY <1>1, <3>3, <3>4
      <3>5. CASE j # Len(h) + 1
        BY <1>2, <2>3, <3>3, <3>5 DEF InOrder
      <3> QED BY <3>4, <3>5
    <2>4. ASSUME NEW i \in DOMAIN w, NEW j \in DOMAIN g PROVE w[i] < g[j]
      <3>1. w[i] \in Nat /\ w[i] <= n
        BY <1>3 DEF InOrder
      <3> QED BY <1>2, <3>1 DEF InOrder
    <2> QED BY <2>1, <2>2, <2>3, <2>4 DEF InOrder
  <1>5. ASSUME Unbroken(w, h, n) PROVE Unbroken(w, g, n + 1)
    <2>1. Len(w) + Len(h) = n
      BY <1>5 DEF Unbroken
    <2>2. Len(w) + Len(g) = n + 1
      BY <1>1, <2>1
    <2>3. ASSUME NEW j \in DOMAIN g PROVE g[j] = Len(w) + j
      <3>1. CASE j = Len(h) + 1
        <4>1. g[j] = n + 1
          BY <1>1, <3>1
        <4>2. n + 1 = Len(w) + (Len(h) + 1)
          BY <1>1, <2>1
        <4> QED BY <3>1, <4>1, <4>2
      <3>2. CASE j # Len(h) + 1
        BY <1>2, <1>5, <3>2 DEF Unbroken
      <3> QED BY <3>1, <3>2
    <2> QED BY <1>5, <2>2, <2>3 DEF Unbroken
  <1> QED BY <1>4, <1>5 DEF g

\* The client's task writes the first message it holds.
LEMMA WrittenNext ==
    ASSUME NEW w \in Seq(Nat), NEW h \in Seq(Nat), NEW n \in Nat, h # <<>>,
           InOrder(w, h, n)
    PROVE  /\ InOrder(Append(w, Head(h)), Tail(h), n)
           /\ Unbroken(w, h, n) => Unbroken(Append(w, Head(h)), Tail(h), n)
  <1> DEFINE v == Append(w, Head(h))
             g == Tail(h)
  <1>1. /\ Len(h) \in Nat /\ Len(h) > 0 /\ Len(w) \in Nat
        /\ DOMAIN w = 1..Len(w) /\ DOMAIN h = 1..Len(h)
        /\ Len(v) = Len(w) + 1 /\ DOMAIN v = 1..(Len(w) + 1)
        /\ Len(g) = Len(h) - 1 /\ DOMAIN g = 1..(Len(h) - 1)
        /\ Head(h) = h[1] /\ 1 \in DOMAIN h /\ h[1] \in Nat
        /\ v[Len(w) + 1] = h[1]
    OBVIOUS
  <1>2. ASSUME NEW i \in DOMAIN v
        PROVE  \/ i = Len(w) + 1 /\ v[i] = h[1]
               \/ i \in DOMAIN w /\ i < Len(w) + 1 /\ v[i] = w[i] /\ w[i] \in Nat
    BY <1>1
  <1>3. ASSUME NEW i \in DOMAIN g
        PROVE  i + 1 \in DOMAIN h /\ 1 < i + 1 /\ g[i] = h[i + 1] /\ h[i + 1] \in Nat
    BY <1>1
  <1> HIDE DEF v, g
  <1>4. InOrder(v, g, n)
    <2>1. ASSUME NEW i \in DOMAIN v PROVE v[i] <= n
      BY <1>1, <1>2 DEF InOrder
    <2>2. ASSUME NEW i \in DOMAIN g PROVE g[i] <= n
      BY <1>3 DEF InOrder
    <2>3. ASSUME NEW i \in DOMAIN v, NEW j \in DOMAIN v, i < j PROVE v[i] < v[j]
      <3>1. i \in Nat /\ j \in Nat
        BY <1>1
      <3>2. i # Len(w) + 1
        BY <1>1, <1>2, <2>3, <3>1
      <3>3. i \in DOMAIN w /\ v[i] = w[i]
        BY <1>2, <3>2
      <3>4. CASE j = Len(w) + 1
        BY <1>1, <3>3, <3>4 DEF InOrder
      <3>5. CASE j # Len(w) + 1
        BY <1>2, <2>3, <3>3, <3>5 DEF InOrder
      <3> QED BY <3>4, <3>5
    <2>4. ASSUME NEW i \in DOMAIN g, NEW j \in DOMAIN g, i < j PROVE g[i] < g[j]
      <3>1. i \in Nat /\ j \in Nat /\ i + 1 < j + 1
        BY <1>1, <2>4
      <3> QED BY <1>3, <3>1 DEF InOrder
    <2>5. ASSUME NEW i \in DOMAIN v, NEW j \in DOMAIN g PROVE v[i] < g[j]
      <3>1. j + 1 \in DOMAIN h /\ 1 < j + 1 /\ g[j] = h[j + 1]
        BY <1>3
      <3> QED BY <1>1, <1>2, <3>1 DEF InOrder
    <2> QED BY <2>1, <2>2, <2>3, <2>4, <2>5 DEF InOrder
  <1>5. ASSUME Unbroken(w, h, n) PROVE Unbroken(v, g, n)
    <2>1. Len(w) + Len(h) = n /\ h[1] = Len(w) + 1
      BY <1>1, <1>5 DEF Unbroken
    <2>2. Len(v) + Len(g) = n
      <3>1. (Len(w) + 1) + (Len(h) - 1) = Len(w) + Len(h)
        BY <1>1
      <3> QED BY <1>1, <2>1, <3>1
    <2>3. ASSUME NEW i \in DOMAIN v PROVE v[i] = i
      BY <1>2, <1>5, <2>1 DEF Unbroken
    <2>4. ASSUME NEW j \in DOMAIN g PROVE g[j] = Len(v) + j
      <3>1. g[j] = Len(w) + (j + 1) /\ j \in Nat
        BY <1>1, <1>3, <1>5 DEF Unbroken
      <3> QED BY <1>1, <3>1
    <2> QED BY <2>2, <2>3, <2>4 DEF Unbroken
  <1> QED BY <1>4, <1>5 DEF v, g

\* With everything written, the wire has the batch.
LEMMA AllWritten ==
    ASSUME NEW w \in Seq(Nat), NEW n \in Nat, Unbroken(w, <<>>, n)
    PROVE  w = [i \in 1..n |-> i]
  <1>1. Len(w) = n /\ \A i \in 1..n : w[i] = i
    BY DEF Unbroken
  <1> QED BY <1>1

\* No call was made.
LEMMA MqInit == ASSUME AmqInit PROVE MqInv
  <1>1. /\ 0 \in 0..MaxBatch /\ 0 \in 0..MaxAmqCalls /\ 0 \in 0..(MaxBatch + 1)
    BY AmqAssumption
  <1>2. AmqTypeOK
    <2>1. sent \in Seq(1..MaxBatch) /\ buffer \in Seq(1..MaxBatch)
      BY DEF AmqInit
    <2>2. next \in 0..batch
      BY DEF AmqInit
    <2> QED BY <1>1, <2>1, <2>2 DEF AmqInit, AmqTypeOK, Phases
  <1>3. MqPhaseOK /\ MqOrderOK /\ MqWholeOK
    BY DEF AmqInit, MqPhaseOK, MqOrderOK, MqWholeOK, InOrder
  <1>4. PublishedWereSent /\ RefusedUnsent
    BY DEF AmqInit, PublishedWereSent, RefusedUnsent
  <1> QED BY <1>2, <1>3, <1>4 DEF MqInv

\* A call begins with a clean slate.
LEMMA MqNew ==
    ASSUME MqInv, AmqNewCall,
           batch' \in Nat, batch' <= MaxBatch, action' \in {"none", "send", "request"},
           metric' = 0, phase' \in {"idle", "connecting"},
           reply' \in (AmqCodes \cup {"none"}) \ {"OK"},
           phase' = "connecting" =>
               /\ reply' = "none"
               /\ action' = "send" \/ (action' = "request" /\ backend = "nats")
    PROVE  MqInv'
  <1>1. amqCalls' \in 0..MaxAmqCalls /\ next' \in 0..batch' /\ 0 \in 0..(MaxBatch + 1)
        /\ batch' \in 0..MaxBatch
    BY MqNumbers DEF MqInv, AmqNewCall
  <1>2. AmqTypeOK'
    <2>1. sent' \in Seq(1..MaxBatch) /\ buffer' \in Seq(1..MaxBatch)
      BY DEF AmqNewCall
    <2> QED BY <1>1, <2>1 DEF MqInv, AmqTypeOK, AmqNewCall, Phases
  <1>3. MqPhaseOK'
    BY DEF MqInv, AmqNewCall, MqPhaseOK, AmqTypeOK
  <1>4. MqOrderOK' /\ MqWholeOK'
    BY DEF AmqNewCall, MqOrderOK, MqWholeOK, InOrder, Unbroken
  <1>5. PublishedWereSent' /\ RefusedUnsent'
    BY DEF AmqNewCall, PublishedWereSent, RefusedUnsent
  <1> QED BY <1>2, <1>3, <1>4, <1>5 DEF MqInv

\* A call is answered: OK to a send only when the client holds nothing any more
\* and the batch was handed over, the codes that invite a repetition only when
\* nothing was written.
LEMMA MqReply ==
    ASSUME MqInv, phase # "idle", NEW code \in AmqCodes,
           Reply(code),
           UNCHANGED <<backend, amqCalls, action, batch, next, sent, lost>>,
           code = "OK" /\ action = "send" => buffer = <<>> /\ next = batch,
           code \in {"AMQ_CONNECTION", "AMQ_BATCH_TOO_LARGE", "AMQ_UNSUPPORTED"} =>
               sent = <<>>
    PROVE  MqInv'
  <1>1. phase' = "idle" /\ reply' = code /\ buffer' = <<>>
    BY DEF Reply
  <1>2. metric' \in 0..(MaxBatch + 1)
    <2>1. metric' = 0 \/ metric' = 1 \/ metric' = batch
      BY DEF Reply
    <2> QED BY <2>1, MqNumbers DEF MqInv
  <1>3. AmqTypeOK'
    BY <1>1, <1>2 DEF MqInv, AmqTypeOK, Phases
  <1>4. MqPhaseOK'
    BY <1>1 DEF MqPhaseOK
  <1>5. MqOrderOK' /\ MqWholeOK'
    BY <1>1 DEF MqInv, MqOrderOK, MqWholeOK, InOrder
  <1>6. ASSUME code = "OK", action = "send", ~ lost
        PROVE  sent = [i \in 1..batch |-> i] /\ metric' = batch
    <2>1. Unbroken(sent, <<>>, batch)
      BY <1>6 DEF MqInv, MqWholeOK
    <2>2. sent \in Seq(Nat) /\ batch \in Nat
      BY MqNumbers DEF MqInv
    <2>3. sent = [i \in 1..batch |-> i]
      BY <2>1, <2>2, AllWritten
    <2> QED BY <1>6, <2>3 DEF Reply
  <1>7. PublishedWereSent'
    BY <1>1, <1>6 DEF MqInv, PublishedWereSent
  <1>8. RefusedUnsent'
    BY <1>1 DEF RefusedUnsent
  <1> QED BY <1>3, <1>4, <1>5, <1>7, <1>8 DEF MqInv

\* A phase is left for the next one and nothing else changes.
LEMMA MqMoves ==
    ASSUME MqInv, phase # "idle", phase' \in Phases \ {"idle"}, MqPhaseOK',
           UNCHANGED <<backend, amqCalls, action, batch, next, buffer, sent, lost, reply,
                       metric>>
    PROVE  MqInv'
  BY DEF MqInv, AmqTypeOK, MqOrderOK, MqWholeOK, PublishedWereSent, RefusedUnsent

\* Publish: the next message joins those the client's task holds.
LEMMA MqPublish == ASSUME MqInv, Publish PROVE MqInv'
  <1>n. /\ next \in Nat /\ batch \in Nat /\ MaxBatch \in Nat /\ next < batch
        /\ batch <= MaxBatch /\ sent \in Seq(Nat) /\ buffer \in Seq(Nat)
    BY MqNumbers DEF MqInv, Publish
  <1>1. next' = next + 1 /\ next' \in 1..MaxBatch /\ next' \in 0..batch
    BY <1>n DEF Publish
  <1>2. buffer' = Append(buffer, next + 1) /\ buffer' \in Seq(1..MaxBatch)
    BY <1>1 DEF MqInv, AmqTypeOK, Publish
  <1>3. /\ phase = "publishing" /\ reply = "none"
        /\ UNCHANGED <<backend, amqCalls, phase, action, batch, sent, lost, reply, metric>>
    BY DEF Publish, MqInv, MqPhaseOK
  <1>4. AmqTypeOK'
    BY <1>1, <1>2, <1>3 DEF MqInv, AmqTypeOK
  <1>5. MqPhaseOK'
    BY <1>3 DEF MqPhaseOK, MqInv
  <1>6. /\ InOrder(sent, buffer', next')
        /\ Unbroken(sent, buffer, next) => Unbroken(sent, buffer', next')
    BY <1>n, <1>1, <1>2, HandedOver DEF MqInv, MqOrderOK
  <1>7. MqOrderOK' /\ MqWholeOK'
    BY <1>3, <1>6 DEF MqInv, MqOrderOK, MqWholeOK
  <1>8. PublishedWereSent' /\ RefusedUnsent'
    BY <1>3 DEF MqInv, PublishedWereSent, RefusedUnsent
  <1> QED BY <1>4, <1>5, <1>7, <1>8 DEF MqInv

\* ClientWrites: the first message held is the next one written.
LEMMA MqClientWrites == ASSUME MqInv, ClientWrites PROVE MqInv'
  <1>1. /\ buffer \in Seq(1..MaxBatch) /\ sent \in Seq(1..MaxBatch) /\ buffer # <<>>
        /\ buffer' = Tail(buffer) /\ sent' = Append(sent, Head(buffer))
    BY DEF MqInv, AmqTypeOK, ClientWrites
  <1>2. /\ UNCHANGED <<backend, amqCalls, phase, action, batch, next, lost, reply, metric>>
        /\ phase # "idle" /\ reply = "none"
        /\ phase \notin {"connecting", "channel"}
    BY DEF MqInv, MqPhaseOK, ClientWrites
  <1>3. buffer' \in Seq(1..MaxBatch) /\ sent' \in Seq(1..MaxBatch)
    <2> DEFINE Message == 1..MaxBatch
    <2> HIDE DEF Message
    <2>1. /\ buffer \in Seq(Message) /\ sent \in Seq(Message) /\ buffer # <<>>
      BY <1>1 DEF Message
    <2>2. Head(buffer) \in Message /\ Tail(buffer) \in Seq(Message)
      BY <2>1
    <2>3. Append(sent, Head(buffer)) \in Seq(Message)
      BY <2>1, <2>2
    <2> QED BY <1>1, <2>2, <2>3 DEF Message
  <1>4. AmqTypeOK'
    BY <1>2, <1>3 DEF MqInv, AmqTypeOK
  <1>5. MqPhaseOK'
    BY <1>2 DEF MqInv, MqPhaseOK
  <1>6. /\ InOrder(sent', buffer', next)
        /\ Unbroken(sent, buffer, next) => Unbroken(sent', buffer', next)
    BY <1>1, MqNumbers, WrittenNext DEF MqInv, MqOrderOK
  <1>7. MqOrderOK' /\ MqWholeOK'
    BY <1>2, <1>6 DEF MqInv, MqOrderOK, MqWholeOK
  <1>8. PublishedWereSent' /\ RefusedUnsent'
    BY <1>2, <1>6 DEF InOrder, PublishedWereSent, RefusedUnsent
  <1> QED BY <1>4, <1>5, <1>7, <1>8 DEF MqInv

\* ConnectionLost: what was held is gone, what was written stays in order.
LEMMA MqLost == ASSUME MqInv, AmqConnectionLost PROVE MqInv'
  <1>1. /\ lost' = TRUE /\ buffer' = <<>>
        /\ UNCHANGED <<backend, amqCalls, phase, action, batch, next, sent, reply, metric>>
    BY DEF AmqConnectionLost
  <1>2. AmqTypeOK'
    BY <1>1 DEF MqInv, AmqTypeOK
  <1>3. MqPhaseOK' /\ MqOrderOK' /\ MqWholeOK'
    BY <1>1 DEF MqInv, MqPhaseOK, MqOrderOK, MqWholeOK, InOrder
  <1>4. PublishedWereSent' /\ RefusedUnsent'
    BY <1>1 DEF MqInv, PublishedWereSent, RefusedUnsent
  <1> QED BY <1>2, <1>3, <1>4 DEF MqInv

\* Every step keeps the invariant.
LEMMA MqStep ==
    ASSUME MqInv, [AmqNext]_amqVars
    PROVE  MqInv'
  <1>n. MaxBatch \in Nat /\ batch \in Nat
    BY MqNumbers DEF MqInv
  <1>1. CASE CallMalformed
    BY <1>1, <1>n, MqNew DEF CallMalformed, AmqCodes
  <1>2. ASSUME NEW n \in 0..MaxMessages, SendRefused(n) PROVE MqInv'
    <2>1. reply' \in {"AMQ_ERROR", "AMQ_BATCH_TOO_LARGE"}
      BY <1>2 DEF SendRefused
    <2> QED BY <1>2, <1>n, <2>1, MqNew DEF SendRefused, AmqCodes
  <1>3. ASSUME NEW n \in 0..MaxMessages, StartSend(n) PROVE MqInv'
    <2>1. batch' \in Nat /\ batch' <= MaxBatch
      BY <1>3, <1>n DEF StartSend
    <2>2. /\ AmqNewCall /\ action' = "send" /\ metric' = 0
          /\ phase' = "connecting" /\ reply' = "none"
      BY <1>3 DEF StartSend
    <2> QED BY <1>n, <2>1, <2>2, MqNew DEF AmqCodes
  <1>4. CASE StartRequest
    <2>1. /\ phase' \in {"idle", "connecting"}
          /\ reply' \in {"none", "AMQ_UNSUPPORTED"}
          /\ phase' = "connecting" => backend = "nats" /\ reply' = "none"
      BY <1>4 DEF StartRequest
    <2> QED BY <1>4, <1>n, <2>1, MqNew DEF StartRequest, AmqCodes
  <1>5. CASE AmqConnected
    <2>1. phase' \in {"channel", "publishing", "requesting"} /\ MqPhaseOK'
      BY <1>5 DEF AmqConnected, MqInv, AmqTypeOK, MqPhaseOK
    <2> QED BY <1>5, <2>1, MqMoves DEF AmqConnected, Phases
  <1>6. CASE ChannelOpened
    <2>1. MqPhaseOK'
      BY <1>6 DEF ChannelOpened, MqInv, MqPhaseOK
    <2> QED BY <1>6, <2>1, MqMoves DEF ChannelOpened, Phases
  <1>7. CASE AmqConnectFails
    <2>1. sent = <<>> /\ phase # "idle"
      BY <1>7 DEF AmqConnectFails, MqInv, MqPhaseOK
    <2> QED BY <1>7, <2>1, MqReply DEF AmqConnectFails, AmqCodes
  <1>8. CASE Publish
    BY <1>8, MqPublish
  <1>9. CASE PublishFails
    BY <1>9, MqReply DEF PublishFails, AmqCodes
  <1>10. CASE BatchPublished
    <2>1. phase' \in {"flushing", "closing"} /\ MqPhaseOK'
      BY <1>10 DEF BatchPublished, MqInv, MqPhaseOK
    <2> QED BY <1>10, <2>1, MqMoves DEF BatchPublished, Phases
  <1>11. CASE Flushed
    <2>1. next = batch
      BY <1>11 DEF Flushed, MqInv, MqPhaseOK
    <2> QED BY <1>11, <2>1, MqReply DEF Flushed, AmqCodes
  <1>12. CASE FlushFails
    BY <1>12, MqReply DEF FlushFails, AmqCodes
  <1>13. CASE Closed
    <2>1. next = batch
      BY <1>13 DEF Closed, MqInv, MqPhaseOK
    <2> QED BY <1>13, <2>1, MqReply DEF Closed, AmqCodes
  <1>14. CASE Replied
    <2>1. action = "request"
      BY <1>14 DEF Replied, MqInv, MqPhaseOK
    <2> QED BY <1>14, <2>1, MqReply DEF Replied, AmqCodes
  <1>15. CASE RequestFails
    BY <1>15, MqReply DEF RequestFails, AmqCodes
  <1>16. CASE RequestTimesOut
    BY <1>16, MqReply DEF RequestTimesOut, AmqCodes
  <1>17. CASE ClientWrites
    BY <1>17, MqClientWrites
  <1>18. CASE AmqConnectionLost
    BY <1>18, MqLost
  <1>19. CASE UNCHANGED amqVars
    BY <1>19 DEF amqVars, MqInv, AmqTypeOK, MqPhaseOK, MqOrderOK, MqWholeOK,
       PublishedWereSent, RefusedUnsent
  <1> QED
    BY <1>1, <1>2, <1>3, <1>4, <1>5, <1>6, <1>7, <1>8, <1>9, <1>10, <1>11, <1>12,
       <1>13, <1>14, <1>15, <1>16, <1>17, <1>18, <1>19 DEF AmqNext, AmqOver

\* The amq producer keeps its inductive invariant.
THEOREM AmqInvariance == AmqSpec => []MqInv
  <1>1. AmqInit => MqInv
    BY MqInit
  <1>2. MqInv /\ [AmqNext]_amqVars => MqInv'
    BY MqStep
  <1> QED BY <1>1, <1>2, PTL DEF AmqSpec

\* No message of a batch goes out twice or ahead of an earlier one, and a send
\* answered `published` has written its whole batch, of any length, unless the
\* connection was lost (do_send, nats_publish, publish_batch).
THEOREM PublishedIsWritten ==
    AmqSpec => []PublishedWereSent
  <1>1. MqInv => PublishedWereSent
    BY DEF MqInv
  <1> QED BY <1>1, AmqInvariance, PTL

\* A call refused with one of the codes that invite a repetition has put nothing on
\* the wire (do_send).
THEOREM RefusedIsUnsent ==
    AmqSpec => []RefusedUnsent
  <1>1. MqInv => RefusedUnsent
    BY DEF MqInv
  <1> QED BY <1>1, AmqInvariance, PTL
=============================================================================
