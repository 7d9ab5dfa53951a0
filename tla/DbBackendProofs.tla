--------------------------- MODULE DbBackendProofs ---------------------------
(***************************************************************************)
(* Safety of the db backend for any budget, any timeout, any number of     *)
(* calls and any length of a session.                                      *)
(*                                                                         *)
(* What the box believes of its transaction and what the server makes of   *)
(* it are related by the requests still on their way: the inductive        *)
(* invariant IInv says that a call's request is the last one queued        *)
(* (OrderOK), that no write is executed twice (FreshOK), that a box which  *)
(* has had no failure since its last rollback is in step with the server   *)
(* up to the call in progress (SureOK), that one which has had no failed   *)
(* commit or rollback knows whether its transaction goes on (EndOK), and   *)
(* that the answer it is about to get is true (DoneOK).                    *)
(***************************************************************************)
EXTENDS DbBackend, TLAPS

\* The request whose answer the call in progress waits for.
Current == [id |-> op.id, cmd |-> IF op.awaits = "prepare" THEN "prepare" ELSE op.action]

\* The writes that the server may still get to see: those on the wire, and the
\* one that is sent when its statement is prepared.
Queued == {wire[i].id : i \in {j \in DOMAIN wire : wire[j].cmd = "execute"}}

Unsent ==
    IF op # None /\ op.action = "execute" /\ op.awaits = "prepare" THEN {op.id} ELSE {}

\* None of these writes is stored, or will be.
Gone(writes) == writes \cap (durable \cup pending \cup Queued \cup Unsent) = {}

\* The server's transaction is the one the box believes in.
InStep(b) ==
    /\ txn = IF b.open THEN "open" ELSE "none"
    /\ pending = b.writes

Connecting == {"none", "dialing", "greeting", "failed"}

\* Before the connect has succeeded there is nothing.
StartOK ==
    link \in Connecting =>
        /\ op = None /\ wire = <<>>
        /\ calls = 0 /\ spent.calls = 0
        /\ InStep(box) /\ box.sure

\* Calls are numbered as they come.
IdsOK ==
    /\ op # None => op.id = calls
    /\ durable \cup pending \cup discarded \cup box.writes \cup Queued \subseteq 1..calls
    /\ \A i \in DOMAIN wire : wire[i].id <= calls

\* Requests are answered in the order they are queued in: the call in progress
\* has the last one.
OrderOK ==
    /\ op = None => inbox = "nothing"
    /\ op # None => link \in {"up", "down"}
    /\ op # None /\ link = "down" => inbox # "nothing"
    /\ op # None /\ link = "up" /\ inbox # "nothing" => wire = <<>>
    /\ op # None /\ link = "up" /\ inbox = "nothing" =>
          /\ wire # <<>>
          /\ wire[Len(wire)] = Current
          /\ \A i \in 1..(Len(wire) - 1) : wire[i].id # op.id

\* A write is executed once, in a transaction that is open or on its own.
FreshOK ==
    /\ txn = "none" => pending = {}
    /\ durable \cap pending = {}
    /\ (Queued \cup Unsent) \cap (durable \cup pending) = {}
    /\ Unsent \cap Queued = {}
    /\ \A i, j \in DOMAIN wire :
          i # j /\ wire[i].cmd = "execute" /\ wire[j].cmd = "execute" =>
              wire[i].id # wire[j].id
    /\ Gone(discarded \ doubtful)

\* As long as no call has failed, the box and the server are in step, but for
\* the request on its way.
SureOK ==
    box.sure /\ link = "up" =>
        /\ op = None => wire = <<>> /\ InStep(box)
        /\ op # None /\ inbox = "nothing" => Len(wire) = 1 /\ InStep(box)
        /\ op # None /\ inbox = "ok" /\ op.awaits = "prepare" => InStep(box)

\* A call that is about to be answered Ok has had its effect, also when the
\* connection has broken since.
DoneOK ==
    op # None /\ op.awaits = "run" /\ inbox = "ok" =>
        /\ box.sure => Promised(op.id, op.action) \subseteq durable
        /\ op.action = "rollback" /\ ~ box.ended => Gone(box.writes)
        /\ link = "up" /\ (box.sure \/ op.action = "rollback") =>
              InStep(Believe(op.id, op.action, "OK"))

\* As long as every commit and rollback was answered Ok, those on the wire are the
\* call's in progress: until then the transaction the box believes in goes on at
\* the server, if only as a failed one, and none of its writes is stored.
EndOK ==
    /\ box.writes \cap (Queued \cup Unsent) = {}
    /\ op # None /\ inbox = "ok" => \A i \in DOMAIN wire : wire[i].cmd = "terminate"
    /\ link = "up" => \A i \in DOMAIN wire : wire[i].cmd # "terminate"
    /\ op # None /\ op.action = "begin" /\ op.awaits = "run" /\ inbox = "ok"
       /\ link = "up" => txn # "none"
    /\ ~ box.ended =>
          /\ \A i \in DOMAIN wire :
                wire[i].cmd \in Ends => op # None /\ wire[i].cmd = op.action
          /\ op = None \/ op.action # "commit" => box.writes \cap durable = {}
          /\ link = "up" /\ box.open /\ (op = None \/ op.action \notin Ends) =>
                txn # "none"
          /\ op # None /\ op.action = "execute" /\ op.awaits = "run" /\ inbox = "ok"
             /\ box.open => op.id \notin durable

\* Every tick a call waits comes off what is left until the deadline.
TimeOK ==
    /\ spent.calls <= Budget
    /\ clock <= deadline => spent.calls + (deadline - clock) <= Budget

\* The invariant that is inductive.
IInv ==
    /\ TypeOK
    /\ StartOK
    /\ IdsOK
    /\ OrderOK
    /\ FreshOK
    /\ SureOK
    /\ DoneOK
    /\ EndOK
    /\ TimeOK
    /\ AssuredDurable

-----------------------------------------------------------------------------
(* The wire. *)

\* Where the call numbers are.
LEMMA Numbers ==
    /\ MaxCalls \in Nat /\ Budget \in Nat /\ MaxClock \in Nat
    /\ \A c : c \in Calls <=> c \in Nat /\ 1 <= c /\ c <= MaxCalls
    /\ Calls \subseteq 0..MaxCalls
BY DbAssumption DEF Calls

\* Every request has a number.
LEMMA WireIds ==
    ASSUME wire \in Seq(Requests), NEW i \in DOMAIN wire
    PROVE  wire[i] \in Requests /\ wire[i].id \in Nat
<1>1. wire[i] \in Requests
  OBVIOUS
<1>2. \A r \in Requests : r.id \in 0..MaxCalls
  BY DEF Requests
<1>3. QED
  BY <1>1, <1>2, Numbers

\* A request that is queued is the last one, and adds a write if it is one.
LEMMA AppendWire ==
    ASSUME wire \in Seq(Requests), NEW r \in Requests, wire' = Append(wire, r)
    PROVE  /\ wire' \in Seq(Requests)
           /\ Len(wire') = Len(wire) + 1 /\ wire' # <<>>
           /\ wire'[Len(wire')] = r
           /\ \A i \in 1..Len(wire) : wire'[i] = wire[i]
           /\ \A i \in DOMAIN wire' : i \in DOMAIN wire \/ (i = Len(wire) + 1 /\ wire'[i] = r)
           /\ Queued' = Queued \cup (IF r.cmd = "execute" THEN {r.id} ELSE {})
<1>1. /\ wire' \in Seq(Requests)
      /\ Len(wire') = Len(wire) + 1 /\ wire' # <<>>
      /\ wire'[Len(wire')] = r
      /\ \A i \in 1..Len(wire) : wire'[i] = wire[i]
      /\ DOMAIN wire = 1..Len(wire) /\ DOMAIN wire' = 1..(Len(wire) + 1)
      /\ Len(wire) \in Nat
  OBVIOUS
<1>2. \A i \in DOMAIN wire' : i \in DOMAIN wire \/ (i = Len(wire) + 1 /\ wire'[i] = r)
  BY <1>1
<1>3. Queued' = Queued \cup (IF r.cmd = "execute" THEN {r.id} ELSE {})
  <2>1. Queued' \subseteq Queued \cup (IF r.cmd = "execute" THEN {r.id} ELSE {})
    BY <1>1, <1>2 DEF Queued
  <2>2. \A i \in DOMAIN wire : i \in DOMAIN wire' /\ wire'[i] = wire[i]
    BY <1>1
  <2>3. Queued \subseteq Queued'
    BY <2>2 DEF Queued
  <2>4. r.cmd = "execute" => r.id \in Queued'
    <3>1. Len(wire') \in DOMAIN wire'
      BY <1>1
    <3>2. QED
      BY <1>1, <3>1 DEF Queued
  <2>5. QED
    BY <2>1, <2>3, <2>4
<1>4. QED
  BY <1>1, <1>2, <1>3

\* The server takes the first request.
LEMMA TailWire ==
    ASSUME wire \in Seq(Requests), wire # <<>>, wire' = Tail(wire)
    PROVE  /\ wire' \in Seq(Requests)
           /\ Len(wire') = Len(wire) - 1
           /\ Head(wire) = wire[1] /\ Head(wire) \in Requests
           /\ 1 \in DOMAIN wire
           /\ \A i \in DOMAIN wire' : i + 1 \in DOMAIN wire /\ wire'[i] = wire[i + 1] /\ i + 1 # 1
           /\ Queued' \subseteq Queued
           /\ Head(wire).cmd = "execute" => Head(wire).id \in Queued
<1>1. /\ wire' \in Seq(Requests)
      /\ Len(wire') = Len(wire) - 1 /\ Len(wire) \in Nat /\ Len(wire) > 0
      /\ Head(wire) = wire[1] /\ Head(wire) \in Requests
      /\ DOMAIN wire = 1..Len(wire) /\ DOMAIN wire' = 1..(Len(wire) - 1)
      /\ \A i \in 1..(Len(wire) - 1) : wire'[i] = wire[i + 1]
  OBVIOUS
<1>2. \A i \in DOMAIN wire' : i + 1 \in DOMAIN wire /\ wire'[i] = wire[i + 1] /\ i + 1 # 1
  BY <1>1
<1>3. 1 \in DOMAIN wire
  BY <1>1
<1>4. QED
  BY <1>1, <1>2, <1>3 DEF Queued

\* What a lost connection leaves of the wire.
LEMMA CutWire ==
    ASSUME wire \in Seq(Requests), NEW n \in 0..Len(wire),
           wire' = Append(SubSeq(wire, 1, n), Terminate)
    PROVE  /\ wire' \in Seq(Requests)
           /\ \A i \in DOMAIN wire' :
                 \/ wire'[i] = Terminate
                 \/ i \in DOMAIN wire /\ wire'[i] = wire[i]
           /\ Queued' \subseteq Queued
<1> DEFINE kept == SubSeq(wire, 1, n)
<1>1. Terminate \in Requests /\ Terminate.cmd # "execute"
  BY Numbers DEF Terminate, Requests, Actions
<1>2. /\ kept \in Seq(Requests) /\ Len(kept) = n
      /\ \A i \in 1..n : kept[i] = wire[i]
  OBVIOUS
<1> HIDE DEF kept
<1>3. /\ wire' \in Seq(Requests) /\ Len(wire') = n + 1
      /\ wire'[n + 1] = Terminate
      /\ \A i \in 1..n : wire'[i] = kept[i]
  BY <1>1, <1>2 DEF kept
<1>4. \A i \in DOMAIN wire' : wire'[i] = Terminate \/ (i \in DOMAIN wire /\ wire'[i] = wire[i])
  BY <1>2, <1>3
<1>5. QED
  BY <1>1, <1>3, <1>4 DEF Queued
-----------------------------------------------------------------------------
(* Steps that send nothing and answer nothing. *)

\* The parts of the invariant that speak of the daemon and the server only.
LEMMA KeptParts ==
    ASSUME IInv, UNCHANGED <<op, inbox, wire, server, view>>
    PROVE  /\ IdsOK' /\ FreshOK' /\ AssuredDurable'
           /\ link' = link => OrderOK' /\ SureOK' /\ DoneOK' /\ EndOK'
<1>1. Queued' = Queued /\ Unsent' = Unsent
  BY DEF Queued, Unsent
<1>2. \A S : Gone(S)' <=> Gone(S)
  BY <1>1 DEF Gone, server
<1>3. IdsOK' /\ FreshOK' /\ AssuredDurable'
  BY <1>1, <1>2 DEF IInv, IdsOK, FreshOK, AssuredDurable, server, view, Gone
<1>4. ASSUME link' = link PROVE OrderOK' /\ SureOK' /\ DoneOK' /\ EndOK'
  <2>1. OrderOK' /\ SureOK'
    BY <1>4 DEF IInv, OrderOK, SureOK, InStep, Current, server, view
  <2>2. DoneOK'
    BY <1>4, <1>2 DEF IInv, DoneOK, InStep, Believe, Promised, server, view, Gone, Queued, Unsent
  <2>3. EndOK'
    BY <1>4, <1>1 DEF IInv, EndOK, server, view
  <2>4. QED
    BY <2>1, <2>2, <2>3
<1>5. QED
  BY <1>3, <1>4

\* The connect moves the link, and anchors the deadline when it succeeds.
LEMMA ConnectStep ==
    ASSUME IInv,
           StartConnect \/ Dialed \/ DialTimesOut \/ ConnectDone \/ ConnectFails
    PROVE  IInv'
<1>1. /\ link \in Connecting /\ link' \in Connecting \cup {"up"}
      /\ \/ UNCHANGED deadline /\ link' # "up"
         \/ deadline' = clock + Budget /\ deadline' <= MaxClock
      /\ UNCHANGED <<clock, op, inbox, wire, server, view, spent>>
  BY DEF StartConnect, Dialed, DialTimesOut, ConnectDone, ConnectFails, Connecting
<1>2. TypeOK'
  BY <1>1, Numbers DEF IInv, TypeOK, Connecting, server, view
<1>3. StartOK'
  BY <1>1 DEF IInv, StartOK, InStep, server, view
<1>4. /\ op = None /\ wire = <<>> /\ spent.calls = 0 /\ InStep(box) /\ box.sure
  BY <1>1 DEF IInv, StartOK
<1>5. OrderOK' /\ SureOK' /\ DoneOK'
  BY <1>1, <1>4 DEF IInv, OrderOK, SureOK, DoneOK, InStep, server, view
<1>6. TimeOK'
  BY <1>1, <1>4, Numbers DEF IInv, TypeOK, TimeOK
<1>8. EndOK'
  <2>1. Queued' = Queued /\ Unsent' = Unsent
    BY <1>1 DEF Queued, Unsent
  <2>2. box.open => txn # "none"
    BY <1>4 DEF InStep
  <2>3. \A i \in DOMAIN wire : FALSE
    BY <1>4
  <2>4. QED
    BY <1>1, <1>4, <2>1, <2>2, <2>3 DEF IInv, EndOK, server, view
<1>7. QED
  BY <1>1, <1>2, <1>3, <1>5, <1>6, <1>8, KeptParts DEF IInv

\* Time passes.
LEMMA TickStep ==
    ASSUME IInv, Tick
    PROVE  IInv'
<1>1. UNCHANGED <<deadline, link, op, inbox, wire, server, view>>
  BY DEF Tick
<1>2. /\ clock \in Nat /\ deadline \in Nat /\ clock < MaxClock /\ clock' = clock + 1
      /\ spent.connect \in Nat /\ spent.calls \in Nat
      /\ spent' \in [connect : Nat, calls : Nat]
      /\ spent'.calls = IF op # None THEN spent.calls + 1 ELSE spent.calls
      /\ op # None => clock < deadline
  BY Numbers DEF IInv, TypeOK, Tick
<1>3. TypeOK'
  BY <1>1, <1>2, Numbers DEF IInv, TypeOK, server, view
<1>4. StartOK'
  BY <1>1, <1>2 DEF IInv, StartOK, InStep, server, view
<1>5. TimeOK'
  BY <1>1, <1>2, Numbers DEF IInv, TimeOK
<1>6. QED
  BY <1>1, <1>3, <1>4, <1>5, KeptParts DEF IInv

\* Nothing happens.
LEMMA StutterStep ==
    ASSUME IInv, UNCHANGED vars
    PROVE  IInv'
<1>1. UNCHANGED <<clock, deadline, link, op, inbox, wire, server, view, spent>>
  BY DEF vars
<1>2. TypeOK' /\ StartOK' /\ TimeOK'
  BY <1>1 DEF IInv, TypeOK, StartOK, TimeOK, InStep, server, view
<1>3. QED
  BY <1>1, <1>2, KeptParts DEF IInv

-----------------------------------------------------------------------------
(* Calls. *)

\* The first request of a call is queued behind all others.
LEMMA StartCallStep ==
    ASSUME IInv, NEW action \in Actions, StartCall(action)
    PROVE  IInv'
<1> DEFINE id == calls + 1
           r == [id |-> id, cmd |-> Command(action)]
<1>1. /\ link = "up" /\ op = None /\ calls < MaxCalls /\ calls' = id
      /\ op' = [id |-> id, action |-> action,
                awaits |-> IF action \in Statements THEN "prepare" ELSE "run"]
      /\ inbox' = "nothing" /\ wire' = Append(wire, r)
      /\ UNCHANGED <<clock, deadline, link, server, told, box, assured, discarded, doubtful,
                     spent>>
  BY DEF StartCall, NewCall
<1>2. /\ calls \in Nat /\ id \in Calls /\ r \in Requests /\ r.id = id
      /\ r.cmd # "execute" /\ r.cmd = IF action \in Statements THEN "prepare" ELSE action
  <2>0. calls \in 0..MaxCalls
    BY DEF IInv, TypeOK
  <2>1. calls \in Nat /\ id \in Calls
    BY <1>1, <2>0, Numbers
  <2>2. /\ Command(action) \in Actions \cup {"prepare", "terminate"}
        /\ Command(action) # "execute"
        /\ Command(action) = IF action \in Statements THEN "prepare" ELSE action
    BY DEF Command, Statements, Actions
  <2>3. QED
    BY <2>1, <2>2, Numbers DEF Requests
<1>3. op' \in Operations /\ op' # None
  BY <1>1, <1>2, DbAssumption DEF Operations
<1>4. wire \in Seq(Requests)
  BY DEF IInv, TypeOK
<1>5. /\ wire' \in Seq(Requests)
      /\ Len(wire') = Len(wire) + 1 /\ wire' # <<>>
      /\ wire'[Len(wire')] = r
      /\ \A i \in 1..Len(wire) : wire'[i] = wire[i]
      /\ \A i \in DOMAIN wire' : i \in DOMAIN wire \/ (i = Len(wire) + 1 /\ wire'[i] = r)
      /\ Queued' = Queued
  BY <1>1, <1>2, <1>4, AppendWire
<1> HIDE DEF id, r
<1>6. TypeOK'
  BY <1>1, <1>2, <1>3, <1>5, Numbers DEF IInv, TypeOK, server, id
<1>7. StartOK' /\ TimeOK'
  BY <1>1 DEF IInv, StartOK, TimeOK, Connecting
<1>8. IdsOK'
  <2>1. \A i \in DOMAIN wire : wire[i].id \in Nat
    BY <1>4, WireIds
  <2>2. \A i \in DOMAIN wire' : wire'[i].id <= id
    BY <1>2, <1>4, <1>5, <2>1 DEF IInv, IdsOK, id
  <2>3. 1..calls \subseteq 1..id
    BY <1>2 DEF id
  <2>4. QED
    BY <1>1, <1>5, <2>2, <2>3 DEF IInv, IdsOK, server
<1>9. OrderOK'
  <2>1. \A i \in 1..(Len(wire') - 1) : wire'[i].id # id
    BY <1>1, <1>2, <1>4, <1>5 DEF IInv, IdsOK, id
  <2>2. wire'[Len(wire')] = Current'
    BY <1>1, <1>2, <1>5 DEF Current, Statements, r
  <2>3. QED
    BY <1>1, <1>3, <1>5, <2>1, <2>2 DEF OrderOK
<1>10. FreshOK'
  <2>1. Unsent = {} /\ Unsent' \subseteq {id}
    BY <1>1 DEF Unsent
  <2>2. id \notin durable \cup pending \cup discarded \cup Queued
    BY <1>2, <1>4 DEF IInv, IdsOK, Queued, id
  <2>3. \A i, j \in DOMAIN wire' :
          i # j /\ wire'[i].cmd = "execute" /\ wire'[j].cmd = "execute" =>
              wire'[i].id # wire'[j].id
    BY <1>2, <1>4, <1>5 DEF IInv, FreshOK
  <2>4. Gone(discarded \ doubtful)'
    BY <1>1, <1>5, <2>1, <2>2 DEF IInv, FreshOK, Gone, server
  <2>5. QED
    BY <1>1, <1>5, <2>1, <2>2, <2>3, <2>4 DEF IInv, FreshOK, server
<1>14. EndOK'
  <2>1. Unsent = {} /\ Unsent' \subseteq {id} /\ id \notin box.writes
    BY <1>1, <1>2 DEF Unsent, IInv, IdsOK, id
  <2>2. box'.writes \cap (Queued' \cup Unsent') = {}
    BY <1>1, <1>5, <2>1 DEF IInv, EndOK
  <2>3. r.cmd # "terminate" /\ (r.cmd \in Ends => r.cmd = action)
    BY <1>2 DEF Statements, Actions, Ends
  <2>4. ASSUME NEW i \in DOMAIN wire'
        PROVE  /\ wire'[i].cmd # "terminate"
               /\ ~ box.ended /\ wire'[i].cmd \in Ends => wire'[i].cmd = action
    <3>1. CASE i \in DOMAIN wire
      <4>1. wire'[i] = wire[i]
        BY <1>4, <1>5, <3>1
      <4>2. QED
        BY <1>1, <3>1, <4>1 DEF IInv, EndOK
    <3>2. CASE wire'[i] = r
      BY <2>3, <3>2
    <3>3. QED
      BY <1>5, <3>1, <3>2
  <2>5. op'.action = action
    BY <1>1
  <2>6. QED
    BY <1>1, <1>3, <2>2, <2>4, <2>5 DEF IInv, EndOK, server
<1>11. SureOK' /\ DoneOK'
  BY <1>1, <1>3, <1>4, <1>5 DEF IInv, SureOK, DoneOK, InStep, server
<1>12. AssuredDurable'
  BY <1>1 DEF IInv, AssuredDurable, server
<1>13. QED
  BY <1>6, <1>7, <1>8, <1>9, <1>10, <1>11, <1>12, <1>14 DEF IInv
\* An error or a timeout makes the box unsure, and nothing else is said of it.
LEMMA AnswerFails ==
    ASSUME IInv, NEW id \in Calls, NEW action, NEW result \in {"ERROR", "TIMEOUT"},
           Answer(id, action, result), op # None => op.action = action,
           calls' \in calls..MaxCalls, link \notin Connecting,
           UNCHANGED <<clock, deadline, link, wire, server, spent>>
    PROVE  IInv'
<1>1. /\ op' = None /\ inbox' = "nothing"
      /\ told' = [told EXCEPT ![id] = result]
      /\ box' = [box EXCEPT !.sure = FALSE, !.ended = @ \/ action \in Ends]
      /\ UNCHANGED <<assured, discarded, doubtful>>
  BY DEF Answer, Believe
<1>2. /\ box' \in [open : BOOLEAN, sure : BOOLEAN, ended : BOOLEAN, writes : SUBSET Calls]
      /\ ~ box'.sure /\ box'.writes = box.writes /\ box'.open = box.open
      /\ box'.ended = (box.ended \/ action \in Ends)
  BY <1>1 DEF IInv, TypeOK
<1>3. TypeOK'
  <2>1. calls' \in 0..MaxCalls
    BY Numbers DEF IInv, TypeOK
  <2>2. told' \in [Calls -> {"nothing", "OK", "ERROR", "TIMEOUT"}]
    BY <1>1 DEF IInv, TypeOK
  <2>3. QED
    BY <1>1, <1>2, <2>1, <2>2 DEF IInv, TypeOK, server
<1>4. StartOK' /\ TimeOK' /\ AssuredDurable'
  BY <1>1 DEF IInv, StartOK, TimeOK, AssuredDurable, server
<1>5. IdsOK'
  <2>1. calls \in Nat /\ calls' \in Nat /\ calls <= calls'
    BY Numbers DEF IInv, TypeOK
  <2>2. \A i \in DOMAIN wire : wire[i].id \in Nat
    BY WireIds DEF IInv, TypeOK
  <2>3. 1..calls \subseteq 1..calls' /\ \A i \in DOMAIN wire' : wire'[i].id <= calls'
    BY <2>1, <2>2 DEF IInv, IdsOK
  <2>4. QED
    BY <1>1, <1>2, <2>3 DEF IInv, IdsOK, Queued, server
<1>6. FreshOK'
  BY <1>1 DEF IInv, FreshOK, Gone, Unsent, Queued, server
<1>7. OrderOK' /\ SureOK' /\ DoneOK'
  BY <1>1, <1>2 DEF OrderOK, SureOK, DoneOK
<1>9. EndOK'
  <2>1. Queued' = Queued /\ Unsent' = {}
    BY <1>1 DEF Queued, Unsent
  <2>2. box'.writes \cap (Queued' \cup Unsent') = {}
    BY <1>2, <2>1 DEF IInv, EndOK
  <2>3. link' = "up" => \A i \in DOMAIN wire' : wire'[i].cmd # "terminate"
    BY DEF IInv, EndOK
  <2>4. ASSUME ~ box'.ended
        PROVE  /\ \A i \in DOMAIN wire' : wire'[i].cmd \notin Ends
               /\ box'.writes \cap durable' = {}
               /\ link' = "up" /\ box'.open => txn' # "none"
    <3>1. ~ box.ended /\ action \notin Ends
      BY <1>2, <2>4
    <3>2. op = None \/ op.action \notin Ends
      BY <3>1
    <3>3. \A i \in DOMAIN wire : wire[i].cmd \notin Ends
      BY <3>1, <3>2 DEF IInv, EndOK
    <3>4. op = None \/ op.action # "commit"
      BY <3>2 DEF Ends
    <3>5. QED
      BY <1>2, <3>1, <3>2, <3>3, <3>4 DEF IInv, EndOK, server
  <2>5. QED
    BY <1>1, <2>2, <2>3, <2>4 DEF EndOK
<1>8. QED
  BY <1>3, <1>4, <1>5, <1>6, <1>7, <1>9 DEF IInv

\* What is known of a call in progress.
LEMMA InProgress ==
    ASSUME IInv, op # None
    PROVE  /\ op \in Operations /\ op.id \in Calls /\ op.action \in Actions
           /\ op.awaits \in {"prepare", "run"}
           /\ op.id = calls /\ calls \in calls..MaxCalls
           /\ link \in {"up", "down"} /\ link \notin Connecting
<1>1. op \in Operations /\ calls \in 0..MaxCalls
  BY DEF IInv, TypeOK
<1>2. op.id = calls /\ link \in {"up", "down"}
  BY DEF IInv, IdsOK, OrderOK
<1>3. QED
  BY <1>1, <1>2, Numbers DEF Operations, Connecting

\* A call on a connection that is lost.
LEMMA CallOnDeadLinkStep ==
    ASSUME IInv, NEW action \in Actions, CallOnDeadLink(action)
    PROVE  IInv'
<1>1. /\ calls + 1 \in Calls /\ calls' \in calls..MaxCalls /\ link \notin Connecting
  BY Numbers DEF CallOnDeadLink, NewCall, Connecting, IInv, TypeOK
<1>2. QED
  BY <1>1, AnswerFails DEF CallOnDeadLink, NewCall

\* A call that sends nothing says nothing of the transaction.
LEMMA UsageErrorStep ==
    ASSUME IInv, UsageError
    PROVE  IInv'
<1>1. /\ link \in {"up", "down"} /\ op = None /\ calls < MaxCalls /\ calls' = calls + 1
      /\ told' = [told EXCEPT ![calls + 1] = "ERROR"]
      /\ UNCHANGED <<clock, deadline, link, op, inbox, wire, server, box, assured,
                     discarded, doubtful, spent>>
  BY DEF UsageError, NewCall
<1>2. calls \in Nat /\ calls + 1 \in Calls /\ calls' \in 0..MaxCalls
  BY <1>1, Numbers DEF IInv, TypeOK
<1>3. TypeOK'
  BY <1>1, <1>2 DEF IInv, TypeOK, server
<1>4. IdsOK'
  <2>1. \A i \in DOMAIN wire : wire[i].id \in Nat
    BY WireIds DEF IInv, TypeOK
  <2>2. 1..calls \subseteq 1..calls' /\ \A i \in DOMAIN wire' : wire'[i].id <= calls'
    BY <1>1, <1>2, <2>1 DEF IInv, IdsOK
  <2>3. QED
    BY <1>1, <2>2 DEF IInv, IdsOK, Queued, server
<1>5. StartOK' /\ TimeOK' /\ OrderOK' /\ DoneOK' /\ AssuredDurable'
  BY <1>1 DEF IInv, StartOK, TimeOK, OrderOK, DoneOK, AssuredDurable, Connecting, server
<1>6. FreshOK' /\ SureOK'
  BY <1>1 DEF IInv, FreshOK, SureOK, Gone, Unsent, Queued, InStep, server
<1>7. EndOK'
  BY <1>1 DEF IInv, EndOK, Unsent, Queued, server
<1>8. QED
  BY <1>3, <1>4, <1>5, <1>6, <1>7 DEF IInv

\* The statement is queued once it is prepared: nothing else is on the wire.
LEMMA PrepareAnsweredStep ==
    ASSUME IInv, PrepareAnswered
    PROVE  IInv'
<1> DEFINE r == [id |-> op.id, cmd |-> op.action]
<1>1. CASE link # "up"
  BY <1>1, InProgress, AnswerFails DEF PrepareAnswered
<1>2. CASE link = "up"
  <2>1. /\ op # None /\ op.awaits = "prepare" /\ inbox = "ok"
        /\ op' = [op EXCEPT !.awaits = "run"]
        /\ inbox' = "nothing" /\ wire' = Append(wire, r)
        /\ UNCHANGED <<clock, deadline, link, server, calls, told, box, assured,
                       discarded, doubtful, spent>>
    BY <1>2 DEF PrepareAnswered
  <2>2. /\ op \in Operations /\ op.id \in Calls /\ op.action \in Actions /\ op.id = calls
        /\ link \notin Connecting
    BY <2>1, InProgress
  <2>3. /\ op' \in Operations /\ op' # None
        /\ op'.id = op.id /\ op'.action = op.action /\ op'.awaits = "run"
    BY <2>1, <2>2, DbAssumption DEF Operations
  <2>4. r \in Requests /\ r.id = calls /\ r.cmd = op.action
    BY <2>2, Numbers DEF Requests
  <2>5. wire = <<>> /\ wire \in Seq(Requests)
    BY <1>2, <2>1 DEF IInv, OrderOK, TypeOK
  <2>6. Queued = {} /\ Len(wire) = 0
    BY <2>5 DEF Queued
  <2> HIDE DEF r
  <2>7. /\ wire' \in Seq(Requests) /\ Len(wire') = 1 /\ wire'[1] = r /\ wire' # <<>>
        /\ \A i \in DOMAIN wire' : i = 1 /\ wire'[i] = r
        /\ Queued' = IF r.cmd = "execute" THEN {r.id} ELSE {}
    BY <2>1, <2>4, <2>5, <2>6, AppendWire
  <2>8. TypeOK'
    BY <2>1, <2>3, <2>7 DEF IInv, TypeOK, server
  <2>9. IdsOK'
    BY <2>1, <2>2, <2>3, <2>4, <2>7, Numbers DEF IInv, IdsOK, server
  <2>10. StartOK' /\ TimeOK' /\ DoneOK' /\ AssuredDurable'
    BY <2>1, <2>2 DEF IInv, StartOK, TimeOK, DoneOK, AssuredDurable, server
  <2>11. OrderOK'
    <3>1. wire'[Len(wire')] = Current'
      BY <2>3, <2>7 DEF Current, r
    <3>2. \A i \in 1..(Len(wire') - 1) : FALSE
      BY <2>7
    <3>3. QED
      BY <1>2, <2>1, <2>3, <2>7, <3>1, <3>2 DEF OrderOK
  <2>12. FreshOK'
    <3>1. Unsent' = {} /\ Unsent = IF r.cmd = "execute" THEN {r.id} ELSE {}
      BY <2>1, <2>2, <2>3, <2>4 DEF Unsent
    <3>2. QED
      BY <2>1, <2>6, <2>7, <3>1 DEF IInv, FreshOK, Gone, server
  <2>13. SureOK'
    BY <1>2, <2>1, <2>3, <2>7 DEF IInv, SureOK, InStep, server
  <2>15. EndOK'
    <3>1. Unsent' = {} /\ Unsent = IF r.cmd = "execute" THEN {r.id} ELSE {}
      BY <2>1, <2>2, <2>3, <2>4 DEF Unsent
    <3>2. box'.writes \cap (Queued' \cup Unsent') = {}
      BY <2>1, <2>7, <3>1 DEF IInv, EndOK
    <3>3. r.cmd = op.action /\ r.cmd # "terminate"
      BY <2>2, <2>4 DEF Actions
    <3>4. \A i \in DOMAIN wire' : wire'[i].cmd = op.action /\ wire'[i].cmd # "terminate"
      BY <2>7, <3>3
    <3>5. QED
      BY <2>1, <2>3, <3>2, <3>3, <3>4 DEF IInv, EndOK, server
  <2>14. QED
    BY <2>8, <2>9, <2>10, <2>11, <2>12, <2>13, <2>15 DEF IInv
<1>3. QED
  BY <1>1, <1>2

\* What the box makes of an answer Ok is of the right kind.
LEMMA BelieveType ==
    ASSUME IInv, op # None
    PROVE  LET b == Believe(op.id, op.action, "OK")
           IN  /\ b \in [open : BOOLEAN, sure : BOOLEAN, ended : BOOLEAN, writes : SUBSET Calls]
               /\ b.sure => box.sure \/ op.action = "rollback"
               /\ b.writes \subseteq box.writes \cup {op.id}
               /\ op.action \in Ends => ~ b.open /\ b.writes = {}
               /\ op.action \notin Ends => b.ended = box.ended
               /\ b.open => box.open \/ op.action = "begin"
               /\ b.writes \subseteq box.writes \/ (op.action = "execute" /\ box.open)
<1>1. op.id \in Calls /\ op.action \in Actions
  BY InProgress
<1>2. box \in [open : BOOLEAN, sure : BOOLEAN, ended : BOOLEAN, writes : SUBSET Calls]
  BY DEF IInv, TypeOK
<1>3. CASE op.action = "begin"
  BY <1>2, <1>3 DEF Believe, Ends
<1>4. CASE op.action = "query"
  BY <1>2, <1>4 DEF Believe, Ends
<1>5. CASE op.action = "execute"
  BY <1>1, <1>2, <1>5 DEF Believe, Ends
<1>6. CASE op.action = "commit"
  BY <1>2, <1>6 DEF Believe, Ends
<1>7. CASE op.action = "rollback"
  BY <1>2, <1>7 DEF Believe, Ends
<1>8. QED
  BY <1>1, <1>3, <1>4, <1>5, <1>6, <1>7 DEF Actions

\* An answer Ok is true.
LEMMA AnswerOk ==
    ASSUME IInv, op # None, op.awaits = "run", inbox = "ok",
           Answer(op.id, op.action, "OK"),
           UNCHANGED <<clock, deadline, link, wire, server, calls, spent>>
    PROVE  IInv'
<1> DEFINE b == Believe(op.id, op.action, "OK")
<1>1. /\ op' = None /\ inbox' = "nothing"
      /\ told' = [told EXCEPT ![op.id] = "OK"]
      /\ box' = b
      /\ assured' = assured \cup Promised(op.id, op.action)
      /\ discarded' = discarded \cup RolledBack(op.action)
      /\ doubtful' = doubtful
            \cup (IF box.sure THEN {} ELSE Promised(op.id, op.action))
            \cup (IF box.ended THEN RolledBack(op.action) ELSE {})
  BY DEF Answer
<1>2. /\ b \in [open : BOOLEAN, sure : BOOLEAN, ended : BOOLEAN, writes : SUBSET Calls]
      /\ b.sure => box.sure \/ op.action = "rollback"
      /\ b.writes \subseteq box.writes \cup {op.id}
      /\ op.action \in Ends => ~ b.open /\ b.writes = {}
      /\ op.action \notin Ends => b.ended = box.ended
      /\ b.open => box.open \/ op.action = "begin"
      /\ b.writes \subseteq box.writes \/ (op.action = "execute" /\ box.open)
  BY BelieveType
<1> HIDE DEF b
<1>3. op.id \in Calls /\ op.id = calls /\ link \notin Connecting
  BY InProgress
<1>4. /\ box.sure => Promised(op.id, op.action) \subseteq durable
      /\ op.action = "rollback" /\ ~ box.ended => Gone(box.writes)
      /\ link = "up" /\ (box.sure \/ op.action = "rollback") => InStep(b)
      /\ link = "up" => wire = <<>>
  BY DEF IInv, DoneOK, OrderOK, b
<1>5. AssuredDurable'
  BY <1>1, <1>4 DEF IInv, AssuredDurable, server
<1>6. Promised(op.id, op.action) \subseteq Calls /\ RolledBack(op.action) \subseteq Calls
  <2>1. box.writes \subseteq Calls
    BY DEF IInv, TypeOK
  <2>2. QED
    BY <1>3, <2>1 DEF Promised, RolledBack
<1>7. assured' \subseteq Calls /\ discarded' \subseteq Calls /\ doubtful' \subseteq Calls
  BY <1>1, <1>6 DEF IInv, TypeOK
<1>8. TypeOK'
  BY <1>1, <1>2, <1>3, <1>7 DEF IInv, TypeOK, server
<1>9. StartOK' /\ TimeOK'
  BY <1>3 DEF IInv, StartOK, TimeOK
<1>10. IdsOK'
  <2>1. op.id \in 1..calls
    BY <1>3, Numbers
  <2>2. discarded' \subseteq discarded \cup box.writes
    BY <1>1 DEF RolledBack
  <2>3. QED
    BY <1>1, <1>2, <2>1, <2>2 DEF IInv, IdsOK, Queued, server
<1>11. OrderOK' /\ DoneOK'
  BY <1>1 DEF OrderOK, DoneOK
<1>12. FreshOK'
  <2>1. Queued' = Queued /\ Unsent' = {}
    BY <1>1 DEF Queued, Unsent
  <2>2. discarded' \ doubtful' \subseteq (discarded \ doubtful) \cup
           (IF op.action = "rollback" /\ ~ box.ended THEN box.writes ELSE {})
    BY <1>1 DEF RolledBack
  <2>3. Gone(discarded \ doubtful)'
    BY <1>4, <2>1, <2>2 DEF IInv, FreshOK, Gone, server
  <2>4. QED
    BY <2>1, <2>3 DEF IInv, FreshOK, server
<1>13. SureOK'
  BY <1>1, <1>2, <1>4 DEF SureOK, InStep, server
<1>15. EndOK'
  <2>1. \A i \in DOMAIN wire : wire[i].cmd = "terminate"
    BY DEF IInv, EndOK
  <2>2. Queued' = {} /\ Unsent' = {}
    BY <1>1, <2>1 DEF Queued, Unsent
  <2>3. \A i \in DOMAIN wire : wire[i].cmd \notin Ends
    BY <2>1 DEF Ends
  <2>4. link = "up" => \A i \in DOMAIN wire : wire[i].cmd # "terminate"
    BY DEF IInv, EndOK
  <2>5. ASSUME ~ b.ended PROVE b.writes \cap durable = {}
    <3>1. CASE op.action \in Ends
      BY <1>2, <3>1
    <3>2. CASE op.action \notin Ends
      <4>1. ~ box.ended /\ op.action # "commit"
        BY <1>2, <2>5, <3>2 DEF Ends
      <4>2. box.writes \cap durable = {}
        BY <4>1 DEF IInv, EndOK
      <4>3. op.action = "execute" /\ box.open => op.id \notin durable
        BY <4>1 DEF IInv, EndOK
      <4>4. QED
        BY <1>2, <4>2, <4>3
    <3>3. QED
      BY <3>1, <3>2
  <2>6. ASSUME ~ b.ended, link = "up", b.open PROVE txn # "none"
    <3>1. op.action \notin Ends /\ ~ box.ended
      BY <1>2, <2>6
    <3>2. QED
      BY <1>2, <2>6, <3>1 DEF IInv, EndOK
  <2>7. QED
    BY <1>1, <2>2, <2>3, <2>4, <2>5, <2>6 DEF EndOK, server
<1>14. QED
  BY <1>5, <1>8, <1>9, <1>10, <1>11, <1>12, <1>13, <1>15 DEF IInv

\* The answer came, or the timer was first.
LEMMA CallReturnsStep ==
    ASSUME IInv, CallReturns \/ TimeOut
    PROVE  IInv'
BY InProgress, AnswerFails, AnswerOk DEF CallReturns, TimeOut
-----------------------------------------------------------------------------
(* The end of the connection. *)

\* The wire gets shorter, or ends with the goodbye: no write is added to it.
LEMMA LinkEnds ==
    ASSUME IInv, link \notin Connecting, link' \in {"down", "closed"},
           UNCHANGED <<clock, deadline, op, server, view, spent>>,
           wire' \in Seq(Requests), Queued' \subseteq Queued,
           \A i \in DOMAIN wire' :
              wire'[i] = Terminate \/ (i \in DOMAIN wire /\ wire'[i] = wire[i]),
           inbox' \in {"nothing", "ok", "error"},
           op = None => inbox' = "nothing",
           op # None => link' = "down" /\ inbox' # "nothing",
           inbox' = "ok" => inbox = "ok"
    PROVE  IInv'
<1>1. Unsent' = Unsent
  BY DEF Unsent
<1>2. TypeOK'
  BY DEF IInv, TypeOK, server, view
<1>3. StartOK' /\ TimeOK' /\ AssuredDurable'
  BY DEF IInv, StartOK, TimeOK, AssuredDurable, Connecting, server, view
<1>4. Terminate.id = 0 /\ Terminate.cmd = "terminate" /\ calls \in Nat
  BY Numbers DEF Terminate, IInv, TypeOK
<1>5. IdsOK'
  <2>1. \A i \in DOMAIN wire' : wire'[i].id <= calls
    BY <1>4 DEF IInv, IdsOK
  <2>2. QED
    BY <2>1 DEF IInv, IdsOK, server, view
<1>6. OrderOK' /\ SureOK'
  BY DEF OrderOK, SureOK
<1>7. FreshOK'
  BY <1>1, <1>4 DEF IInv, FreshOK, Gone, server, view
<1>8. DoneOK'
  <2>1. SUFFICES ASSUME op # None, op.awaits = "run", inbox = "ok"
                 PROVE  /\ box.sure => Promised(op.id, op.action)' \subseteq durable'
                        /\ op.action = "rollback" /\ ~ box.ended => Gone(box.writes)'
    BY DEF DoneOK, view
  <2>2. Promised(op.id, op.action)' = Promised(op.id, op.action)
    BY DEF Promised, view
  <2>3. QED
    BY <1>1, <2>1, <2>2 DEF IInv, DoneOK, Gone, server, view
<1>10. EndOK'
  <2>1. Terminate.cmd \notin Ends
    BY <1>4 DEF Ends
  <2>2. op # None /\ inbox' = "ok" => \A i \in DOMAIN wire' : wire'[i].cmd = "terminate"
    BY <1>4 DEF IInv, EndOK
  <2>3. ~ box.ended => \A i \in DOMAIN wire' :
           wire'[i].cmd \in Ends => op # None /\ wire'[i].cmd = op.action
    BY <2>1 DEF IInv, EndOK
  <2>4. box.writes \cap (Queued' \cup Unsent') = {}
    BY <1>1 DEF IInv, EndOK
  <2>5. QED
    BY <2>2, <2>3, <2>4 DEF IInv, EndOK, server, view
<1>9. QED
  BY <1>2, <1>3, <1>5, <1>6, <1>7, <1>8, <1>10 DEF IInv

\* The session ends.
LEMMA EndSessionStep ==
    ASSUME IInv, EndSession
    PROVE  IInv'
<1>1. /\ op = None /\ link' = "closed" /\ inbox = "nothing"
      /\ UNCHANGED <<clock, deadline, op, inbox, server, view, spent>>
      /\ wire \in Seq(Requests)
  BY DEF EndSession, IInv, OrderOK, TypeOK
<1>2. Terminate \in Requests /\ Terminate.cmd # "execute"
  BY Numbers DEF Terminate, Requests
<1>3. CASE link = "up"
  <2>1. wire' = Append(wire, Terminate) /\ link \notin Connecting
    BY <1>3 DEF EndSession, Connecting
  <2>2. QED
    BY <1>1, <1>2, <2>1, AppendWire, LinkEnds
<1>4. CASE link # "up"
  <2>1. UNCHANGED wire
    BY <1>4 DEF EndSession
  <2>2. Queued' = Queued
    BY <2>1 DEF Queued
  <2>3. CASE link \notin Connecting
    BY <1>1, <2>1, <2>2, <2>3, LinkEnds
  <2>4. CASE link \in Connecting
    <3>1. TypeOK' /\ StartOK' /\ TimeOK'
      BY <1>1, <2>1 DEF IInv, TypeOK, StartOK, TimeOK, Connecting, server, view
    <3>2. OrderOK' /\ SureOK' /\ DoneOK'
      BY <1>1 DEF OrderOK, SureOK, DoneOK
    <3>3. EndOK'
      BY <1>1, <2>1, <2>2 DEF IInv, EndOK, Unsent, server, view
    <3>4. QED
      BY <1>1, <2>1, <3>1, <3>2, <3>3, KeptParts DEF IInv
  <2>5. QED
    BY <2>3, <2>4
<1>5. QED
  BY <1>3, <1>4

\* The connection breaks with some of the requests delivered.
LEMMA ConnectionLostStep ==
    ASSUME IInv, NEW n \in 0..Len(wire), ConnectionLost(n)
    PROVE  IInv'
<1>1. /\ link = "up" /\ link' = "down"
      /\ wire' = Append(SubSeq(wire, 1, n), Terminate)
      /\ inbox' = IF op # None /\ inbox = "nothing" THEN "error" ELSE inbox
      /\ UNCHANGED <<clock, deadline, op, server, view, spent>>
      /\ wire \in Seq(Requests) /\ inbox \in {"nothing", "ok", "error"}
      /\ op = None => inbox = "nothing"
  BY DEF ConnectionLost, IInv, TypeOK, OrderOK
<1>2. QED
  BY <1>1, CutWire, LinkEnds DEF Connecting

-----------------------------------------------------------------------------
(* The server. *)

\* A request adds no write but its own, keeps what is durable, and leaves nothing
\* pending outside a transaction.
LEMMA EffectKeeps ==
    ASSUME IInv, NEW r \in Requests, NEW e \in Effects(r),
           r.cmd = "execute" => r.id \notin durable \cup pending
    PROVE  LET own == IF r.cmd = "execute" THEN {r.id} ELSE {}
           IN  /\ e.txn \in {"none", "open", "failed"}
               /\ e.txn = "none" => e.pending = {}
               /\ durable \subseteq e.durable
               /\ e.durable \cup e.pending \subseteq durable \cup pending \cup own
               /\ e.durable \cap e.pending = {}
<1>1. /\ txn \in {"none", "open", "failed"} /\ (txn = "none" => pending = {})
      /\ durable \cap pending = {}
  BY DEF IInv, TypeOK, FreshOK
<1>2. r.cmd \in Actions \cup {"prepare", "terminate"}
  BY DEF Requests
<1>3. CASE r.cmd \in {"prepare", "query"}
  BY <1>1, <1>3 DEF Effects, Refused, Outcome
<1>4. CASE r.cmd = "execute"
  BY <1>1, <1>4 DEF Effects, Refused, Outcome
<1>5. CASE r.cmd = "begin"
  BY <1>1, <1>5 DEF Effects, Refused, Outcome
<1>6. CASE r.cmd = "commit"
  BY <1>1, <1>6 DEF Effects, Outcome
<1>7. CASE r.cmd \in {"rollback", "terminate"}
  BY <1>1, <1>7 DEF Effects, Outcome
<1>8. QED
  BY <1>2, <1>3, <1>4, <1>5, <1>6, <1>7 DEF Actions

\* A request that the server accepts from a box it is in step with does what the
\* box will believe of it.
LEMMA EffectBelieved ==
    ASSUME IInv, op # None, InStep(box), NEW e \in Effects(Current), e.ok
    PROVE  /\ op.awaits = "prepare" => e.txn = txn /\ e.pending = pending
           /\ op.awaits = "run" =>
                 LET b == Believe(op.id, op.action, "OK")
                 IN  /\ e.txn = IF b.open THEN "open" ELSE "none"
                     /\ e.pending = b.writes
                     /\ Promised(op.id, op.action) \subseteq e.durable
                     /\ op.action = "rollback" => e.pending = {} /\ e.durable = durable
<1>1. /\ txn \in {"none", "open"} /\ (txn = "none" => pending = {})
      /\ txn = (IF box.open THEN "open" ELSE "none") /\ pending = box.writes
      /\ box \in [open : BOOLEAN, sure : BOOLEAN, ended : BOOLEAN, writes : SUBSET Calls]
  BY DEF IInv, TypeOK, FreshOK, InStep
<1>2. op.action \in Actions /\ op.awaits \in {"prepare", "run"}
  BY InProgress
<1>3. CASE op.awaits = "prepare"
  <2>1. Current.cmd = "prepare"
    BY <1>3 DEF Current
  <2>2. QED
    BY <1>1, <1>3, <2>1 DEF Effects, Refused, Outcome
<1>4. CASE op.awaits = "run"
  <2>1. Current.cmd = op.action /\ Current.id = op.id
    BY <1>4 DEF Current
  <2>2. CASE op.action = "query"
    BY <1>1, <1>4, <2>1, <2>2 DEF Effects, Refused, Outcome, Believe, Promised
  <2>3. CASE op.action = "execute"
    BY <1>1, <1>4, <2>1, <2>3 DEF Effects, Refused, Outcome, Believe, Promised
  <2>4. CASE op.action = "begin"
    BY <1>1, <1>4, <2>1, <2>4 DEF Effects, Refused, Outcome, Believe, Promised
  <2>5. CASE op.action = "commit"
    <3>1. e = Outcome("none", {}, durable \cup pending, TRUE)
      BY <1>1, <2>1, <2>5 DEF Effects, Outcome
    <3>2. /\ Believe(op.id, op.action, "OK").open = FALSE
          /\ Believe(op.id, op.action, "OK").writes = {}
          /\ Promised(op.id, op.action) = box.writes
      BY <1>1, <2>5 DEF Believe, Promised
    <3>3. QED
      BY <1>1, <1>4, <2>5, <3>1, <3>2 DEF Outcome
  <2>6. CASE op.action = "rollback"
    BY <1>1, <1>4, <2>1, <2>6 DEF Effects, Outcome, Believe, Promised
  <2>7. QED
    BY <1>2, <2>2, <2>3, <2>4, <2>5, <2>6 DEF Actions
<1>5. QED
  BY <1>2, <1>3, <1>4

\* A rollback ends the transaction whatever came before.
LEMMA RollbackEnds ==
    ASSUME NEW r, r.cmd = "rollback", NEW e \in Effects(r)
    PROVE  e.txn = "none" /\ e.pending = {} /\ e.ok /\ e.durable = durable
BY DEF Effects, Outcome

\* Only the end of a transaction ends it; a write joins the transaction that is
\* open; and only a commit stores more than the write it executes.
LEMMA EffectEnds ==
    ASSUME IInv, NEW r \in Requests, NEW e \in Effects(r)
    PROVE  /\ r.cmd \notin Ends /\ r.cmd # "terminate" /\ txn # "none" => e.txn # "none"
           /\ r.cmd = "begin" /\ e.ok => e.txn # "none"
           /\ r.cmd # "commit" =>
                 e.durable \subseteq durable \cup (IF r.cmd = "execute" THEN {r.id} ELSE {})
           /\ r.cmd = "execute" /\ txn # "none" => e.durable = durable
<1>1. txn \in {"none", "open", "failed"}
  BY DEF IInv, TypeOK
<1>2. r.cmd \in Actions \cup {"prepare", "terminate"}
  BY DEF Requests
<1>3. CASE r.cmd \in {"prepare", "query"}
  BY <1>1, <1>3 DEF Effects, Refused, Outcome
<1>4. CASE r.cmd = "execute"
  BY <1>1, <1>4 DEF Effects, Refused, Outcome
<1>5. CASE r.cmd = "begin"
  BY <1>1, <1>5 DEF Effects, Refused, Outcome
<1>6. CASE r.cmd = "commit"
  BY <1>6 DEF Ends
<1>7. CASE r.cmd \in {"rollback", "terminate"}
  BY <1>7 DEF Effects, Outcome, Ends
<1>8. QED
  BY <1>2, <1>3, <1>4, <1>5, <1>6, <1>7 DEF Actions

\* The server takes the next request and answers it, and the answer reaches the
\* call if it still waits for it.
LEMMA ServerStepStep ==
    ASSUME IInv, ServerStep
    PROVE  IInv'
<1> DEFINE r == Head(wire)
           own == IF r.cmd = "execute" THEN {r.id} ELSE {}
           mine == link = "up" /\ op # None /\ r.id = op.id
<1>t. wire \in Seq(Requests) /\ wire # <<>> /\ wire' = Tail(wire)
  BY DEF ServerStep, IInv, TypeOK
<1>w. /\ wire' \in Seq(Requests)
      /\ Len(wire') = Len(wire) - 1
      /\ r = wire[1] /\ r \in Requests
      /\ 1 \in DOMAIN wire
      /\ \A i \in DOMAIN wire' : i + 1 \in DOMAIN wire /\ wire'[i] = wire[i + 1] /\ i + 1 # 1
      /\ Queued' \subseteq Queued
      /\ r.cmd = "execute" => r.id \in Queued
  BY <1>t, TailWire
<1>1. PICK e \in Effects(r) :
         /\ txn' = e.txn /\ pending' = e.pending /\ durable' = e.durable
         /\ inbox' = IF mine THEN (IF e.ok THEN "ok" ELSE "error") ELSE inbox
  BY DEF ServerStep
<1>2. UNCHANGED <<clock, deadline, link, op, calls, told, box, assured, discarded, doubtful,
                spent>>
  BY DEF ServerStep, view
<1>3. own \subseteq Queued /\ own \cap (durable \cup pending) = {}
  BY <1>w DEF IInv, FreshOK
<1>4. /\ txn' \in {"none", "open", "failed"} /\ (txn' = "none" => pending' = {})
      /\ durable \subseteq durable'
      /\ durable' \cup pending' \subseteq durable \cup pending \cup own
      /\ durable' \cap pending' = {}
  BY <1>1, <1>3, <1>w, EffectKeeps
<1>5. own \cap Queued' = {}
  <2>1. \A i \in DOMAIN wire' : r.cmd = "execute" /\ wire'[i].cmd = "execute" =>
           wire'[i].id # r.id
    BY <1>w DEF IInv, FreshOK
  <2>2. QED
    BY <2>1 DEF Queued
<1>6. Unsent' = Unsent
  BY <1>2 DEF Unsent
<1> HIDE DEF r, own, mine
<1>7. ASSUME NEW S, S \subseteq Calls, Gone(S) PROVE Gone(S)'
  <2>1. S \cap own = {}
    BY <1>3, <1>7 DEF Gone
  <2>2. QED
    BY <1>4, <1>6, <1>7, <1>w, <2>1 DEF Gone
<1>8. TypeOK'
  <2>1. inbox' \in {"nothing", "ok", "error"}
    BY <1>1 DEF IInv, TypeOK
  <2>2. pending' \cup durable' \subseteq 1..calls
    BY <1>3, <1>4 DEF IInv, IdsOK
  <2>3. 1..calls \subseteq Calls
    BY Numbers DEF IInv, TypeOK
  <2>4. QED
    BY <1>2, <1>4, <1>w, <2>1, <2>2, <2>3 DEF IInv, TypeOK
<1>9. TimeOK' /\ AssuredDurable'
  BY <1>2, <1>4 DEF IInv, TimeOK, AssuredDurable
<1>10. StartOK'
  BY <1>2, <1>t DEF IInv, StartOK
<1>11. IdsOK'
  BY <1>2, <1>3, <1>4, <1>w DEF IInv, IdsOK
<1>12. FreshOK'
  <2>1. Gone(discarded \ doubtful)'
    <3>1. Gone(discarded \ doubtful) /\ discarded \ doubtful \subseteq Calls
      BY DEF IInv, TypeOK, FreshOK
    <3>2. (discarded \ doubtful)' = discarded \ doubtful
      BY <1>2
    <3> DEFINE S == discarded \ doubtful
    <3>3. S \subseteq Calls /\ Gone(S)
      BY <3>1
    <3>4. S \cap (durable' \cup pending' \cup Queued' \cup Unsent') = {}
      BY <1>3, <1>4, <1>6, <1>w, <3>3 DEF Gone
    <3>5. QED
      BY <3>2, <3>4 DEF Gone
  <2>2. \A i, j \in DOMAIN wire' :
          i # j /\ wire'[i].cmd = "execute" /\ wire'[j].cmd = "execute" =>
              wire'[i].id # wire'[j].id
    <3>1. \A i, j \in DOMAIN wire' : i # j => i + 1 # j + 1
      BY <1>w
    <3>2. QED
      BY <1>w, <3>1 DEF IInv, FreshOK
  <2>3. own \cap Unsent = {}
    BY <1>3 DEF IInv, FreshOK
  <2>4. (Queued' \cup Unsent') \cap (durable' \cup pending') = {}
    BY <1>3, <1>4, <1>5, <1>6, <1>w, <2>3 DEF IInv, FreshOK
  <2>5. QED
    BY <1>4, <1>6, <1>w, <2>1, <2>2, <2>4 DEF IInv, FreshOK
<1>e. /\ box.writes \cap (Queued' \cup Unsent') = {}
      /\ link = "up" => \A i \in DOMAIN wire' : wire'[i].cmd # "terminate"
      /\ ~ box.ended =>
            /\ \A i \in DOMAIN wire' :
                  wire'[i].cmd \in Ends => op # None /\ wire'[i].cmd = op.action
            /\ op = None \/ op.action # "commit" => box.writes \cap durable' = {}
            /\ link = "up" /\ box.open /\ (op = None \/ op.action \notin Ends) =>
                  txn' # "none"
  <2>1. box.writes \cap (Queued' \cup Unsent') = {} /\ box.writes \cap own = {}
    BY <1>3, <1>6, <1>w DEF IInv, EndOK
  <2>2. link = "up" => r.cmd # "terminate" /\ \A i \in DOMAIN wire' : wire'[i].cmd # "terminate"
    BY <1>w DEF IInv, EndOK
  <2>3. ASSUME ~ box.ended
        PROVE  /\ r.cmd \in Ends => op # None /\ r.cmd = op.action
               /\ \A i \in DOMAIN wire' :
                     wire'[i].cmd \in Ends => op # None /\ wire'[i].cmd = op.action
    BY <1>w, <2>3 DEF IInv, EndOK
  <2>4. ASSUME ~ box.ended, op = None \/ op.action # "commit"
        PROVE  box.writes \cap durable' = {}
    <3>1. r.cmd # "commit"
      BY <2>3, <2>4 DEF Ends
    <3>2. durable' \subseteq durable \cup own
      BY <1>1, <1>w, <3>1, EffectEnds DEF own
    <3>3. box.writes \cap durable = {}
      BY <2>4 DEF IInv, EndOK
    <3>4. QED
      BY <2>1, <3>2, <3>3
  <2>5. ASSUME ~ box.ended, link = "up", box.open, op = None \/ op.action \notin Ends
        PROVE  txn' # "none"
    <3>1. r.cmd \notin Ends /\ r.cmd # "terminate"
      BY <2>2, <2>3, <2>5
    <3>2. txn # "none"
      BY <2>5 DEF IInv, EndOK
    <3>3. QED
      BY <1>1, <1>w, <3>1, <3>2, EffectEnds
  <2>6. QED
    BY <2>1, <2>2, <2>3, <2>4, <2>5
<1>13. CASE mine
  <2>1. op # None /\ link = "up" /\ r.id = op.id
    BY <1>13 DEF mine
  <2>2. inbox = "nothing"
    BY <1>t, <2>1 DEF IInv, OrderOK, TypeOK
  <2>3. Len(wire) = 1 /\ r = Current
    <3>1. Len(wire) \in Nat /\ Len(wire) > 0
      BY <1>t
    <3>2. wire[Len(wire)] = Current /\ \A i \in 1..(Len(wire) - 1) : wire[i].id # op.id
      BY <2>1, <2>2 DEF IInv, OrderOK
    <3>3. QED
      BY <1>w, <2>1, <3>1, <3>2
  <2>4. wire' = <<>>
    BY <1>w, <2>3
  <2>5. inbox' = IF e.ok THEN "ok" ELSE "error"
    BY <1>1, <1>13
  <2>6. OrderOK'
    BY <1>2, <2>1, <2>4, <2>5 DEF OrderOK
  <2>7. box.sure => InStep(box)
    BY <2>1, <2>2 DEF IInv, SureOK
  <2>8. SureOK'
    BY <1>1, <1>2, <2>1, <2>3, <2>5, <2>7, EffectBelieved DEF SureOK, InStep
  <2>9. DoneOK'
    <3>1. SUFFICES ASSUME op.awaits = "run", e.ok
                   PROVE  /\ box.sure => Promised(op.id, op.action)' \subseteq durable'
                          /\ op.action = "rollback" /\ ~ box.ended => Gone(box.writes)'
                          /\ (box.sure \/ op.action = "rollback") =>
                                InStep(Believe(op.id, op.action, "OK"))'
      BY <1>2, <2>5 DEF DoneOK
    <3>2. /\ Promised(op.id, op.action)' = Promised(op.id, op.action)
          /\ Believe(op.id, op.action, "OK")' = Believe(op.id, op.action, "OK")
      BY <1>2 DEF Promised, Believe
    <3>3. ASSUME box.sure
          PROVE  /\ Promised(op.id, op.action) \subseteq durable'
                 /\ InStep(Believe(op.id, op.action, "OK"))'
      <4>1. InStep(box)
        BY <2>7, <3>3
      <4>2. QED
        BY <1>1, <2>1, <2>3, <3>1, <3>2, <4>1, EffectBelieved DEF InStep
    <3>4. ASSUME op.action = "rollback"
          PROVE  /\ txn' = "none" /\ pending' = {} /\ durable' = durable
                 /\ InStep(Believe(op.id, op.action, "OK"))'
      <4>1. r.cmd = "rollback"
        BY <2>3, <3>1, <3>4 DEF Current
      <4>2. txn' = "none" /\ pending' = {} /\ durable' = durable
        BY <1>1, <4>1, RollbackEnds
      <4>3. /\ Believe(op.id, op.action, "OK").open = FALSE
            /\ Believe(op.id, op.action, "OK").writes = {}
        BY <3>4 DEF Believe
      <4>4. QED
        BY <3>2, <4>2, <4>3 DEF InStep
    <3>5. ASSUME op.action = "rollback", ~ box.ended PROVE Gone(box.writes)'
      <4>1. box.writes \cap durable = {} /\ box.writes \cap Queued = {}
        BY <3>5 DEF IInv, EndOK
      <4>2. Unsent = {}
        BY <3>5 DEF Unsent
      <4>3. pending' = {} /\ durable' = durable
        BY <3>4, <3>5
      <4>4. QED
        BY <1>2, <1>6, <1>w, <4>1, <4>2, <4>3 DEF Gone
    <3>6. QED
      BY <3>2, <3>3, <3>4, <3>5
  <2>11. EndOK'
    <3>1. \A i \in DOMAIN wire' : FALSE
      BY <2>4
    <3>2. op.action = "begin" /\ op.awaits = "run" /\ e.ok => txn' # "none"
      <4>1. op.action = "begin" /\ op.awaits = "run" => r.cmd = "begin"
        BY <2>3 DEF Current
      <4>2. QED
        BY <1>1, <1>w, <4>1, EffectEnds
    <3>3. ASSUME ~ box.ended, op.action = "execute", op.awaits = "run", box.open
          PROVE  op.id \notin durable'
      <4>1. r.cmd = "execute"
        BY <2>3, <3>3 DEF Current
      <4>2. txn # "none"
        BY <2>1, <3>3 DEF IInv, EndOK, Ends
      <4>3. durable' = durable
        BY <1>1, <1>w, <4>1, <4>2, EffectEnds
      <4>4. op.id \in own
        BY <2>1, <4>1 DEF own
      <4>5. QED
        BY <1>3, <4>3, <4>4
    <3>4. QED
      BY <1>2, <1>e, <2>1, <2>5, <3>1, <3>2, <3>3 DEF EndOK
  <2>10. QED
    BY <1>8, <1>9, <1>10, <1>11, <1>12, <2>6, <2>8, <2>9, <2>11 DEF IInv
<1>14. CASE ~ mine
  <2>1. inbox' = inbox
    BY <1>1, <1>14
  <2>2. op # None /\ link = "up" =>
           /\ inbox = "nothing" /\ Len(wire) > 1 /\ ~ box.sure
    <3>1. SUFFICES ASSUME op # None, link = "up"
                   PROVE  inbox = "nothing" /\ Len(wire) > 1 /\ ~ box.sure
      OBVIOUS
    <3>2. inbox = "nothing"
      BY <1>t, <3>1 DEF IInv, OrderOK
    <3>3. Len(wire) # 1
      BY <1>14, <1>w, <3>1, <3>2 DEF IInv, OrderOK, Current, mine
    <3>4. Len(wire) \in Nat /\ Len(wire) > 0
      BY <1>t
    <3>5. ~ box.sure
      BY <3>1, <3>2, <3>3 DEF IInv, SureOK
    <3>6. Len(wire) > 1
      BY <3>3, <3>4
    <3>7. QED
      BY <3>2, <3>5, <3>6
  <2>3. OrderOK'
    <3>1. ASSUME op # None, link = "up"
          PROVE  /\ wire' # <<>> /\ wire'[Len(wire')] = Current'
                 /\ \A i \in 1..(Len(wire') - 1) : wire'[i].id # op.id
      <4>1. Len(wire) \in Nat /\ Len(wire) > 1 /\ DOMAIN wire' = 1..(Len(wire) - 1)
        BY <1>t, <1>w, <2>2, <3>1
      <4>2. wire[Len(wire)] = Current /\ \A i \in 1..(Len(wire) - 1) : wire[i].id # op.id
        BY <2>2, <3>1 DEF IInv, OrderOK
      <4>3. wire'[Len(wire')] = wire[Len(wire)]
        BY <1>w, <4>1
      <4>4. Current' = Current
        BY <1>2 DEF Current
      <4>5. \A i \in 1..(Len(wire') - 1) : wire'[i].id # op.id
        BY <1>w, <4>1, <4>2
      <4>6. QED
        BY <1>w, <4>1, <4>2, <4>3, <4>4, <4>5
    <3>2. QED
      BY <1>2, <2>1, <2>2, <3>1 DEF IInv, OrderOK
  <2>4. SureOK'
    BY <1>2, <1>t, <2>1, <2>2 DEF IInv, SureOK
  <2>5. DoneOK'
    <3>1. SUFFICES ASSUME op # None, op.awaits = "run", inbox = "ok"
                   PROVE  /\ box.sure => Promised(op.id, op.action)' \subseteq durable'
                          /\ op.action = "rollback" /\ ~ box.ended => Gone(box.writes)'
      BY <1>2, <2>1, <2>2 DEF DoneOK
    <3>2. Promised(op.id, op.action)' = Promised(op.id, op.action)
      BY <1>2 DEF Promised
    <3>3. op.action = "rollback" /\ ~ box.ended => Gone(box.writes)'
      BY <1>2, <1>7, <3>1 DEF IInv, DoneOK, TypeOK, Gone
    <3>4. QED
      BY <1>4, <3>1, <3>2, <3>3 DEF IInv, DoneOK
  <2>7. EndOK'
    <3>1. ASSUME op # None, inbox = "ok"
          PROVE  /\ \A i \in DOMAIN wire' : wire'[i].cmd = "terminate"
                 /\ durable' \subseteq durable
      <4>1. r.cmd = "terminate" /\ \A i \in DOMAIN wire' : wire'[i].cmd = "terminate"
        BY <1>w, <3>1 DEF IInv, EndOK
      <4>2. QED
        BY <1>1, <1>w, <4>1, EffectEnds
    <3>2. op # None /\ inbox = "ok" => link # "up"
      BY <2>2
    <3>3. QED
      BY <1>2, <1>e, <2>1, <3>1, <3>2 DEF IInv, EndOK
  <2>6. QED
    BY <1>8, <1>9, <1>10, <1>11, <1>12, <2>3, <2>4, <2>5, <2>7 DEF IInv
<1>15. QED
  BY <1>13, <1>14
-----------------------------------------------------------------------------
(* What follows for every behaviour. *)

\* A session starts with nothing asked, nothing stored and no time spent.
LEMMA InitIInv == Init => IInv
<1> SUFFICES ASSUME Init PROVE IInv
  OBVIOUS
<1>1. Queued = {} /\ Unsent = {}
  BY DEF Init, Queued, Unsent
<1>2. TypeOK
  BY Numbers DEF Init, TypeOK
<1>3. StartOK /\ OrderOK /\ SureOK /\ DoneOK
  BY DEF Init, StartOK, OrderOK, SureOK, DoneOK, InStep, Connecting
<1>4. IdsOK /\ FreshOK /\ AssuredDurable
  BY <1>1 DEF Init, IdsOK, FreshOK, AssuredDurable, Gone
<1>5. TimeOK
  BY Numbers DEF Init, TimeOK
<1>6. EndOK
  BY <1>1 DEF Init, EndOK
<1>7. QED
  BY <1>2, <1>3, <1>4, <1>5, <1>6 DEF IInv

\* Every step of the daemon, of the connection and of the server keeps the
\* invariant.
LEMMA NextIInv == IInv /\ [Next]_vars => IInv'
<1> SUFFICES ASSUME IInv, [Next]_vars PROVE IInv'
  OBVIOUS
<1>1. CASE Call
  BY <1>1, StartCallStep, CallOnDeadLinkStep, UsageErrorStep DEF Call
<1>2. CASE Drive
  BY <1>2, PrepareAnsweredStep, CallReturnsStep DEF Drive
<1>3. CASE Over \/ UNCHANGED vars
  BY <1>3, StutterStep DEF Over
<1>4. QED
  BY <1>1, <1>2, <1>3, ConnectStep, TickStep, EndSessionStep, ConnectionLostStep,
     ServerStepStep DEF Next

\* The inductive invariant holds in every reachable state.
THEOREM Invariance == Spec => []IInv
BY InitIInv, NextIInv, PTL DEF Spec

\* Every variable keeps its type.
THEOREM TypeCorrect == Spec => []TypeOK
<1>1. IInv => TypeOK
  BY DEF IInv
<1>2. QED
  BY <1>1, Invariance, PTL

\* A write the box was told is committed is committed, however the connection
\* breaks afterwards, unless a call was answered with an error or a timeout since
\* the session began or the last rollback was answered Ok: an answer Ok is never
\* taken for that of another request (do_execute, do_simple).  Nothing is claimed
\* of what is told after such an answer and before a rollback.
THEOREM OkIsDurable == Spec => []AssuredDurable
<1>1. IInv => AssuredDurable
  BY DEF IInv
<1>2. QED
  BY <1>1, Invariance, PTL

\* A write that the box was told is rolled back is never committed, whatever
\* statements failed or timed out in its transaction, and not even by a request
\* that was still queued when the connection broke, unless a commit or a rollback
\* before it was answered with an error or a timeout and none Ok since (do_simple).
THEOREM RolledBackIsGone == Spec => []DiscardedNeverDurable
<1>1. IInv => DiscardedNeverDurable
  <2> SUFFICES ASSUME IInv PROVE DiscardedNeverDurable
    OBVIOUS
  <2>1. (discarded \ doubtful) \cap durable = {}
    BY DEF IInv, FreshOK, Gone
  <2>2. QED
    BY <2>1 DEF DiscardedNeverDurable
<1>2. QED
  BY <1>1, Invariance, PTL

\* The time spent inside db calls is bounded by the one budget of the session
\* (block_on_db, the absolute deadline of DbBackend).
THEOREM BudgetHolds == Spec => []CallTimeBounded
<1>1. IInv => CallTimeBounded
  BY DEF IInv, TimeOK, CallTimeBounded
<1>2. QED
  BY <1>1, Invariance, PTL
=============================================================================
