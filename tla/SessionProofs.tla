---------------------------- MODULE SessionProofs ----------------------------
(***************************************************************************)
(* Safety of the concurrent sessions for any number of sessions, any       *)
(* operator table, any frames and any breaker threshold.                   *)
(*                                                                         *)
(* The inductive invariant IInv says, per session, which data go with each *)
(* control state (ControlOK), that a wired slot holds a config (SlotsOK),  *)
(* and how the connects counted so far relate to the connect-once cell     *)
(* (OnceOK).  On top of it AuthOK says who has authenticated, MeterOK how  *)
(* the metrics relate to the calls and to the replies, and ProbeAccounted  *)
(* is inductive itself.  The last section shows each step to be one of the *)
(* wire contract or to leave it alone.                                     *)
(***************************************************************************)
EXTENDS Session, SessionOpenProofs

\* Where a response is being written, and where a call runs.
Writing == {"rejecting", "acking", "replying"}

Running == {"queued", "connecting", "driving"}

\* What a session in each control state owes its box and holds to answer it.
OwedOK(s) ==
    /\ pc[s] \in {"await_init", "serving", "closed"} => request[s] = "nothing"
    /\ pc[s] \in Running => request[s] = "Call"
    /\ pc[s] \in Writing => response[s] \in WireResponse
    /\ pc[s] = "acking" => request[s] = "Init" /\ response[s].type = "Ack"
    /\ pc[s] = "rejecting" =>
          \/ request[s] = "Init" /\ response[s].type = "InitError"
          \/ /\ request[s] \in {"Call", "Drain"}
             /\ response[s].type = "ProtocolError"
    /\ pc[s] = "replying" =>
          \/ request[s] = "Call" /\ response[s].type \in {"Reply", "ProtocolError"}
          \/ request[s] = "Drain" /\ response[s].type = "Metrics"
          \/ request[s] = "Init" /\ response[s].type = "ProtocolError"

\* The call of a session that runs one, and the slot it runs it in.
RunOK(s) ==
    /\ pc[s] \in Running => call[s] \in WireCall
    /\ pc[s] \in {"connecting", "driving"} => Kind(s) \in Kinds
    /\ pc[s] = "connecting" => slots[s][Kind(s)].state = "empty"
    /\ pc[s] = "driving" => slots[s][Kind(s)].state = "ok"
    /\ pc[s] = "replying" /\ response[s].type = "Reply" /\ response[s].code = "OK"
          => Kind(s) \in Kinds
    /\ pc[s] = "await_init" => slots[s] = NoBackends

ControlOK == \A s \in Sessions : OwedOK(s) /\ RunOK(s)

\* A slot is wired exactly when it has a config.
SlotsOK ==
    \A s \in Sessions, k \in Kinds :
        /\ slots[s][k].state # "none" => slots[s][k].config \in TenantResourceBinding
        /\ slots[s][k].state = "err" => slots[s][k].code # "OK"

\* Of the connects a session started, all but the panicked ones have settled
\* the cell or are under way.
OnceOK ==
    \A s \in Sessions, k \in Kinds :
        /\ attempts[s][k] <= 1 + panics[s][k]
        /\ pc[s] = "await_init" => attempts[s][k] <= panics[s][k]
        /\ slots[s][k].state = "empty" /\ ~(pc[s] = "connecting" /\ Kind(s) = k)
              => attempts[s][k] <= panics[s][k]

\* The invariant that is inductive.
IInv ==
    /\ TypeOK
    /\ ControlOK
    /\ SlotsOK
    /\ TenantIsolation
    /\ OnceOK

-----------------------------------------------------------------------------
(* Values the actions build. *)

\* The responses `serve` writes are wire responses of their own type.
LEMMA ResponseTypes ==
    /\ Ack \in WireResponse /\ Ack.type = "Ack"
    /\ ProtocolError \in WireResponse /\ ProtocolError.type = "ProtocolError"
    /\ \A code \in Codes :
          /\ InitError(code) \in WireResponse /\ InitError(code).type = "InitError"
          /\ Reply(code) \in WireResponse /\ Reply(code).type = "Reply"
          /\ Reply(code).code = code
BY DEF Ack, ProtocolError, InitError, Reply, Response, WireResponse, NoCounts,
       Codes, ReplyCodes

\* A drain reports numbers.
LEMMA MetricsType ==
    ASSUME NEW set \in [Kinds -> Slot]
    PROVE  metrics(set) \in [Kinds -> Nat]
BY DEF metrics, Slot

\* A session without backends has no wired slot.
LEMMA NoBackendsType ==
    /\ NoBackends \in [Kinds -> Slot]
    /\ \A k \in Kinds : NoBackends[k].state = "none"
BY DEF NoBackends, NoSlot, Slot, Codes, ReplyCodes

\* What the breaker answers and becomes is a breaker state.
LEMMA AllowType ==
    ASSUME NEW b \in BreakerState, NEW a \in allow(b)
    PROVE  a.next \in BreakerState
BY ThresholdAssumption DEF allow, BreakerState

\* record leaves the breaker of a target well formed.
LEMMA RecordType ==
    ASSUME NEW b \in BreakerState, NEW ok \in BOOLEAN, NEW r \in record(b, ok)
    PROVE  r \in BreakerState
BY ThresholdAssumption DEF record, BreakerState, ClosedBreaker, OpenBreaker

\* Settling a cell changes the state and the code of one slot.
LEMMA SettleResult ==
    ASSUME TypeOK, NEW s \in Sessions, Kind(s) \in Kinds,
           NEW state \in {"ok", "err"}, NEW code \in Codes,
           Settle(s, state, code)
    PROVE  /\ slots' \in [Sessions -> [Kinds -> Slot]]
           /\ slots'[s][Kind(s)].state = state
           /\ slots'[s][Kind(s)].code = code
           /\ slots'[s][Kind(s)].config = slots[s][Kind(s)].config
           /\ \A r \in Sessions, k \in Kinds :
                 r # s \/ k # Kind(s) => slots'[r][k] = slots[r][k]
<1>1. slots[s] \in [Kinds -> Slot] /\ slots[s][Kind(s)] \in Slot
  BY DEF TypeOK
<1> DEFINE new == [slots[s][Kind(s)] EXCEPT !.state = state, !.code = code]
<1>2. /\ new \in Slot /\ new.state = state /\ new.code = code
      /\ new.config = slots[s][Kind(s)].config
  BY <1>1 DEF Slot
<1>3. slots' = [slots EXCEPT ![s] = [slots[s] EXCEPT ![Kind(s)] = new]]
  BY <1>1, TypeOK DEF Settle, TypeOK, Slot
<1> HIDE DEF new
<1>4. QED
  BY <1>1, <1>2, <1>3 DEF TypeOK

-----------------------------------------------------------------------------
(* Every action preserves IInv. *)

\* Steps that leave the slots and the Init alone.
LEMMA SlotsKept ==
    ASSUME IInv, UNCHANGED <<slots, init>>
    PROVE  SlotsOK' /\ TenantIsolation'
BY DEF IInv, SlotsOK, TenantIsolation

\* A first frame that is no Init is refused; nothing is wired.
LEMMA FirstFrameNotInitStep ==
    ASSUME IInv, NEW s \in Sessions, NEW kind, FirstFrameNotInit(s, kind)
    PROVE  IInv'
<1>1. TypeOK'
  BY ResponseTypes DEF IInv, TypeOK, FirstFrameNotInit, Take, StartWriting,
     shared, history, PC
<1>2. ControlOK'
  BY ResponseTypes DEF IInv, TypeOK, ControlOK, OwedOK, RunOK, Kind, Writing,
     Running, FirstFrameNotInit, Take, StartWriting
<1>3. SlotsOK' /\ TenantIsolation'
  BY SlotsKept DEF FirstFrameNotInit
<1>4. OnceOK'
  BY DEF IInv, TypeOK, OnceOK, Kind, FirstFrameNotInit, StartWriting, history
<1>5. QED
  BY <1>1, <1>2, <1>3, <1>4 DEF IInv

\* A drain answers with the metrics of the session's own slots.
LEMMA ReceiveDrainStep ==
    ASSUME IInv, NEW s \in Sessions, ReceiveDrain(s)
    PROVE  IInv'
<1> DEFINE r == [type |-> "Metrics", code |-> "OK", ops |-> metrics(slots[s])]
<1>1. r \in WireResponse /\ r.type = "Metrics"
  BY MetricsType DEF IInv, TypeOK, WireResponse, Codes, ReplyCodes
<1>2. /\ response' = [response EXCEPT ![s] = r]
      /\ pc' = [pc EXCEPT ![s] = "replying"]
      /\ pc[s] = "serving"
      /\ Take(s, "Drain")
      /\ UNCHANGED <<init, call, slots, shared, delivered, called, oks, history>>
  BY DEF ReceiveDrain, StartWriting
<1> HIDE DEF r
<1>3. TypeOK'
  BY <1>1, <1>2 DEF IInv, TypeOK, Take, shared, history, PC
<1>4. ControlOK'
  BY <1>1, <1>2 DEF IInv, TypeOK, ControlOK, OwedOK, RunOK, Kind, Writing,
     Running, Take
<1>5. SlotsOK' /\ TenantIsolation'
  BY <1>2, SlotsKept
<1>6. OnceOK'
  BY <1>2 DEF IInv, TypeOK, OnceOK, Kind, history
<1>7. QED
  BY <1>3, <1>4, <1>5, <1>6 DEF IInv

\* A second Init is refused and changes no slot.
LEMMA ReceiveSecondInitStep ==
    ASSUME IInv, NEW s \in Sessions, ReceiveSecondInit(s)
    PROVE  IInv'
<1>1. TypeOK'
  BY ResponseTypes DEF IInv, TypeOK, ReceiveSecondInit, Take, StartWriting,
     shared, history, PC
<1>2. ControlOK'
  BY ResponseTypes DEF IInv, TypeOK, ControlOK, OwedOK, RunOK, Kind, Writing,
     Running, ReceiveSecondInit, Take, StartWriting
<1>3. SlotsOK' /\ TenantIsolation'
  BY SlotsKept DEF ReceiveSecondInit
<1>4. OnceOK'
  BY DEF IInv, TypeOK, OnceOK, Kind, ReceiveSecondInit, StartWriting, history
<1>5. QED
  BY <1>1, <1>2, <1>3, <1>4 DEF IInv

\* The two refusals of an Init: nothing is wired for the session.
LEMMA RefuseInit ==
    ASSUME IInv, NEW s \in Sessions, NEW i \in Inits, NEW code \in Codes,
           ReceiveInit(s, i),
           StartWriting(s, InitError(code), "rejecting"),
           UNCHANGED slots, auth_failures' \in Nat
    PROVE  IInv'
<1>1. TypeOK'
  BY ResponseTypes, SessionAssumption DEF IInv, TypeOK, ReceiveInit, Take,
     StartWriting, history, PC
<1>2. ControlOK'
  BY ResponseTypes DEF IInv, TypeOK, ControlOK, OwedOK, RunOK, Kind, Writing,
     Running, ReceiveInit, Take, StartWriting
<1>3. SlotsOK'
  BY DEF IInv, SlotsOK
<1>4. TenantIsolation'
  BY NoBackendsType DEF IInv, TypeOK, ControlOK, RunOK, TenantIsolation,
     ReceiveInit
<1>5. OnceOK'
  BY DEF IInv, TypeOK, OnceOK, Kind, ReceiveInit, StartWriting, history
<1>6. QED
  BY <1>1, <1>2, <1>3, <1>4, <1>5 DEF IInv

\* A refused token leaves the session without an Init's wiring.
LEMMA RejectClientStep ==
    ASSUME IInv, NEW s \in Sessions, NEW i \in Inits, NEW verified,
           RejectClient(s, i, verified)
    PROVE  IInv'
<1>1. "UNAUTHENTICATED" \in Codes
  BY DEF Codes
<1>2. auth_failures' \in Nat
  BY DEF RejectClient, IInv, TypeOK
<1>3. QED
  BY <1>1, <1>2, RefuseInit DEF RejectClient

\* An Init that does not resolve wires nothing.
LEMMA RejectNamesStep ==
    ASSUME IInv, NEW s \in Sessions, NEW i \in Inits, NEW verified,
           RejectNames(s, i, verified)
    PROVE  IInv'
<1> DEFINE code == resolve(Table, i.tenant, i.names).code
<1>1. i.tenant \in Tenants \cup {None} /\ i.names \in Selections
  BY SessionAssumption DEF WireInit
<1>2. code \in Codes
  BY <1>1, ResolveResult, SessionAssumption DEF Codes, ReplyCodes
<1>3. auth_failures' \in Nat
  BY DEF RejectNames, IInv, TypeOK
<1>4. /\ ReceiveInit(s, i)
      /\ StartWriting(s, InitError(code), "rejecting")
      /\ UNCHANGED slots
  BY DEF RejectNames
<1> HIDE DEF code
<1>5. QED
  BY <1>2, <1>3, <1>4, RefuseInit

\* Only here are slots wired: from what `resolve` hands out for this Init.
LEMMA AcceptInitStep ==
    ASSUME IInv, NEW s \in Sessions, NEW i \in Inits, NEW verified,
           AcceptInit(s, i, verified)
    PROVE  IInv'
<1> DEFINE configs == resolve(Table, i.tenant, i.names).configs
           c == clamp_db_statement_timeout(configs, Ceiling)
           new == from_configs(c)
<1>1. i \in WireInit /\ i.tenant \in Tenants \cup {None} /\ i.names \in Selections
  BY SessionAssumption DEF WireInit
<1>2. /\ configs \in ResolvedConfigs
      /\ \A k \in Kinds : configs[k] # None =>
            /\ i.names[k] # None
            /\ Table[i.names[k]] # None
            /\ configs[k] = Table[i.names[k]]
            /\ Table[i.names[k]].tenant = i.tenant
            /\ Table[i.names[k]].kind = k
  BY <1>1, ResolveResult, SessionAssumption
<1>3. /\ c \in ResolvedConfigs
      /\ \A k \in Kinds : c[k] # None =>
            configs[k] # None /\ c[k].target = configs[k].target
  BY <1>2, ClampResult, SessionAssumption
<1>4. /\ pc[s] = "await_init"
      /\ Take(s, "Init")
      /\ init' = [init EXCEPT ![s] = i]
      /\ slots' = [slots EXCEPT ![s] = new]
      /\ response' = [response EXCEPT ![s] = Ack]
      /\ pc' = [pc EXCEPT ![s] = "acking"]
      /\ UNCHANGED <<call, breaker, delivered, called, oks, history, auth_failures>>
  BY DEF AcceptInit, ReceiveInit, StartWriting
<1> HIDE DEF configs, c
<1>5. \A k \in Kinds :
        new[k] = IF c[k] = None THEN NoSlot
                 ELSE [state |-> IF k = "amq" THEN "ok" ELSE "empty",
                       config |-> c[k], code |-> "OK", ops |-> 0]
  BY DEF from_configs
<1>6. \A k \in Kinds : c[k] \in TenantResourceBinding \cup {None}
  BY <1>3 DEF ResolvedConfigs
<1>7. /\ new \in [Kinds -> Slot]
      /\ \A k \in Kinds :
            /\ new[k].state # "err"
            /\ new[k].state # "none" =>
                  /\ c[k] # None
                  /\ new[k].config = c[k]
                  /\ new[k].config \in TenantResourceBinding
  <2>1. ASSUME NEW k \in Kinds
        PROVE  /\ new[k] \in Slot
               /\ new[k].state # "err"
               /\ new[k].state # "none" =>
                     /\ c[k] # None
                     /\ new[k].config = c[k]
                     /\ new[k].config \in TenantResourceBinding
    <3>1. "OK" \in Codes
      BY DEF Codes, ReplyCodes
    <3>2. CASE c[k] = None
      <4>1. new[k] = NoSlot
        BY <1>5, <3>2
      <4> HIDE DEF new
      <4>2. NoSlot \in Slot /\ NoSlot.state = "none"
        BY <3>1 DEF NoSlot, Slot
      <4>3. QED
        BY <4>1, <4>2
    <3>3. CASE c[k] # None
      <4>1. c[k] \in TenantResourceBinding
        BY <1>6, <3>3
      <4>2. new[k] = [state |-> IF k = "amq" THEN "ok" ELSE "empty",
                      config |-> c[k], code |-> "OK", ops |-> 0]
        BY <1>5, <3>3
      <4> HIDE DEF new
      <4>3. QED
        BY <3>1, <3>3, <4>1, <4>2 DEF Slot
    <3>4. QED
      BY <3>2, <3>3
  <2>2. new = [k \in Kinds |-> new[k]]
    BY DEF from_configs
  <2> HIDE DEF new
  <2>3. QED
    BY <2>1, <2>2
<1> HIDE DEF new
<1>8. TypeOK'
  BY <1>1, <1>4, <1>7, ResponseTypes DEF IInv, TypeOK, Take, history, PC
<1>9. ControlOK'
  BY <1>4, ResponseTypes DEF IInv, TypeOK, ControlOK, OwedOK, RunOK, Kind,
     Writing, Running, Take
<1>10. SlotsOK'
  BY <1>4, <1>7 DEF IInv, TypeOK, SlotsOK
<1>11. TenantIsolation'
  <2>1. i # None
    BY <1>1, SessionAssumption
  <2>2. ASSUME NEW r \in Sessions, NEW k \in Kinds, slots'[r][k].state # "none",
               r # s
        PROVE  /\ init'[r] = init[r] /\ slots'[r] = slots[r]
    BY <2>2, <1>4 DEF IInv, TypeOK
  <2>3. init'[s] = i /\ slots'[s] = new
    BY <1>4 DEF IInv, TypeOK
  <2>4. ASSUME NEW k \in Kinds, new[k].state # "none"
        PROVE  /\ i.names[k] # None
               /\ Table[i.names[k]] # None
               /\ Table[i.names[k]].tenant = i.tenant
               /\ Table[i.names[k]].kind = k
               /\ new[k].config.target = Table[i.names[k]].target
    BY <2>4, <1>2, <1>3, <1>7
  <2>5. QED
    BY <2>1, <2>2, <2>3, <2>4 DEF IInv, TenantIsolation
<1>12. OnceOK'
  BY <1>4 DEF IInv, TypeOK, OnceOK, Kind, history
<1>13. QED
  BY <1>8, <1>9, <1>10, <1>11, <1>12 DEF IInv

\* A call enters the blocking pool's queue with its kind.
LEMMA ReceiveCallStep ==
    ASSUME IInv, NEW s \in Sessions, NEW c \in Calls, ReceiveCall(s, c)
    PROVE  IInv'
<1>1. c \in WireCall
  BY SessionAssumption
<1>2. called' \in [Sessions -> [Kinds -> Nat]]
  BY DEF ReceiveCall, IInv, TypeOK
<1>3. TypeOK'
  BY <1>1, <1>2 DEF IInv, TypeOK, ReceiveCall, Take, shared, history, PC
<1>4. ControlOK'
  BY <1>1 DEF IInv, TypeOK, ControlOK, OwedOK, RunOK, Kind, Writing, Running,
     ReceiveCall, Take
<1>5. SlotsOK' /\ TenantIsolation'
  BY SlotsKept DEF ReceiveCall
<1>6. OnceOK'
  BY DEF IInv, TypeOK, OnceOK, Kind, ReceiveCall, history
<1>7. QED
  BY <1>3, <1>4, <1>5, <1>6 DEF IInv

\* A session that ends drops its slots.
LEMMA SlotsDropped ==
    ASSUME IInv, NEW s \in Sessions,
           slots' = [slots EXCEPT ![s] = NoBackends],
           pc' = [pc EXCEPT ![s] = "closed"],
           \A r \in Sessions : r # s => call'[r] = call[r],
           UNCHANGED <<init, history>>
    PROVE  SlotsOK' /\ TenantIsolation' /\ OnceOK'
<1>1. SlotsOK' /\ TenantIsolation'
  BY NoBackendsType DEF IInv, TypeOK, SlotsOK, TenantIsolation
<1>2. OnceOK'
  BY NoBackendsType DEF IInv, TypeOK, OnceOK, Kind, history
<1>3. QED
  BY <1>1, <1>2

\* A session whose box closes drops its backend set.
LEMMA EndOfInputStep ==
    ASSUME IInv, NEW s \in Sessions, EndOfInput(s)
    PROVE  IInv'
<1>1. TypeOK'
  BY NoBackendsType DEF IInv, TypeOK, EndOfInput, shared, box, history, PC
<1>2. ControlOK'
  BY DEF IInv, TypeOK, ControlOK, OwedOK, RunOK, Kind, Writing, Running,
     EndOfInput
<1>3. SlotsOK' /\ TenantIsolation' /\ OnceOK'
  BY SlotsDropped DEF EndOfInput
<1>4. QED
  BY <1>1, <1>2, <1>3 DEF IInv

\* A failed write ends the session like the end of input.
LEMMA WriteFailsStep ==
    ASSUME IInv, NEW s \in Sessions, WriteFails(s)
    PROVE  IInv'
<1>1. TypeOK'
  BY NoBackendsType DEF IInv, TypeOK, WriteFails, shared, box, history, PC
<1>2. ControlOK'
  BY DEF IInv, TypeOK, ControlOK, OwedOK, RunOK, Kind, Writing, Running,
     WriteFails
<1>3. SlotsOK' /\ TenantIsolation' /\ OnceOK'
  BY SlotsDropped DEF WriteFails, IInv, TypeOK
<1>4. QED
  BY <1>1, <1>2, <1>3 DEF IInv

\* A written response takes the session back to its next frame.
LEMMA WriteResponseStep ==
    ASSUME IInv, NEW s \in Sessions, WriteResponse(s)
    PROVE  IInv'
<1>1. response[s] \in WireResponse
  BY DEF WriteResponse, IInv, ControlOK, OwedOK, Writing
<1>2. oks' \in [Sessions -> [Kinds -> Nat]]
  <2>1. CASE response[s].type = "Reply" /\ response[s].code = "OK"
    <3>1. Kind(s) \in Kinds
      BY <2>1 DEF WriteResponse, IInv, ControlOK, OwedOK, RunOK
    <3>2. QED
      BY <2>1, <3>1 DEF WriteResponse, IInv, TypeOK
  <2>2. CASE ~(response[s].type = "Reply" /\ response[s].code = "OK")
    BY <2>2 DEF WriteResponse, IInv, TypeOK
  <2>3. QED
    BY <2>1, <2>2
<1>3. TypeOK'
  BY <1>1, <1>2 DEF IInv, TypeOK, WriteResponse, shared, history, PC
<1>4. ControlOK'
  BY DEF IInv, TypeOK, ControlOK, OwedOK, RunOK, Kind, Writing, Running,
     WriteResponse
<1>5. SlotsOK' /\ TenantIsolation'
  BY SlotsKept DEF WriteResponse
<1>6. OnceOK'
  BY DEF IInv, TypeOK, OnceOK, Kind, WriteResponse, history
<1>7. QED
  BY <1>3, <1>4, <1>5, <1>6 DEF IInv

\* A running call answered without touching the session's slots.
LEMMA AnswerKept ==
    ASSUME IInv, NEW s \in Sessions, NEW code \in Codes, pc[s] \in Running,
           Answer(s, code), UNCHANGED slots,
           breaker' \in [Targets -> BreakerState], auth_failures' \in Nat,
           UNCHANGED history,
           code = "OK" => Kind(s) \in Kinds,
           \A k \in Kinds : pc[s] = "connecting" /\ Kind(s) = k
                               => slots[s][k].state # "empty"
    PROVE  IInv'
<1>1. TypeOK'
  BY ResponseTypes DEF IInv, TypeOK, Answer, StartWriting, history, box, PC
<1>2. ControlOK'
  BY ResponseTypes DEF IInv, TypeOK, ControlOK, OwedOK, RunOK, Kind, Writing,
     Running, Answer, StartWriting
<1>3. SlotsOK' /\ TenantIsolation'
  BY SlotsKept DEF Answer
<1>4. OnceOK'
  BY DEF IInv, TypeOK, OnceOK, Kind, Answer, StartWriting, history
<1>5. QED
  BY <1>1, <1>2, <1>3, <1>4 DEF IInv

\* A name that is no capability is answered without a slot.
LEMMA UnknownEgressStep ==
    ASSUME IInv, NEW s \in Sessions, UnknownEgress(s)
    PROVE  IInv'
<1>1. "IO_UNKNOWN" \in Codes /\ "IO_UNKNOWN" # "OK"
  BY DEF Codes, ReplyCodes
<1>2. /\ pc[s] = "queued" /\ Answer(s, "IO_UNKNOWN")
      /\ UNCHANGED <<slots, shared, history>>
  BY DEF UnknownEgress, Scheduled
<1>3. breaker' \in [Targets -> BreakerState] /\ auth_failures' \in Nat
  BY <1>2 DEF IInv, TypeOK, shared
<1>4. QED
  BY <1>1, <1>2, <1>3, AnswerKept DEF Running

\* A kind that is not wired is answered without a connect.
LEMMA NotConfiguredStep ==
    ASSUME IInv, NEW s \in Sessions, NotConfigured(s)
    PROVE  IInv'
<1>1. "NOT_CONFIGURED" \in Codes /\ "NOT_CONFIGURED" # "OK"
  BY DEF Codes, ReplyCodes
<1>2. /\ pc[s] = "queued" /\ Answer(s, "NOT_CONFIGURED")
      /\ UNCHANGED <<slots, shared, history>>
  BY DEF NotConfigured, Scheduled
<1>3. breaker' \in [Targets -> BreakerState] /\ auth_failures' \in Nat
  BY <1>2 DEF IInv, TypeOK, shared
<1>4. QED
  BY <1>1, <1>2, <1>3, AnswerKept DEF Running

\* A settled failure is answered from its cell.
LEMMA CachedFailureStep ==
    ASSUME IInv, NEW s \in Sessions, CachedFailure(s)
    PROVE  IInv'
<1> DEFINE code == slots[s][Kind(s)].code
<1>1. /\ pc[s] = "queued" /\ Kind(s) \in Kinds /\ Answer(s, code)
      /\ UNCHANGED <<slots, shared, history>>
  BY DEF CachedFailure, Scheduled
<1>2. code \in Codes
  BY <1>1 DEF IInv, TypeOK, Slot
<1>3. breaker' \in [Targets -> BreakerState] /\ auth_failures' \in Nat
  BY <1>1 DEF IInv, TypeOK, shared
<1> HIDE DEF code
<1>4. QED
  BY <1>1, <1>2, <1>3, AnswerKept DEF Running

\* The send limit refuses without metering.
LEMMA MailLimitStep ==
    ASSUME IInv, NEW s \in Sessions, MailLimit(s)
    PROVE  IInv'
<1>1. "MAIL_OP_LIMIT" \in Codes /\ "MAIL_OP_LIMIT" # "OK"
  BY DEF Codes, ReplyCodes
<1>2. /\ pc[s] = "driving" /\ Answer(s, "MAIL_OP_LIMIT")
      /\ UNCHANGED <<slots, shared, history>>
  BY DEF MailLimit
<1>3. breaker' \in [Targets -> BreakerState] /\ auth_failures' \in Nat
  BY <1>2 DEF IInv, TypeOK, shared
<1>4. QED
  BY <1>1, <1>2, <1>3, AnswerKept DEF Running

\* A settled backend is entered without another connect.
LEMMA ReuseBackendStep ==
    ASSUME IInv, NEW s \in Sessions, ReuseBackend(s)
    PROVE  IInv'
<1>1. /\ pc[s] = "queued" /\ Kind(s) \in Kinds
      /\ slots[s][Kind(s)].state = "ok"
      /\ EnterBackend(s)
      /\ UNCHANGED <<slots, shared, history>>
  BY DEF ReuseBackend, Scheduled
<1>2. breaker' \in [Targets -> BreakerState] /\ auth_failures' \in Nat
  BY <1>1 DEF IInv, TypeOK, shared
<1>3. CASE Unpacks(call[s])
  <2>1. /\ pc' = [pc EXCEPT ![s] = "driving"]
        /\ UNCHANGED <<init, request, call, response, box>>
    BY <1>1, <1>3 DEF EnterBackend
  <2>2. TypeOK'
    BY <1>1, <1>2, <2>1 DEF IInv, TypeOK, box, history, PC
  <2>3. ControlOK'
    BY <1>1, <2>1 DEF IInv, TypeOK, ControlOK, OwedOK, RunOK, Kind, Writing,
       Running
  <2>4. SlotsOK' /\ TenantIsolation'
    BY <1>1, <2>1, SlotsKept
  <2>5. OnceOK'
    BY <1>1, <2>1 DEF IInv, TypeOK, OnceOK, Kind, history
  <2>6. QED
    BY <2>2, <2>3, <2>4, <2>5 DEF IInv
<1>4. CASE ~Unpacks(call[s])
  <2>1. Answer(s, "BAD_PAYLOAD")
    BY <1>1, <1>4 DEF EnterBackend
  <2>2. "BAD_PAYLOAD" \in Codes /\ "BAD_PAYLOAD" # "OK"
    BY DEF Codes, ReplyCodes
  <2>3. QED
    BY <1>1, <1>2, <2>1, <2>2, AnswerKept DEF Running
<1>5. QED
  BY <1>3, <1>4

\* The first use of an empty cell is the one that counts an attempt.
LEMMA StartConnectStep ==
    ASSUME IInv, NEW s \in Sessions, StartConnect(s)
    PROVE  IInv'
<1>1. /\ pc[s] = "queued" /\ Kind(s) \in Kinds
      /\ slots[s][Kind(s)].state = "empty"
      /\ pc' = [pc EXCEPT ![s] = "connecting"]
      /\ attempts' = [attempts EXCEPT ![s][Kind(s)] = @ + 1]
      /\ UNCHANGED <<init, request, call, response, slots, auth_failures, box,
                     panics, threads>>
  BY DEF StartConnect, FirstUse, Scheduled
<1>2. Target(s) \in Targets
  BY <1>1 DEF IInv, SlotsOK, Target, TenantResourceBinding
<1>3. breaker' \in [Targets -> BreakerState]
  <2>1. CASE Guarded(Kind(s))
    <3>1. PICK a \in allow(breaker[Target(s)]) :
             breaker' = [breaker EXCEPT ![Target(s)] = a.next]
      BY <2>1 DEF StartConnect
    <3>2. breaker[Target(s)] \in BreakerState
      BY <1>2 DEF IInv, TypeOK
    <3>3. a.next \in BreakerState
      BY <3>2, AllowType
    <3>4. QED
      BY <3>1, <3>3 DEF IInv, TypeOK
  <2>2. CASE ~Guarded(Kind(s))
    BY <2>2 DEF StartConnect, IInv, TypeOK
  <2>3. QED
    BY <2>1, <2>2
<1>4. TypeOK'
  BY <1>1, <1>3 DEF IInv, TypeOK, box, PC
<1>5. ControlOK'
  BY <1>1 DEF IInv, TypeOK, ControlOK, OwedOK, RunOK, Kind, Writing, Running
<1>6. SlotsOK' /\ TenantIsolation'
  BY <1>1, SlotsKept
<1>7. OnceOK'
  <2>1. attempts[s][Kind(s)] <= panics[s][Kind(s)]
    BY <1>1 DEF IInv, OnceOK
  <2>2. /\ attempts'[s][Kind(s)] = attempts[s][Kind(s)] + 1
        /\ \A r \in Sessions, k \in Kinds :
              r # s \/ k # Kind(s) => attempts'[r][k] = attempts[r][k]
    BY <1>1 DEF IInv, TypeOK
  <2>3. /\ pc'[s] = "connecting" /\ UNCHANGED <<call, slots, panics>>
        /\ \A r \in Sessions : r # s => pc'[r] = pc[r]
    BY <1>1 DEF IInv, TypeOK
  <2>4. /\ \A r \in Sessions, k \in Kinds :
              attempts[r][k] \in Nat /\ panics[r][k] \in Nat
    BY DEF IInv, TypeOK
  <2>5. QED
    BY <1>1, <2>1, <2>2, <2>3, <2>4 DEF IInv, OnceOK, Kind
<1>8. QED
  BY <1>4, <1>5, <1>6, <1>7 DEF IInv

\* Settling the cell of a first use, whatever the session does next.
LEMMA SettledSlots ==
    ASSUME IInv, NEW s \in Sessions, Kind(s) \in Kinds,
           slots[s][Kind(s)].state = "empty",
           NEW state \in {"ok", "err"}, NEW code \in Codes,
           state = "err" => code # "OK",
           Settle(s, state, code),
           NEW next \in {"driving", "replying"},
           pc' = [pc EXCEPT ![s] = next],
           UNCHANGED <<init, call, history>>
    PROVE  /\ slots' \in [Sessions -> [Kinds -> Slot]]
           /\ slots'[s][Kind(s)].state = state
           /\ \A r \in Sessions : r # s => slots'[r] = slots[r]
           /\ SlotsOK' /\ TenantIsolation' /\ OnceOK'
<1>1. TypeOK
  BY DEF IInv
<1>2. /\ slots' \in [Sessions -> [Kinds -> Slot]]
      /\ slots'[s][Kind(s)].state = state
      /\ slots'[s][Kind(s)].code = code
      /\ slots'[s][Kind(s)].config = slots[s][Kind(s)].config
      /\ \A r \in Sessions, k \in Kinds :
            r # s \/ k # Kind(s) => slots'[r][k] = slots[r][k]
  BY <1>1, SettleResult
<1>3. \A r \in Sessions : r # s => slots'[r] = slots[r]
  BY <1>1 DEF Settle, TypeOK
<1>4. SlotsOK'
  <2>1. slots[s][Kind(s)].config \in TenantResourceBinding
    BY DEF IInv, SlotsOK
  <2>2. QED
    BY <1>2, <2>1 DEF IInv, SlotsOK
<1>5. TenantIsolation'
  <2>1. ASSUME NEW r \in Sessions, NEW k \in Kinds
        PROVE  /\ slots'[r][k].state # "none" => slots[r][k].state # "none"
               /\ slots'[r][k].config = slots[r][k].config
    BY <1>2
  <2>2. QED
    BY <2>1 DEF IInv, TenantIsolation
<1>6. OnceOK'
  <2>1. \A r \in Sessions : r # s => pc'[r] = pc[r]
    BY <1>1 DEF TypeOK
  <2>2. pc'[s] = next
    BY <1>1 DEF TypeOK
  <2>3. UNCHANGED <<call, attempts, panics>>
    BY DEF history
  <2>4. QED
    BY <1>2, <2>1, <2>2, <2>3 DEF IInv, OnceOK, Kind
<1>7. QED
  BY <1>2, <1>3, <1>4, <1>5, <1>6

\* A first use that settles the cell and answers at once.
LEMMA SettleAndAnswer ==
    ASSUME IInv, NEW s \in Sessions, pc[s] \in Running, Kind(s) \in Kinds,
           slots[s][Kind(s)].state = "empty",
           NEW state \in {"ok", "err"}, NEW code \in Codes,
           state = "err" => code # "OK",
           NEW answer \in Codes,
           Settle(s, state, code), Answer(s, answer),
           breaker' \in [Targets -> BreakerState],
           UNCHANGED <<auth_failures, history>>
    PROVE  IInv'
<1>1. /\ pc' = [pc EXCEPT ![s] = "replying"]
      /\ response' = [response EXCEPT ![s] = Reply(answer)]
      /\ UNCHANGED <<init, request, call, box>>
  BY DEF Answer, StartWriting
<1>2. /\ slots' \in [Sessions -> [Kinds -> Slot]]
      /\ \A r \in Sessions : r # s => slots'[r] = slots[r]
      /\ SlotsOK' /\ TenantIsolation' /\ OnceOK'
  BY <1>1, SettledSlots
<1>3. TypeOK'
  BY <1>1, <1>2, ResponseTypes DEF IInv, TypeOK, history, box, PC
<1>4. ControlOK'
  BY <1>1, <1>2, ResponseTypes DEF IInv, TypeOK, ControlOK, OwedOK, RunOK, Kind,
     Writing, Running
<1>5. QED
  BY <1>2, <1>3, <1>4 DEF IInv

\* A refusal by the breaker settles the cell without an attempt.
LEMMA CircuitOpenStep ==
    ASSUME IInv, NEW s \in Sessions, CircuitOpen(s)
    PROVE  IInv'
<1>1. /\ pc[s] = "queued" /\ Kind(s) \in Kinds
      /\ slots[s][Kind(s)].state = "empty"
      /\ Settle(s, "err", "DB_CIRCUIT_OPEN") /\ Answer(s, "DB_CIRCUIT_OPEN")
      /\ UNCHANGED <<auth_failures, history>>
  BY DEF CircuitOpen, FirstUse, Scheduled
<1>2. breaker' \in [Targets -> BreakerState]
  <2>1. Target(s) \in Targets
    BY <1>1 DEF IInv, SlotsOK, Target, TenantResourceBinding
  <2>2. PICK a \in allow(breaker[Target(s)]) :
           breaker' = [breaker EXCEPT ![Target(s)] = a.next]
    BY DEF CircuitOpen
  <2>3. a.next \in BreakerState
    BY <2>1, AllowType DEF IInv, TypeOK
  <2>4. QED
    BY <2>2, <2>3 DEF IInv, TypeOK
<1>3. "DB_CIRCUIT_OPEN" \in Codes /\ "DB_CIRCUIT_OPEN" # "OK"
  BY DEF Codes, ReplyCodes
<1>4. QED
  BY <1>1, <1>2, <1>3, SettleAndAnswer DEF Running

\* Recording an outcome keeps the breakers well typed.
LEMMA RecordOutcomeType ==
    ASSUME IInv, NEW s \in Sessions, pc[s] = "connecting", NEW ok \in BOOLEAN,
           RecordOutcome(s, ok)
    PROVE  breaker' \in [Targets -> BreakerState]
<1>1. CASE Guarded(Kind(s))
  <2>1. Target(s) \in Targets
    BY DEF IInv, ControlOK, RunOK, SlotsOK, Target, TenantResourceBinding
  <2>2. PICK b \in record(breaker[Target(s)], ok) :
           breaker' = [breaker EXCEPT ![Target(s)] = b]
    BY <1>1 DEF RecordOutcome
  <2>3. b \in BreakerState
    BY <2>1, RecordType DEF IInv, TypeOK
  <2>4. QED
    BY <2>2, <2>3 DEF IInv, TypeOK
<1>2. CASE ~Guarded(Kind(s))
  BY <1>2 DEF RecordOutcome, IInv, TypeOK
<1>3. QED
  BY <1>1, <1>2

\* A failed connect settles its cell.
LEMMA ConnectFailsStep ==
    ASSUME IInv, NEW s \in Sessions, ConnectFails(s)
    PROVE  IInv'
<1>1. /\ pc[s] = "connecting" /\ RecordOutcome(s, FALSE)
      /\ Settle(s, "err", "CONNECT_FAILED") /\ Answer(s, "CONNECT_FAILED")
      /\ UNCHANGED <<auth_failures, history>>
  BY DEF ConnectFails
<1>2. Kind(s) \in Kinds /\ slots[s][Kind(s)].state = "empty"
  BY <1>1 DEF IInv, ControlOK, RunOK
<1>3. breaker' \in [Targets -> BreakerState]
  BY <1>1, RecordOutcomeType
<1>4. "CONNECT_FAILED" \in Codes /\ "CONNECT_FAILED" # "OK"
  BY DEF Codes, ReplyCodes
<1>5. QED
  BY <1>1, <1>2, <1>3, <1>4, SettleAndAnswer DEF Running

\* A connect settles its cell and enters the backend.
LEMMA ConnectSucceedsStep ==
    ASSUME IInv, NEW s \in Sessions, ConnectSucceeds(s)
    PROVE  IInv'
<1>1. /\ pc[s] = "connecting" /\ RecordOutcome(s, TRUE)
      /\ Settle(s, "ok", "OK") /\ EnterBackend(s)
      /\ UNCHANGED <<auth_failures, history>>
  BY DEF ConnectSucceeds
<1>2. Kind(s) \in Kinds /\ slots[s][Kind(s)].state = "empty"
  BY <1>1 DEF IInv, ControlOK, RunOK
<1>3. breaker' \in [Targets -> BreakerState]
  BY <1>1, RecordOutcomeType
<1>4. "OK" \in Codes /\ "BAD_PAYLOAD" \in Codes
  BY DEF Codes, ReplyCodes
<1>5. CASE Unpacks(call[s])
  <2>1. /\ pc' = [pc EXCEPT ![s] = "driving"]
        /\ UNCHANGED <<init, request, call, response, box>>
    BY <1>1, <1>5 DEF EnterBackend
  <2>2. /\ slots' \in [Sessions -> [Kinds -> Slot]]
        /\ slots'[s][Kind(s)].state = "ok"
        /\ \A r \in Sessions : r # s => slots'[r] = slots[r]
        /\ SlotsOK' /\ TenantIsolation' /\ OnceOK'
    BY <1>1, <1>2, <1>4, <2>1, SettledSlots
  <2>3. TypeOK'
    BY <1>1, <1>3, <2>1, <2>2 DEF IInv, TypeOK, box, history, PC
  <2>4. ControlOK'
    BY <1>1, <1>2, <2>1, <2>2 DEF IInv, TypeOK, ControlOK, OwedOK, RunOK, Kind,
       Writing, Running
  <2>5. QED
    BY <2>2, <2>3, <2>4 DEF IInv
<1>6. CASE ~Unpacks(call[s])
  <2>1. Answer(s, "BAD_PAYLOAD")
    BY <1>1, <1>6 DEF EnterBackend
  <2>2. QED
    BY <1>1, <1>2, <1>3, <1>4, <2>1, SettleAndAnswer DEF Running
<1>7. QED
  BY <1>5, <1>6

\* A driver's answer is metered in the slot of its call.
LEMMA BackendReturnsStep ==
    ASSUME IInv, NEW s \in Sessions, NEW code, BackendReturns(s, code)
    PROVE  IInv'
<1> DEFINE k == Kind(s)
           new == [slots[s][k] EXCEPT !.ops = @ + 1]
<1>1. /\ pc[s] = "driving" /\ code \in {"OK", "DRIVER_ERROR"}
      /\ pc' = [pc EXCEPT ![s] = "replying"]
      /\ response' = [response EXCEPT ![s] = Reply(code)]
      /\ UNCHANGED <<init, request, call, box, shared, history>>
  BY DEF BackendReturns, Answer, StartWriting
<1>2. k \in Kinds /\ slots[s][k].state = "ok"
  BY <1>1 DEF IInv, ControlOK, RunOK
<1>3. code \in Codes
  BY <1>1 DEF Codes, ReplyCodes
<1>4. slots[s] \in [Kinds -> Slot] /\ slots[s][k] \in Slot
  BY <1>2 DEF IInv, TypeOK
<1>5. /\ new \in Slot /\ new.state = "ok"
      /\ new.config = slots[s][k].config
  BY <1>2, <1>4 DEF Slot
<1>6. slots' = [slots EXCEPT ![s] = [slots[s] EXCEPT ![k] = new]]
  BY <1>4 DEF BackendReturns, IInv, TypeOK, Slot
<1> HIDE DEF new
<1>7. /\ slots' \in [Sessions -> [Kinds -> Slot]]
      /\ slots'[s][k] = new
      /\ \A r \in Sessions : r # s => slots'[r] = slots[r]
      /\ \A r \in Sessions, j \in Kinds :
            r # s \/ j # k => slots'[r][j] = slots[r][j]
  BY <1>2, <1>4, <1>5, <1>6 DEF IInv, TypeOK
<1> HIDE DEF k
<1>8. TypeOK'
  BY <1>1, <1>3, <1>7, ResponseTypes DEF IInv, TypeOK, shared, history, box, PC
<1>9. ControlOK'
  BY <1>1, <1>2, <1>3, <1>7, ResponseTypes DEF IInv, TypeOK, ControlOK, OwedOK,
     RunOK, Kind, Writing, Running, k
<1>10. SlotsOK'
  BY <1>2, <1>5, <1>7 DEF IInv, SlotsOK
<1>11. TenantIsolation'
  <2>1. ASSUME NEW r \in Sessions, NEW j \in Kinds
        PROVE  /\ slots'[r][j].state # "none" => slots[r][j].state # "none"
               /\ slots'[r][j].config = slots[r][j].config
    BY <1>2, <1>5, <1>7
  <2>2. QED
    BY <1>1, <2>1 DEF IInv, TenantIsolation
<1>12. OnceOK'
  <2>1. \A r \in Sessions, j \in Kinds :
          slots'[r][j].state = "empty" => slots[r][j].state = "empty"
    BY <1>2, <1>5, <1>7
  <2>2. /\ \A r \in Sessions : r # s => pc'[r] = pc[r]
        /\ pc'[s] = "replying" /\ UNCHANGED <<call, attempts, panics>>
    BY <1>1 DEF IInv, TypeOK, history
  <2>3. QED
    BY <1>1, <2>1, <2>2 DEF IInv, OnceOK, Kind
<1>13. QED
  BY <1>8, <1>9, <1>10, <1>11, <1>12 DEF IInv

\* A panic answers a protocol error; in a connect the cell stays empty and the
\* panic is counted.
LEMMA BackendPanicsStep ==
    ASSUME IInv, NEW s \in Sessions, BackendPanics(s)
    PROVE  IInv'
<1>1. /\ pc[s] \in {"connecting", "driving"}
      /\ pc' = [pc EXCEPT ![s] = "replying"]
      /\ response' = [response EXCEPT ![s] = ProtocolError]
      /\ panics' = IF pc[s] = "connecting"
                   THEN [panics EXCEPT ![s][Kind(s)] = @ + 1]
                   ELSE panics
      /\ UNCHANGED <<init, request, call, slots, shared, box, attempts, threads>>
  BY DEF BackendPanics, StartWriting
<1>2. Kind(s) \in Kinds
  BY <1>1 DEF IInv, ControlOK, RunOK
<1>3. /\ panics' \in [Sessions -> [Kinds -> Nat]]
      /\ \A r \in Sessions, k \in Kinds : panics'[r][k] >= panics[r][k]
      /\ pc[s] = "connecting" => panics'[s][Kind(s)] = panics[s][Kind(s)] + 1
  <2>1. CASE pc[s] = "connecting"
    BY <1>1, <1>2, <2>1 DEF IInv, TypeOK
  <2>2. CASE pc[s] # "connecting"
    BY <1>1, <1>2, <2>2 DEF IInv, TypeOK
  <2>3. QED
    BY <2>1, <2>2
<1>4. TypeOK'
  BY <1>1, <1>3, ResponseTypes DEF IInv, TypeOK, shared, box, PC
<1>5. ControlOK'
  BY <1>1, ResponseTypes DEF IInv, TypeOK, ControlOK, OwedOK, RunOK, Kind,
     Writing, Running
<1>6. SlotsOK' /\ TenantIsolation'
  BY <1>1, SlotsKept
<1>7. OnceOK'
  <2>1. \A r \in Sessions, k \in Kinds :
          attempts[r][k] \in Nat /\ panics[r][k] \in Nat /\ panics'[r][k] \in Nat
    BY <1>3 DEF IInv, TypeOK
  <2>2. /\ \A r \in Sessions : r # s => pc'[r] = pc[r]
        /\ pc'[s] = "replying" /\ UNCHANGED <<call, attempts, slots>>
    BY <1>1 DEF IInv, TypeOK
  <2>3. QED
    BY <1>1, <1>2, <1>3, <2>1, <2>2 DEF IInv, OnceOK, Kind
<1>8. QED
  BY <1>4, <1>5, <1>6, <1>7 DEF IInv

\* An abort leaves sessions that are over and sessions that have not begun.
LEMMA DaemonAbortsStep ==
    ASSUME IInv, DaemonAborts
    PROVE  IInv'
<1>1. /\ pc' = [s \in Sessions |->
                   IF pc[s] = "await_init" THEN "await_init" ELSE "closed"]
      /\ request' = [s \in Sessions |-> "nothing"]
      /\ call' = [s \in Sessions |-> None]
      /\ response' = [s \in Sessions |-> None]
      /\ slots' = [s \in Sessions |-> NoBackends]
      /\ UNCHANGED <<init, box, history>>
  BY DEF DaemonAborts
<1>2. breaker' \in [Targets -> BreakerState] /\ auth_failures' \in Nat
  BY ThresholdAssumption DEF DaemonAborts, BreakerState, ClosedBreaker
<1>3. TypeOK'
  BY <1>1, <1>2, NoBackendsType DEF IInv, TypeOK, box, history, PC
<1>4. ControlOK'
  BY <1>1 DEF ControlOK, OwedOK, RunOK, Writing, Running
<1>5. SlotsOK' /\ TenantIsolation'
  BY <1>1, NoBackendsType DEF SlotsOK, TenantIsolation
<1>6. OnceOK'
  <2>1. /\ UNCHANGED <<attempts, panics>>
        /\ \A s \in Sessions : pc'[s] = "await_init" => pc[s] = "await_init"
    BY <1>1 DEF history
  <2>2. \A s \in Sessions, k \in Kinds : slots'[s][k].state = "none"
    BY <1>1, NoBackendsType
  <2>3. QED
    BY <2>1, <2>2 DEF IInv, OnceOK
<1>7. QED
  BY <1>3, <1>4, <1>5, <1>6 DEF IInv

\* A cool-down touches the breaker only.
LEMMA CoolDownStep ==
    ASSUME IInv, NEW t \in Targets, CoolDown(t)
    PROVE  IInv'
<1>1. UNCHANGED <<pc, init, request, call, response, slots, auth_failures,
                  box, history>>
  BY DEF CoolDown
<1>2. breaker' \in [Targets -> BreakerState]
  BY DEF CoolDown, IInv, TypeOK, BreakerState
<1>3. TypeOK'
  BY <1>1, <1>2 DEF IInv, TypeOK, box, history
<1>4. ControlOK'
  BY <1>1 DEF IInv, ControlOK, OwedOK, RunOK, Kind
<1>5. SlotsOK' /\ TenantIsolation'
  BY <1>1, SlotsKept
<1>6. OnceOK'
  BY <1>1 DEF IInv, OnceOK, Kind, history
<1>7. QED
  BY <1>3, <1>4, <1>5, <1>6 DEF IInv

\* A step that changes nothing.
LEMMA StutterStep ==
    ASSUME IInv, UNCHANGED vars
    PROVE  IInv'
BY DEF IInv, vars, shared, box, history, TypeOK, ControlOK, OwedOK, RunOK, Kind,
       SlotsOK, TenantIsolation, OnceOK

-----------------------------------------------------------------------------
LEMMA InitIInv == Init => IInv
<1> SUFFICES ASSUME Init PROVE IInv
  OBVIOUS
<1>1. TypeOK
  BY NoBackendsType, ThresholdAssumption, SessionAssumption DEF Init, TypeOK, PC,
     NoCounts, BreakerState, ClosedBreaker
<1>2. ControlOK
  BY DEF Init, ControlOK, OwedOK, RunOK, Writing, Running
<1>3. SlotsOK /\ TenantIsolation
  BY NoBackendsType DEF Init, SlotsOK, TenantIsolation
<1>4. OnceOK
  BY NoBackendsType DEF Init, OnceOK, NoCounts
<1>5. QED
  BY <1>1, <1>2, <1>3, <1>4 DEF IInv

\* Every step of every session keeps the invariant.
LEMMA NextIInv == IInv /\ [Next]_vars => IInv'
<1> SUFFICES ASSUME IInv, [Next]_vars PROVE IInv'
  OBVIOUS
<1>1. CASE UNCHANGED vars
  BY <1>1, StutterStep
<1>2. CASE Idle
  BY <1>2, StutterStep DEF Idle
<1>3. ASSUME NEW t \in Targets, CoolDown(t) PROVE IInv'
  BY <1>3, CoolDownStep
<1>4. ASSUME NEW s \in Sessions, Opening(s) PROVE IInv'
  BY <1>4, FirstFrameNotInitStep, RejectClientStep, RejectNamesStep,
     AcceptInitStep DEF Opening
<1>5. ASSUME NEW s \in Sessions, BoxStep(s) PROVE IInv'
  BY <1>4, <1>5, ReceiveCallStep, ReceiveDrainStep, ReceiveSecondInitStep,
     EndOfInputStep DEF BoxStep
<1>6. ASSUME NEW s \in Sessions, Write(s) PROVE IInv'
  BY <1>6, WriteResponseStep, WriteFailsStep DEF Write
<1>7. ASSUME NEW s \in Sessions, RunCall(s) PROVE IInv'
  BY <1>7, UnknownEgressStep, NotConfiguredStep, CachedFailureStep,
     ReuseBackendStep, StartConnectStep, CircuitOpenStep DEF RunCall
<1>8. ASSUME NEW s \in Sessions, ConnectEnds(s) \/ BackendEnds(s) PROVE IInv'
  BY <1>8, ConnectSucceedsStep, ConnectFailsStep, MailLimitStep,
     BackendReturnsStep DEF ConnectEnds, BackendEnds
<1>9. ASSUME NEW s \in Sessions, BackendPanics(s) PROVE IInv'
  BY <1>9, BackendPanicsStep
<1>10. CASE DaemonAborts
  BY <1>10, DaemonAbortsStep
<1>11. QED
  BY <1>1, <1>2, <1>3, <1>5, <1>6, <1>7, <1>8, <1>9, <1>10 DEF Next

-----------------------------------------------------------------------------
(* Nothing of the operator table is told before authentication. *)

\* The session is past its handshake: its Init was accepted.
Past(s) == pc[s] \notin {"await_init", "rejecting", "closed"}

\* The box has shown one of the configured secrets, and not an empty one.
Proven(s) ==
    /\ init[s] # None
    /\ init[s].token \in {StaticToken, PreviousToken}
    /\ init[s].token \notin {NoToken, EmptyToken}

\* A box over QUIC that is past the handshake has proven itself, and before its
\* Init nothing was written to it.
AuthOK ==
    \A s \in Sessions :
        /\ pc[s] = "await_init" => response[s] = None /\ delivered[s] = None
        /\ s \in QuicSessions /\ AuthMode = "static" /\ Past(s) => Proven(s)

\* In static mode `authenticate` accepts a configured, non-empty secret only.
LEMMA StaticAccepts ==
    ASSUME NEW token, NEW verified, AuthMode = "static",
           authenticate(token, verified)
    PROVE  /\ token \in {StaticToken, PreviousToken}
           /\ token \notin {NoToken, EmptyToken}
BY ClientAuthAssumption DEF authenticate, StaticSecrets, BuildSucceeds

\* Nothing a box can tell the operator table from is made up by a step that
\* takes no Init.
LEMMA AuthKept ==
    ASSUME IInv, AuthOK, AuthenticatedFirst, UNCHANGED init,
           \A s \in Sessions :
              /\ pc'[s] = "await_init" =>
                    /\ pc[s] = "await_init"
                    /\ response'[s] = response[s]
                    /\ delivered'[s] = delivered[s]
              /\ Past(s)' => Past(s)
              /\ Telling(response'[s]) => Telling(response[s]) \/ Past(s)
              /\ Telling(delivered'[s]) => Telling(delivered[s]) \/ Telling(response[s])
              /\ \A k \in Kinds :
                    slots'[s][k].state # "none" => slots[s][k].state # "none"
    PROVE  AuthOK' /\ AuthenticatedFirst'
<1>1. AuthOK'
  BY DEF AuthOK, Proven
<1>2. AuthenticatedFirst'
  BY SessionAssumption DEF AuthOK, AuthenticatedFirst, Proven
<1>3. QED
  BY <1>1, <1>2

\* A step of the call on its blocking thread.
CallStep(s) == RunCall(s) \/ ConnectEnds(s) \/ BackendEnds(s) \/ BackendPanics(s)

\* What every step of a call on its blocking thread leaves alone.
LEMMA CallStepFrame ==
    ASSUME IInv, NEW s \in Sessions, CallStep(s)
    PROVE  /\ pc[s] \in Running
           /\ UNCHANGED <<init, request, call, box, auth_failures>>
           /\ \/ /\ \E next \in {"connecting", "driving"} :
                        pc' = [pc EXCEPT ![s] = next]
                 /\ UNCHANGED response
              \/ \E r \in WireResponse :
                    /\ r.type \in {"Reply", "ProtocolError"}
                    /\ StartWriting(s, r, "replying")
           /\ \A r \in Sessions : r # s => slots'[r] = slots[r]
           /\ \A k \in Kinds :
                 /\ slots'[s][k].config = slots[s][k].config
                 /\ slots'[s][k].state # "none" => slots[s][k].state # "none"
<1> DEFINE SlotsFrame ==
             /\ \A r \in Sessions : r # s => slots'[r] = slots[r]
             /\ \A k \in Kinds :
                   /\ slots'[s][k].config = slots[s][k].config
                   /\ slots'[s][k].state # "none" => slots[s][k].state # "none"
           ResponseFrame ==
             \/ /\ \E next \in {"connecting", "driving"} :
                       pc' = [pc EXCEPT ![s] = next]
                /\ UNCHANGED response
             \/ \E r \in WireResponse :
                   /\ r.type \in {"Reply", "ProtocolError"}
                   /\ StartWriting(s, r, "replying")
<1>1. ASSUME NEW code \in Codes, Answer(s, code)
      PROVE  /\ UNCHANGED <<init, request, call, box>>
             /\ ResponseFrame
  BY <1>1, ResponseTypes DEF Answer
<1>2. ASSUME EnterBackend(s)
      PROVE  /\ UNCHANGED <<init, request, call, box>>
             /\ ResponseFrame
  <2>1. "BAD_PAYLOAD" \in Codes
    BY DEF Codes, ReplyCodes
  <2>2. QED
    BY <1>1, <1>2, <2>1 DEF EnterBackend
<1>3. ASSUME UNCHANGED slots PROVE SlotsFrame
  BY <1>3
<1>4. ASSUME Kind(s) \in Kinds, slots[s][Kind(s)].state # "none",
             NEW state \in {"ok", "err"}, NEW code \in Codes,
             Settle(s, state, code)
      PROVE  SlotsFrame
  <2>1. TypeOK
    BY DEF IInv
  <2>2. /\ slots'[s][Kind(s)].config = slots[s][Kind(s)].config
        /\ \A r \in Sessions, k \in Kinds :
              r # s \/ k # Kind(s) => slots'[r][k] = slots[r][k]
    BY <1>4, <2>1, SettleResult
  <2>3. \A r \in Sessions : r # s => slots'[r] = slots[r]
    BY <1>4, <2>1 DEF Settle, TypeOK
  <2>4. QED
    BY <1>4, <2>2, <2>3
<1>5. {"IO_UNKNOWN", "NOT_CONFIGURED", "DB_CIRCUIT_OPEN", "CONNECT_FAILED",
       "MAIL_OP_LIMIT", "OK", "DRIVER_ERROR"} \subseteq Codes
  BY DEF Codes, ReplyCodes
<1>6. pc[s] \in {"connecting", "driving"} =>
         Kind(s) \in Kinds /\ slots[s][Kind(s)].state \in {"empty", "ok"}
  BY DEF IInv, ControlOK, RunOK
<1> HIDE DEF SlotsFrame, ResponseFrame
<1>7. ASSUME RunCall(s)
      PROVE  /\ pc[s] = "queued" /\ SlotsFrame /\ ResponseFrame
             /\ UNCHANGED <<init, request, call, box, auth_failures>>
  <2>1. CASE UnknownEgress(s) \/ NotConfigured(s)
    BY <2>1, <1>1, <1>3, <1>5 DEF UnknownEgress, NotConfigured, Scheduled, shared
  <2>2. CASE CachedFailure(s)
    <3>1. slots[s][Kind(s)].code \in Codes
      BY <2>2 DEF CachedFailure, IInv, TypeOK, Slot
    <3>2. QED
      BY <2>2, <3>1, <1>1, <1>3 DEF CachedFailure, Scheduled, shared
  <2>3. CASE ReuseBackend(s)
    BY <2>3, <1>2, <1>3 DEF ReuseBackend, Scheduled, shared
  <2>4. CASE StartConnect(s)
    BY <2>4, <1>3 DEF StartConnect, FirstUse, Scheduled, ResponseFrame
  <2>5. CASE CircuitOpen(s)
    BY <2>5, <1>1, <1>4, <1>5 DEF CircuitOpen, FirstUse, Scheduled
  <2>6. QED
    BY <1>7, <2>1, <2>2, <2>3, <2>4, <2>5 DEF RunCall
<1>8. ASSUME ConnectEnds(s)
      PROVE  /\ pc[s] = "connecting" /\ SlotsFrame /\ ResponseFrame
             /\ UNCHANGED <<init, request, call, box, auth_failures>>
  BY <1>8, <1>1, <1>2, <1>4, <1>5, <1>6 DEF ConnectEnds, ConnectSucceeds, ConnectFails
<1>9. ASSUME BackendEnds(s)
      PROVE  /\ pc[s] = "driving" /\ SlotsFrame /\ ResponseFrame
             /\ UNCHANGED <<init, request, call, box, auth_failures>>
  <2>1. CASE MailLimit(s)
    BY <2>1, <1>1, <1>3, <1>5 DEF MailLimit, shared
  <2>2. ASSUME NEW code, BackendReturns(s, code)
        PROVE  /\ pc[s] = "driving" /\ SlotsFrame /\ ResponseFrame
               /\ UNCHANGED <<init, request, call, box, auth_failures>>
    <3>1. SlotsFrame
      BY <2>2, <1>6 DEF BackendReturns, IInv, TypeOK, Slot, SlotsFrame
    <3>2. QED
      BY <2>2, <3>1, <1>1, <1>5 DEF BackendReturns, shared
  <2>3. QED
    BY <1>9, <2>1, <2>2 DEF BackendEnds
<1>10. ASSUME BackendPanics(s)
       PROVE  /\ pc[s] \in Running /\ SlotsFrame /\ ResponseFrame
              /\ UNCHANGED <<init, request, call, box, auth_failures>>
  BY <1>10, <1>3, ResponseTypes DEF BackendPanics, Running, shared, ResponseFrame
<1>11. QED
  BY <1>7, <1>8, <1>9, <1>10 DEF CallStep, Running, SlotsFrame, ResponseFrame

\* No step lets a box that has not proven itself learn of the operator table.
LEMMA AuthStep ==
    ASSUME IInv, AuthOK, AuthenticatedFirst, [Next]_vars
    PROVE  AuthOK' /\ AuthenticatedFirst'
<1> DEFINE Q == AuthOK' /\ AuthenticatedFirst'
<1>t. /\ pc \in [Sessions -> PC]
      /\ init \in [Sessions -> WireInit \cup {None}]
      /\ response \in [Sessions -> WireResponse \cup {None}]
      /\ delivered \in [Sessions -> WireResponse \cup {None}]
      /\ slots \in [Sessions -> [Kinds -> Slot]]
  BY DEF IInv, TypeOK
<1>p. ~ Telling(ProtocolError) /\ ~ Telling(InitError("UNAUTHENTICATED"))
  BY DEF Telling, ProtocolError, InitError, Response
<1>i. \A s \in Sessions : pc[s] = "await_init" =>
         \A k \in Kinds : slots[s][k].state = "none"
  BY NoBackendsType DEF IInv, ControlOK, RunOK
<1>1. ASSUME UNCHANGED <<pc, init, response, delivered, slots>> PROVE Q
  BY <1>1, AuthKept DEF Past
<1>2. ASSUME NEW s \in Sessions, NEW kind, FirstFrameNotInit(s, kind) PROVE Q
  BY <1>2, <1>t, <1>p, AuthKept DEF FirstFrameNotInit, StartWriting, Past
<1>3. ASSUME NEW s \in Sessions, NEW i \in Inits, NEW verified,
             RejectClient(s, i, verified)
      PROVE  Q
  <2>1. /\ pc[s] = "await_init"
        /\ init' = [init EXCEPT ![s] = i]
        /\ pc' = [pc EXCEPT ![s] = "rejecting"]
        /\ response' = [response EXCEPT ![s] = InitError("UNAUTHENTICATED")]
        /\ UNCHANGED <<delivered, slots>>
    BY <1>3 DEF RejectClient, ReceiveInit, StartWriting
  <2>2. ~ Telling(response'[s]) /\ ~ Telling(delivered'[s])
    BY <2>1, <1>t, <1>p DEF AuthOK, Telling
  <2>3. AuthOK'
    BY <2>1, <1>t DEF AuthOK, Past, Proven
  <2>4. AuthenticatedFirst'
    BY <2>1, <2>2, <1>t, <1>i, SessionAssumption DEF AuthenticatedFirst
  <2>5. QED
    BY <2>3, <2>4
<1>4. ASSUME NEW s \in Sessions, NEW i \in Inits, NEW verified,
             ReceiveInit(s, i), Authenticated(s, i, verified),
             NEW r, NEW next, StartWriting(s, r, next),
             next # "await_init",
             \A q \in Sessions : q # s => slots'[q] = slots[q]
      PROVE  Q
  <2>1. /\ init' = [init EXCEPT ![s] = i]
        /\ pc' = [pc EXCEPT ![s] = next]
        /\ response' = [response EXCEPT ![s] = r]
        /\ UNCHANGED delivered
    BY <1>4 DEF ReceiveInit, StartWriting
  <2>2. i \in WireInit /\ i # None
    BY SessionAssumption
  <2>3. s \in QuicSessions /\ AuthMode = "static" => Proven(s)'
    <3>1. ASSUME s \in QuicSessions, AuthMode = "static"
          PROVE  /\ i.token \in {StaticToken, PreviousToken}
                 /\ i.token \notin {NoToken, EmptyToken}
      BY <1>4, <3>1, StaticAccepts DEF Authenticated
    <3>2. init'[s] = i
      BY <2>1, <1>t
    <3>3. QED
      BY <2>2, <3>1, <3>2 DEF Proven
  <2>4. AuthOK'
    BY <1>4, <2>1, <2>3, <1>t DEF AuthOK, Past, Proven
  <2>5. AuthenticatedFirst'
    BY <1>4, <2>1, <2>3, <1>t, SessionAssumption DEF AuthenticatedFirst, Proven
  <2>6. QED
    BY <2>4, <2>5
<1>5. ASSUME NEW s \in Sessions, NEW i \in Inits, NEW verified,
             RejectNames(s, i, verified)
      PROVE  Q
  BY <1>4, <1>5 DEF RejectNames
<1>6. ASSUME NEW s \in Sessions, NEW i \in Inits, NEW verified,
             AcceptInit(s, i, verified)
      PROVE  Q
  <2>1. \A q \in Sessions : q # s => slots'[q] = slots[q]
    BY <1>6, <1>t DEF AcceptInit
  <2>2. QED
    BY <1>4, <1>6, <2>1 DEF AcceptInit
<1>7. ASSUME NEW s \in Sessions, NEW c \in Calls, ReceiveCall(s, c) PROVE Q
  BY <1>7, <1>t, AuthKept DEF ReceiveCall, Past
<1>8. ASSUME NEW s \in Sessions, ReceiveDrain(s) \/ ReceiveSecondInit(s) PROVE Q
  <2>1. /\ pc[s] = "serving" /\ pc' = [pc EXCEPT ![s] = "replying"]
        /\ \E r : response' = [response EXCEPT ![s] = r]
        /\ UNCHANGED <<init, delivered, slots>>
    BY <1>8 DEF ReceiveDrain, ReceiveSecondInit, StartWriting
  <2>2. QED
    BY <2>1, <1>t, AuthKept DEF Past
<1>9. ASSUME NEW s \in Sessions, EndOfInput(s) \/ WriteFails(s) PROVE Q
  <2>1. /\ pc' = [pc EXCEPT ![s] = "closed"]
        /\ slots' = [slots EXCEPT ![s] = NoBackends]
        /\ response' = response \/ response' = [response EXCEPT ![s] = None]
        /\ UNCHANGED <<init, delivered>>
    BY <1>9 DEF EndOfInput, WriteFails, box
  <2>2. ~ Telling(None)
    BY DEF Telling
  <2>3. QED
    BY <2>1, <2>2, <1>t, NoBackendsType, AuthKept DEF Past
<1>10. ASSUME NEW s \in Sessions, WriteResponse(s) PROVE Q
  <2>1. /\ pc[s] \in {"rejecting", "acking", "replying"}
        /\ pc' = [pc EXCEPT ![s] =
                     IF pc[s] = "rejecting" THEN "closed" ELSE "serving"]
        /\ delivered' = [delivered EXCEPT ![s] = response[s]]
        /\ response' = [response EXCEPT ![s] = None]
        /\ UNCHANGED <<init, slots>>
    BY <1>10 DEF WriteResponse
  <2>2. ~ Telling(None)
    BY DEF Telling
  <2>3. QED
    BY <2>1, <2>2, <1>t, AuthKept DEF Past
<1>11. ASSUME NEW s \in Sessions, CallStep(s) PROVE Q
  <2>1. /\ pc[s] \in Running
        /\ \E next \in {"connecting", "driving", "replying"} :
              pc' = [pc EXCEPT ![s] = next]
        /\ response' = response \/ \E r : response' = [response EXCEPT ![s] = r]
        /\ UNCHANGED <<init, delivered>>
        /\ \A r \in Sessions, k \in Kinds :
              slots'[r][k].state # "none" => slots[r][k].state # "none"
    BY <1>11, CallStepFrame DEF StartWriting, box
  <2>2. QED
    BY <2>1, <1>t, AuthKept DEF Past, Running
<1>12. ASSUME NEW t \in Targets, CoolDown(t) PROVE Q
  BY <1>12, <1>1 DEF CoolDown, box
<1>13. CASE UNCHANGED vars
  BY <1>13, <1>1 DEF vars, box
<1>14. CASE DaemonAborts
  <2>1. /\ \A s \in Sessions :
              /\ pc'[s] \in {"await_init", "closed"}
              /\ pc'[s] = "await_init" => pc[s] = "await_init"
              /\ response'[s] = None
              /\ slots'[s] = NoBackends
        /\ UNCHANGED <<init, delivered>>
    BY <1>14 DEF DaemonAborts, box
  <2>2. ~ Telling(None)
    BY DEF Telling
  <2>3. \A s \in Sessions : pc[s] = "await_init" => response[s] = None
    BY DEF AuthOK
  <2>4. QED
    BY <2>1, <2>2, <2>3, NoBackendsType, AuthKept DEF Past
<1>15. QED
  BY <1>2, <1>3, <1>5, <1>6, <1>7, <1>8, <1>9, <1>10, <1>11, <1>12, <1>13, <1>14
     DEF Next, BoxStep, Opening, Write, CallStep, Idle

-----------------------------------------------------------------------------
(* The breakers and the connects under way. *)

\* Steps of a session leave the others' connects alone.
LEMMA OthersConnect ==
    ASSUME IInv, NEW s \in Sessions,
           \A r \in Sessions : r # s => /\ pc'[r] = pc[r]
                                        /\ call'[r] = call[r]
                                        /\ slots'[r] = slots[r],
           NEW t, NEW r \in Sessions, r # s
    PROVE  r \in Connecting(t)' <=> r \in Connecting(t)
BY DEF Connecting, Kind, Target

\* What a step does to the connects under way and to the breakers: most steps
\* touch neither, a connect that starts was admitted, one that ends has told the
\* breaker, one that panics is counted, and an abort starts from nothing.
LEMMA ConnectSteps ==
    ASSUME IInv, [Next]_vars
    PROVE  \/ /\ UNCHANGED breaker
              /\ \A t \in Targets : Connecting(t)' = Connecting(t)
           \/ /\ \E t \in Targets : CoolDown(t)
              /\ \A t \in Targets : Connecting(t)' = Connecting(t)
           \/ \E s \in Sessions :
                 /\ pc[s] # "connecting"
                 /\ \A r \in Sessions \ {s}, t \in Targets :
                       r \in Connecting(t)' <=> r \in Connecting(t)
                 /\ \/ StartConnect(s) /\ Target(s)' = Target(s) /\ Kind(s)' = Kind(s)
                    \/ CircuitOpen(s) /\ pc'[s] # "connecting"
           \/ \E s \in Sessions :
                 /\ pc[s] = "connecting" /\ pc'[s] # "connecting"
                 /\ \A r \in Sessions \ {s}, t \in Targets :
                       r \in Connecting(t)' <=> r \in Connecting(t)
                 /\ \/ \E ok \in BOOLEAN : RecordOutcome(s, ok)
                    \/ BackendPanics(s) /\ UNCHANGED breaker
           \/ \A t \in Targets : breaker'[t].st = "closed"
<1> DEFINE Kept == UNCHANGED breaker /\ \A t \in Targets : Connecting(t)' = Connecting(t)
           Others(s) == \A r \in Sessions \ {s}, t \in Targets :
                           r \in Connecting(t)' <=> r \in Connecting(t)
<1>t. /\ pc \in [Sessions -> PC]
      /\ call \in [Sessions -> WireCall \cup {None}]
      /\ slots \in [Sessions -> [Kinds -> Slot]]
  BY DEF IInv, TypeOK
<1>1. ASSUME UNCHANGED <<pc, call, slots>>
      PROVE  \A t \in Targets : Connecting(t)' = Connecting(t)
  BY <1>1 DEF Connecting, Kind, Target
<1>2. ASSUME NEW s \in Sessions, pc[s] # "connecting", pc'[s] # "connecting",
             Others(s)
      PROVE  \A t \in Targets : Connecting(t)' = Connecting(t)
  BY <1>2 DEF Connecting
<1>3. ASSUME NEW s \in Sessions, Opening(s) PROVE Kept
  <2>1. /\ pc[s] = "await_init"
        /\ \E next \in {"rejecting", "acking"} : pc' = [pc EXCEPT ![s] = next]
        /\ slots' = slots \/ \E new : slots' = [slots EXCEPT ![s] = new]
        /\ UNCHANGED <<call, breaker>>
    BY <1>3 DEF Opening, FirstFrameNotInit, RejectClient, RejectNames, AcceptInit,
       ReceiveInit, StartWriting, shared
  <2>2. Others(s)
    BY <2>1, <1>t, OthersConnect
  <2>3. QED
    BY <2>1, <2>2, <1>2, <1>t
<1>4. ASSUME NEW s \in Sessions, BoxStep(s) \/ Write(s), ~ Opening(s) PROVE Kept
  <2>1. /\ pc[s] \in {"await_init", "serving", "rejecting", "acking", "replying"}
        /\ \E next \in {"queued", "replying", "serving", "closed"} :
              pc' = [pc EXCEPT ![s] = next]
        /\ call' = call \/ \E new : call' = [call EXCEPT ![s] = new]
        /\ slots' = slots \/ \E new : slots' = [slots EXCEPT ![s] = new]
        /\ UNCHANGED breaker
    BY <1>4 DEF BoxStep, Write, ReceiveCall, ReceiveDrain, ReceiveSecondInit,
       EndOfInput, WriteResponse, WriteFails, StartWriting, shared
  <2>2. Others(s)
    BY <2>1, <1>t, OthersConnect
  <2>3. QED
    BY <2>1, <2>2, <1>2, <1>t
<1>5. ASSUME NEW s \in Sessions, CallStep(s)
      PROVE  /\ Others(s) /\ UNCHANGED call
             /\ pc'[s] \in {"connecting", "driving", "replying"}
             /\ \A k \in Kinds : slots'[s][k].config = slots[s][k].config
  <2>1. /\ \E next \in {"connecting", "driving", "replying"} :
              pc' = [pc EXCEPT ![s] = next]
        /\ UNCHANGED call
        /\ \A r \in Sessions : r # s => slots'[r] = slots[r]
        /\ \A k \in Kinds : slots'[s][k].config = slots[s][k].config
    BY <1>5, CallStepFrame DEF StartWriting
  <2>2. Others(s)
    BY <2>1, <1>t, OthersConnect
  <2>3. QED
    BY <2>1, <2>2, <1>t
<1>6. ASSUME NEW s \in Sessions, StartConnect(s)
      PROVE  /\ pc[s] # "connecting" /\ Others(s)
             /\ Target(s)' = Target(s) /\ Kind(s)' = Kind(s)
  BY <1>5, <1>6 DEF StartConnect, FirstUse, Scheduled, Target, Kind, CallStep, RunCall
<1>7. ASSUME NEW s \in Sessions, CircuitOpen(s)
      PROVE  pc[s] # "connecting" /\ pc'[s] # "connecting" /\ Others(s)
  BY <1>5, <1>7, <1>t DEF CircuitOpen, FirstUse, Scheduled, CallStep, RunCall, Answer,
     StartWriting
<1>8. ASSUME NEW s \in Sessions, RunCall(s), ~ StartConnect(s), ~ CircuitOpen(s)
      PROVE  Kept
  <2>1. /\ pc[s] = "queued" /\ pc'[s] \in {"driving", "replying"}
        /\ UNCHANGED breaker
    BY <1>8, <1>t DEF RunCall, UnknownEgress, NotConfigured, CachedFailure,
       ReuseBackend, Scheduled, EnterBackend, Answer, StartWriting, shared
  <2>2. QED
    BY <1>2, <1>5, <1>8, <2>1 DEF CallStep
<1>9. ASSUME NEW s \in Sessions, ConnectEnds(s)
      PROVE  /\ pc[s] = "connecting" /\ pc'[s] # "connecting" /\ Others(s)
             /\ \E ok \in BOOLEAN : RecordOutcome(s, ok)
  <2>1. pc[s] = "connecting" /\ pc'[s] # "connecting"
    BY <1>9, <1>t DEF ConnectEnds, ConnectSucceeds, ConnectFails, EnterBackend,
       Answer, StartWriting
  <2>2. \E ok \in BOOLEAN : RecordOutcome(s, ok)
    BY <1>9 DEF ConnectEnds, ConnectSucceeds, ConnectFails
  <2>3. QED
    BY <1>5, <1>9, <2>1, <2>2 DEF CallStep
<1>10. ASSUME NEW s \in Sessions, BackendEnds(s) \/ (BackendPanics(s) /\ pc[s] = "driving")
       PROVE  Kept
  <2>1. pc[s] = "driving" /\ pc'[s] = "replying" /\ UNCHANGED breaker
    BY <1>10, <1>t DEF BackendEnds, MailLimit, BackendReturns, BackendPanics, Answer,
       StartWriting, shared
  <2>2. QED
    BY <1>2, <1>5, <1>10, <2>1 DEF CallStep
<1>11. ASSUME NEW s \in Sessions, BackendPanics(s), pc[s] # "driving"
       PROVE  /\ pc[s] = "connecting" /\ pc'[s] # "connecting" /\ Others(s)
              /\ UNCHANGED breaker
  <2>1. pc[s] = "connecting" /\ pc'[s] # "connecting" /\ UNCHANGED breaker
    BY <1>11, <1>t DEF BackendPanics, StartWriting, shared
  <2>2. QED
    BY <1>5, <1>11, <2>1 DEF CallStep
<1>12. ASSUME NEW t \in Targets, CoolDown(t)
       PROVE  \A u \in Targets : Connecting(u)' = Connecting(u)
  BY <1>1, <1>12 DEF CoolDown
<1>13. ASSUME UNCHANGED vars PROVE Kept
  BY <1>1, <1>13 DEF vars, shared
<1>14. ASSUME DaemonAborts PROVE \A t \in Targets : breaker'[t].st = "closed"
  BY <1>14 DEF DaemonAborts, ClosedBreaker
<1>15. QED
  BY <1>3, <1>4, <1>6, <1>7, <1>8, <1>9, <1>10, <1>11, <1>12, <1>13, <1>14
     DEF Next, Idle

\* A connect past an open breaker is not admitted.
LEMMA TripStep ==
    ASSUME IInv, [Next]_vars, NEW t \in Targets,
           breaker[t].st = "open", breaker'[t].st = "open"
    PROVE  Connecting(t)' \subseteq Connecting(t)
<1>1. CASE Connecting(t)' = Connecting(t)
  BY <1>1
<1>2. ASSUME NEW s \in Sessions, pc'[s] # "connecting",
             \A r \in Sessions \ {s} : r \in Connecting(t)' <=> r \in Connecting(t)
      PROVE  Connecting(t)' \subseteq Connecting(t)
  BY <1>2 DEF Connecting
<1>3. ASSUME NEW s \in Sessions, StartConnect(s),
             \A r \in Sessions \ {s} : r \in Connecting(t)' <=> r \in Connecting(t),
             Target(s)' = Target(s), Kind(s)' = Kind(s)
      PROVE  Connecting(t)' \subseteq Connecting(t)
  <2>1. Guarded(Kind(s)) /\ Target(s) = t => FALSE
    BY <1>3 DEF StartConnect, allow
  <2>2. s \notin Connecting(t)'
    BY <1>3, <2>1 DEF Connecting, Guarded
  <2>3. QED
    BY <1>3, <2>2 DEF Connecting
<1>4. QED
  BY <1>1, <1>2, <1>3, ConnectSteps

\* The outcome of a connect closes the breaker of its target or opens it.
LEMMA RecordSettles ==
    ASSUME NEW b \in BreakerState, NEW ok, NEW r \in record(b, ok)
    PROVE  r.st # "half_open"
BY DEF record, BreakerState, ClosedBreaker, OpenBreaker

\* A probe that is let through is inside its connect; what ends it settles the
\* breaker or is a panic.
LEMMA ProbeStep ==
    ASSUME IInv, IInv', ProbeAccounted, [Next]_vars
    PROVE  ProbeAccounted'
<1>t. /\ breaker \in [Targets -> BreakerState]
      /\ panics \in [Sessions -> [Kinds -> Nat]]
      /\ panics' \in [Sessions -> [Kinds -> Nat]]
  BY DEF IInv, TypeOK
<1>p. \A s \in Sessions : panics'[s]["db"] >= panics[s]["db"]
  <2>1. CASE \E s \in Sessions : BackendPanics(s)
    BY <2>1, <1>t DEF BackendPanics, IInv, ControlOK, RunOK, Kinds
  <2>2. CASE UNCHANGED panics
    BY <2>2, <1>t DEF Kinds
  <2>3. ASSUME NEW s \in Sessions, BoxStep(s) \/ Write(s) PROVE UNCHANGED panics
    BY <2>3 DEF BoxStep, Opening, FirstFrameNotInit, RejectClient, RejectNames,
       AcceptInit, ReceiveInit, ReceiveCall, ReceiveDrain, ReceiveSecondInit,
       EndOfInput, Write, WriteResponse, WriteFails, history
  <2>4. ASSUME NEW s \in Sessions, RunCall(s) PROVE UNCHANGED panics
    BY <2>4 DEF RunCall, UnknownEgress, NotConfigured, CachedFailure, ReuseBackend,
       StartConnect, CircuitOpen, history
  <2>5. ASSUME NEW s \in Sessions, ConnectEnds(s) \/ BackendEnds(s)
        PROVE  UNCHANGED panics
    BY <2>5 DEF ConnectEnds, ConnectSucceeds, ConnectFails, BackendEnds, MailLimit,
       BackendReturns, history
  <2>6. ASSUME NEW u \in Targets, CoolDown(u) PROVE UNCHANGED panics
    BY <2>6 DEF CoolDown, history
  <2>7. CASE UNCHANGED vars
    BY <2>2, <2>7 DEF vars, history
  <2>8. CASE DaemonAborts
    BY <2>2, <2>8 DEF DaemonAborts, history
  <2>9. QED
    BY <2>1, <2>2, <2>3, <2>4, <2>5, <2>6, <2>7, <2>8 DEF Next, Idle
<1> SUFFICES ASSUME NEW t \in Targets, breaker'[t].st = "half_open",
                    \A s \in Sessions : ~ (panics'[s]["db"] > 0)
             PROVE  Connecting(t)' # {}
  BY DEF ProbeAccounted
<1>1. breaker[t].st = "half_open" => Connecting(t) # {}
  BY <1>p, <1>t DEF ProbeAccounted, Kinds
<1>2. CASE UNCHANGED breaker /\ Connecting(t)' = Connecting(t)
  BY <1>1, <1>2
<1>3. ASSUME NEW u \in Targets, CoolDown(u), Connecting(t)' = Connecting(t)
      PROVE  Connecting(t)' # {}
  BY <1>1, <1>3, <1>t DEF CoolDown, BreakerState
<1>4. ASSUME NEW s \in Sessions, pc[s] # "connecting",
             \A r \in Sessions \ {s} : r \in Connecting(t)' <=> r \in Connecting(t),
             StartConnect(s), Target(s)' = Target(s), Kind(s)' = Kind(s)
      PROVE  Connecting(t)' # {}
  <2>1. CASE Guarded(Kind(s)) /\ Target(s) = t
    <3>1. s \in Connecting(t)'
      BY <1>4, <2>1 DEF Connecting, StartConnect, Guarded, IInv, TypeOK
    <3>2. QED
      BY <3>1
  <2>2. CASE ~ (Guarded(Kind(s)) /\ Target(s) = t)
    <3>1. breaker'[t] = breaker[t]
      BY <1>4, <2>2, <1>t DEF StartConnect
    <3>2. QED
      BY <1>1, <1>4, <3>1 DEF Connecting
  <2>3. QED
    BY <2>1, <2>2
<1>5. ASSUME NEW s \in Sessions, pc[s] # "connecting",
             \A r \in Sessions \ {s} : r \in Connecting(t)' <=> r \in Connecting(t),
             CircuitOpen(s)
      PROVE  Connecting(t)' # {}
  <2>1. breaker'[t].st = breaker[t].st
    <3>1. PICK a \in allow(breaker[Target(s)]) :
             ~ a.admitted /\ breaker' = [breaker EXCEPT ![Target(s)] = a.next]
      BY <1>5 DEF CircuitOpen
    <3>2. Target(s) = t => a.next = breaker[t]
      BY <3>1, <1>t DEF allow, BreakerState
    <3>3. QED
      BY <3>1, <3>2, <1>t
  <2>2. QED
    BY <1>1, <1>5, <2>1 DEF Connecting
<1>6. ASSUME NEW s \in Sessions, pc[s] = "connecting", NEW ok \in BOOLEAN,
             \A r \in Sessions \ {s} : r \in Connecting(t)' <=> r \in Connecting(t),
             RecordOutcome(s, ok)
      PROVE  Connecting(t)' # {}
  <2>1. CASE Guarded(Kind(s)) /\ Target(s) = t
    <3>1. PICK b \in record(breaker[t], ok) : breaker' = [breaker EXCEPT ![t] = b]
      BY <1>6, <2>1 DEF RecordOutcome
    <3>2. breaker'[t].st # "half_open"
      BY <3>1, <1>t, RecordSettles
    <3>3. QED
      BY <3>2
  <2>2. CASE ~ (Guarded(Kind(s)) /\ Target(s) = t)
    <3>1. breaker'[t] = breaker[t] /\ s \notin Connecting(t)
      BY <1>6, <2>2, <1>t DEF RecordOutcome, Connecting
    <3>2. QED
      BY <1>1, <1>6, <3>1 DEF Connecting
  <2>3. QED
    BY <2>1, <2>2
<1>7. ASSUME NEW s \in Sessions, pc[s] = "connecting",
             \A r \in Sessions \ {s} : r \in Connecting(t)' <=> r \in Connecting(t),
             BackendPanics(s), UNCHANGED breaker
      PROVE  Connecting(t)' # {}
  <2>1. Kind(s) \in Kinds
    BY <1>7 DEF IInv, ControlOK, RunOK
  <2>2. Kind(s) # "db"
    BY <1>7, <2>1, <1>t DEF BackendPanics
  <2>3. s \notin Connecting(t)
    BY <2>2 DEF Connecting, Guarded
  <2>4. QED
    BY <1>1, <1>7, <2>3 DEF Connecting
<1>8. QED
  BY <1>2, <1>3, <1>4, <1>5, <1>6, <1>7, ConnectSteps

-----------------------------------------------------------------------------
(* The metrics account of a session. *)

\* A reply Ok of kind k that the box has not received yet, and a call of kind k
\* that has not ended.
Unread(s, k) ==
    IF /\ pc[s] = "replying" /\ response[s].type = "Reply"
       /\ response[s].code = "OK" /\ Kind(s) = k
    THEN 1 ELSE 0

Unended(s, k) == IF pc[s] \in Running /\ Kind(s) = k THEN 1 ELSE 0

\* The account of a session: the replies Ok its box has received or is about to
\* receive are metered, and what is metered was called.
Metered(s) ==
    \A k \in Kinds :
        /\ pc[s] = "await_init" => oks[s][k] = 0
        /\ slots[s][k].state # "ok" => slots[s][k].ops = 0
        /\ pc[s] # "closed" => oks[s][k] + Unread(s, k) <= slots[s][k].ops
        /\ slots[s][k].ops + Unended(s, k) <= called[s][k]

\* What a drain on its way to the box says.
Drained(s) ==
    response[s] # None /\ response[s].type = "Metrics" =>
        \A k \in Kinds : /\ oks[s][k] <= response[s].ops[k]
                         /\ response[s].ops[k] <= called[s][k]

MeterOK == \A s \in Sessions : Metered(s) /\ Drained(s)

\* A step of one session leaves the accounts of the others alone.
LEMMA OthersMetered ==
    ASSUME MeterOK, NEW s \in Sessions,
           \A r \in Sessions : r # s =>
              /\ pc'[r] = pc[r] /\ call'[r] = call[r]
              /\ response'[r] = response[r] /\ slots'[r] = slots[r]
              /\ oks'[r] = oks[r] /\ called'[r] = called[r],
           Metered(s)', Drained(s)'
    PROVE  MeterOK'
<1>1. ASSUME NEW r \in Sessions, r # s PROVE Metered(r)' /\ Drained(r)'
  BY <1>1 DEF MeterOK, Metered, Drained, Unread, Unended, Kind
<1>2. QED
  BY <1>1 DEF MeterOK

\* An answer that is not Ok and no drain changes nothing in the account.
LEMMA MeterKept ==
    ASSUME IInv, IInv', MeterOK, NEW s \in Sessions,
           \A r \in Sessions : r # s =>
              /\ pc'[r] = pc[r] /\ response'[r] = response[r] /\ slots'[r] = slots[r],
           UNCHANGED <<call, oks, called>>,
           pc[s] # "closed", pc'[s] # "await_init",
           pc'[s] \in Running => pc[s] \in Running,
           \/ response'[s] = response[s] /\ pc'[s] # "replying"
           \/ /\ response'[s] # None /\ response'[s].type # "Metrics"
              /\ response'[s].type = "Reply" => response'[s].code # "OK",
           \A k \in Kinds :
              /\ slots'[s][k].ops = slots[s][k].ops
              /\ slots'[s][k].state # "ok" => slots[s][k].state # "ok"
    PROVE  MeterOK'
<1>1. \A k \in Kinds : /\ oks[s][k] \in Nat /\ called[s][k] \in Nat
                       /\ slots[s][k].ops \in Nat
  BY DEF IInv, TypeOK, Slot
<1>2. Metered(s)'
  <2> SUFFICES ASSUME NEW k \in Kinds
               PROVE  /\ slots'[s][k].state # "ok" => slots'[s][k].ops = 0
                      /\ oks'[s][k] + Unread(s, k)' <= slots'[s][k].ops
                      /\ slots'[s][k].ops + Unended(s, k)' <= called'[s][k]
    BY DEF Metered
  <2>1. Unread(s, k)' = 0
    BY DEF Unread
  <2>2. Unended(s, k)' <= Unended(s, k)
    BY DEF Unended, Kind
  <2>3. /\ slots[s][k].state # "ok" => slots[s][k].ops = 0
        /\ oks[s][k] + Unread(s, k) <= slots[s][k].ops
        /\ slots[s][k].ops + Unended(s, k) <= called[s][k]
        /\ Unread(s, k) \in {0, 1} /\ Unended(s, k) \in {0, 1}
        /\ Unended(s, k)' \in {0, 1}
    BY DEF MeterOK, Metered, Unread, Unended
  <2>4. QED
    BY <1>1, <2>1, <2>2, <2>3
<1>3. Drained(s)'
  BY DEF MeterOK, Drained
<1>4. QED
  BY <1>2, <1>3, OthersMetered

\* Settling a cell and metering an operation change one slot each.
LEMMA SettleMeters ==
    ASSUME IInv, NEW s \in Sessions, Kind(s) \in Kinds,
           slots[s][Kind(s)].state = "empty",
           NEW state \in {"ok", "err"}, NEW code \in Codes,
           Settle(s, state, code)
    PROVE  \A k \in Kinds :
              /\ slots'[s][k].ops = slots[s][k].ops
              /\ slots'[s][k].state # "ok" => slots[s][k].state # "ok"
<1>1. slots[s] \in [Kinds -> Slot] /\ slots[s][Kind(s)] \in Slot
  BY DEF IInv, TypeOK
<1> DEFINE new == [slots[s][Kind(s)] EXCEPT !.state = state, !.code = code]
<1>2. new.ops = slots[s][Kind(s)].ops /\ new.state = state
  BY <1>1 DEF Slot
<1>3. slots' = [slots EXCEPT ![s] = [slots[s] EXCEPT ![Kind(s)] = new]]
  BY <1>1 DEF Settle, IInv, TypeOK, Slot
<1> HIDE DEF new
<1>4. QED
  BY <1>1, <1>2, <1>3 DEF IInv, TypeOK

\* The steps of a call that meter nothing.
LEMMA UnmeteredCallStep ==
    ASSUME IInv, IInv', MeterOK, NEW s \in Sessions,
           RunCall(s) \/ ConnectEnds(s) \/ MailLimit(s) \/ BackendPanics(s)
    PROVE  MeterOK'
<1> DEFINE Quiet ==
             \/ response'[s] = response[s] /\ pc'[s] # "replying"
             \/ /\ response'[s] # None /\ response'[s].type # "Metrics"
                /\ response'[s].type = "Reply" => response'[s].code # "OK"
           Slotted ==
             \A k \in Kinds :
                /\ slots'[s][k].ops = slots[s][k].ops
                /\ slots'[s][k].state # "ok" => slots[s][k].state # "ok"
<1>t. /\ pc \in [Sessions -> PC]
      /\ response \in [Sessions -> WireResponse \cup {None}]
      /\ slots \in [Sessions -> [Kinds -> Slot]]
      /\ None \notin WireResponse
  BY SessionAssumption DEF IInv, TypeOK
<1>1. CallStep(s)
  BY DEF CallStep, BackendEnds
<1>2. /\ pc[s] \in Running /\ pc'[s] \in {"connecting", "driving", "replying"}
      /\ \A r \in Sessions : r # s =>
            pc'[r] = pc[r] /\ response'[r] = response[r] /\ slots'[r] = slots[r]
      /\ UNCHANGED <<call, oks, called>>
  BY <1>1, <1>t, CallStepFrame DEF StartWriting, box
<1>3. ASSUME NEW code \in Codes, code # "OK", Answer(s, code) PROVE Quiet
  BY <1>3, <1>t, ResponseTypes DEF Answer, StartWriting
<1>4. ASSUME EnterBackend(s) PROVE Quiet
  <2>1. "BAD_PAYLOAD" \in Codes
    BY DEF Codes, ReplyCodes
  <2>2. QED
    BY <1>3, <1>4, <2>1, <1>t DEF EnterBackend
<1>5. ASSUME UNCHANGED slots PROVE Slotted
  BY <1>5
<1>6. {"IO_UNKNOWN", "NOT_CONFIGURED", "DB_CIRCUIT_OPEN", "CONNECT_FAILED",
       "MAIL_OP_LIMIT", "OK"} \subseteq Codes
  BY DEF Codes, ReplyCodes
<1> HIDE DEF Quiet, Slotted
<1>7. CASE UnknownEgress(s) \/ NotConfigured(s) \/ MailLimit(s)
  <2>1. Quiet /\ Slotted
    BY <1>7, <1>3, <1>5, <1>6 DEF UnknownEgress, NotConfigured, MailLimit
  <2>2. QED
    BY <1>2, <2>1, MeterKept DEF Quiet, Slotted, Running
<1>8. CASE CachedFailure(s)
  <2>1. slots[s][Kind(s)].code \in Codes \ {"OK"}
    BY <1>8, <1>t DEF CachedFailure, IInv, SlotsOK, Slot
  <2>2. Quiet /\ Slotted
    BY <1>8, <2>1, <1>3, <1>5 DEF CachedFailure
  <2>3. QED
    BY <1>2, <2>2, MeterKept DEF Quiet, Slotted, Running
<1>9. CASE ReuseBackend(s)
  <2>1. Quiet /\ Slotted
    BY <1>9, <1>4, <1>5 DEF ReuseBackend
  <2>2. QED
    BY <1>2, <2>1, MeterKept DEF Quiet, Slotted, Running
<1>10. CASE StartConnect(s)
  <2>1. Quiet /\ Slotted
    BY <1>10, <1>5, <1>t DEF StartConnect, Quiet
  <2>2. QED
    BY <1>2, <2>1, MeterKept DEF Quiet, Slotted, Running
<1>11. CASE CircuitOpen(s)
  <2>1. Quiet
    BY <1>11, <1>3, <1>6 DEF CircuitOpen
  <2>2. Slotted
    BY <1>11, <1>6, SettleMeters DEF CircuitOpen, FirstUse, Slotted
  <2>3. QED
    BY <1>2, <2>1, <2>2, MeterKept DEF Quiet, Slotted, Running
<1>12. CASE ConnectEnds(s)
  <2>1. Kind(s) \in Kinds /\ slots[s][Kind(s)].state = "empty"
    BY <1>12 DEF ConnectEnds, ConnectSucceeds, ConnectFails, IInv, ControlOK, RunOK
  <2>2. Quiet
    BY <1>12, <1>3, <1>4, <1>6 DEF ConnectEnds, ConnectSucceeds, ConnectFails
  <2>3. Slotted
    BY <1>12, <1>6, <2>1, SettleMeters DEF ConnectEnds, ConnectSucceeds, ConnectFails,
       Slotted
  <2>4. QED
    BY <1>2, <2>2, <2>3, MeterKept DEF Quiet, Slotted, Running
<1>13. CASE BackendPanics(s)
  <2>1. Quiet /\ Slotted
    BY <1>13, <1>5, <1>t, ResponseTypes DEF BackendPanics, StartWriting, Quiet
  <2>2. QED
    BY <1>2, <2>1, MeterKept DEF Quiet, Slotted, Running
<1>14. QED
  BY <1>7, <1>8, <1>9, <1>10, <1>11, <1>12, <1>13 DEF RunCall

\* An operation that ends is metered before its reply can be read.
LEMMA MeteredCallStep ==
    ASSUME IInv, IInv', MeterOK, NEW s \in Sessions, NEW code, BackendReturns(s, code)
    PROVE  MeterOK'
<1>t. /\ pc \in [Sessions -> PC]
      /\ response \in [Sessions -> WireResponse \cup {None}]
      /\ slots \in [Sessions -> [Kinds -> Slot]]
      /\ None \notin WireResponse
  BY SessionAssumption DEF IInv, TypeOK
<1>1. /\ pc[s] = "driving" /\ code \in {"OK", "DRIVER_ERROR"}
      /\ pc' = [pc EXCEPT ![s] = "replying"]
      /\ response' = [response EXCEPT ![s] = Reply(code)]
      /\ UNCHANGED <<call, oks, called>>
  BY DEF BackendReturns, Answer, StartWriting, box
<1>2. Kind(s) \in Kinds /\ slots[s][Kind(s)].state = "ok"
  BY <1>1 DEF IInv, ControlOK, RunOK
<1>3. slots[s] \in [Kinds -> Slot] /\ slots[s][Kind(s)] \in Slot
  BY <1>2, <1>t
<1> DEFINE new == [slots[s][Kind(s)] EXCEPT !.ops = @ + 1]
<1>4. new.ops = slots[s][Kind(s)].ops + 1 /\ new.state = "ok"
  BY <1>2, <1>3 DEF Slot
<1>5. slots' = [slots EXCEPT ![s] = [slots[s] EXCEPT ![Kind(s)] = new]]
  BY <1>3, <1>t DEF BackendReturns, Slot
<1> HIDE DEF new
<1>6. /\ \A r \in Sessions : r # s => slots'[r] = slots[r]
      /\ \A k \in Kinds : k # Kind(s) => slots'[s][k] = slots[s][k]
      /\ slots'[s][Kind(s)] = new
  BY <1>2, <1>3, <1>5, <1>t
<1>7. code \in Codes /\ Reply(code) \in WireResponse /\ Reply(code).type = "Reply"
      /\ Reply(code).code = code
  BY <1>1, ResponseTypes DEF Codes, ReplyCodes
<1>8. Drained(s)'
  BY <1>1, <1>7, <1>t DEF Drained
<1>9. Metered(s)'
  <2> SUFFICES ASSUME NEW k \in Kinds
               PROVE  /\ slots'[s][k].state # "ok" => slots'[s][k].ops = 0
                      /\ oks'[s][k] + Unread(s, k)' <= slots'[s][k].ops
                      /\ slots'[s][k].ops + Unended(s, k)' <= called'[s][k]
    BY <1>1, <1>t DEF Metered
  <2>1. /\ oks[s][k] \in Nat /\ called[s][k] \in Nat /\ slots[s][k].ops \in Nat
    BY DEF IInv, TypeOK, Slot
  <2>2. /\ slots[s][k].state # "ok" => slots[s][k].ops = 0
        /\ oks[s][k] + Unread(s, k) <= slots[s][k].ops
        /\ slots[s][k].ops + Unended(s, k) <= called[s][k]
    BY <1>1 DEF MeterOK, Metered
  <2>3. /\ Unread(s, k) = 0 /\ Unended(s, k)' = 0
        /\ Unended(s, k) = IF k = Kind(s) THEN 1 ELSE 0
        /\ Unread(s, k)' \in {0, 1} /\ (k # Kind(s) => Unread(s, k)' = 0)
    BY <1>1, <1>t DEF Unread, Unended, Running, Kind
  <2>4. CASE k = Kind(s)
    BY <1>1, <1>4, <1>6, <2>1, <2>2, <2>3, <2>4
  <2>5. CASE k # Kind(s)
    BY <1>1, <1>6, <2>1, <2>2, <2>3, <2>5
  <2>6. QED
    BY <2>4, <2>5
<1>10. QED
  BY <1>1, <1>6, <1>8, <1>9, <1>t, OthersMetered

\* Opening a session starts its account at zero.
LEMMA OpeningMeters ==
    ASSUME IInv, IInv', MeterOK, NEW s \in Sessions, Opening(s)
    PROVE  MeterOK'
<1>t. /\ pc \in [Sessions -> PC]
      /\ response \in [Sessions -> WireResponse \cup {None}]
      /\ slots \in [Sessions -> [Kinds -> Slot]]
      /\ \A k \in Kinds : oks[s][k] \in Nat /\ called[s][k] \in Nat
      /\ None \notin WireResponse
  BY SessionAssumption DEF IInv, TypeOK
<1>1. /\ pc[s] = "await_init"
      /\ \E r \in WireResponse, next \in {"rejecting", "acking"} :
            /\ r.type \notin {"Reply", "Metrics"}
            /\ StartWriting(s, r, next)
      /\ \A r \in Sessions : r # s => slots'[r] = slots[r]
      /\ UNCHANGED <<call, oks, called>>
  <2>1. \A i \in Inits : resolve(Table, i.tenant, i.names).code \in Codes
    BY ResolveResult, SessionAssumption DEF WireInit, Codes, ReplyCodes
  <2>2. "UNAUTHENTICATED" \in Codes
    BY DEF Codes
  <2>3. ASSUME NEW i \in Inits, NEW verified,
               \/ RejectClient(s, i, verified)
               \/ RejectNames(s, i, verified)
               \/ AcceptInit(s, i, verified)
        PROVE  /\ \E r \in WireResponse, next \in {"rejecting", "acking"} :
                     /\ r.type \notin {"Reply", "Metrics"}
                     /\ StartWriting(s, r, next)
               /\ \A r \in Sessions : r # s => slots'[r] = slots[r]
    BY <2>1, <2>2, <2>3, <1>t, ResponseTypes DEF RejectClient, RejectNames, AcceptInit
  <2>4. ASSUME NEW kind, FirstFrameNotInit(s, kind)
        PROVE  \E r \in WireResponse, next \in {"rejecting", "acking"} :
                  /\ r.type \notin {"Reply", "Metrics"}
                  /\ StartWriting(s, r, next)
    BY <2>4, ResponseTypes DEF FirstFrameNotInit
  <2>5. pc[s] = "await_init" /\ UNCHANGED <<call, oks, called>>
    BY DEF Opening, FirstFrameNotInit, RejectClient, RejectNames, AcceptInit,
       ReceiveInit
  <2>6. \A r \in Sessions : r # s => slots'[r] = slots[r]
    BY <2>3 DEF Opening, FirstFrameNotInit
  <2>7. QED
    BY <2>3, <2>4, <2>5, <2>6 DEF Opening
<1>2. \A k \in Kinds : slots'[s][k].ops = 0
  <2>1. \A k \in Kinds : slots[s][k].ops = 0
    BY <1>1 DEF IInv, ControlOK, RunOK, NoBackends, NoSlot
  <2>2. ASSUME NEW i \in Inits, NEW verified, AcceptInit(s, i, verified),
               NEW k \in Kinds
        PROVE  slots'[s][k].ops = 0
    BY <2>2, <1>t DEF AcceptInit, from_configs, NoSlot
  <2>3. QED
    BY <2>1, <2>2 DEF Opening, FirstFrameNotInit, RejectClient, RejectNames
<1>3. Metered(s)'
  <2> SUFFICES ASSUME NEW k \in Kinds
               PROVE  /\ oks'[s][k] + Unread(s, k)' <= slots'[s][k].ops
                      /\ slots'[s][k].ops + Unended(s, k)' <= called'[s][k]
    BY <1>1, <1>2, <1>t DEF Metered, StartWriting
  <2>1. oks[s][k] = 0
    BY <1>1 DEF MeterOK, Metered
  <2>2. Unread(s, k)' = 0 /\ Unended(s, k)' = 0
    BY <1>1, <1>t DEF Unread, Unended, StartWriting, Running
  <2>3. QED
    BY <1>1, <1>2, <2>1, <2>2, <1>t
<1>4. Drained(s)'
  BY <1>1, <1>t DEF Drained, StartWriting
<1>5. QED
  BY <1>1, <1>3, <1>4, <1>t, OthersMetered DEF StartWriting

\* A call is counted when it is taken.
LEMMA ReceiveCallMeters ==
    ASSUME IInv, IInv', MeterOK, NEW s \in Sessions, NEW c \in Calls,
           ReceiveCall(s, c)
    PROVE  MeterOK'
<1>t. /\ pc \in [Sessions -> PC]
      /\ call \in [Sessions -> WireCall \cup {None}]
      /\ called \in [Sessions -> [Kinds -> Nat]]
      /\ \A k \in Kinds : oks[s][k] \in Nat /\ slots[s][k].ops \in Nat
  BY DEF IInv, TypeOK, Slot
<1>1. /\ pc[s] = "serving" /\ pc' = [pc EXCEPT ![s] = "queued"]
      /\ call' = [call EXCEPT ![s] = c]
      /\ UNCHANGED <<response, slots, oks>>
  BY DEF ReceiveCall
<1>2. /\ \A r \in Sessions : r # s => called'[r] = called[r]
      /\ \A k \in Kinds : called'[s][k] = IF k = c.name THEN called[s][k] + 1
                                          ELSE called[s][k]
  <2>1. CASE c.name \in Kinds
    BY <2>1, <1>t DEF ReceiveCall
  <2>2. CASE c.name \notin Kinds
    BY <2>2, <1>t DEF ReceiveCall
  <2>3. QED
    BY <2>1, <2>2
<1>3. Metered(s)'
  <2> SUFFICES ASSUME NEW k \in Kinds
               PROVE  /\ slots'[s][k].state # "ok" => slots'[s][k].ops = 0
                      /\ oks'[s][k] + Unread(s, k)' <= slots'[s][k].ops
                      /\ slots'[s][k].ops + Unended(s, k)' <= called'[s][k]
    BY <1>1, <1>t DEF Metered
  <2>1. /\ Unread(s, k)' = 0 /\ Unread(s, k) = 0 /\ Unended(s, k) = 0
        /\ Unended(s, k)' = IF k = c.name THEN 1 ELSE 0
    BY <1>1, <1>t DEF Unread, Unended, Running, Kind
  <2>2. /\ slots[s][k].state # "ok" => slots[s][k].ops = 0
        /\ oks[s][k] + Unread(s, k) <= slots[s][k].ops
        /\ slots[s][k].ops + Unended(s, k) <= called[s][k]
    BY <1>1 DEF MeterOK, Metered
  <2>3. called[s][k] \in Nat
    BY <1>t
  <2>4. QED
    BY <1>1, <1>2, <2>1, <2>2, <2>3, <1>t
<1>4. Drained(s)'
  <2>1. Drained(s) /\ response'[s] = response[s] /\ oks'[s] = oks[s]
    BY <1>1 DEF MeterOK
  <2>2. \A k \in Kinds : /\ called'[s][k] >= called[s][k]
                         /\ called[s][k] \in Nat /\ called'[s][k] \in Nat
    BY <1>2, <1>t
  <2>3. response[s] # None => \A k \in Kinds : response[s].ops[k] \in Nat
    BY DEF IInv, TypeOK, WireResponse
  <2>4. QED
    BY <2>1, <2>2, <2>3 DEF Drained
<1>5. QED
  BY <1>1, <1>2, <1>3, <1>4, <1>t, OthersMetered

\* A drain reports the account as it stands.
LEMMA ReceiveDrainMeters ==
    ASSUME IInv, IInv', MeterOK, NEW s \in Sessions, ReceiveDrain(s)
    PROVE  MeterOK'
<1>t. /\ pc \in [Sessions -> PC]
      /\ response \in [Sessions -> WireResponse \cup {None}]
      /\ \A k \in Kinds : /\ oks[s][k] \in Nat /\ slots[s][k].ops \in Nat
                          /\ called[s][k] \in Nat
  BY DEF IInv, TypeOK, Slot
<1> DEFINE r == [type |-> "Metrics", code |-> "OK", ops |-> metrics(slots[s])]
<1>1. /\ pc[s] = "serving" /\ pc' = [pc EXCEPT ![s] = "replying"]
      /\ response' = [response EXCEPT ![s] = r]
      /\ UNCHANGED <<call, slots, oks, called>>
  BY DEF ReceiveDrain, StartWriting
<1>2. r.type = "Metrics" /\ r.ops = metrics(slots[s])
  OBVIOUS
<1> HIDE DEF r
<1>3. \A k \in Kinds : Unread(s, k) = 0 /\ Unended(s, k) = 0
                       /\ Unread(s, k)' = 0 /\ Unended(s, k)' = 0
  BY <1>1, <1>2, <1>t DEF Unread, Unended, Running
<1>4. \A k \in Kinds :
         /\ slots[s][k].state # "ok" => slots[s][k].ops = 0
         /\ oks[s][k] <= slots[s][k].ops
         /\ slots[s][k].ops <= called[s][k]
  BY <1>1, <1>3, <1>t DEF MeterOK, Metered
<1>5. Metered(s)'
  BY <1>1, <1>3, <1>4, <1>t DEF Metered
<1>6. Drained(s)'
  <2>1. \A k \in Kinds : metrics(slots[s])[k] = slots[s][k].ops
    BY <1>4 DEF metrics
  <2>2. QED
    BY <1>1, <1>2, <1>4, <2>1, <1>t DEF Drained
<1>7. QED
  BY <1>1, <1>5, <1>6, <1>t, OthersMetered

\* A reply Ok that is written was unread.
LEMMA WriteResponseMeters ==
    ASSUME IInv, IInv', MeterOK, NEW s \in Sessions, WriteResponse(s)
    PROVE  MeterOK'
<1>t. /\ pc \in [Sessions -> PC]
      /\ response \in [Sessions -> WireResponse \cup {None}]
      /\ call \in [Sessions -> WireCall \cup {None}]
      /\ oks \in [Sessions -> [Kinds -> Nat]]
      /\ \A k \in Kinds : slots[s][k].ops \in Nat /\ called[s][k] \in Nat
  BY DEF IInv, TypeOK, Slot
<1>1. /\ pc[s] \in {"rejecting", "acking", "replying"}
      /\ pc' = [pc EXCEPT ![s] = IF pc[s] = "rejecting" THEN "closed" ELSE "serving"]
      /\ response' = [response EXCEPT ![s] = None]
      /\ call' = [call EXCEPT ![s] = None]
      /\ UNCHANGED <<slots, called>>
  BY DEF WriteResponse
<1>2. /\ \A r \in Sessions : r # s => oks'[r] = oks[r]
      /\ \A k \in Kinds : oks'[s][k] = oks[s][k] + Unread(s, k)
  <2>1. CASE response[s].type = "Reply" /\ response[s].code = "OK"
    <3>1. pc[s] = "replying" /\ Kind(s) \in Kinds
      BY <1>1, <2>1 DEF IInv, ControlOK, OwedOK, RunOK
    <3>2. QED
      BY <2>1, <3>1, <1>t DEF WriteResponse, Unread
  <2>2. CASE ~ (response[s].type = "Reply" /\ response[s].code = "OK")
    BY <2>2, <1>t DEF WriteResponse, Unread
  <2>3. QED
    BY <2>1, <2>2
<1>3. Metered(s)'
  <2> SUFFICES ASSUME NEW k \in Kinds
               PROVE  /\ slots'[s][k].state # "ok" => slots'[s][k].ops = 0
                      /\ oks'[s][k] + Unread(s, k)' <= slots'[s][k].ops
                      /\ slots'[s][k].ops + Unended(s, k)' <= called'[s][k]
    BY <1>1, <1>t DEF Metered
  <2>1. Unread(s, k)' = 0 /\ Unended(s, k)' = 0 /\ Unended(s, k) = 0
        /\ Unread(s, k) \in {0, 1}
    BY <1>1, <1>t DEF Unread, Unended, Running
  <2>2. /\ slots[s][k].state # "ok" => slots[s][k].ops = 0
        /\ oks[s][k] + Unread(s, k) <= slots[s][k].ops
        /\ slots[s][k].ops + Unended(s, k) <= called[s][k]
    BY <1>1 DEF MeterOK, Metered
  <2>3. QED
    BY <1>1, <1>2, <2>1, <2>2, <1>t
<1>4. Drained(s)'
  BY <1>1, <1>t DEF Drained
<1>5. QED
  BY <1>1, <1>2, <1>3, <1>4, <1>t, OthersMetered

\* A session that ends closes its account.
LEMMA CloseMeters ==
    ASSUME IInv, IInv', MeterOK, NEW s \in Sessions, EndOfInput(s) \/ WriteFails(s)
    PROVE  MeterOK'
<1>t. /\ pc \in [Sessions -> PC]
      /\ response \in [Sessions -> WireResponse \cup {None}]
      /\ slots \in [Sessions -> [Kinds -> Slot]]
      /\ call \in [Sessions -> WireCall \cup {None}]
      /\ \A k \in Kinds : called[s][k] \in Nat
  BY DEF IInv, TypeOK
<1>1. /\ pc' = [pc EXCEPT ![s] = "closed"]
      /\ slots' = [slots EXCEPT ![s] = NoBackends]
      /\ response' = response \/ response' = [response EXCEPT ![s] = None]
      /\ call' = call \/ call' = [call EXCEPT ![s] = None]
      /\ UNCHANGED <<oks, called>>
  BY DEF EndOfInput, WriteFails, box
<1>2. Metered(s)'
  BY <1>1, <1>t DEF Metered, Unended, Running, NoBackends, NoSlot
<1>3. Drained(s)'
  BY <1>1, <1>t DEF MeterOK, Drained
<1>4. QED
  BY <1>1, <1>2, <1>3, <1>t, OthersMetered

\* An abort closes the account of every session that has begun.
LEMMA AbortMeters ==
    ASSUME IInv, MeterOK, DaemonAborts
    PROVE  MeterOK'
<1> SUFFICES ASSUME NEW s \in Sessions PROVE Metered(s)' /\ Drained(s)'
  BY DEF MeterOK
<1>1. /\ pc'[s] = IF pc[s] = "await_init" THEN "await_init" ELSE "closed"
      /\ response'[s] = None /\ slots'[s] = NoBackends
      /\ UNCHANGED <<oks, called>>
  BY DEF DaemonAborts, box
<1>2. \A k \in Kinds : NoBackends[k].state = "none" /\ NoBackends[k].ops = 0
  BY DEF NoBackends, NoSlot
<1>3. \A k \in Kinds : /\ called[s][k] \in Nat
                       /\ pc[s] = "await_init" => oks[s][k] = 0
  BY DEF IInv, TypeOK, MeterOK, Metered
<1>4. \A k \in Kinds : Unread(s, k)' = 0 /\ Unended(s, k)' = 0
  BY <1>1 DEF Unread, Unended, Running
<1>5. Metered(s)'
  BY <1>1, <1>2, <1>3, <1>4 DEF Metered
<1>6. Drained(s)'
  BY <1>1 DEF Drained
<1>7. QED
  BY <1>5, <1>6

\* Every step keeps every account.
LEMMA MeterStep ==
    ASSUME IInv, IInv', MeterOK, [Next]_vars
    PROVE  MeterOK'
<1>1. ASSUME UNCHANGED <<pc, call, response, slots, box>> PROVE MeterOK'
  BY <1>1 DEF MeterOK, Metered, Drained, Unread, Unended, Kind, box
<1>2. ASSUME NEW s \in Sessions, ReceiveSecondInit(s) PROVE MeterOK'
  <2>1. /\ pc[s] = "serving" /\ pc'[s] = "replying"
        /\ response'[s] = ProtocolError
        /\ \A r \in Sessions : r # s =>
              pc'[r] = pc[r] /\ response'[r] = response[r] /\ slots'[r] = slots[r]
        /\ UNCHANGED <<call, oks, called, slots>>
    BY <1>2 DEF ReceiveSecondInit, StartWriting, IInv, TypeOK
  <2>2. ProtocolError # None /\ ProtocolError.type = "ProtocolError"
    BY ResponseTypes, SessionAssumption
  <2>3. QED
    BY <2>1, <2>2, MeterKept DEF Running
<1>3. ASSUME NEW t \in Targets, CoolDown(t) PROVE MeterOK'
  BY <1>1, <1>3 DEF CoolDown
<1>4. CASE UNCHANGED vars
  BY <1>1, <1>4 DEF vars
<1>5. CASE DaemonAborts
  BY <1>5, AbortMeters
<1>6. QED
  BY <1>2, <1>3, <1>4, <1>5, OpeningMeters, ReceiveCallMeters, ReceiveDrainMeters,
     WriteResponseMeters, CloseMeters, UnmeteredCallStep, MeteredCallStep
     DEF Next, BoxStep, Write, BackendEnds, Idle

-----------------------------------------------------------------------------
(* The wire contract. *)

\* The contract's variables as the daemon's state determines them.
phaseBar == [s \in Sessions |-> Phase(s)]

answerBar == [s \in Sessions |-> AnswerType(s)]

\* A fresh daemon is a fresh contract.
LEMMA ContractInit == Init => Contract!Init
BY DEF Init, Contract!Init, Phase, AnswerType

\* A step of one session moves the contract of that session only.
LEMMA OthersContract ==
    ASSUME IInv, NEW s \in Sessions,
           \A r \in Sessions : r # s => pc'[r] = pc[r] /\ delivered'[r] = delivered[r]
    PROVE  /\ phaseBar' = [phaseBar EXCEPT ![s] = Phase(s)']
           /\ answerBar' = [answerBar EXCEPT ![s] = AnswerType(s)']
<1>1. \A r \in Sessions : r # s => Phase(r)' = Phase(r) /\ AnswerType(r)' = AnswerType(r)
  BY DEF Phase, AnswerType
<1>2. QED
  BY <1>1 DEF phaseBar, answerBar

\* Taking a frame off the stream, whatever comes of it, is a request of the
\* contract.
LEMMA RequestStep ==
    ASSUME IInv, NEW s \in Sessions, NEW kind \in {"Init", "Call", "Drain"},
           pc[s] \in {"await_init", "serving"}, Take(s, kind),
           NEW next, pc' = [pc EXCEPT ![s] = next],
           pc[s] = "await_init" => next \in {"rejecting", "acking"},
           pc[s] = "serving" => next \in {"queued", "replying"},
           UNCHANGED delivered
    PROVE  Contract!Next
<1>1. Phase(s)' = Phase(s) /\ Phase(s) # "closed" /\ AnswerType(s)' = AnswerType(s)
  BY DEF Phase, AnswerType, IInv, TypeOK
<1>2. phaseBar' = phaseBar /\ answerBar' = answerBar /\ phaseBar[s] = Phase(s)
  <2>1. \A r \in Sessions : r # s => pc'[r] = pc[r] /\ delivered'[r] = delivered[r]
    BY DEF IInv, TypeOK
  <2>2. /\ phaseBar' = [phaseBar EXCEPT ![s] = Phase(s)']
        /\ answerBar' = [answerBar EXCEPT ![s] = AnswerType(s)']
    BY <2>1, OthersContract
  <2>3. phaseBar[s] = Phase(s) /\ answerBar[s] = AnswerType(s)
    BY DEF phaseBar, answerBar
  <2>4. QED
    BY <1>1, <2>2, <2>3 DEF phaseBar, answerBar
<1>3. request[s] = "nothing" /\ request' = [request EXCEPT ![s] = kind]
  BY DEF Take, IInv, ControlOK, OwedOK
<1>4. Contract!Request(s, kind)
  BY <1>1, <1>2, <1>3 DEF Contract!Request, phaseBar, answerBar
<1>5. QED
  BY <1>4 DEF Contract!Next, Contract!Requests

\* The response that is written is one the contract lets the owed request draw,
\* and it leaves the session in the phase the contract says.
LEMMA AnswerStep ==
    ASSUME IInv, NEW s \in Sessions, WriteResponse(s)
    PROVE  Contract!Next
<1>t. /\ pc \in [Sessions -> PC]
      /\ delivered \in [Sessions -> WireResponse \cup {None}]
      /\ request \in [Sessions -> {"nothing", "Init", "Call", "Drain"}]
  BY DEF IInv, TypeOK
<1>1. /\ pc[s] \in {"rejecting", "acking", "replying"}
      /\ pc' = [pc EXCEPT ![s] = IF pc[s] = "rejecting" THEN "closed" ELSE "serving"]
      /\ delivered' = [delivered EXCEPT ![s] = response[s]]
      /\ request' = [request EXCEPT ![s] = "nothing"]
  BY DEF WriteResponse
<1> DEFINE type == response[s].type
<1>2. /\ response[s] \in WireResponse /\ response[s] # None
      /\ type \in Contract!Types
  BY <1>1, SessionAssumption DEF IInv, ControlOK, OwedOK, Writing, WireResponse,
     Contract!Types
<1>3. /\ pc[s] = "acking" => request[s] = "Init" /\ type = "Ack"
      /\ pc[s] = "rejecting" =>
            \/ request[s] = "Init" /\ type = "InitError"
            \/ request[s] \in {"Call", "Drain"} /\ type = "ProtocolError"
      /\ pc[s] = "replying" =>
            \/ request[s] = "Call" /\ type \in {"Reply", "ProtocolError"}
            \/ request[s] = "Drain" /\ type = "Metrics"
            \/ request[s] = "Init" /\ type = "ProtocolError"
  BY DEF IInv, ControlOK, OwedOK
<1>4. /\ pc[s] = "acking" => Phase(s) = "opening" /\ Phase(s)' = "open"
      /\ pc[s] = "rejecting" => Phase(s) = "opening" /\ Phase(s)' = "closed"
      /\ pc[s] = "replying" => Phase(s) = "open" /\ Phase(s)' = "open"
      /\ AnswerType(s)' = type
  BY <1>1, <1>2, <1>t DEF Phase, AnswerType
<1> HIDE DEF type
<1>5. /\ phaseBar' = [phaseBar EXCEPT ![s] = Phase(s)'] /\ phaseBar[s] = Phase(s)
      /\ answerBar' = [answerBar EXCEPT ![s] = AnswerType(s)']
  BY <1>1, <1>t, OthersContract DEF phaseBar
<1>6. /\ Phase(s) # "closed" /\ request[s] # "nothing"
      /\ type \in Contract!Draws(Phase(s), request[s])
      /\ Phase(s)' = Contract!PhaseAfter(Phase(s), type)
  BY <1>1, <1>3, <1>4 DEF Contract!Draws, Contract!PhaseAfter
<1>7. Contract!Answer(s, type)
  BY <1>1, <1>4, <1>5, <1>6 DEF Contract!Answer, phaseBar, answerBar
<1>8. QED
  BY <1>2, <1>7 DEF Contract!Next

\* The end of the stream, from either side, is the contract's hang-up.
LEMMA HangUpStep ==
    ASSUME IInv, NEW s \in Sessions, EndOfInput(s) \/ WriteFails(s)
    PROVE  Contract!Next
<1>t. /\ pc \in [Sessions -> PC]
      /\ request \in [Sessions -> {"nothing", "Init", "Call", "Drain"}]
  BY DEF IInv, TypeOK
<1>1. /\ pc[s] \in {"await_init", "serving", "rejecting", "acking", "replying"}
      /\ pc' = [pc EXCEPT ![s] = "closed"]
      /\ UNCHANGED delivered
  BY DEF EndOfInput, WriteFails, box
<1>2. request' = [request EXCEPT ![s] = "nothing"]
  BY <1>t DEF EndOfInput, WriteFails, IInv, ControlOK, OwedOK
<1>3. Phase(s) # "closed" /\ Phase(s)' = "closed" /\ AnswerType(s)' = AnswerType(s)
  BY <1>1, <1>t DEF Phase, AnswerType
<1>4. /\ phaseBar' = [phaseBar EXCEPT ![s] = "closed"] /\ phaseBar[s] = Phase(s)
      /\ answerBar' = answerBar
  BY <1>1, <1>3, <1>t, OthersContract DEF phaseBar, answerBar
<1>5. Contract!HangUp({s})
  <2>1. phaseBar' = [r \in Sessions |-> IF r \in {s} THEN "closed" ELSE phaseBar[r]]
    BY <1>4 DEF phaseBar
  <2>2. request' = [r \in Sessions |-> IF r \in {s} THEN "nothing" ELSE request[r]]
    BY <1>2, <1>t
  <2>3. QED
    BY <1>4, <2>1, <2>2 DEF Contract!HangUp, phaseBar, answerBar
<1>6. {s} \in SUBSET Sessions
  OBVIOUS
<1>7. QED
  BY <1>5, <1>6 DEF Contract!Next

\* An abort is the contract's hang-up of every session that has begun.
LEMMA AbortStep ==
    ASSUME IInv, DaemonAborts
    PROVE  Contract!Next
<1> DEFINE ended == {s \in Sessions : pc[s] # "await_init"}
<1>t. request \in [Sessions -> {"nothing", "Init", "Call", "Drain"}]
  BY DEF IInv, TypeOK
<1>1. /\ \A s \in Sessions : pc'[s] = IF s \in ended THEN "closed" ELSE pc[s]
      /\ request' = [s \in Sessions |-> "nothing"]
      /\ UNCHANGED delivered
  BY DEF DaemonAborts, box
<1>2. \A s \in Sessions : s \notin ended => request[s] = "nothing"
  BY DEF IInv, ControlOK, OwedOK
<1>3. /\ phaseBar' = [s \in Sessions |-> IF s \in ended THEN "closed" ELSE phaseBar[s]]
      /\ request' = [s \in Sessions |-> IF s \in ended THEN "nothing" ELSE request[s]]
      /\ answerBar' = answerBar
  <2>1. \A s \in Sessions : Phase(s)' = IF s \in ended THEN "closed" ELSE Phase(s)
    BY <1>1 DEF Phase
  <2>2. \A s \in Sessions : AnswerType(s)' = AnswerType(s)
    BY <1>1 DEF AnswerType
  <2>3. QED
    BY <1>1, <1>2, <1>t, <2>1, <2>2 DEF phaseBar, answerBar
<1>4. ended \in SUBSET Sessions
  OBVIOUS
<1> HIDE DEF ended
<1>5. Contract!HangUp(ended)
  BY <1>3 DEF Contract!HangUp, phaseBar, answerBar
<1>6. QED
  BY <1>4, <1>5 DEF Contract!Next

\* What the box cannot see: the call on its blocking thread, the breaker's clock.
LEMMA UnseenStep ==
    ASSUME IInv, UNCHANGED <<request, delivered>>,
           \A r \in Sessions : Phase(r)' = Phase(r)
    PROVE  UNCHANGED Contract!vars
<1>1. phaseBar' = phaseBar /\ answerBar' = answerBar
  BY DEF phaseBar, answerBar, AnswerType
<1>2. QED
  BY <1>1 DEF Contract!vars, phaseBar, answerBar

\* Every step of the daemon is one of the contract, or not seen in it.
LEMMA ContractStep ==
    ASSUME IInv, [Next]_vars
    PROVE  [Contract!Next]_(Contract!vars)
<1>t. pc \in [Sessions -> PC]
  BY DEF IInv, TypeOK
<1>1. ASSUME NEW s \in Sessions, Opening(s) PROVE Contract!Next
  <2>1. ASSUME NEW kind \in {"Call", "Drain"}, FirstFrameNotInit(s, kind)
        PROVE  Contract!Next
    BY <2>1, RequestStep DEF FirstFrameNotInit, StartWriting
  <2>2. ASSUME NEW i \in Inits, NEW verified,
               \/ RejectClient(s, i, verified)
               \/ RejectNames(s, i, verified)
               \/ AcceptInit(s, i, verified)
        PROVE  Contract!Next
    <3>1. /\ pc[s] = "await_init" /\ Take(s, "Init") /\ UNCHANGED delivered
          /\ \E next \in {"rejecting", "acking"} : pc' = [pc EXCEPT ![s] = next]
      BY <2>2 DEF RejectClient, RejectNames, AcceptInit, ReceiveInit, StartWriting
    <3>2. QED
      BY <3>1, RequestStep
  <2>3. QED
    BY <1>1, <2>1, <2>2 DEF Opening
<1>2. ASSUME NEW s \in Sessions,
             \/ \E c \in Calls : ReceiveCall(s, c)
             \/ ReceiveDrain(s)
             \/ ReceiveSecondInit(s)
      PROVE  Contract!Next
  BY <1>2, RequestStep DEF ReceiveCall, ReceiveDrain, ReceiveSecondInit, StartWriting
<1>3. ASSUME NEW s \in Sessions, CallStep(s) PROVE UNCHANGED Contract!vars
  <2>1. /\ pc[s] \in Running
        /\ \E next \in {"connecting", "driving", "replying"} :
              pc' = [pc EXCEPT ![s] = next]
        /\ UNCHANGED <<request, delivered>>
    BY <1>3, CallStepFrame DEF StartWriting, box
  <2>2. \A r \in Sessions : Phase(r)' = Phase(r)
    BY <2>1, <1>t DEF Phase, Running
  <2>3. QED
    BY <2>1, <2>2, UnseenStep
<1>4. ASSUME UNCHANGED <<pc, request, delivered>> PROVE UNCHANGED Contract!vars
  BY <1>4, UnseenStep DEF Phase
<1>5. ASSUME NEW t \in Targets, CoolDown(t) PROVE UNCHANGED Contract!vars
  BY <1>4, <1>5 DEF CoolDown, box
<1>6. CASE UNCHANGED vars
  BY <1>4, <1>6 DEF vars, box
<1>7. QED
  BY <1>1, <1>2, <1>3, <1>5, <1>6, AnswerStep, HangUpStep, AbortStep
     DEF Next, BoxStep, Write, CallStep, Idle

-----------------------------------------------------------------------------
(* What follows for every behaviour. *)

\* The inductive invariant holds in every reachable state.
THEOREM Invariance == Spec => []IInv
BY InitIInv, NextIInv, PTL DEF Spec

\* Every variable keeps its type whatever the boxes send and the backends do.
THEOREM TypeCorrect == Spec => []TypeOK
<1>1. IInv => TypeOK
  BY DEF IInv
<1>2. QED
  BY <1>1, Invariance, PTL

\* No interleaving of sessions gives one of them a backend its tenant was not
\* provisioned: whatever a slot can connect to came from `resolve` of the Init
\* that the same session sent.
THEOREM Isolation == Spec => []TenantIsolation
<1>1. IInv => TenantIsolation
  BY DEF IInv
<1>2. QED
  BY <1>1, Invariance, PTL

\* The connect-once cells: a session starts at most one connect per backend,
\* and one more for each that panicked in a build that unwinds.
THEOREM OneConnect == Spec => []ConnectOnce
<1>1. IInv => ConnectOnce
  BY DEF IInv, OnceOK, ConnectOnce
<1>2. QED
  BY <1>1, Invariance, PTL

\* The account is kept in every reachable state: what is metered was called, and
\* every reply Ok that is written or about to be was metered before.
THEOREM Account == Spec => [](IInv /\ MeterOK)
<1>1. Init => MeterOK
  BY NoBackendsType DEF Init, MeterOK, Metered, Drained, Unread, Unended, Running,
     NoCounts, NoBackends, NoSlot
<1>2. QED
  BY <1>1, Invariance, MeterStep, PTL DEF Spec

\* A Metrics frame counts every operation whose reply Ok the box has received,
\* and none that the box did not call (BackendSet::metrics, the record each
\* backend makes before it returns), however calls fail, panic or are cut off.
THEOREM DrainAccounts == Spec => []DrainCoversReplies
<1>1. MeterOK => DrainCoversReplies
  BY DEF MeterOK, Drained, DrainCoversReplies
<1>2. QED
  BY <1>1, Account, PTL

\* In static mode a box over QUIC that has not shown a configured secret gets no
\* backend and no response from which it could tell what the operator provisioned
\* (serve: authenticate comes before resolve), whatever else it sends.
THEOREM AuthFirst == Spec => []AuthenticatedFirst
<1>1. Init => AuthOK /\ AuthenticatedFirst
  BY NoBackendsType, SessionAssumption DEF Init, AuthOK, Past, AuthenticatedFirst, Telling
<1>2. QED
  BY <1>1, Invariance, AuthStep, PTL DEF Spec

\* A half-open breaker always has its probe inside a connect of some session,
\* unless a db connect panicked in a build that unwinds: no interleaving of allow
\* and record loses it, and no abort (CircuitBreaker, ensure_db).
THEOREM ProbeNeverLost == Spec => []ProbeAccounted
<1>1. Init => ProbeAccounted
  BY DEF Init, ProbeAccounted, ClosedBreaker
<1>2. QED
  BY <1>1, Invariance, ProbeStep, PTL DEF Spec

\* While a breaker stays open no session starts a connect to its target
\* (CircuitBreaker::allow before every connect).
THEOREM TripsHonoured == Spec => TripHonoured
<1>1. IInv /\ [Next]_vars =>
         [\A t \in Targets :
             (breaker[t].st = "open" /\ breaker'[t].st = "open")
                 => Connecting(t)' \subseteq Connecting(t)]_vars
  BY TripStep
<1>2. QED
  BY <1>1, Invariance, PTL DEF Spec, TripHonoured

\* The daemon implements the wire contract: each request is answered by one
\* response of a type it may draw, in order, and a rejected session is closed
\* (serve, dispatch).  The proof maps the steps on the blocking thread and the
\* breaker's clock to stuttering, and an abort to the end of every session.
THEOREM Implements == Spec => ImplementsContract
<1>1. QED
  BY ContractInit, ContractStep, Invariance, PTL DEF Spec, ImplementsContract, Contract!Spec
=============================================================================
