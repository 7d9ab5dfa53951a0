----------------------------- MODULE MongoProofs -----------------------------
(***************************************************************************)
(* Safety of the mongo backend for any budget, any caps and sizes of a     *)
(* batch, and any number of calls and documents.                           *)
(*                                                                         *)
(* The inductive invariant MoInv says what the server has of each call     *)
(* (MoServerOK), where the call in progress is with it (MoOpOK), that the  *)
(* documents of a cursor add up (MoCursorOK), that an answer under way is  *)
(* true (MoInboxOK) and that an answered call is over (MoToldOK).          *)
(***************************************************************************)
EXTENDS Mongo, TLAPS

\* What the server has of a call: nothing before it is sent, no change made by a
\* command that still runs or that only reads.
MoServerOK ==
    \A c \in Calls :
        /\ c > calls => server[c] = NotSent
        /\ server[c].st # "none" =>
              server[c].action \in Reads \cup Writes /\ server[c].size \in 1..MaxMatch
        /\ server[c].st = "running" => server[c].applied = 0
        /\ server[c].action \in Reads => server[c].applied = 0

\* Where the call in progress is, and where the server is with it.
MoOpOK ==
    op # None =>
        /\ op.id = calls
        /\ op.at = "selecting" =>
              server[op.id] = NotSent /\ op.got = 0 /\ op.batch = 0 /\ op.rest = 0
        /\ op.at # "selecting" =>
              server[op.id].action = op.action /\ server[op.id].st # "none"
        /\ op.at = "draining" => server[op.id].st = "done" /\ op.action \in Cursors
        /\ op.action \notin Cursors => op.rest = 0
        /\ inbox # None => server[op.id].st = "done"

\* The documents a cursor has handed out, holds in its batch and leaves at the
\* server add up to those it yields in all.
MoCursorOK ==
    op # None /\ op.action \in Cursors =>
        /\ op.got <= max_docs
        /\ op.at = "waiting" /\ op.rest = 0 => op.got = 0
        /\ op.at = "waiting" /\ server[op.id].st = "running" =>
              op.got + op.rest = server[op.id].total
        /\ op.at = "waiting" /\ inbox # None /\ inbox.ok =>
              /\ inbox.n \in 0..BatchSize /\ inbox.matched \in 0..MaxMatch
              /\ op.got + (inbox.n + inbox.matched) = server[op.id].total
        /\ op.at = "draining" =>
              op.got + (op.batch + op.rest) = server[op.id].total

\* The errors of the server and of its connection.
MoErrors == {"bad_command", "argument", "not_authorised", "io", "other", "write",
             "insert_many", "time_limit"}

\* Those that are the developer's mistake.
MoMistakes == {"bad_command", "argument"}

\* The server's answer tells what the call changed.
MoInboxOK ==
    inbox # None =>
        /\ ~ inbox.ok => inbox.err \in MoErrors
        /\ ~ inbox.ok /\ inbox.err \in MoMistakes => LeftByRefusal(server[op.id])
        /\ inbox.ok /\ op.action \in Writes => inbox.n = server[op.id].applied
        /\ inbox.ok /\ op.action = "find_one" => inbox.n \in 0..MaxMatch

\* A call answered Ok, or as the developer's mistake, is over at the server too.
MoToldOK ==
    told.code \in {"OK", "MONGO_QUERY"} =>
        /\ told.id \in Calls /\ told.id <= calls
        /\ server[told.id].st # "running"
        /\ op # None => told.id < calls

\* The invariant that is inductive: the count over a cursor needs where the call is
\* and what the server has of it, the report needs that an answered call is over.
MoInv ==
    /\ TypeOK
    /\ MoServerOK
    /\ MoOpOK
    /\ MoCursorOK
    /\ MoInboxOK
    /\ MoToldOK
    /\ ReadComplete
    /\ ReportedApplied

\* The answers the type invariant allows.
MoTold == [id : 0..MaxCalls,
         code : {"none", "OK", "MONGO_CONNECTION", "MONGO_WRITE", "MONGO_QUERY",
                 "MONGO_ERROR", "MONGO_TIMEOUT"},
         docs : 0..MaxMatch, affected : 0..MaxMatch, truncated : BOOLEAN]

\* The smaller of two numbers.
LEMMA MinOfTwo ==
    ASSUME NEW a \in Nat, NEW b \in Nat
    PROVE  Min({a, b}) = IF a <= b THEN a ELSE b
  <1>1. CASE a <= b
    <2>1. \A x \in {a, b} : (\A y \in {a, b} : x <= y) => x = a
      BY <1>1
    <2>2. \A y \in {a, b} : a <= y
      BY <1>1
    <2> QED BY <1>1, <2>1, <2>2 DEF Min
  <1>2. CASE ~ (a <= b)
    <2>1. \A x \in {a, b} : (\A y \in {a, b} : x <= y) => x = b
      BY <1>2
    <2>2. \A y \in {a, b} : b <= y
      BY <1>2
    <2> QED BY <1>2, <2>1, <2>2 DEF Min
  <1> QED BY <1>1, <1>2

\* The numbers of the model.
LEMMA MoNumbers ==
    ASSUME TypeOK
    PROVE  /\ Budget \in Nat /\ MaxDocs \in Nat /\ MaxMatch \in Nat /\ MaxCalls \in Nat
           /\ BatchSize \in Nat /\ BatchSize > 0
           /\ left \in Nat /\ max_docs \in Nat /\ calls \in Nat /\ calls <= MaxCalls
           /\ \A c \in Calls : c \in Nat /\ c <= MaxCalls /\ server[c] \in Records
  BY MongoAssumption DEF TypeOK, Calls

\* The server's record of a call.
LEMMA MoRecord ==
    ASSUME NEW s \in Records
    PROVE  /\ s.applied \in Nat /\ s.applied <= MaxMatch
           /\ s.total \in Nat /\ s.total <= MaxMatch
           /\ s.size \in 0..MaxMatch /\ s.st \in {"none", "running", "done"}
           /\ s.action \in Reads \cup Writes \cup {None}
           /\ s = [action |-> s.action, size |-> s.size, st |-> s.st,
                   applied |-> s.applied, total |-> s.total]
  BY MongoAssumption DEF Records

\* The fields of the call in progress.
LEMMA MoOpShape ==
    ASSUME TypeOK, op # None
    PROVE  /\ op \in Operations
           /\ op.id \in Calls /\ op.action \in Reads \cup Writes /\ op.size \in 1..MaxMatch
           /\ op.at \in {"selecting", "waiting", "draining"}
           /\ op.got \in Nat /\ op.got <= MaxMatch
           /\ op.batch \in Nat /\ op.batch <= BatchSize
           /\ op.rest \in Nat /\ op.rest <= MaxMatch
           /\ op = [id |-> op.id, action |-> op.action, size |-> op.size, at |-> op.at,
                    got |-> op.got, batch |-> op.batch, rest |-> op.rest]
           /\ server[op.id] \in Records
  <1>1. op \in Operations
    BY DEF TypeOK
  <1>2. server[op.id] \in Records
    BY <1>1 DEF TypeOK, Operations
  <1> QED BY <1>1, <1>2, MongoAssumption DEF Operations

\* NotSent is a record of the server.
LEMMA MoNotSent ==
    /\ NotSent \in Records
    /\ NotSent.st = "none" /\ NotSent.applied = 0 /\ NotSent.total = 0 /\ NotSent.size = 0
  BY MongoAssumption DEF NotSent, Records

\* No call was made: nothing is sent, nothing is told.
LEMMA MoInit == ASSUME Init PROVE MoInv
  <1>n. /\ 0 \in 0..Budget /\ 0 \in 0..MaxCalls /\ 0 \in 0..MaxMatch
    BY MongoAssumption
  <1>1. server \in [Calls -> Records] /\ \A c \in Calls : server[c] = NotSent
    BY MoNotSent DEF Init
  <1>2. told.code = "none" /\ told \in MoTold
    BY <1>n DEF Init, NoAnswer, MoTold
  <1>3. TypeOK
    BY <1>n, <1>1, <1>2 DEF Init, TypeOK, MoTold
  <1>4. MoServerOK
    BY <1>1, MoNotSent DEF MoServerOK
  <1>5. MoOpOK /\ MoCursorOK /\ MoInboxOK
    BY DEF Init, MoOpOK, MoCursorOK, MoInboxOK
  <1>6. MoToldOK /\ ReadComplete /\ ReportedApplied
    BY <1>2 DEF MoToldOK, ReadComplete, ReportedApplied
  <1> QED BY <1>3, <1>4, <1>5, <1>6 DEF MoInv

\* A call is answered.
LEMMA MoAnswer ==
    ASSUME MoInv, op # None, NEW code, NEW docs \in 0..MaxMatch,
           NEW affected \in 0..MaxMatch, NEW truncated \in BOOLEAN,
           code \in {"OK", "MONGO_CONNECTION", "MONGO_WRITE", "MONGO_QUERY",
                     "MONGO_ERROR", "MONGO_TIMEOUT"},
           Answer(code, docs, affected, truncated),
           UNCHANGED <<left, max_docs, client, server, calls>>,
           code \in {"OK", "MONGO_QUERY"} => server[op.id].st # "running",
           code = "OK" => affected = server[op.id].applied,
           code = "OK" /\ server[op.id].action \in Cursors =>
               /\ docs = Min({server[op.id].total, max_docs})
               /\ truncated = (server[op.id].total > max_docs),
           code = "MONGO_QUERY" => LeftByRefusal(server[op.id])
    PROVE  MoInv'
  <1>1. /\ op' = None /\ inbox' = None
        /\ told' = [id |-> op.id, code |-> code, docs |-> docs, affected |-> affected,
                    truncated |-> truncated]
    BY DEF Answer
  <1>2. op.id \in Calls /\ op.id = calls /\ op.id \in 0..MaxCalls
    BY MoOpShape, MoNumbers DEF MoInv, MoOpOK
  <1>3. /\ told'.id = op.id /\ told'.code = code /\ told'.docs = docs
        /\ told'.affected = affected /\ told'.truncated = truncated
    BY <1>1
  <1>4. told' \in MoTold
    BY <1>1, <1>2 DEF MoTold
  <1>5. TypeOK'
    BY <1>1, <1>4 DEF MoInv, TypeOK, MoTold
  <1>6. MoServerOK' /\ MoOpOK' /\ MoCursorOK' /\ MoInboxOK'
    BY <1>1 DEF MoInv, MoServerOK, MoOpOK, MoCursorOK, MoInboxOK
  <1>7. MoToldOK'
    <2>1. op.id <= calls
      BY <1>2, MoNumbers DEF MoInv
    <2> QED BY <1>1, <1>2, <1>3, <2>1 DEF MoToldOK
  <1>8. ReadComplete'
    BY <1>3 DEF ReadComplete
  <1>9. ReportedApplied'
    BY <1>3 DEF ReportedApplied
  <1> QED BY <1>5, <1>6, <1>7, <1>8, <1>9 DEF MoInv

\* A call fails: as the developer's mistake only when the command refused has
\* changed nothing.
LEMMA MoFails ==
    ASSUME MoInv, op # None,
           NEW e \in MoErrors \cup {"selection", "authentication"}, Fails(e),
           UNCHANGED <<left, max_docs, client, server, calls>>,
           e \in MoMistakes =>
               LeftByRefusal(server[op.id]) /\ server[op.id].st # "running"
    PROVE  MoInv'
  <1>1. /\ classify(e) \in {"MONGO_CONNECTION", "MONGO_WRITE", "MONGO_QUERY", "MONGO_ERROR"}
        /\ classify(e) = "MONGO_QUERY" => e \in MoMistakes
    BY DEF classify, MoErrors, MoMistakes
  <1>2. 0 \in 0..MaxMatch /\ FALSE \in BOOLEAN
    BY MoNumbers DEF MoInv
  <1>3. Answer(classify(e), 0, 0, FALSE)
    BY DEF Fails
  <1> QED BY <1>1, <1>2, <1>3, MoAnswer

\* What the server can end a first command with: an answer that is Ok tells what
\* was changed, a rejected command changed nothing itself, and a cursor's first
\* batch and its rest are what it yields.
MoResultOK(s, r) ==
    /\ r.ok \in BOOLEAN
    /\ r.applied \in 0..MaxMatch
    /\ s.action \in Reads => r.applied = 0
    /\ ~ r.ok => r.err \in MoErrors
    /\ ~ r.ok /\ r.err \in MoMistakes =>
          r.applied = 0 \/ (s.action = "insert_many" /\ r.applied < s.size)
    /\ r.ok /\ s.action \in Writes => r.n = r.applied
    /\ r.ok /\ s.action = "find_one" => r.n \in 0..MaxMatch
    /\ s.action \in Cursors =>
          /\ r.n \in 0..BatchSize /\ r.matched \in 0..MaxMatch
          /\ r.n + r.matched \in 0..MaxMatch

\* An error that reports k changes, none for a read or a rejected command that is
\* not part of an insert_many.
LEMMA MoError ==
    ASSUME NEW s, NEW e \in MoErrors, NEW k \in 0..MaxMatch,
           s.action \in Reads => k = 0,
           e \in MoMistakes => k = 0 \/ (s.action = "insert_many" /\ k < s.size)
    PROVE  MoResultOK(s, Error(e, k))
  <1>1. /\ Error(e, k).ok = FALSE /\ Error(e, k).err = e /\ Error(e, k).applied = k
        /\ Error(e, k).n = 0 /\ Error(e, k).matched = 0
    BY DEF Error
  <1>2. ~ Error(e, k).ok /\ Error(e, k).ok \in BOOLEAN
    BY <1>1
  <1>3. 0 \in 0..BatchSize /\ 0 \in 0..MaxMatch /\ 0 + 0 = 0
    BY MongoAssumption
  <1> QED BY <1>1, <1>2, <1>3 DEF MoResultOK

\* A success that is not over a cursor.
LEMMA MoDone ==
    ASSUME NEW s, NEW k \in 0..MaxMatch, NEW n \in 0..MaxMatch, NEW m,
           s.action \in Reads \ Cursors => k = 0,
           s.action \in Writes => n = k,
           s.action \in Reads \cup Writes,
           s.action \notin Cursors
    PROVE  MoResultOK(s, Done(k, n, m))
  <1>1. /\ Done(k, n, m).ok = TRUE /\ Done(k, n, m).applied = k /\ Done(k, n, m).n = n
    BY DEF Done
  <1>2. Done(k, n, m).ok /\ Done(k, n, m).ok \in BOOLEAN
    BY <1>1
  <1> QED BY <1>1, <1>2 DEF MoResultOK

\* The first or a later batch of a cursor with m documents left.
LEMMA MoDoneCursor ==
    ASSUME NEW s, s.action \in Cursors, NEW m \in 0..MaxMatch
    PROVE  MoResultOK(s, Done(0, Min({m, BatchSize}), m - Min({m, BatchSize})))
  <1> DEFINE n == Min({m, BatchSize})
             r == Done(0, n, m - n)
  <1>n. BatchSize \in Nat /\ MaxMatch \in Nat /\ m \in Nat /\ m <= MaxMatch
    BY MongoAssumption
  <1>1. n \in Nat /\ n <= m /\ n <= BatchSize
    BY <1>n, MinOfTwo
  <1>2. /\ r.ok = TRUE /\ r.applied = 0 /\ r.n = n /\ r.matched = m - n
    BY DEF Done
  <1>3. r.ok /\ r.ok \in BOOLEAN
    BY <1>2
  <1> HIDE DEF n, r
  <1>4. n \in 0..BatchSize /\ m - n \in 0..MaxMatch /\ n + (m - n) = m
    BY <1>n, <1>1
  <1>5. s.action \notin Writes /\ s.action # "find_one"
    BY DEF Cursors, Writes
  <1> QED BY <1>n, <1>2, <1>3, <1>4, <1>5 DEF MoResultOK, r, n

\* Whatever a first command ends with is one of those.
LEMMA MoOutcomes ==
    ASSUME TypeOK, MoServerOK, NEW c \in Calls, server[c].st = "running",
           NEW r \in Outcomes(c)
    PROVE  MoResultOK(server[c], r)
  <1> DEFINE s == server[c]
             most == IF One(s.action) THEN Min({1, MaxMatch}) ELSE MaxMatch
  <1>n. MaxMatch \in Nat /\ MaxMatch > 0 /\ s.size \in 1..MaxMatch
        /\ s.action \in Reads \cup Writes
    BY MoNumbers DEF MoServerOK
  <1>m. most \in Nat /\ most <= MaxMatch /\ most > 0
    BY <1>n, MinOfTwo
  <1>z. 0 \in 0..MaxMatch /\ 1 \in 0..MaxMatch
    BY <1>n
  <1>1. CASE r \in Errors
    <2>1. PICK e \in {"bad_command", "not_authorised", "io", "other"} : r = Error(e, 0)
      BY <1>1 DEF Errors
    <2> QED BY <1>z, <2>1, MoError DEF MoErrors, MoMistakes
  <1>2. CASE s.action \in Cursors /\ r \notin Errors
    <2> DEFINE first(m) == Done(0, Min({m, BatchSize}), m - Min({m, BatchSize}))
    <2>0. /\ s.action \notin {"find_one", "count"} /\ s.action # "insert_one"
          /\ s.action # "insert_many"
          /\ s.action \notin {"update_one", "update_many", "delete_one", "delete_many"}
      BY <1>2 DEF Cursors
    <2>1. r \in {first(m) : m \in 0..MaxMatch}
      BY <1>2, <2>0 DEF Outcomes
    <2> HIDE DEF first
    <2>2. PICK m \in 0..MaxMatch : r = first(m)
      BY <2>1
    <2> QED BY <1>2, <2>2, MoDoneCursor DEF first
  <1>3. CASE s.action \in {"find_one", "count"} /\ r \notin Errors
    <2>1. s.action \notin Cursors /\ s.action \notin Writes
      BY <1>3 DEF Cursors, Writes
    <2>2. PICK m \in 0..most : r = Done(0, m, 0)
      BY <1>3, <2>1 DEF Outcomes
    <2>3. m \in 0..MaxMatch
      BY <1>n, <1>m
    <2> QED BY <1>n, <1>z, <2>1, <2>2, <2>3, MoDone
  <1>4. CASE s.action = "insert_one" /\ r \notin Errors
    <2>1. s.action \notin Cursors /\ s.action \notin Reads
      BY <1>4 DEF Cursors, Reads
    <2>2. r \in {Done(1, 1, 0), Error("write", 0), Error("io", 1)}
      BY <1>4, <2>1 DEF Outcomes, Cursors
    <2>3. CASE r = Done(1, 1, 0)
      BY <1>n, <1>z, <2>1, <2>3, MoDone
    <2>4. CASE r = Error("write", 0)
      BY <1>z, <2>4, MoError DEF MoErrors, MoMistakes
    <2>5. CASE r = Error("io", 1)
      BY <1>z, <2>1, <2>5, MoError DEF MoErrors, MoMistakes
    <2> QED BY <2>2, <2>3, <2>4, <2>5
  <1>5. CASE s.action = "insert_many" /\ r \notin Errors
    <2>1. s.action \notin Cursors /\ s.action \notin Reads
      BY <1>5 DEF Cursors, Reads
    <2>0. r \in InsertManyEnds(s.size)
      BY <1>5, <2>1 DEF Outcomes, Cursors
    <2>2. \/ r = Done(s.size, s.size, 0)
          \/ \E e \in LaterErrors, k \in 0..(s.size - 1) : r = Error(e, k)
          \/ \E k \in 1..s.size : r = Error("io", k)
      BY <2>0 DEF InsertManyEnds
    <2>3. CASE r = Done(s.size, s.size, 0)
      <3>1. s.size \in 0..MaxMatch
        BY <1>n
      <3> QED BY <1>n, <2>1, <2>3, <3>1, MoDone
    <2>4. ASSUME NEW e \in LaterErrors, NEW k \in 0..(s.size - 1), r = Error(e, k)
          PROVE  MoResultOK(s, r)
      <3>1. k \in 0..MaxMatch /\ k < s.size
        BY <1>n
      <3>2. e \in MoErrors
        BY DEF LaterErrors, MoErrors
      <3> QED BY <1>5, <2>1, <2>4, <3>1, <3>2, MoError
    <2>5. ASSUME NEW k \in 1..s.size, r = Error("io", k) PROVE MoResultOK(s, r)
      <3>1. k \in 0..MaxMatch
        BY <1>n
      <3> QED BY <2>1, <2>5, <3>1, MoError DEF MoErrors, MoMistakes
    <2> QED BY <2>2, <2>3, <2>4, <2>5
  <1>6. CASE /\ s.action \in {"update_one", "update_many", "delete_one", "delete_many"}
             /\ r \notin Errors
    <2>1. s.action \notin Cursors /\ s.action \notin Reads
      BY <1>6 DEF Cursors, Reads
    <2>2. \/ \E k \in 0..most : r = Done(k, k, most)
          \/ \E k \in 0..(most - 1) : r = Error("write", k)
          \/ \E k \in 1..most : r = Error("io", k)
      BY <1>6, <2>1 DEF Outcomes, Cursors
    <2> HIDE DEF most
    <2>3. ASSUME NEW k \in 0..most, r = Done(k, k, most) PROVE MoResultOK(s, r)
      <3>1. k \in 0..MaxMatch
        BY <1>n, <1>m
      <3> QED BY <1>n, <2>1, <2>3, <3>1, MoDone
    <2>4. ASSUME NEW k \in 0..(most - 1), r = Error("write", k) PROVE MoResultOK(s, r)
      <3>1. k \in 0..MaxMatch
        BY <1>n, <1>m
      <3> QED BY <2>1, <2>4, <3>1, MoError DEF MoErrors, MoMistakes
    <2>5. ASSUME NEW k \in 1..most, r = Error("io", k) PROVE MoResultOK(s, r)
      <3>1. k \in 0..MaxMatch
        BY <1>n, <1>m
      <3> QED BY <2>1, <2>5, <3>1, MoError DEF MoErrors, MoMistakes
    <2> QED BY <2>2, <2>3, <2>4, <2>5
  <1> QED BY <1>n, <1>1, <1>2, <1>3, <1>4, <1>5, <1>6 DEF Reads, Writes, Cursors

\* The server's answer says what the call's record says.
MoReplyOK(s, r) ==
    /\ r.ok \in BOOLEAN
    /\ ~ r.ok => r.err \in MoErrors
    /\ ~ r.ok /\ r.err \in MoMistakes => LeftByRefusal(s)
    /\ r.ok /\ s.action \in Writes => r.n = s.applied
    /\ r.ok /\ s.action = "find_one" => r.n \in 0..MaxMatch
    /\ r.ok /\ s.action \in Cursors =>
          /\ r.n \in 0..BatchSize /\ r.matched \in 0..MaxMatch
          /\ op.got + (r.n + r.matched) = s.total

\* The server ends a command it runs: the call that waits for it, if it still
\* does, gets the answer; any other call keeps its record.
LEMMA MoServerEnds ==
    ASSUME MoInv, NEW c \in Calls, server[c].st = "running", NEW s \in Records,
           s.action = server[c].action, s.size = server[c].size, s.st = "done",
           s.action \in Reads => s.applied = 0,
           server' = [server EXCEPT ![c] = s],
           UNCHANGED <<left, max_docs, client, op, calls, told>>,
           ~ Waiting(c) => inbox' = inbox,
           Waiting(c) => MoReplyOK(s, inbox')
    PROVE  MoInv'
  <1>1. /\ server' \in [Calls -> Records] /\ server'[c] = s
        /\ \A d \in Calls : d # c => server'[d] = server[d]
    BY DEF MoInv, TypeOK
  <1>2. op # None /\ op.id = c => op.at = "waiting" /\ Waiting(c)
    <2> SUFFICES ASSUME op # None, op.id = c PROVE op.at = "waiting"
      BY DEF Waiting
    <2> QED BY MoOpShape, MoNotSent DEF MoInv, MoOpOK
  <1>3. TypeOK'
    <2>1. CASE Waiting(c)
      BY <1>1, <2>1 DEF MoInv, TypeOK, Waiting, MoReplyOK
    <2>2. CASE ~ Waiting(c)
      BY <1>1, <2>2 DEF MoInv, TypeOK
    <2> QED BY <2>1, <2>2
  <1>4. MoServerOK'
    <2>1. /\ c <= calls /\ server[c].action \in Reads \cup Writes
          /\ server[c].size \in 1..MaxMatch
      BY MoNotSent, MoNumbers DEF MoInv, MoServerOK
    <2>2. ~ (c > calls)
      BY <2>1, MoNumbers DEF MoInv
    <2> QED BY <1>1, <2>1, <2>2 DEF MoInv, MoServerOK
  <1>5. MoOpOK'
    <2> SUFFICES ASSUME op # None PROVE MoOpOK'
      BY DEF MoOpOK
    <2>0. op.id \in Calls
      BY MoOpShape DEF MoInv
    <2>1. CASE op.id = c
      BY <1>1, <1>2, <2>1 DEF MoInv, MoOpOK
    <2>2. CASE op.id # c
      <3>1. server'[op.id] = server[op.id] /\ inbox' = inbox
        BY <1>1, <2>0, <2>2 DEF Waiting
      <3> QED BY <3>1 DEF MoInv, MoOpOK
    <2> QED BY <2>1, <2>2
  <1>6. MoCursorOK' /\ MoInboxOK'
    <2>1. CASE Waiting(c)
      <3>1. /\ op # None /\ op.id = c /\ op.at = "waiting" /\ server'[op.id] = s
            /\ s.action = op.action /\ op' = op /\ max_docs' = max_docs
        BY <1>1, <2>1 DEF MoInv, MoOpOK, Waiting
      <3>2. MoInboxOK'
        BY <2>1, <3>1 DEF MoReplyOK, MoInboxOK
      <3>3. MoCursorOK'
        BY <2>1, <3>1 DEF MoReplyOK, MoInv, MoCursorOK
      <3> QED BY <3>2, <3>3
    <2>2. CASE ~ Waiting(c)
      <3>1. op # None => op.id \in Calls /\ server'[op.id] = server[op.id]
        BY <1>1, <1>2, <2>2, MoOpShape DEF MoInv
      <3>2. inbox' # None => op # None
        BY <2>2 DEF MoInv, TypeOK
      <3>3. MoInboxOK'
        BY <2>2, <3>1, <3>2 DEF MoInv, MoInboxOK
      <3>4. MoCursorOK'
        BY <2>2, <3>1 DEF MoInv, MoCursorOK
      <3> QED BY <3>3, <3>4
    <2> QED BY <2>1, <2>2
  <1>7. /\ told' = told
        /\ told.code \in {"OK", "MONGO_QUERY"} => server'[told.id] = server[told.id]
    BY <1>1 DEF MoInv, MoToldOK
  <1>8. MoToldOK' /\ ReadComplete' /\ ReportedApplied'
    <2>1. MoToldOK'
      BY <1>7 DEF MoInv, MoToldOK
    <2>2. ReadComplete'
      BY <1>7 DEF MoInv, ReadComplete
    <2>3. ReportedApplied'
      BY <1>7 DEF MoInv, ReportedApplied
    <2> QED BY <2>1, <2>2, <2>3
  <1> QED BY <1>3, <1>4, <1>5, <1>6, <1>8 DEF MoInv

\* The next batch of a cursor is an answer too.
LEMMA MoNextBatch ==
    ASSUME MoInv, NEW c \in Calls, server[c].st = "running", Waiting(c), op.rest > 0,
           NEW r \in NextBatch
    PROVE  /\ MoResultOK(server[c], r)
           /\ r.ok => r.n + r.matched = op.rest
           /\ server[c].action \in Cursors /\ op.got + op.rest = server[c].total
  <1>1. op # None /\ op.id = c /\ op.at = "waiting"
    BY DEF Waiting
  <1>2. op.action \in Cursors /\ server[c].action \in Cursors
    <2>1. op.rest \in Nat
      BY <1>1, MoOpShape DEF MoInv
    <2> QED BY <1>1, <2>1 DEF MoInv, MoOpOK
  <1>3. op.got + op.rest = server[c].total
    BY <1>1, <1>2 DEF MoInv, MoCursorOK
  <1>4. op.rest \in 0..MaxMatch /\ 0 \in 0..MaxMatch /\ op.rest \in Nat /\ BatchSize \in Nat
    BY <1>1, MoOpShape, MoNumbers DEF MoInv
  <1>5. CASE r = Done(0, Min({op.rest, BatchSize}), op.rest - Min({op.rest, BatchSize}))
    <2>1. MoResultOK(server[c], r)
      BY <1>2, <1>4, <1>5, MoDoneCursor
    <2>2. r.n = Min({op.rest, BatchSize}) /\ r.matched = op.rest - Min({op.rest, BatchSize})
      BY <1>5 DEF Done
    <2>3. Min({op.rest, BatchSize}) \in Nat
      BY <1>4, MinOfTwo
    <2>4. r.n + r.matched = op.rest
      BY <1>4, <2>2, <2>3
    <2> QED BY <1>2, <1>3, <2>1, <2>4
  <1>6. CASE r \in {Error("io", 0), Error("other", 0)}
    <2>1. MoResultOK(server[c], r)
      BY <1>4, <1>6, MoError DEF MoErrors, MoMistakes
    <2>2. r.ok = FALSE
      BY <1>6 DEF Error
    <2> QED BY <1>2, <1>3, <2>1, <2>2
  <1> QED BY <1>5, <1>6 DEF NextBatch

\* A record of a command that has ended.
LEMMA MoEnded ==
    ASSUME NEW s \in Records, NEW a, NEW t
    PROVE  [s EXCEPT !.st = "done", !.applied = a, !.total = t] =
               [action |-> s.action, size |-> s.size, st |-> "done", applied |-> a,
                total |-> t]
  <1> DEFINE r == [s EXCEPT !.st = "done", !.applied = a, !.total = t]
  <1>1. r \in [action : {s.action}, size : {s.size}, st : {"done"}, applied : {a},
               total : {t}]
    BY DEF Records
  <1> HIDE DEF r
  <1>2. r = [action |-> s.action, size |-> s.size, st |-> "done", applied |-> a,
             total |-> t]
    BY <1>1
  <1> QED BY <1>2 DEF r

\* ServerAnswers: a cursor's total is fixed by its first batch, and each later one
\* takes from the rest.
LEMMA MoServerAnswers ==
    ASSUME MoInv, NEW c \in Calls, ServerAnswers(c)
    PROVE  MoInv'
  <1> DEFINE more == Waiting(c) /\ op.rest > 0
  <1>1. server[c].st = "running" /\ UNCHANGED <<left, max_docs, client, op, calls, told>>
    BY DEF ServerAnswers
  <1>2. PICK r \in IF more THEN NextBatch ELSE Outcomes(c) :
          /\ server' = [server EXCEPT ![c].st = "done",
                                      ![c].applied = @ + r.applied,
                                      ![c].total =
                            IF server[c].action \in Cursors /\ @ = 0
                            THEN r.n + r.matched ELSE @]
          /\ inbox' = IF Waiting(c) THEN r ELSE inbox
    BY DEF ServerAnswers
  <1>3. MoResultOK(server[c], r)
    <2>1. CASE more
      BY <1>1, <1>2, <2>1, MoNextBatch
    <2>2. CASE ~ more
      BY <1>1, <1>2, <2>2, MoOutcomes DEF MoInv
    <2> QED BY <2>1, <2>2
  <1> DEFINE old == server[c]
             total == IF old.action \in Cursors /\ old.total = 0
                      THEN r.n + r.matched ELSE old.total
             s == [action |-> old.action, size |-> old.size, st |-> "done",
                   applied |-> r.applied, total |-> total]
  <1>4. old \in Records /\ old.applied = 0
    BY <1>1, MoNumbers DEF MoInv, MoServerOK
  <1>5. server' = [server EXCEPT ![c] = s]
    <2>1. r.applied \in Nat /\ old.applied + r.applied = r.applied
      BY <1>3, <1>4, MongoAssumption DEF MoResultOK
    <2>2. s = [old EXCEPT !.st = "done", !.applied = old.applied + r.applied,
                          !.total = total]
      <3> HIDE DEF old, total
      <3> QED BY <1>4, <2>1, MoEnded
    <2> QED BY <1>2, <2>2
  <1>6. total \in 0..MaxMatch
    BY <1>3, <1>4 DEF MoResultOK, Records
  <1>7. s \in Records
    BY <1>3, <1>4, <1>6 DEF MoResultOK, Records
  <1>8. /\ s.action = old.action /\ s.size = old.size /\ s.st = "done"
        /\ s.applied = r.applied /\ s.total = total
    OBVIOUS
  <1> HIDE DEF s
  <1>9. s.action \in Reads => s.applied = 0
    BY <1>3, <1>8 DEF MoResultOK
  <1>10. ASSUME Waiting(c), r.ok, old.action \in Cursors
         PROVE  op.got + (r.n + r.matched) = total
    <2>1. op # None /\ op.id = c /\ op.at = "waiting" /\ op.action = old.action
      BY <1>10 DEF Waiting, MoInv, MoOpOK
    <2>2. op.got + op.rest = old.total
      BY <1>1, <1>10, <2>1 DEF MoInv, MoCursorOK
    <2>3. op.got \in Nat /\ op.rest \in Nat
      BY <2>1, MoOpShape DEF MoInv
    <2>4. CASE op.rest > 0
      <3>1. r.n + r.matched = op.rest
        BY <1>1, <1>2, <1>10, <2>4, MoNextBatch
      <3>2. old.total # 0
        BY <2>2, <2>3, <2>4
      <3> QED BY <2>2, <3>1, <3>2
    <2>5. CASE ~ (op.rest > 0)
      <3>1. op.rest = 0 /\ op.got = 0
        BY <1>10, <2>1, <2>3, <2>5 DEF MoInv, MoCursorOK
      <3>2. old.total = 0
        BY <2>2, <3>1
      <3>3. r.n + r.matched \in Nat
        BY <1>3, <1>10, MongoAssumption DEF MoResultOK
      <3> QED BY <1>10, <3>1, <3>2, <3>3
    <2> QED BY <2>4, <2>5
  <1>11. Waiting(c) => MoReplyOK(s, inbox')
    <2> SUFFICES ASSUME Waiting(c) PROVE MoReplyOK(s, r)
      BY <1>2
    <2> HIDE DEF total
    <2> QED BY <1>3, <1>8, <1>10 DEF MoReplyOK, MoResultOK, LeftByRefusal
  <1>12. ~ Waiting(c) => inbox' = inbox
    BY <1>2
  <1> HIDE DEF old, total
  <1> QED BY <1>1, <1>5, <1>7, <1>8, <1>9, <1>11, <1>12, MoServerEnds DEF old

\* ServerLimit, ServerAbandons: only a read is given up, so nothing was changed.
LEMMA MoServerStops ==
    ASSUME MoInv, NEW c \in Calls, ServerLimit(c) \/ ServerAbandons(c)
    PROVE  MoInv'
  <1> DEFINE old == server[c]
             s == [old EXCEPT !.st = "done"]
  <1>1. /\ old.st = "running" /\ server' = [server EXCEPT ![c] = s]
        /\ UNCHANGED <<left, max_docs, client, op, calls, told>>
        /\ old.action \in Reads
    BY DEF ServerLimit, ServerAbandons, Timed, Reads, Cursors
  <1>2. old \in Records
    BY MoNumbers DEF MoInv
  <1>3. /\ s \in Records /\ s.action = old.action /\ s.size = old.size /\ s.st = "done"
        /\ s.applied = old.applied /\ s.total = old.total
    BY <1>2 DEF Records
  <1>4. s.applied = 0
    BY <1>1, <1>3 DEF MoInv, MoServerOK
  <1>5. Waiting(c) => MoReplyOK(s, inbox')
    <2> SUFFICES ASSUME Waiting(c) PROVE MoReplyOK(s, Error("time_limit", 0))
      BY DEF ServerLimit, ServerAbandons
    <2>1. Error("time_limit", 0).ok = FALSE /\ Error("time_limit", 0).err = "time_limit"
      BY DEF Error
    <2>2. ~ Error("time_limit", 0).ok /\ Error("time_limit", 0).ok \in BOOLEAN
      BY <2>1
    <2> QED BY <2>1, <2>2 DEF MoReplyOK, MoErrors, MoMistakes
  <1>6. ~ Waiting(c) => inbox' = inbox
    BY DEF ServerLimit, ServerAbandons
  <1> HIDE DEF old, s
  <1> QED BY <1>1, <1>3, <1>4, <1>5, <1>6, MoServerEnds DEF old

\* The backend connects, or time passes.
LEMMA MoConnectTick ==
    ASSUME MoInv, Connect \/ Tick
    PROVE  MoInv'
  <1>1. /\ UNCHANGED <<max_docs, op, inbox, server, calls, told>>
        /\ left' \in 0..Budget /\ client' \in {"none", "ready", "failed"}
    BY MoNumbers DEF Connect, Tick, MoInv, TypeOK
  <1>2. TypeOK'
    BY <1>1 DEF MoInv, TypeOK
  <1>3. MoServerOK' /\ MoOpOK' /\ MoCursorOK' /\ MoInboxOK' /\ MoToldOK'
    BY <1>1 DEF MoInv, MoServerOK, MoOpOK, MoCursorOK, MoInboxOK, MoToldOK
  <1>4. ReadComplete' /\ ReportedApplied'
    BY <1>1 DEF MoInv, ReadComplete, ReportedApplied
  <1> QED BY <1>2, <1>3, <1>4 DEF MoInv

\* A new call: the server has nothing of it.
LEMMA MoNewCall ==
    ASSUME MoInv, NewCall
    PROVE  /\ op = None /\ calls' = calls + 1 /\ calls' \in Calls /\ calls' \in 0..MaxCalls
           /\ inbox = None /\ server[calls'] = NotSent
           /\ \A c \in Calls : c > calls' => server[c] = NotSent
  <1>1. op = None /\ calls' = calls + 1 /\ calls < MaxCalls /\ inbox = None
    BY DEF NewCall, MoInv, TypeOK
  <1>2. calls' \in Calls /\ calls' \in 0..MaxCalls /\ calls' > calls
    BY <1>1, MoNumbers DEF MoInv, Calls
  <1>3. \A c \in Calls : c > calls' => c > calls
    BY <1>1, <1>2, MoNumbers DEF MoInv
  <1> QED BY <1>1, <1>2, <1>3 DEF MoInv, MoServerOK

\* UsageError: the call never reaches the server.
LEMMA MoUsageError ==
    ASSUME MoInv, UsageError
    PROVE  MoInv'
  <1>1. NewCall /\ UNCHANGED <<left, max_docs, client, op, inbox, server>>
    BY DEF UsageError
  <1>2. /\ told'.id = calls' /\ told'.code = "MONGO_QUERY" /\ told' \in MoTold
    <2>1. told' = [id |-> calls', code |-> "MONGO_QUERY", docs |-> 0, affected |-> 0,
                   truncated |-> FALSE]
      BY <1>1, MoNewCall DEF UsageError, NoAnswer
    <2>2. calls' \in 0..MaxCalls /\ 0 \in 0..MaxMatch
      BY <1>1, MoNewCall, MoNumbers DEF MoInv
    <2> QED BY <2>1, <2>2 DEF MoTold
  <1>3. TypeOK'
    BY <1>1, <1>2, MoNewCall DEF MoInv, TypeOK, MoTold
  <1>4. MoServerOK'
    BY <1>1, MoNewCall DEF MoInv, MoServerOK
  <1>5. MoOpOK' /\ MoCursorOK' /\ MoInboxOK'
    BY <1>1, MoNewCall DEF MoOpOK, MoCursorOK, MoInboxOK
  <1>6. server'[told'.id] = NotSent
    BY <1>1, <1>2, MoNewCall
  <1>7. MoToldOK'
    <2>1. calls' <= calls'
      BY <1>1, MoNewCall, MoNumbers DEF MoInv
    <2> QED BY <1>1, <1>2, <1>6, <2>1, MoNewCall, MoNotSent DEF MoToldOK
  <1>8. ReadComplete' /\ ReportedApplied'
    BY <1>2, <1>6, MoNotSent DEF ReadComplete, ReportedApplied, LeftByRefusal
  <1> QED BY <1>3, <1>4, <1>5, <1>7, <1>8 DEF MoInv

\* StartCall: the call before it is over.
LEMMA MoStartCall ==
    ASSUME MoInv, NEW action \in Reads \cup Writes, NEW size \in 1..MaxMatch,
           StartCall(action, size)
    PROVE  MoInv'
  <1>1. /\ NewCall /\ UNCHANGED <<left, max_docs, client, inbox, server, told>>
        /\ op' = [id |-> calls + 1, action |-> action, size |-> size, at |-> "selecting",
                  got |-> 0, batch |-> 0, rest |-> 0]
    BY DEF StartCall
  <1>2. /\ op'.id = calls' /\ op'.action = action /\ op'.at = "selecting"
        /\ op'.got = 0 /\ op'.batch = 0 /\ op'.rest = 0 /\ inbox' = None
        /\ server'[op'.id] = NotSent
    BY <1>1, MoNewCall
  <1>3. op' \in Operations
    BY <1>1, MoNewCall, MoNumbers DEF Operations, MoInv
  <1>4. TypeOK'
    BY <1>1, <1>2, <1>3, MoNewCall DEF MoInv, TypeOK
  <1>5. MoServerOK'
    BY <1>1, MoNewCall DEF MoInv, MoServerOK
  <1>6. MoOpOK' /\ MoInboxOK'
    BY <1>2 DEF MoOpOK, MoInboxOK
  <1>7. MoCursorOK'
    <2>1. max_docs' \in Nat /\ 0 <= max_docs'
      BY <1>1, MoNumbers DEF MoInv
    <2> QED BY <1>2, <2>1 DEF MoCursorOK
  <1>8. MoToldOK'
    <2>1. told.id \in Calls /\ told.id <= calls => told.id <= calls' /\ told.id < calls'
      BY <1>1, MoNewCall, MoNumbers DEF MoInv
    <2> QED BY <1>1, <2>1 DEF MoInv, MoToldOK
  <1>9. ReadComplete' /\ ReportedApplied'
    BY <1>1 DEF MoInv, ReadComplete, ReportedApplied
  <1> QED BY <1>4, <1>5, <1>6, <1>7, <1>8, <1>9 DEF MoInv

\* The last answer stands while the record of the call in progress changes.
LEMMA MoToldStands ==
    ASSUME MoInv, op # None, UNCHANGED <<max_docs, calls, told>>,
           \A c \in Calls : c # op.id => server'[c] = server[c]
    PROVE  MoToldOK' /\ ReadComplete' /\ ReportedApplied'
  <1>1. op.id = calls /\ calls \in Nat
    BY MoNumbers DEF MoInv, MoOpOK
  <1>2. told.code \in {"OK", "MONGO_QUERY"} => server'[told.id] = server[told.id]
    <2>1. told.code \in {"OK", "MONGO_QUERY"} => told.id \in Calls /\ told.id < calls
      BY DEF MoInv, MoToldOK
    <2>2. told.code \in {"OK", "MONGO_QUERY"} => told.id \in Calls /\ told.id # op.id
      BY <1>1, <2>1, MoNumbers DEF MoInv
    <2> QED BY <2>2
  <1>3. MoToldOK'
    BY <1>2 DEF MoInv, MoToldOK
  <1>4. ReadComplete'
    BY <1>2 DEF MoInv, ReadComplete
  <1>5. ReportedApplied'
    BY <1>2 DEF MoInv, ReportedApplied
  <1> QED BY <1>3, <1>4, <1>5

\* Sent: the server runs the command, and has changed nothing yet.
LEMMA MoSent ==
    ASSUME MoInv, Sent
    PROVE  MoInv'
  <1> DEFINE s == [NotSent EXCEPT !.action = op.action, !.size = op.size, !.st = "running"]
  <1>1. /\ op # None /\ op.at = "selecting" /\ op' = [op EXCEPT !.at = "waiting"]
        /\ server' = [server EXCEPT ![op.id] = s]
        /\ UNCHANGED <<left, max_docs, client, inbox, calls, told>>
    BY DEF Sent
  <1>2. /\ op.id \in Calls /\ op \in Operations /\ op.action \in Reads \cup Writes
        /\ op.size \in 1..MaxMatch
    BY <1>1, MoOpShape DEF MoInv
  <1>3. /\ s.action = op.action /\ s.size = op.size /\ s.st = "running"
        /\ s.applied = 0 /\ s.total = 0
    BY DEF NotSent
  <1>4. s \in Records
    <2>1. s \in [action : {op.action}, size : {op.size}, st : {"running"}, applied : {0},
                 total : {0}]
      BY DEF NotSent
    <2>2. op.size \in 0..MaxMatch /\ 0 \in 0..MaxMatch
      BY <1>2, MoNumbers DEF MoInv
    <2> HIDE DEF s
    <2> QED BY <1>2, <2>1, <2>2 DEF Records
  <1> HIDE DEF s
  <1>5. /\ op' \in Operations /\ op'.id = op.id /\ op'.action = op.action
        /\ op'.at = "waiting" /\ op'.got = op.got /\ op'.rest = op.rest
    BY <1>1, <1>2 DEF Operations
  <1>6. /\ server' \in [Calls -> Records] /\ server'[op.id] = s
        /\ \A c \in Calls : c # op.id => server'[c] = server[c]
    BY <1>1, <1>2, <1>4 DEF MoInv, TypeOK
  <1>7. inbox = None /\ op.got = 0 /\ op.rest = 0 /\ op.id = calls
    BY <1>1 DEF MoInv, TypeOK, MoOpOK
  <1>8. TypeOK'
    BY <1>1, <1>5, <1>6, <1>7 DEF MoInv, TypeOK
  <1>9. MoServerOK'
    <2>1. ~ (op.id > calls)
      BY <1>7, MoNumbers DEF MoInv
    <2> QED BY <1>1, <1>2, <1>3, <1>6, <2>1 DEF MoInv, MoServerOK
  <1>11. MoOpOK' /\ MoInboxOK'
    BY <1>1, <1>3, <1>5, <1>6, <1>7 DEF MoOpOK, MoInboxOK
  <1>12. MoCursorOK'
    <2>1. max_docs' \in Nat /\ 0 <= max_docs'
      BY <1>1, MoNumbers DEF MoInv
    <2> QED BY <1>1, <1>3, <1>5, <1>6, <1>7, <2>1 DEF MoCursorOK
  <1>13. MoToldOK' /\ ReadComplete' /\ ReportedApplied'
    BY <1>1, <1>6, MoToldStands
  <1> QED BY <1>8, <1>9, <1>11, <1>12, <1>13 DEF MoInv

\* The kinds of actions exclude one another.
LEMMA MoKinds ==
    /\ \A a \in Writes : a \notin Reads /\ a \notin Cursors
    /\ \A a \in Cursors : a \in Reads /\ a \notin {"find_one", "count"}
    /\ {"find_one", "count"} \subseteq Reads
  BY DEF Writes, Reads, Cursors

\* The call in progress has its answer from the server: the server is done.
LEMMA MoAnswered ==
    ASSUME MoInv, op # None, inbox # None
    PROVE  /\ op.at = "waiting" /\ inbox.ok \in BOOLEAN
           /\ server[op.id].st = "done" /\ server[op.id].action = op.action
           /\ op.action \in Reads => server[op.id].applied = 0
  <1>1. op.at = "waiting" /\ inbox.ok \in BOOLEAN
    BY DEF MoInv, TypeOK
  <1>2. server[op.id].st = "done" /\ server[op.id].action = op.action
    BY <1>1 DEF MoInv, MoOpOK
  <1>3. op.action \in Reads => server[op.id].applied = 0
    BY <1>2, MoOpShape DEF MoInv, MoServerOK
  <1> QED BY <1>1, <1>2, <1>3

\* The call in progress drains its cursor: the server waits to be asked.
LEMMA MoDraining ==
    ASSUME MoInv, op # None, op.at = "draining"
    PROVE  /\ inbox = None /\ op.action \in Cursors /\ op.got <= max_docs
           /\ server[op.id].st = "done" /\ server[op.id].action = op.action
           /\ server[op.id].applied = 0
           /\ op.got + (op.batch + op.rest) = server[op.id].total
           /\ server[op.id].total \in Nat /\ server[op.id].total <= MaxMatch
  <1>1. inbox = None
    BY DEF MoInv, TypeOK
  <1>2. /\ op.action \in Cursors /\ server[op.id].st = "done"
        /\ server[op.id].action = op.action
    BY DEF MoInv, MoOpOK
  <1>3. op.got <= max_docs /\ op.got + (op.batch + op.rest) = server[op.id].total
    BY <1>2 DEF MoInv, MoCursorOK
  <1>4. server[op.id].applied = 0
    BY <1>2, MoOpShape, MoKinds DEF MoInv, MoServerOK
  <1>5. server[op.id].total \in Nat /\ server[op.id].total <= MaxMatch
    BY MoOpShape, MoRecord DEF MoInv
  <1> QED BY <1>1, <1>2, <1>3, <1>4, <1>5

\* The answers that report an error.
LEMMA MoErrorAnswers ==
    ASSUME MoInv, SelectionFails \/ ErrorAnswer \/ DocumentFails \/ TimeOut
    PROVE  MoInv'
  <1>1. op # None /\ UNCHANGED <<left, max_docs, client, server, calls>>
    BY DEF SelectionFails, ErrorAnswer, DocumentFails, TimeOut
  <1>2. CASE SelectionFails
    <2>1. PICK e \in {"selection", "authentication"} : Fails(e)
      BY <1>2 DEF SelectionFails
    <2> QED BY <1>1, <2>1, MoFails DEF MoMistakes
  <1>3. CASE ErrorAnswer
    <2>1. inbox # None /\ ~ inbox.ok /\ Fails(inbox.err)
      BY <1>3 DEF ErrorAnswer
    <2>2. /\ inbox.err \in MoErrors
          /\ inbox.err \in MoMistakes => LeftByRefusal(server[op.id])
      BY <2>1 DEF MoInv, MoInboxOK
    <2>3. server[op.id].st # "running"
      BY <1>1, <2>1, MoAnswered
    <2> QED BY <1>1, <2>1, <2>2, <2>3, MoFails
  <1>4. CASE DocumentFails
    <2>1. Fails("other") /\ "other" \in MoErrors \ MoMistakes
      BY <1>4 DEF DocumentFails, MoErrors, MoMistakes
    <2> QED BY <1>1, <2>1, MoFails
  <1>5. CASE TimeOut
    <2>1. Answer("MONGO_TIMEOUT", 0, 0, FALSE)
      BY <1>5 DEF TimeOut
    <2>2. 0 \in 0..MaxMatch /\ FALSE \in BOOLEAN
      BY MoNumbers DEF MoInv
    <2> QED BY <1>1, <2>1, <2>2, MoAnswer
  <1> QED BY <1>2, <1>3, <1>4, <1>5

\* A write, a find_one or a count is answered Ok.
LEMMA MoPlainAnswers ==
    ASSUME MoInv, WriteAnswer \/ PlainReadAnswer
    PROVE  MoInv'
  <1>1. /\ op # None /\ UNCHANGED <<left, max_docs, client, server, calls>>
        /\ inbox # None /\ inbox.ok
    BY DEF WriteAnswer, PlainReadAnswer
  <1>2. 0 \in 0..MaxMatch /\ FALSE \in BOOLEAN
    BY MoNumbers DEF MoInv
  <1>3. /\ server[op.id].st # "running" /\ server[op.id].action = op.action
        /\ op.action \in Reads => server[op.id].applied = 0
    BY <1>1, MoAnswered
  <1>4. CASE WriteAnswer
    <2>1. op.action \in Writes /\ Answer("OK", 0, inbox.n, FALSE)
      BY <1>4 DEF WriteAnswer, Affected
    <2>2. inbox.n = server[op.id].applied
      BY <1>1, <2>1 DEF MoInv, MoInboxOK
    <2>3. inbox.n \in 0..MaxMatch
      BY <1>1, <2>2, MoOpShape DEF MoInv, Records
    <2>4. server[op.id].action \notin Cursors
      BY <1>3, <2>1, MoKinds
    <2> QED BY <1>1, <1>2, <1>3, <2>1, <2>2, <2>3, <2>4, MoAnswer
  <1>5. CASE PlainReadAnswer
    <2> DEFINE docs == IF op.action = "find_one" THEN inbox.n ELSE 0
    <2>1. op.action \in {"find_one", "count"} /\ Answer("OK", docs, 0, FALSE)
      BY <1>5 DEF PlainReadAnswer
    <2>2. docs \in 0..MaxMatch
      BY <1>1, <1>2 DEF MoInv, MoInboxOK
    <2>3. server[op.id].action \notin Cursors /\ server[op.id].applied = 0
      BY <1>3, <2>1, MoKinds
    <2> HIDE DEF docs
    <2> QED BY <1>1, <1>2, <1>3, <2>1, <2>2, <2>3, MoAnswer
  <1> QED BY <1>4, <1>5

\* A call in progress over a cursor goes on.
LEMMA MoCursorMoves ==
    ASSUME MoInv, op # None, op' \in Operations,
           op'.id = op.id, op'.action = op.action, op'.at # "selecting",
           op.action \in Cursors, inbox' = None,
           UNCHANGED <<left, max_docs, client, calls, told>>,
           server' \in [Calls -> Records], server'[op.id].action = op.action,
           server'[op.id].st # "none", server'[op.id].size = server[op.id].size,
           server'[op.id].applied = 0, server[op.id].st # "none",
           \A c \in Calls : c # op.id => server'[c] = server[c],
           op'.at = "draining" => server'[op.id].st = "done",
           MoCursorOK'
    PROVE  MoInv'
  <1>1. op.id = calls /\ op.id \in Calls
    BY MoOpShape DEF MoInv, MoOpOK
  <1>2. TypeOK'
    BY DEF MoInv, TypeOK
  <1>3. MoServerOK'
    <2>1. ~ (op.id > calls)
      BY <1>1, MoNumbers DEF MoInv
    <2>2. server[op.id].size \in 1..MaxMatch
      BY <1>1 DEF MoInv, MoServerOK
    <2>3. op.action \in Reads \cup Writes
      BY MoKinds
    <2> QED BY <1>1, <2>1, <2>2, <2>3 DEF MoInv, MoServerOK
  <1>4. MoOpOK' /\ MoInboxOK'
    BY <1>1 DEF MoOpOK, MoInboxOK
  <1>5. MoToldOK' /\ ReadComplete' /\ ReportedApplied'
    BY MoToldStands
  <1> QED BY <1>2, <1>3, <1>4, <1>5 DEF MoInv

\* BatchArrives: the answer becomes the batch at hand and the rest.
LEMMA MoBatchArrives ==
    ASSUME MoInv, BatchArrives
    PROVE  MoInv'
  <1>1. /\ op # None /\ op.action \in Cursors /\ inbox # None /\ inbox.ok
        /\ op' = [op EXCEPT !.at = "draining", !.batch = inbox.n, !.rest = inbox.matched]
        /\ inbox' = None /\ UNCHANGED <<left, max_docs, client, server, calls, told>>
    BY DEF BatchArrives
  <1>2. /\ op.at = "waiting" /\ server[op.id].st = "done"
        /\ server[op.id].action = op.action /\ server[op.id].applied = 0
    BY <1>1, MoAnswered, MoKinds
  <1>3. /\ inbox.n \in 0..BatchSize /\ inbox.matched \in 0..MaxMatch
        /\ op.got + (inbox.n + inbox.matched) = server[op.id].total
        /\ op.got <= max_docs
    BY <1>1, <1>2 DEF MoInv, MoCursorOK
  <1>4. op \in Operations
    BY <1>1, MoOpShape DEF MoInv
  <1>5. /\ op' \in Operations /\ op'.id = op.id /\ op'.action = op.action
        /\ op'.at = "draining" /\ op'.got = op.got /\ op'.batch = inbox.n
        /\ op'.rest = inbox.matched
    BY <1>1, <1>3, <1>4 DEF Operations
  <1>6. MoCursorOK'
    BY <1>1, <1>3, <1>5 DEF MoCursorOK
  <1>7. server' \in [Calls -> Records]
    BY <1>1 DEF MoInv, TypeOK
  <1> QED BY <1>1, <1>2, <1>5, <1>6, <1>7, MoCursorMoves

\* Advance: with a document at hand and the cap reached there were more than the
\* cap; below it, the document is taken from the batch.
LEMMA MoAdvance ==
    ASSUME MoInv, Advance
    PROVE  MoInv'
  <1>1. /\ op # None /\ op.at = "draining" /\ op.batch > 0
        /\ UNCHANGED <<left, max_docs, client, server, calls>>
    BY DEF Advance
  <1>2. /\ inbox = None /\ op.action \in Cursors /\ op.got <= max_docs
        /\ server[op.id].st = "done" /\ server[op.id].action = op.action
        /\ server[op.id].applied = 0
        /\ op.got + (op.batch + op.rest) = server[op.id].total
        /\ server[op.id].total \in Nat /\ server[op.id].total <= MaxMatch
    BY <1>1, MoDraining
  <1>3. /\ op.got \in Nat /\ op.batch \in Nat /\ op.rest \in Nat /\ max_docs \in Nat
        /\ MaxMatch \in Nat /\ BatchSize \in Nat /\ op.batch <= BatchSize
        /\ op \in Operations
    BY <1>1, MoOpShape, MoNumbers DEF MoInv
  <1>4. CASE Full
    <2>1. Answer("OK", op.got, 0, TRUE)
      BY <1>4 DEF Advance
    <2>2. op.got = max_docs
      BY <1>2, <1>3, <1>4 DEF Full
    <2>3. server[op.id].total > max_docs
      BY <1>1, <1>2, <1>3, <2>2
    <2>4. op.got = Min({server[op.id].total, max_docs})
      <3>1. Min({server[op.id].total, max_docs}) =
               IF server[op.id].total <= max_docs THEN server[op.id].total ELSE max_docs
        BY <1>2, <1>3, MinOfTwo
      <3>2. ~ (server[op.id].total <= max_docs)
        BY <1>2, <1>3, <2>3
      <3> QED BY <2>2, <3>1, <3>2
    <2>5. op.got \in 0..MaxMatch /\ 0 \in 0..MaxMatch /\ TRUE \in BOOLEAN
      BY <1>2, <1>3
    <2>6. TRUE = (server[op.id].total > max_docs)
      BY <2>3
    <2> QED BY <1>1, <1>2, <2>1, <2>4, <2>5, <2>6, MoAnswer
  <1>5. CASE ~ Full
    <2>1. op' = [op EXCEPT !.got = @ + 1, !.batch = @ - 1] /\ UNCHANGED <<inbox, told>>
      BY <1>5 DEF Advance
    <2>2. /\ op.got + 1 \in 0..MaxMatch /\ op.batch - 1 \in 0..BatchSize
          /\ op.got + 1 <= max_docs
          /\ (op.got + 1) + ((op.batch - 1) + op.rest) = server[op.id].total
      BY <1>1, <1>2, <1>3, <1>5 DEF Full
    <2>3. /\ op' \in Operations /\ op'.id = op.id /\ op'.action = op.action
          /\ op'.at = op.at /\ op'.got = op.got + 1 /\ op'.batch = op.batch - 1
          /\ op'.rest = op.rest
      BY <1>3, <2>1, <2>2 DEF Operations
    <2>4. MoCursorOK'
      BY <1>1, <2>2, <2>3 DEF MoCursorOK
    <2>5. server' \in [Calls -> Records]
      BY <1>1 DEF MoInv, TypeOK
    <2> QED BY <1>1, <1>2, <2>1, <2>3, <2>4, <2>5, MoCursorMoves
  <1> QED BY <1>4, <1>5

\* GetMore: an empty batch, so what was got and the rest are all there is.
LEMMA MoGetMore ==
    ASSUME MoInv, GetMore
    PROVE  MoInv'
  <1> DEFINE s == [server[op.id] EXCEPT !.st = "running"]
  <1>1. /\ op # None /\ op.at = "draining" /\ op.batch = 0 /\ op.rest > 0
        /\ op' = [op EXCEPT !.at = "waiting"] /\ server' = [server EXCEPT ![op.id] = s]
        /\ UNCHANGED <<left, max_docs, client, inbox, calls, told>>
    BY DEF GetMore
  <1>2. /\ inbox = None /\ op.action \in Cursors /\ op.got <= max_docs
        /\ server[op.id].st = "done" /\ server[op.id].action = op.action
        /\ server[op.id].applied = 0
        /\ op.got + (op.batch + op.rest) = server[op.id].total
    BY <1>1, MoDraining
  <1>3. /\ op \in Operations /\ op.id \in Calls /\ server[op.id] \in Records
        /\ op.got \in Nat /\ op.rest \in Nat
    BY <1>1, MoOpShape DEF MoInv
  <1>4. /\ s \in Records /\ s.action = op.action /\ s.size = server[op.id].size
        /\ s.st = "running" /\ s.applied = 0 /\ s.total = server[op.id].total
    BY <1>2, <1>3 DEF Records
  <1> HIDE DEF s
  <1>5. /\ server' \in [Calls -> Records] /\ server'[op.id] = s
        /\ \A c \in Calls : c # op.id => server'[c] = server[c]
    BY <1>1, <1>3, <1>4 DEF MoInv, TypeOK
  <1>6. /\ op' \in Operations /\ op'.id = op.id /\ op'.action = op.action
        /\ op'.at = "waiting" /\ op'.got = op.got /\ op'.rest = op.rest
    BY <1>1, <1>3 DEF Operations
  <1>7. op.got + op.rest = s.total /\ op.rest # 0
    BY <1>1, <1>2, <1>3, <1>4
  <1>8. MoCursorOK'
    BY <1>1, <1>2, <1>5, <1>6, <1>7 DEF MoCursorOK
  <1> QED BY <1>1, <1>2, <1>4, <1>5, <1>6, <1>8, MoCursorMoves

\* Drained: nothing at hand and no rest, so what was got is all there is.
LEMMA MoDrained ==
    ASSUME MoInv, Drained
    PROVE  MoInv'
  <1>1. /\ op # None /\ op.at = "draining" /\ op.batch = 0 /\ op.rest = 0
        /\ Answer("OK", op.got, 0, FALSE)
        /\ UNCHANGED <<left, max_docs, client, server, calls>>
    BY DEF Drained
  <1>2. /\ op.got <= max_docs /\ server[op.id].st = "done" /\ server[op.id].applied = 0
        /\ op.got + (op.batch + op.rest) = server[op.id].total
    BY <1>1, MoDraining
  <1>3. op.got \in Nat /\ op.got <= MaxMatch /\ MaxMatch \in Nat /\ max_docs \in Nat
    BY <1>1, MoOpShape, MoNumbers DEF MoInv
  <1>4. server[op.id].total = op.got
    BY <1>1, <1>2, <1>3
  <1>5. op.got = Min({server[op.id].total, max_docs})
    BY <1>2, <1>3, <1>4, MinOfTwo
  <1>6. FALSE = (server[op.id].total > max_docs)
    BY <1>2, <1>3, <1>4
  <1>7. op.got \in 0..MaxMatch /\ 0 \in 0..MaxMatch /\ FALSE \in BOOLEAN
    BY <1>3
  <1> QED BY <1>1, <1>2, <1>5, <1>6, <1>7, MoAnswer

\* Every step keeps the invariant.
LEMMA MoStep ==
    ASSUME MoInv, [Next]_vars
    PROVE  MoInv'
  <1>1. CASE Connect \/ Tick
    BY <1>1, MoConnectTick
  <1>2. CASE Call
    BY <1>2, MoUsageError, MoStartCall DEF Call
  <1>3. CASE Sent
    BY <1>3, MoSent
  <1>4. CASE SelectionFails \/ ErrorAnswer \/ DocumentFails \/ TimeOut
    BY <1>4, MoErrorAnswers
  <1>5. CASE WriteAnswer \/ PlainReadAnswer
    BY <1>5, MoPlainAnswers
  <1>6. CASE BatchArrives \/ Advance \/ GetMore \/ Drained
    BY <1>6, MoBatchArrives, MoAdvance, MoGetMore, MoDrained
  <1>7. CASE \E c \in Calls : ServerAnswers(c) \/ ServerLimit(c) \/ ServerAbandons(c)
    BY <1>7, MoServerAnswers, MoServerStops
  <1>8. CASE UNCHANGED vars
    <2>1. TypeOK'
      BY <1>8 DEF vars, MoInv, TypeOK
    <2>2. MoServerOK' /\ MoOpOK' /\ MoCursorOK' /\ MoInboxOK' /\ MoToldOK'
      BY <1>8 DEF vars, MoInv, MoServerOK, MoOpOK, MoCursorOK, MoInboxOK, MoToldOK
    <2>3. ReadComplete' /\ ReportedApplied'
      BY <1>8 DEF vars, MoInv, ReadComplete, ReportedApplied
    <2> QED BY <2>1, <2>2, <2>3 DEF MoInv
  <1> QED BY <1>1, <1>2, <1>3, <1>4, <1>5, <1>6, <1>7, <1>8 DEF Next, Drive, Over

\* The mongo backend keeps its inductive invariant.
THEOREM MongoInvariance == Spec => []MoInv
  <1>1. Init => MoInv
    BY MoInit
  <1>2. MoInv /\ [Next]_vars => MoInv'
    BY MoStep
  <1> QED BY <1>1, <1>2, PTL DEF Spec

\* A cursor read answered Ok has every document up to the cap and says truncated
\* exactly when there were more, whatever the cap, the size of a batch and the
\* number of documents (drain_cursor).
THEOREM ReadsComplete == Spec => []ReadComplete
  <1>1. MoInv => ReadComplete
    BY DEF MoInv
  <1> QED BY <1>1, MongoInvariance, PTL

\* A write answered Ok changed what its answer says, and a call answered
\* MONGO_QUERY is over and changed nothing, but for the earlier commands of an
\* insert_many in several (do_insert_many, do_update, do_delete, classify).
THEOREM ReportsApplied == Spec => []ReportedApplied
  <1>1. MoInv => ReportedApplied
    BY DEF MoInv
  <1> QED BY <1>1, MongoInvariance, PTL
=============================================================================
