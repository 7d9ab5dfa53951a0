----------------------------- MODULE MCListeners -----------------------------
(***************************************************************************)
(* Two QUIC connections for one permit.  One session is a stream of the    *)
(* first connection, one comes over UDS; each may hang in its calls, and   *)
(* the blocking pool has one thread or two for them.                       *)
(***************************************************************************)
EXTENDS Listeners

CONSTANTS c1, c2, s1, s2

MCVia == [s \in {s1, s2} |-> IF s = s1 THEN c1 ELSE Uds]
=============================================================================
