---------------------------- MODULE WireContract -----------------------------
(***************************************************************************)
(* What a box may rely on in each of its sessions, whatever happens behind *)
(* them: a session opens once, it takes one request at a time and answers  *)
(* it with one response of the kind that request draws, and a session that *)
(* could not be opened ends with its refusal.  The daemon may go away at   *)
(* any time; it never answers after that.                                  *)
(*                                                                         *)
(* This is the abstract specification of `serve`; Session implements it.   *)
(***************************************************************************)

CONSTANT Sessions

VARIABLES phase,    \* "opening", "open" or "closed"
          owed,     \* the request not answered yet, or "nothing"
          answer    \* the type of the last response, or "nothing"

vars == <<phase, owed, answer>>

Requests == {"Init", "Call", "Drain"}

\* The responses a request draws in each phase.
Draws(ph, req) ==
    CASE ph = "opening" /\ req = "Init" -> {"Ack", "InitError"}
      [] ph = "opening" /\ req # "Init" -> {"ProtocolError"}
      [] ph = "open" /\ req = "Init" -> {"ProtocolError"}
      [] ph = "open" /\ req = "Call" -> {"Reply", "ProtocolError"}
      [] ph = "open" /\ req = "Drain" -> {"Metrics"}

\* Only Ack opens a session; any other answer to an opening request ends it.
PhaseAfter(ph, type) ==
    IF ph = "opening" /\ type # "Ack" THEN "closed" ELSE "open"

Init ==
    /\ phase = [s \in Sessions |-> "opening"]
    /\ owed = [s \in Sessions |-> "nothing"]
    /\ answer = [s \in Sessions |-> "nothing"]

Request(s, req) ==
    /\ phase[s] # "closed"
    /\ owed[s] = "nothing"
    /\ owed' = [owed EXCEPT ![s] = req]
    /\ UNCHANGED <<phase, answer>>

Answer(s, type) ==
    /\ phase[s] # "closed"
    /\ owed[s] # "nothing"
    /\ type \in Draws(phase[s], owed[s])
    /\ answer' = [answer EXCEPT ![s] = type]
    /\ owed' = [owed EXCEPT ![s] = "nothing"]
    /\ phase' = [phase EXCEPT ![s] = PhaseAfter(@, type)]

\* One session ends, or several at once when the daemon dies.
HangUp(ended) ==
    /\ phase' = [s \in Sessions |-> IF s \in ended THEN "closed" ELSE phase[s]]
    /\ owed' = [s \in Sessions |-> IF s \in ended THEN "nothing" ELSE owed[s]]
    /\ UNCHANGED answer

Types == {"Ack", "InitError", "Reply", "Metrics", "ProtocolError"}

Next ==
    \/ \E s \in Sessions :
          \/ \E req \in Requests : Request(s, req)
          \/ \E type \in Types : Answer(s, type)
    \/ \E ended \in SUBSET Sessions : HangUp(ended)

Spec == Init /\ [][Next]_vars
=============================================================================
