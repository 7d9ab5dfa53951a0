------------------------------ MODULE AuthOidc -------------------------------
(***************************************************************************)
(* One session's auth backend (fabric-backends/src/auth.rs): it asks the   *)
(* identity provider about a token, at an endpoint the operator names or   *)
(* one it discovers once and remembers, and sorts what comes back into a   *)
(* verdict on the token and the faults of the infrastructure.              *)
(*                                                                         *)
(* reqwest's blocking client and the provider are external.  The client    *)
(* waits for the head of a response, then for its body; either wait may    *)
(* end with the timeout or break off.  The provider may replace its        *)
(* discovery document at any time.                                         *)
(***************************************************************************)
EXTENDS Naturals, FiniteSets

CONSTANTS MaxDocs,   \* bound: discovery documents the issuer publishes in turn
          MaxCalls,  \* bound: auth calls of a session
          None       \* Rust's Option::None

Actions == {"user_info", "introspect"}

Statuses == {"2xx", "401", "403", "5xx", "other"}

\* A discovery document: which one it is, and the endpoints it names.
Documents == [version : 1..MaxDocs, names : SUBSET Actions]

\* A call between two waits: where it is, and what it has learned so far.
Operations ==
    [action : Actions, at : {"discover_head", "ask_head"}, status : {None}, doc : {None}]
    \cup [action : Actions, at : {"discover_body"}, status : Statuses, doc : Documents]
    \cup [action : Actions, at : {"ask_body"}, status : Statuses, doc : {None}]

ASSUME AuthOidcAssumption ==
    /\ {MaxDocs, MaxCalls} \subseteq Nat
    /\ None \notin Documents \cup Operations

VARIABLES
    config,    \* the endpoints the operator names; client_id is not empty
    client,    \* the backend's HTTP client: none, ready or failed
    discovery, \* AuthState.discovery
    issuer,    \* the document the issuer publishes now
    op,        \* the call in progress, or None
    calls,     \* calls made
    told,      \* the last answer: its code, the action, and the wait and the
               \* status it came from
    served,    \* documents received whole
    asked      \* versions of the documents whose endpoints were asked

vars == <<config, client, discovery, issuer, op, calls, told, served, asked>>

Init ==
    /\ config \in [explicit : SUBSET Actions, client_id : BOOLEAN]
    /\ client = "none"
    /\ discovery = None
    /\ issuer \in {d \in Documents : d.version = 1}
    /\ op = None
    /\ calls = 0
    /\ told = [code |-> "none", action |-> None, at |-> None, status |-> None]
    /\ served = {}
    /\ asked = {}

\* AuthBackend::connect_resource builds the client.
Connect ==
    /\ client = "none"
    /\ client' \in {"ready", "failed"}
    /\ UNCHANGED <<config, discovery, issuer, op, calls, told, served, asked>>

-----------------------------------------------------------------------------
\* The call returns; it is metered with the status of an Ok, else with zero.
Answer(code) ==
    /\ op' = None
    /\ told' = [code |-> code, action |-> op.action, at |-> op.at, status |-> op.status]

NewCall ==
    /\ client = "ready"
    /\ op = None
    /\ calls < MaxCalls
    /\ calls' = calls + 1

\* Slip: what was discovered is not looked up again.
Memo_Never == None

\* discover: the memo.
Memo == discovery

\* Refused without a request: an unknown action (None), introspect without a
\* client_id, or an endpoint that the remembered document does not name.
Refused(action) ==
    /\ NewCall
    /\ \/ action = None
       \/ action = "introspect" /\ ~ config.client_id
       \/ /\ action \in Actions \ config.explicit
          /\ Memo # None
          /\ action \notin Memo.names
    /\ told' = [code |-> "AUTH_REQUEST", action |-> action, at |-> None, status |-> None]
    /\ UNCHANGED <<config, client, discovery, issuer, op, served, asked>>

\* resolve_userinfo, resolve_introspect with the endpoint at hand.
Ask(action) ==
    /\ NewCall
    /\ action = "introspect" => config.client_id
    /\ \/ action \in config.explicit /\ UNCHANGED asked
       \/ /\ action \notin config.explicit
          /\ Memo # None
          /\ action \in Memo.names
          /\ asked' = asked \cup {Memo.version}
    /\ op' = [action |-> action, at |-> "ask_head", status |-> None, doc |-> None]
    /\ UNCHANGED <<config, client, discovery, issuer, told, served>>

\* The same with a discovery first.
Discover(action) ==
    /\ NewCall
    /\ action = "introspect" => config.client_id
    /\ action \notin config.explicit
    /\ Memo = None
    /\ op' = [action |-> action, at |-> "discover_head", status |-> None, doc |-> None]
    /\ UNCHANGED <<config, client, discovery, issuer, told, served, asked>>

-----------------------------------------------------------------------------
(* fetch_discovery *)

Waits(at) == op # None /\ op.at = at

\* The head of the response: its status, over the document of this moment.
DiscoveryHead(status) ==
    /\ Waits("discover_head")
    /\ op' = [op EXCEPT !.at = "discover_body", !.status = status, !.doc = issuer]
    /\ UNCHANGED <<config, client, discovery, issuer, calls, told, served, asked>>

\* Slip: a discovery the issuer refuses is a verdict on the token.
DiscoveryRefused_InBand ==
    /\ Waits("discover_body")
    /\ op.status # "2xx"
    /\ Answer(IF op.status \in {"401", "403"} THEN "INVALID" ELSE "AUTH_REQUEST")
    /\ UNCHANGED <<config, client, discovery, issuer, calls, served, asked>>

\* Any status but 2xx.
DiscoveryRefused ==
    /\ Waits("discover_body")
    /\ op.status # "2xx"
    /\ Answer("AUTH_REQUEST")
    /\ UNCHANGED <<config, client, discovery, issuer, calls, served, asked>>

DiscoveryGarbage ==
    /\ Waits("discover_body")
    /\ op.status = "2xx"
    /\ Answer("AUTH_REQUEST")
    /\ UNCHANGED <<config, client, discovery, issuer, calls, served, asked>>

\* The document is remembered, then its endpoint is asked or missing.
DiscoveryDone ==
    /\ Waits("discover_body")
    /\ op.status = "2xx"
    /\ discovery' = op.doc
    /\ served' = served \cup {op.doc}
    /\ IF op.action \in op.doc.names
       THEN /\ op' = [op EXCEPT !.at = "ask_head", !.status = None, !.doc = None]
            /\ asked' = asked \cup {op.doc.version}
            /\ UNCHANGED told
       ELSE Answer("AUTH_REQUEST") /\ UNCHANGED asked
    /\ UNCHANGED <<config, client, issuer, calls>>

-----------------------------------------------------------------------------
(* do_user_info, do_introspect and send. *)

AskHead(status) ==
    /\ Waits("ask_head")
    /\ op' = [op EXCEPT !.at = "ask_body", !.status = status]
    /\ UNCHANGED <<config, client, discovery, issuer, calls, told, served, asked>>

\* Claims, an invalid token in-band, or a fault.
verdict(action, status, json) ==
    CASE status = "2xx" /\ json -> "CLAIMS"
      [] status = "2xx" /\ ~ json -> "AUTH_REQUEST"
      [] status \in {"401", "403"} ->
            IF action = "user_info" THEN "INVALID" ELSE "AUTH_REQUEST"
      [] status = "5xx" -> "AUTH_UNAVAILABLE"
      [] status = "other" -> "AUTH_REQUEST"

Body(json) ==
    /\ Waits("ask_body")
    /\ Answer(verdict(op.action, op.status, json))
    /\ UNCHANGED <<config, client, discovery, issuer, calls, served, asked>>

\* from_transport: no connection, the timeout, or a body that breaks off.
TransportFails ==
    /\ op # None
    /\ Answer("AUTH_UNAVAILABLE")
    /\ UNCHANGED <<config, client, discovery, issuer, calls, served, asked>>

\* The issuer publishes another document.
Rotate(names) ==
    /\ issuer.version < MaxDocs
    /\ issuer' = [version |-> issuer.version + 1, names |-> names]
    /\ UNCHANGED <<config, client, discovery, op, calls, told, served, asked>>

\* The session makes no more calls.
Over ==
    /\ op = None
    /\ client = "failed" \/ calls = MaxCalls
    /\ UNCHANGED vars

-----------------------------------------------------------------------------
Next ==
    \/ Connect
    \/ \E action \in Actions \cup {None} : Refused(action)
    \/ \E action \in Actions : Ask(action) \/ Discover(action)
    \/ \E status \in Statuses : DiscoveryHead(status) \/ AskHead(status)
    \/ DiscoveryRefused
    \/ DiscoveryGarbage
    \/ DiscoveryDone
    \/ \E json \in BOOLEAN : Body(json)
    \/ TransportFails
    \/ \E names \in SUBSET Actions : Rotate(names)
    \/ Over

Spec == Init /\ [][Next]_vars

-----------------------------------------------------------------------------
Codes == {"CLAIMS", "INVALID", "AUTH_REQUEST", "AUTH_UNAVAILABLE"}

Stages == {"discover_head", "discover_body", "ask_head", "ask_body"}

\* A call is in one of its waits, the body's status is known, and what is
\* remembered is a document.
TypeOK ==
    /\ config \in [explicit : SUBSET Actions, client_id : BOOLEAN]
    /\ client \in {"none", "ready", "failed"}
    /\ discovery \in Documents \cup {None}
    /\ issuer \in Documents
    /\ op \in Operations \cup {None}
    /\ calls \in 0..MaxCalls
    /\ told \in [code : Codes \cup {"none"}, action : Actions \cup {None},
                 at : Stages \cup {None}, status : Statuses \cup {None}]
    /\ served \subseteq Documents
    /\ asked \subseteq 1..MaxDocs

\* A verdict on the token comes from the endpoint that was asked about it: claims
\* from its 2xx, an invalid token only from the 401 or 403 of userinfo.  Neither
\* the issuer's refusal of a discovery nor introspect's refusal of the daemon's
\* own credentials tells the box that its caller's token is bad.
VerdictFromEndpoint ==
    /\ told.code = "CLAIMS" => told.at = "ask_body" /\ told.status = "2xx"
    /\ told.code = "INVALID" => /\ told.action = "user_info"
                                /\ told.at = "ask_body"
                                /\ told.status \in {"401", "403"}

\* A session that discovers its endpoints asks those of one document, however
\* often the issuer replaces it in between, and that is a document the issuer
\* served whole, never one from a failed discovery (discover, fetch_discovery).
OneDocument ==
    /\ Cardinality(asked) <= 1
    /\ discovery # None => discovery \in served
=============================================================================
