------------------------------ MODULE MCSession ------------------------------
(***************************************************************************)
(* Instances of Session for TLC.                                           *)
(*                                                                         *)
(* Tenants acme and globex each have a database behind the same host:port, *)
(* so that their sessions share a breaker; acme also has a mail relay and  *)
(* a message broker.                                                       *)
(***************************************************************************)
EXTENDS Session

CONSTANTS orders, ledger, relay, events, acme, globex, pg, smtp,
          secret, stale, wrong

Binding(tenant, kind, target, timeout) ==
    [tenant |-> tenant, kind |-> kind, target |-> target,
     statement_timeout_ms |-> timeout]

MCTable ==
    [n \in Names |->
        CASE n = orders -> Binding(acme, "db", pg, 0)
          [] n = ledger -> Binding(globex, "db", pg, 3)
          [] n = relay -> Binding(acme, "mail", smtp, 0)
          [] n = events -> Binding(acme, "amq", smtp, 0)]

Select(sel) == [k \in Kinds |-> IF k \in DOMAIN sel THEN sel[k] ELSE None]

Frame(tenant, token, sel) ==
    [tenant |-> tenant, token |-> token, names |-> Select(sel)]

Call(name, payload) == [name |-> name, payload |-> payload]

-----------------------------------------------------------------------------
(* Two sessions of two tenants racing for one database target, whose connect *)
(* may hang.                                                                 *)

RaceInits ==
    {Frame(acme, secret, [db |-> orders]),
     Frame(globex, stale, [db |-> ledger]),
     Frame(globex, secret, [db |-> orders]),
     Frame(acme, secret, [mongo |-> orders]),
     Frame(acme, wrong, [db |-> ledger]),
     Frame(acme, EmptyToken, [db |-> orders])}

RaceCalls == {Call("db", "valid")}

-----------------------------------------------------------------------------
(* One session that uses everything. *)

SoloInits ==
    {Frame(acme, NoToken, [db |-> orders, mail |-> relay, amq |-> events]),
     Frame(acme, NoToken, [db |-> relay])}

SoloCalls ==
    {Call("db", "valid"), Call("db", "malformed"), Call("mail", "valid"),
     Call("amq", "malformed"), Call("redis", "valid"), Call(orders, "valid")}

=============================================================================
