------------------------------ MODULE Resources ------------------------------
(***************************************************************************)
(* The operator's credential table and the trust boundary of fabricd: how  *)
(* the logical names a session selects in `Init` become driver configs,    *)
(* scoped to the session's tenant (fabric-backends/src/resources.rs).      *)
(*                                                                         *)
(* A driver config is abstracted to what decides where a session may       *)
(* connect and for how long: the tenant it is provisioned for, its kind,   *)
(* its target (`host:port`) and its `statement_timeout_ms`.                *)
(***************************************************************************)
EXTENDS Integers, Sequences, FiniteSetsExt

CONSTANTS Names,    \* logical resource names the operator may provision
          Tenants,  \* workspace ids
          Targets,  \* `host:port` pairs of the backends
          None      \* Rust's Option::None

ASSUME NoneAssumption ==
    /\ None \notin Names
    /\ None \notin Tenants
    /\ None \notin [tenant : Tenants \cup {None},
                    kind : {"db", "mongo", "mail", "redis", "amq", "auth"},
                    target : Targets,
                    statement_timeout_ms : Nat]

\* The capabilities, in the order `resolve` looks their names up.
KindOrder == <<"db", "mongo", "mail", "redis", "amq", "auth">>

Kinds == {"db", "mongo", "mail", "redis", "amq", "auth"}

\* A ResourceBinding with the tenant it is authorised for (None = the
\* single-tenant, loopback case).
TenantResourceBinding ==
    [tenant : Tenants \cup {None}, kind : Kinds, target : Targets,
     statement_timeout_ms : Nat]

\* The table is a map; a name it does not hold is mapped to None.
Tables == [Names -> TenantResourceBinding \cup {None}]

\* The names a session selects, at most one per kind.
Selections == [Kinds -> Names \cup {None}]

\* One config per selected kind.
ResolvedConfigs == [Kinds -> TenantResourceBinding \cup {None}]

ResolveCodes == {"RESOURCE_NOT_FOUND", "RESOURCE_KIND_MISMATCH"}

(***************************************************************************)
(* pick: one optional name.  A name of another tenant is answered exactly  *)
(* as a name nobody provisioned.                                           *)
(***************************************************************************)
Picked(config) == [code |-> "OK", config |-> config]

PickFailed(code) == [code |-> code, config |-> None]

\* Slips: the tenant is not compared; a foreign name is told apart from an
\* unknown one; the kind is not compared.
pick_AnyTenant(table, tenant, name, kind) ==
    IF name = None THEN Picked(None)
    ELSE IF table[name] = None THEN PickFailed("RESOURCE_NOT_FOUND")
    ELSE IF table[name].kind # kind THEN PickFailed("RESOURCE_KIND_MISMATCH")
    ELSE Picked(table[name])

pick_TellsForeign(table, tenant, name, kind) ==
    IF name = None THEN Picked(None)
    ELSE IF table[name] = None THEN PickFailed("RESOURCE_NOT_FOUND")
    ELSE IF table[name].tenant # tenant \/ table[name].kind # kind
    THEN PickFailed("RESOURCE_KIND_MISMATCH")
    ELSE Picked(table[name])

pick_AnyKind(table, tenant, name, kind) ==
    IF name = None THEN Picked(None)
    ELSE IF table[name] = None \/ table[name].tenant # tenant
    THEN PickFailed("RESOURCE_NOT_FOUND")
    ELSE Picked(table[name])

pick(table, tenant, name, kind) ==
    IF name = None
    THEN Picked(None)
    ELSE IF table[name] = None \/ table[name].tenant # tenant
    THEN PickFailed("RESOURCE_NOT_FOUND")
    ELSE IF table[name].kind # kind
    THEN PickFailed("RESOURCE_KIND_MISMATCH")
    ELSE Picked(table[name])

\* The positions of KindOrder whose selection does not resolve.
Unresolved(table, tenant, names) ==
    {i \in DOMAIN KindOrder :
        pick(table, tenant, names[KindOrder[i]], KindOrder[i]).code # "OK"}

(***************************************************************************)
(* resolve: every selection, all or nothing; the first failure in          *)
(* KindOrder is the one reported.                                          *)
(***************************************************************************)
resolve(table, tenant, names) ==
    LET failed == Unresolved(table, tenant, names)
        first  == KindOrder[Min(failed)]
    IN  IF failed = {}
        THEN [code |-> "OK",
              configs |-> [k \in Kinds |->
                              pick(table, tenant, names[k], k).config]]
        ELSE [code |-> pick(table, tenant, names[first], first).code,
              configs |-> [k \in Kinds |-> None]]

(***************************************************************************)
(* The Tier-0 ceiling on a db session's statement timeout.  0 stands for   *)
(* "unlimited" in a binding and for "no ceiling" in the daemon's config.   *)
(***************************************************************************)
\* Slip: a plain minimum keeps "unlimited".
ClampedTimeout_Min(ms, ceiling) == IF ms > ceiling THEN ceiling ELSE ms

ClampedTimeout(ms, ceiling) ==
    IF ms = 0 \/ ms > ceiling THEN ceiling ELSE ms

clamp_db_statement_timeout(configs, ceiling) ==
    IF ceiling = 0 \/ configs["db"] = None
    THEN configs
    ELSE [configs EXCEPT !["db"].statement_timeout_ms =
                             ClampedTimeout(@, ceiling)]

-----------------------------------------------------------------------------
\* The part of the table a tenant may know of.
VisibleTo(table, tenant) ==
    [n \in Names |->
        IF table[n] # None /\ table[n].tenant = tenant THEN table[n] ELSE None]
=============================================================================
