----------------------------- MODULE SessionOpen -----------------------------
(***************************************************************************)
(* The opening of one authenticated session on its own: `serve` resolves   *)
(* the names of an arbitrary Init against an arbitrary operator table and  *)
(* clamps the db statement timeout (fabricd/src/main.rs).  Tables, Inits   *)
(* and ceilings are inputs, so that the promises of the trust boundary are *)
(* checked over all of them; Session composes the same operators with      *)
(* authentication and with what happens after, and names its parts Init,   *)
(* Next and Spec; here they are prefixed, so that its proofs can extend    *)
(* both.                                                                   *)
(***************************************************************************)
EXTENDS Resources

CONSTANTS OperatorTables,   \* the operator tables considered
          BoxSelections,    \* the selections a box sends
          Ceilings          \* values of max_statement_timeout_ms considered

ASSUME SessionOpenAssumption ==
    /\ OperatorTables \subseteq Tables
    /\ BoxSelections \subseteq Selections
    /\ Ceilings \subseteq Nat

VARIABLES table,    \* Shared.table
          ceiling,  \* Shared.max_statement_timeout_ms
          tenant,   \* Init.tenant
          names,    \* Init.db .. Init.auth
          opened    \* what the session gets: None until resolved

openVars == <<table, ceiling, tenant, names, opened>>

OpenInit ==
    /\ table \in OperatorTables
    /\ ceiling \in Ceilings
    /\ tenant \in Tenants \cup {None}
    /\ names \in BoxSelections
    /\ opened = None

\* The outcome of an Init: its code, and the configs the BackendSet is built
\* from.
Outcome(tbl, ten, sel, ceil) ==
    LET result == resolve(tbl, ten, sel)
    IN  [code |-> result.code,
         configs |-> clamp_db_statement_timeout(result.configs, ceil)]

Open ==
    /\ opened = None
    /\ opened' = Outcome(table, tenant, names, ceiling)
    /\ UNCHANGED <<table, ceiling, tenant, names>>

\* A session is opened once; the terminal state is no deadlock.
Opened == opened # None /\ UNCHANGED openVars

OpenNext == Open \/ Opened

OpenSpec == OpenInit /\ [][OpenNext]_openVars

-----------------------------------------------------------------------------
\* The outcome of an Init is a code of resolve with configs of the right kinds.
OpenTypeOK ==
    /\ table \in Tables
    /\ ceiling \in Nat
    /\ tenant \in Tenants \cup {None}
    /\ names \in Selections
    /\ opened \in [code : {"OK"} \cup ResolveCodes, configs : ResolvedConfigs]
                   \cup {None}

\* A config without the one field the clamp rewrites.
Endpoint(config) ==
    [tenant |-> config.tenant, kind |-> config.kind, target |-> config.target]

\* A session is only ever handed the endpoint provisioned under a name it
\* selected, for its own tenant and of the kind it asked for; nothing is
\* handed out when any of its selections fails (resolve, pick).
OnlyAuthorisedEndpoints ==
    opened # None => \A k \in Kinds :
        /\ opened.configs[k] # None =>
              /\ opened.code = "OK"
              /\ names[k] # None
              /\ table[names[k]] # None
              /\ Endpoint(opened.configs[k]) = Endpoint(table[names[k]])
              /\ opened.configs[k].tenant = tenant
              /\ opened.configs[k].kind = k
        /\ opened.code = "OK" /\ names[k] # None => opened.configs[k] # None

\* "Existence never leaks across workspaces": whatever the operator provisions
\* for other tenants, an Init is answered, code and configs, as if the table
\* held the session's tenant's bindings alone (pick's NotFound for an
\* out-of-tenant name).
ExistenceNeverLeaks ==
    opened # None =>
        opened = Outcome(VisibleTo(table, tenant), tenant, names, ceiling)

\* With a ceiling configured, no session's db connection is given an unlimited
\* statement timeout or one above the ceiling, and a finite timeout below it is
\* left alone (clamp_db_statement_timeout; 0 means unlimited).
StatementTimeoutCapped ==
    (opened # None /\ ceiling # 0 /\ opened.configs["db"] # None) =>
        LET granted   == opened.configs["db"].statement_timeout_ms
            requested == table[names["db"]].statement_timeout_ms
        IN  /\ granted \in 1..ceiling
            /\ requested \in 1..ceiling => granted = requested
=============================================================================
