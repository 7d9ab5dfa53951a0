---------------------------- MODULE MCSessionOpen ----------------------------
(***************************************************************************)
(* A small instance of SessionOpen: two names, two tenants and the         *)
(* loopback case, db bindings with timeouts below, at and above the        *)
(* ceiling and "unlimited", mongo bindings for the kind mismatches.        *)
(***************************************************************************)
EXTENDS SessionOpen

MCBindings ==
    [tenant : Tenants \cup {None}, kind : {"db"}, target : Targets,
     statement_timeout_ms : {0, 4, 5, 6}]
    \cup
    [tenant : Tenants \cup {None}, kind : {"mongo"}, target : Targets,
     statement_timeout_ms : {0}]

MCTables == [Names -> MCBindings \cup {None}]

MCSelections ==
    {sel \in [Kinds -> Names \cup {None}] :
        \A k \in Kinds \ {"db", "mongo"} : sel[k] = None}

MCCeilings == {0, 5}
=============================================================================
