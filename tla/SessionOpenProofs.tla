-------------------------- MODULE SessionOpenProofs --------------------------
(***************************************************************************)
(* The promises of the trust boundary hold for every operator table, every *)
(* Init and every ceiling.  First what pick, resolve and the clamp return, *)
(* which the proofs about whole sessions (SessionProofs) rest on too.      *)
(***************************************************************************)
EXTENDS SessionOpen, TLAPS

-----------------------------------------------------------------------------
(* Resolution. *)

\* KindOrder lists every kind once, so a failing kind has a position in it.
LEMMA KindOrderCovers ==
    /\ DOMAIN KindOrder = 1..6
    /\ \A i \in 1..6 : KindOrder[i] \in Kinds
    /\ \A k \in Kinds : \E i \in 1..6 : KindOrder[i] = k
<1>1. DOMAIN KindOrder = 1..6
  BY DEF KindOrder
<1>2. /\ KindOrder[1] = "db" /\ KindOrder[2] = "mongo" /\ KindOrder[3] = "mail"
      /\ KindOrder[4] = "redis" /\ KindOrder[5] = "amq"
      /\ KindOrder[6] = "auth"
  BY DEF KindOrder
<1>3. \A i \in 1..6 : i \in {1, 2, 3, 4, 5, 6}
  OBVIOUS
<1>4. \A i \in 1..6 : KindOrder[i] \in Kinds
  BY <1>2, <1>3 DEF Kinds
<1>5. ASSUME NEW k \in Kinds PROVE \E i \in 1..6 : KindOrder[i] = k
  BY <1>2 DEF Kinds
<1>6. QED
  BY <1>1, <1>4, <1>5

\* A nonempty set of positions has a first one.
LEMMA MinOfPositions ==
    ASSUME NEW S, S \subseteq 1..6, S # {}
    PROVE  Min(S) \in S
<1>1. \E x \in S : \A y \in S : x =< y
  <2>1. \A x \in S : x \in {1, 2, 3, 4, 5, 6}
    OBVIOUS
  <2>2. CASE 1 \in S
    BY <2>2
  <2>3. CASE 1 \notin S /\ 2 \in S
    BY <2>1, <2>3
  <2>4. CASE 1 \notin S /\ 2 \notin S /\ 3 \in S
    BY <2>1, <2>4
  <2>5. CASE 1 \notin S /\ 2 \notin S /\ 3 \notin S /\ 4 \in S
    BY <2>1, <2>5
  <2>6. CASE 1 \notin S /\ 2 \notin S /\ 3 \notin S /\ 4 \notin S /\ 5 \in S
    BY <2>1, <2>6
  <2>7. CASE /\ 1 \notin S /\ 2 \notin S /\ 3 \notin S /\ 4 \notin S
             /\ 5 \notin S
    <3>1. S = {6}
      BY <2>1, <2>7
    <3>2. QED
      BY <3>1
  <2>8. QED
    BY <2>2, <2>3, <2>4, <2>5, <2>6, <2>7
<1>2. QED
  BY <1>1 DEF Min

\* pick hands out the binding of the selected name or nothing, and a binding
\* only to its own tenant and for its own kind.
LEMMA PickResult ==
    ASSUME NEW tbl \in Tables, NEW ten \in Tenants \cup {None},
           NEW name \in Names \cup {None}, NEW kind \in Kinds
    PROVE  LET p == pick(tbl, ten, name, kind)
           IN  /\ p.code \in {"OK"} \cup ResolveCodes
               /\ p.config \in TenantResourceBinding \cup {None}
               /\ p.config # None =>
                      /\ p.code = "OK"
                      /\ name # None
                      /\ tbl[name] # None
                      /\ p.config = tbl[name]
                      /\ tbl[name].tenant = ten
                      /\ tbl[name].kind = kind
               /\ p.code = "OK" /\ name # None => p.config # None
BY DEF pick, Picked, PickFailed, ResolveCodes, Tables

\* pick reads no more of the table than its tenant may know of.
LEMMA PickVisible ==
    ASSUME NEW tbl \in Tables, NEW ten \in Tenants \cup {None},
           NEW name \in Names \cup {None}, NEW kind \in Kinds
    PROVE  pick(VisibleTo(tbl, ten), ten, name, kind)
               = pick(tbl, ten, name, kind)
BY DEF pick, VisibleTo

\* resolve is total, all or nothing, and hands out only what the session's
\* tenant was provisioned under the names it selected.
LEMMA ResolveResult ==
    ASSUME NEW tbl \in Tables, NEW ten \in Tenants \cup {None},
           NEW sel \in Selections
    PROVE  LET r == resolve(tbl, ten, sel)
           IN  /\ r.code \in {"OK"} \cup ResolveCodes
               /\ r.configs \in ResolvedConfigs
               /\ \A k \in Kinds : r.configs[k] # None =>
                      /\ r.code = "OK"
                      /\ sel[k] # None
                      /\ tbl[sel[k]] # None
                      /\ r.configs[k] = tbl[sel[k]]
                      /\ tbl[sel[k]].tenant = ten
                      /\ tbl[sel[k]].kind = k
               /\ \A k \in Kinds :
                      r.code = "OK" /\ sel[k] # None => r.configs[k] # None
<1> DEFINE failed == Unresolved(tbl, ten, sel)
           P(k) == pick(tbl, ten, sel[k], k)
<1>1. \A k \in Kinds : sel[k] \in Names \cup {None}
  BY DEF Selections
<1>2. failed \subseteq 1..6
  BY KindOrderCovers DEF Unresolved
<1>3. CASE failed = {}
  <2>1. resolve(tbl, ten, sel)
          = [code |-> "OK", configs |-> [k \in Kinds |-> P(k).config]]
    BY <1>3 DEF resolve
  <2>2. \A k \in Kinds : P(k).code = "OK"
    BY <1>3, KindOrderCovers DEF Unresolved
  <2>3. \A k \in Kinds :
          /\ P(k).config \in TenantResourceBinding \cup {None}
          /\ P(k).config # None =>
                 /\ sel[k] # None
                 /\ tbl[sel[k]] # None
                 /\ P(k).config = tbl[sel[k]]
                 /\ tbl[sel[k]].tenant = ten
                 /\ tbl[sel[k]].kind = k
          /\ P(k).code = "OK" /\ sel[k] # None => P(k).config # None
    BY <1>1, PickResult
  <2> HIDE DEF P
  <2>4. QED
    BY <2>1, <2>2, <2>3 DEF ResolvedConfigs
<1>4. CASE failed # {}
  <2> DEFINE first == KindOrder[Min(failed)]
  <2>1. resolve(tbl, ten, sel)
          = [code |-> P(first).code, configs |-> [k \in Kinds |-> None]]
    BY <1>4 DEF resolve
  <2>2. Min(failed) \in failed /\ Min(failed) \in 1..6
    BY <1>2, <1>4, MinOfPositions
  <2>3. first \in Kinds /\ P(first).code # "OK"
    BY <2>2, KindOrderCovers DEF Unresolved
  <2>4. P(first).code \in ResolveCodes
    BY <1>1, <2>3, PickResult
  <2>5. "OK" \notin ResolveCodes
    BY DEF ResolveCodes
  <2> HIDE DEF P, first
  <2>6. QED
    BY <2>1, <2>4, <2>5 DEF ResolvedConfigs
<1>5. QED
  BY <1>3, <1>4

\* Resolution does not depend on other tenants' bindings.
LEMMA ResolveVisible ==
    ASSUME NEW tbl \in Tables, NEW ten \in Tenants \cup {None},
           NEW sel \in Selections
    PROVE  resolve(VisibleTo(tbl, ten), ten, sel)
               = resolve(tbl, ten, sel)
<1> DEFINE seen == VisibleTo(tbl, ten)
<1>1. \A k \in Kinds : sel[k] \in Names \cup {None}
  BY DEF Selections
<1>2. \A k \in Kinds :
        pick(seen, ten, sel[k], k) = pick(tbl, ten, sel[k], k)
  BY <1>1, PickVisible
<1> HIDE DEF seen
<1>3. Unresolved(seen, ten, sel) = Unresolved(tbl, ten, sel)
  BY <1>2, KindOrderCovers DEF Unresolved
<1>4. [k \in Kinds |-> pick(seen, ten, sel[k], k).config]
        = [k \in Kinds |-> pick(tbl, ten, sel[k], k).config]
  BY <1>2
<1>5. CASE Unresolved(tbl, ten, sel) = {}
  BY <1>3, <1>4, <1>5 DEF resolve, seen
<1>6. CASE Unresolved(tbl, ten, sel) # {}
  <2> DEFINE first == KindOrder[Min(Unresolved(tbl, ten, sel))]
  <2>1. Unresolved(tbl, ten, sel) \subseteq 1..6
    BY KindOrderCovers DEF Unresolved
  <2>2. first \in Kinds
    BY <1>6, <2>1, MinOfPositions, KindOrderCovers
  <2>3. pick(seen, ten, sel[first], first).code
          = pick(tbl, ten, sel[first], first).code
    BY <1>2, <2>2
  <2>4. QED
    BY <1>3, <1>4, <1>6, <2>3 DEF resolve, seen
<1>7. QED
  BY <1>5, <1>6

\* The clamp touches nothing but the db statement timeout, and bounds it.
LEMMA ClampResult ==
    ASSUME NEW configs \in ResolvedConfigs, NEW ceil \in Nat
    PROVE  LET c == clamp_db_statement_timeout(configs, ceil)
           IN  /\ c \in ResolvedConfigs
               /\ \A k \in Kinds :
                      /\ (c[k] = None) <=> (configs[k] = None)
                      /\ configs[k] # None =>
                            /\ c[k].tenant = configs[k].tenant
                            /\ c[k].kind = configs[k].kind
                            /\ c[k].target = configs[k].target
               /\ ceil # 0 /\ configs["db"] # None =>
                      c["db"].statement_timeout_ms
                          = ClampedTimeout(configs["db"].statement_timeout_ms,
                                           ceil)
<1>1. CASE ceil = 0 \/ configs["db"] = None
  BY <1>1 DEF clamp_db_statement_timeout
<1>2. CASE ~(ceil = 0 \/ configs["db"] = None)
  <2> DEFINE old == configs["db"]
             ms == ClampedTimeout(old.statement_timeout_ms, ceil)
             new == [old EXCEPT !.statement_timeout_ms = ms]
  <2>1. "db" \in Kinds
    BY DEF Kinds
  <2>2. old \in TenantResourceBinding
    BY <1>2, <2>1 DEF ResolvedConfigs
  <2>3. ms \in Nat
    BY <2>2 DEF ClampedTimeout, TenantResourceBinding
  <2>4. /\ new \in TenantResourceBinding
        /\ new.tenant = old.tenant /\ new.kind = old.kind
        /\ new.target = old.target /\ new.statement_timeout_ms = ms
    BY <2>2, <2>3 DEF TenantResourceBinding
  <2>5. new # None
    BY <2>4, NoneAssumption DEF TenantResourceBinding, Kinds
  <2>6. clamp_db_statement_timeout(configs, ceil)
          = [configs EXCEPT !["db"] = new]
    BY <1>2 DEF clamp_db_statement_timeout
  <2> HIDE DEF new, ms
  <2>7. QED
    BY <1>2, <2>1, <2>4, <2>5, <2>6 DEF ResolvedConfigs, ms
<1>3. QED
  BY <1>1, <1>2

-----------------------------------------------------------------------------
(* The opening of a session. *)

\* No record is None: an opened session is told apart from one that is not.
LEMMA OutcomeType ==
    ASSUME NEW tbl \in Tables, NEW ten \in Tenants \cup {None},
           NEW sel \in Selections, NEW ceil \in Nat
    PROVE  Outcome(tbl, ten, sel, ceil)
               \in [code : {"OK"} \cup ResolveCodes, configs : ResolvedConfigs]
BY ResolveResult, ClampResult DEF Outcome

\* The state invariant the three promises rest on: what was opened is the
\* outcome of the session's own inputs.
OpenedIsOutcome == opened # None => opened = Outcome(table, tenant, names, ceiling)

\* The inputs are well typed and the outcome is that of the inputs, in every
\* reachable state.
THEOREM OpenInvariant == OpenSpec => [](OpenTypeOK /\ OpenedIsOutcome)
<1>1. OpenInit => OpenTypeOK /\ OpenedIsOutcome
  BY SessionOpenAssumption DEF OpenInit, OpenTypeOK, OpenedIsOutcome
<1>2. OpenTypeOK /\ OpenedIsOutcome /\ [OpenNext]_openVars
        => (OpenTypeOK /\ OpenedIsOutcome)'
  <2> SUFFICES ASSUME OpenTypeOK, OpenedIsOutcome, [OpenNext]_openVars
               PROVE  OpenTypeOK' /\ OpenedIsOutcome'
    OBVIOUS
  <2>1. CASE Open
    BY <2>1, OutcomeType DEF Open, OpenTypeOK, OpenedIsOutcome
  <2>2. CASE UNCHANGED openVars
    BY <2>2 DEF openVars, OpenTypeOK, OpenedIsOutcome
  <2>3. QED
    BY <2>1, <2>2 DEF OpenNext, Opened
<1>3. QED
  BY <1>1, <1>2, PTL DEF OpenSpec

\* No session is handed an endpoint of another tenant, of another kind, or one
\* it did not name.
THEOREM AuthorisedEndpoints == OpenSpec => []OnlyAuthorisedEndpoints
<1>1. OpenTypeOK /\ OpenedIsOutcome => OnlyAuthorisedEndpoints
  <2> SUFFICES ASSUME OpenTypeOK, OpenedIsOutcome, opened # None, NEW k \in Kinds
               PROVE  /\ opened.configs[k] # None =>
                            /\ opened.code = "OK"
                            /\ names[k] # None
                            /\ table[names[k]] # None
                            /\ Endpoint(opened.configs[k])
                                   = Endpoint(table[names[k]])
                            /\ opened.configs[k].tenant = tenant
                            /\ opened.configs[k].kind = k
                      /\ opened.code = "OK" /\ names[k] # None
                            => opened.configs[k] # None
    BY DEF OnlyAuthorisedEndpoints
  <2> DEFINE r == resolve(table, tenant, names)
             c == clamp_db_statement_timeout(r.configs, ceiling)
  <2>1. opened = [code |-> r.code, configs |-> c]
    BY DEF OpenedIsOutcome, Outcome
  <2>2. /\ r.configs \in ResolvedConfigs
        /\ r.configs[k] # None =>
              /\ r.code = "OK" /\ names[k] # None /\ table[names[k]] # None
              /\ r.configs[k] = table[names[k]]
              /\ table[names[k]].tenant = tenant /\ table[names[k]].kind = k
        /\ r.code = "OK" /\ names[k] # None => r.configs[k] # None
    BY ResolveResult DEF OpenTypeOK
  <2>3. /\ (c[k] = None) <=> (r.configs[k] = None)
        /\ r.configs[k] # None =>
              /\ c[k].tenant = r.configs[k].tenant
              /\ c[k].kind = r.configs[k].kind
              /\ c[k].target = r.configs[k].target
    BY <2>2, ClampResult DEF OpenTypeOK
  <2> HIDE DEF r, c
  <2>4. QED
    BY <2>1, <2>2, <2>3 DEF Endpoint
<1>2. QED
  BY <1>1, OpenInvariant, PTL

\* What other tenants have provisioned never shows in the answer to an Init.
THEOREM NoLeak == OpenSpec => []ExistenceNeverLeaks
<1>1. OpenTypeOK /\ OpenedIsOutcome => ExistenceNeverLeaks
  BY ResolveVisible DEF OpenTypeOK, OpenedIsOutcome, ExistenceNeverLeaks, Outcome
<1>2. QED
  BY <1>1, OpenInvariant, PTL

\* With a ceiling configured, no db session runs above it or without a limit.
THEOREM TimeoutCapped == OpenSpec => []StatementTimeoutCapped
<1>1. OpenTypeOK /\ OpenedIsOutcome => StatementTimeoutCapped
  <2> SUFFICES ASSUME OpenTypeOK, OpenedIsOutcome, opened # None, ceiling # 0,
                      opened.configs["db"] # None
               PROVE  LET granted   == opened.configs["db"].statement_timeout_ms
                          requested == table[names["db"]].statement_timeout_ms
                      IN  /\ granted \in 1..ceiling
                          /\ requested \in 1..ceiling => granted = requested
    BY DEF StatementTimeoutCapped
  <2> DEFINE r == resolve(table, tenant, names)
             c == clamp_db_statement_timeout(r.configs, ceiling)
             requested == table[names["db"]].statement_timeout_ms
  <2>1. opened.configs = c
    BY DEF OpenedIsOutcome, Outcome
  <2>2. "db" \in Kinds
    BY DEF Kinds
  <2>3. /\ r.configs \in ResolvedConfigs
        /\ r.configs["db"] # None => r.configs["db"] = table[names["db"]]
    BY <2>2, ResolveResult DEF OpenTypeOK
  <2>4. /\ r.configs["db"] # None
        /\ c["db"].statement_timeout_ms
               = ClampedTimeout(r.configs["db"].statement_timeout_ms, ceiling)
    BY <2>1, <2>2, <2>3, ClampResult DEF OpenTypeOK
  <2>5. c["db"].statement_timeout_ms = ClampedTimeout(requested, ceiling)
    BY <2>3, <2>4
  <2>6. requested \in Nat
    BY <2>2, <2>3, <2>4 DEF ResolvedConfigs, TenantResourceBinding
  <2>7. /\ ClampedTimeout(requested, ceiling) \in 1..ceiling
        /\ requested \in 1..ceiling
              => ClampedTimeout(requested, ceiling) = requested
    BY <2>6 DEF ClampedTimeout, OpenTypeOK
  <2> HIDE DEF c, requested
  <2>8. QED
    BY <2>1, <2>5, <2>7 DEF requested
<1>2. QED
  BY <1>1, OpenInvariant, PTL
=============================================================================
