------------------------------ MODULE MCSaToken ------------------------------
(***************************************************************************)
(* An issuer with two key ids and two keys: it starts with k1, adds k2 and *)
(* withdraws k1; one document lists unusable entries and reuses a kid, and *)
(* one is empty.                                                           *)
(***************************************************************************)
EXTENDS SaToken

CONSTANTS k1, k2, K1, K2

Entry(kid, key) == [kid |-> kid, key |-> key]

MCKeySets ==
    {<<Entry(k1, K1)>>,
     <<Entry(k2, K2)>>,
     <<Entry(NoKid, K1), Entry(k1, K1), Entry(k1, K2), Entry(k2, Unusable)>>,
     <<>>}

MCTokens ==
    {[kid |-> k1, key |-> K1, claims |-> TRUE],
     [kid |-> k2, key |-> K2, claims |-> TRUE],
     [kid |-> k1, key |-> K2, claims |-> TRUE],
     [kid |-> k1, key |-> K1, claims |-> FALSE],
     [kid |-> Garbled, key |-> K1, claims |-> TRUE],
     [kid |-> NoKid, key |-> K1, claims |-> TRUE]}
=============================================================================
