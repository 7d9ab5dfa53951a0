------------------------------- MODULE SaToken -------------------------------
(***************************************************************************)
(* The sa-token verifier (fabric-backends/src/sa_token.rs): a background   *)
(* task that refetches the issuer's key set into a cache, and sessions     *)
(* that judge a token against the cache while it is being replaced.        *)
(*                                                                         *)
(* A key set is a sequence of entries, as the issuer publishes it.  A      *)
(* token says which key id it claims, which key really signed it, and      *)
(* whether its audience, issuer and expiry hold when it is judged.         *)
(*                                                                         *)
(* The names every specification defines start with Sa here, so that       *)
(* AuthProofs can extend this module beside AuthOidc.                      *)
(***************************************************************************)
EXTENDS Naturals, Sequences

CONSTANTS Kids, Keys,      \* key ids and verification keys
          NoKid,           \* an entry or a token header without a kid
          Garbled,         \* the kid of a token whose header does not decode
          Unusable,        \* an entry DecodingKey::from_jwk rejects
          NotLoaded,       \* the cache before the first successful fetch
          KeySets,         \* key sets the issuer may publish
          Tokens,          \* tokens boxes may present
          Sessions,        \* sessions that authenticate concurrently
          DiscoverUrl,     \* jwks_url is unset: discovery comes first
          MaxRotations,    \* bound: changes of the published set
          MaxFailures      \* bound: fetches that fail

JwkEntry == [kid : Kids \cup {NoKid}, key : Keys \cup {Unusable}]

Token == [kid : Kids \cup {NoKid, Garbled}, key : Keys, claims : BOOLEAN]

VARIABLES
    published,   \* the key set the issuer serves now
    rotations,   \* how often it was changed
    failures,    \* how many fetches failed
    phase,       \* where refresh_loop is
    answer,      \* the key set it received and has not yet swapped in
    keys,        \* JwksVerifier.keys: NotLoaded, or the kid -> key map
    verifying,   \* the verify each session is in
    current,     \* the document the cache was last built from
    seen         \* the documents that were current during each verify

loop == <<phase, answer, failures>>

saVars == <<published, rotations, loop, keys, verifying, current, seen>>

-----------------------------------------------------------------------------
(* The key map and the judgement of a token. *)

UsableAt(doc, i) == doc[i].kid # NoKid /\ doc[i].key # Unusable

\* build_key_map: unusable entries are skipped, a later entry replaces an
\* earlier one with its kid.
build_key_map(doc) ==
    LET at(kid) == {i \in 1..Len(doc) : UsableAt(doc, i) /\ doc[i].kid = kid}
    IN  [kid \in {k \in Kids : at(k) # {}} |->
            doc[CHOOSE i \in at(kid) : \A j \in at(kid) : j <= i].key]

ASSUME SaTokenAssumption ==
    /\ NoKid \notin Kids /\ Garbled \notin Kids /\ NoKid # Garbled
    /\ Unusable \notin Keys
    /\ KeySets \subseteq Seq(JwkEntry)
    /\ \A doc \in KeySets : NotLoaded \notin {doc, build_key_map(doc)}
    /\ Tokens \subseteq Token
    /\ DiscoverUrl \in BOOLEAN
    /\ MaxRotations \in Nat
    /\ MaxFailures \in Nat

Results == {"Ok", "KeysNotLoaded", "MissingKid", "UnknownKid", "Invalid"}

\* jsonwebtoken::decode with the key of the cache: signature, then claims.
Decoded(token, key) == IF token.key = key /\ token.claims THEN "Ok" ELSE "Invalid"

Idle == [pc |-> "idle"]

Verifying ==
    {Idle}
    \cup [pc : {"lookup"}, token : Tokens]
    \cup [pc : {"decode"}, token : Tokens, key : Keys]
    \cup [pc : {"done"}, token : Tokens, result : Results]

SaInit ==
    /\ published \in KeySets
    /\ rotations = 0
    /\ failures = 0
    /\ phase = IF DiscoverUrl THEN "discover" ELSE "get"
    /\ answer = NotLoaded
    /\ keys = NotLoaded
    /\ verifying = [s \in Sessions |-> Idle]
    /\ current = NotLoaded
    /\ seen = [s \in Sessions |-> {}]

-----------------------------------------------------------------------------
(* The issuer, external. *)

\* The issuer rotates its keys.
RotateKeys(doc) ==
    /\ rotations < MaxRotations
    /\ doc # published
    /\ published' = doc
    /\ rotations' = rotations + 1
    /\ UNCHANGED <<loop, keys, verifying, current, seen>>

-----------------------------------------------------------------------------
(* refresh_loop: fetch, swap or keep, sleep, for the life of the process.  *)

\* discover_jwks_url found the jwks_uri.
Discovered ==
    /\ phase = "discover"
    /\ phase' = "get"
    /\ UNCHANGED <<answer, failures, published, rotations, keys, verifying,
                   current, seen>>

\* get_json returned the key set the issuer serves at that moment.
Fetched ==
    /\ phase = "get"
    /\ phase' = "swap"
    /\ answer' = published
    /\ UNCHANGED <<failures, published, rotations, keys, verifying, current, seen>>

FetchFails_EndsLoop ==
    /\ phase \in {"discover", "get"}
    /\ failures < MaxFailures
    /\ failures' = failures + 1
    /\ phase' = "ended"
    /\ UNCHANGED <<answer, published, rotations, keys, verifying, current, seen>>

\* A request failed, or its answer was not a success or not a key set: the
\* previous keys stay.
FetchFails ==
    /\ phase \in {"discover", "get"}
    /\ failures < MaxFailures
    /\ failures' = failures + 1
    /\ phase' = "sleep"
    /\ UNCHANGED <<answer, published, rotations, keys, verifying, current, seen>>

\* The client has no timeout: a request may never be answered.
FetchHangs ==
    /\ phase \in {"discover", "get"}
    /\ phase' = "hung"
    /\ UNCHANGED <<answer, failures, published, rotations, keys, verifying,
                   current, seen>>

\* A verify that has not decided yet.
Judging(s) == verifying[s].pc \in {"lookup", "decode"}

Swap_KeepsOld ==
    LET new == build_key_map(answer)
        old == IF keys = NotLoaded THEN <<>> ELSE keys
    IN
    /\ phase = "swap"
    /\ keys' = [k \in DOMAIN new \cup DOMAIN old |->
                    IF k \in DOMAIN new THEN new[k] ELSE old[k]]
    /\ current' = answer
    /\ seen' = [s \in Sessions |->
            IF Judging(s) THEN seen[s] \cup {answer} ELSE seen[s]]
    /\ answer' = NotLoaded
    /\ phase' = "sleep"
    /\ UNCHANGED <<failures, published, rotations, verifying>>

\* The whole map is replaced under the write lock.
Swap ==
    /\ phase = "swap"
    /\ keys' = build_key_map(answer)
    /\ current' = answer
    /\ seen' = [s \in Sessions |->
            IF Judging(s) THEN seen[s] \cup {answer} ELSE seen[s]]
    /\ answer' = NotLoaded
    /\ phase' = "sleep"
    /\ UNCHANGED <<failures, published, rotations, verifying>>

\* The interval has passed.
Wake ==
    /\ phase = "sleep"
    /\ phase' = IF DiscoverUrl THEN "discover" ELSE "get"
    /\ UNCHANGED <<answer, failures, published, rotations, keys, verifying,
                   current, seen>>

-----------------------------------------------------------------------------
(* JwksVerifier::verify, by any number of sessions. *)

\* The header is decoded before the cache is touched.
Present(s, token) ==
    /\ verifying[s].pc \in {"idle", "done"}
    /\ seen' = [seen EXCEPT ![s] = {current}]
    /\ verifying' = [verifying EXCEPT ![s] =
            CASE token.kid = Garbled ->
                    [pc |-> "done", token |-> token, result |-> "Invalid"]
              [] token.kid = NoKid ->
                    [pc |-> "done", token |-> token, result |-> "MissingKid"]
              [] token.kid \in Kids -> [pc |-> "lookup", token |-> token]]
    /\ UNCHANGED <<published, rotations, loop, keys, current>>

\* Under the read lock: the key is cloned out and the lock released.
Lookup(s) ==
    LET token == verifying[s].token
        refused(why) == [pc |-> "done", token |-> token, result |-> why]
    IN
    /\ verifying[s].pc = "lookup"
    /\ verifying' = [verifying EXCEPT ![s] =
            CASE keys = NotLoaded -> refused("KeysNotLoaded")
              [] keys # NotLoaded /\ token.kid \notin DOMAIN keys ->
                    refused("UnknownKid")
              [] keys # NotLoaded /\ token.kid \in DOMAIN keys ->
                    [pc |-> "decode", token |-> token, key |-> keys[token.kid]]]
    /\ UNCHANGED <<published, rotations, loop, keys, current, seen>>

\* The signature and the claims, without the lock.
Decode(s) ==
    LET v == verifying[s] IN
    /\ v.pc = "decode"
    /\ verifying' = [verifying EXCEPT ![s] =
            [pc |-> "done", token |-> v.token, result |-> Decoded(v.token, v.key)]]
    /\ UNCHANGED <<published, rotations, loop, keys, current, seen>>

Refresh == Discovered \/ Fetched \/ FetchFails \/ Swap \/ Wake

SaNext ==
    \/ \E doc \in KeySets : RotateKeys(doc)
    \/ Discovered
    \/ Fetched
    \/ FetchFails
    \/ FetchHangs
    \/ Swap
    \/ Wake
    \/ \E s \in Sessions, token \in Tokens : Present(s, token)
    \/ \E s \in Sessions : Lookup(s)
    \/ \E s \in Sessions : Decode(s)

SaSpec == SaInit /\ [][SaNext]_saVars

\* The loop's task is scheduled and its timer fires; a request that does not
\* hang is answered or fails.
SaFairSpec == SaSpec /\ WF_saVars(Refresh)

-----------------------------------------------------------------------------
KeyMaps == {build_key_map(doc) : doc \in KeySets}

\* The cache holds the map of a document or nothing, each verify is at one of
\* its steps.
SaTypeOK ==
    /\ published \in KeySets
    /\ rotations \in 0..MaxRotations
    /\ failures \in 0..MaxFailures
    /\ phase \in {"discover", "get", "swap", "sleep", "hung"}
    /\ answer \in KeySets \cup {NotLoaded}
    /\ (phase = "swap") <=> (answer # NotLoaded)
    /\ keys \in KeyMaps \cup {NotLoaded}
    /\ verifying \in [Sessions -> Verifying]
    /\ current \in KeySets \cup {NotLoaded}
    /\ seen \in [Sessions -> SUBSET (KeySets \cup {NotLoaded})]

\* A key a document carries for a kid, in one of its usable entries.
Carries(doc, kid, key) ==
    \E i \in 1..Len(doc) : doc[i].kid = kid /\ doc[i].key = key

\* What a verifier that held `doc`, and nothing else, would have to say.
JustifiedBy(doc, token, result) ==
    CASE result = "KeysNotLoaded" -> doc = NotLoaded
      [] result = "MissingKid" -> token.kid = NoKid
      [] result = "UnknownKid" ->
            /\ doc # NotLoaded
            /\ \A key \in Keys : ~ Carries(doc, token.kid, key)
      [] result = "Ok" ->
            /\ doc # NotLoaded
            /\ token.claims
            /\ Carries(doc, token.kid, token.key)
      [] result = "Invalid" ->
            \/ token.kid = Garbled
            \/ \E key \in Keys :
                /\ doc # NotLoaded
                /\ Carries(doc, token.kid, key)
                /\ key # token.key \/ ~ token.claims

\* Whatever refreshes happen while a token is judged, the verdict is the one of
\* a single fetched key set that was in force at some moment of that verify: a
\* withdrawn key is not accepted after the refresh that dropped it, a failed
\* refresh refuses nobody, and before the first fetch every token is refused
\* (JwksVerifier::verify clones the key and judges after the lock is released).
VerdictFromOneFetch ==
    \A s \in Sessions :
        verifying[s].pc = "done" =>
            \E doc \in seen[s] :
                JustifiedBy(doc, verifying[s].token, verifying[s].result)

\* A published key set that stays is the cached one from some time on, whatever
\* failed before: unless a request hangs, which the client's missing timeout
\* makes the end of all refreshes (refresh_loop).
RotationLearned ==
    \A doc \in KeySets :
        <>[](published = doc) =>
            \/ <>[](phase = "hung")
            \/ <>[](keys # NotLoaded /\ keys = build_key_map(doc))
=============================================================================
