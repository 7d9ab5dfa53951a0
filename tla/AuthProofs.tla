------------------------------ MODULE AuthProofs ------------------------------
(***************************************************************************)
(* The two components that decide on a token: the auth backend, which asks *)
(* an identity provider (module AuthOidc), and the sa-token verifier,      *)
(* which judges against cached keys (module SaToken).  Each part has its   *)
(* inductive invariant (OidcInv, SaInv) and its theorems, which are about  *)
(* the specification of one of the modules alone.                          *)
(***************************************************************************)
EXTENDS AuthOidc, SaToken, FiniteSetTheorems, TLAPS

-----------------------------------------------------------------------------
(* The auth backend. *)

\* What is remembered was served whole, and every endpoint asked so far is one
\* of it; nothing discovered was asked while nothing is remembered, and a call
\* discovers only then (discover returns the memo when there is one).
OidcMemoOK ==
    /\ discovery # None => discovery \in served /\ asked \subseteq {discovery.version}
    /\ discovery = None => asked = {}
    /\ op # None /\ op.at \in {"discover_head", "discover_body"} => discovery = None

\* The invariant that is inductive: a verdict needs the wait it came from, the
\* one document needs the memo.
OidcInv == TypeOK /\ OidcMemoOK /\ VerdictFromEndpoint

\* The stages of a call and what it knows in each of them.
LEMMA OidcStages ==
    ASSUME op \in Operations
    PROVE  /\ op # None
           /\ op.action \in Actions
           /\ op.at \in Stages
           /\ op.status \in Statuses \cup {None}
           /\ op.at \in {"discover_body", "ask_body"} => op.status \in Statuses
           /\ op.at = "discover_body" => op.doc \in Documents
           /\ op = [action |-> op.action, at |-> op.at, status |-> op.status,
                    doc |-> op.doc]
           /\ op.at # "discover_body" => op.doc = None
  BY AuthOidcAssumption DEF Operations, Stages

\* Every answer of a call leaves told well typed and the call over.
LEMMA OidcAnswerTyped ==
    ASSUME op \in Operations,
           NEW code \in Codes, Answer(code)
    PROVE  /\ op' = None
           /\ told' \in [code : Codes \cup {"none"},
                         action : Actions \cup {None},
                         at : Stages \cup {None},
                         status : Statuses \cup {None}]
           /\ told'.code = code /\ told'.action = op.action
           /\ told'.at = op.at /\ told'.status = op.status
  BY OidcStages DEF Answer

\* Nothing is remembered, nothing was asked.
LEMMA OidcInit == ASSUME Init PROVE OidcInv
  <1>1. TypeOK
    BY AuthOidcAssumption DEF Init, TypeOK, Documents
  <1>2. OidcMemoOK /\ VerdictFromEndpoint
    BY DEF Init, OidcMemoOK, VerdictFromEndpoint
  <1> QED BY <1>1, <1>2 DEF OidcInv

\* Every step of a call keeps the invariant.
LEMMA OidcStep ==
    ASSUME OidcInv, Next
    PROVE  OidcInv'
  <1> USE DEF OidcInv
  <1>ty. TypeOK
    OBVIOUS
  <1>n. MaxDocs \in Nat /\ MaxCalls \in Nat /\ calls \in Nat
    BY <1>ty, AuthOidcAssumption DEF TypeOK
  <1>d. ASSUME op # None PROVE op \in Operations
    BY <1>d, <1>ty DEF TypeOK
  <1>1. CASE Connect
    BY <1>1 DEF Connect, TypeOK, OidcMemoOK, VerdictFromEndpoint
  <1>2. ASSUME NEW action \in Actions \cup {None}, Refused(action)
        PROVE  OidcInv'
    <2>1. told' = [code |-> "AUTH_REQUEST", action |-> action, at |-> None, status |-> None]
      BY <1>2 DEF Refused
    <2>2. TypeOK'
      BY <1>2, <1>n, <2>1 DEF Refused, NewCall, TypeOK, Codes
    <2>3. OidcMemoOK' /\ VerdictFromEndpoint'
      BY <1>2, <2>1 DEF Refused, OidcMemoOK, VerdictFromEndpoint
    <2> QED BY <2>2, <2>3
  <1>3. ASSUME NEW action \in Actions, Ask(action)
        PROVE  OidcInv'
    <2>1. op' = [action |-> action, at |-> "ask_head", status |-> None, doc |-> None]
      BY <1>3 DEF Ask
    <2>2. op' \in Operations
      BY <2>1 DEF Operations
    <2>3. /\ asked' \subseteq asked \cup {discovery.version}
          /\ discovery = None => asked' = asked
      BY <1>3 DEF Ask, Memo
    <2>4. asked' \subseteq 1..MaxDocs
      BY <2>3 DEF TypeOK, Documents
    <2>5. TypeOK'
      BY <1>3, <1>n, <2>2, <2>4 DEF Ask, NewCall, TypeOK
    <2>6. OidcMemoOK' /\ VerdictFromEndpoint'
      BY <1>3, <2>1, <2>3 DEF Ask, OidcMemoOK, VerdictFromEndpoint
    <2> QED BY <2>5, <2>6
  <1>4. ASSUME NEW action \in Actions, Discover(action)
        PROVE  OidcInv'
    <2>1. op' = [action |-> action, at |-> "discover_head", status |-> None, doc |-> None]
      BY <1>4 DEF Discover
    <2>2. op' \in Operations
      BY <2>1 DEF Operations
    <2>3. TypeOK'
      BY <1>4, <1>n, <2>2 DEF Discover, NewCall, TypeOK
    <2>4. OidcMemoOK' /\ VerdictFromEndpoint'
      BY <1>4, <2>1 DEF Discover, Memo, OidcMemoOK, VerdictFromEndpoint
    <2> QED BY <2>3, <2>4
  <1>5. ASSUME NEW status \in Statuses, DiscoveryHead(status)
        PROVE  OidcInv'
    <2>1. op \in Operations /\ op.at = "discover_head"
      BY <1>5, <1>d DEF DiscoveryHead, Waits
    <2>2. op' = [action |-> op.action, at |-> "discover_body", status |-> status,
                 doc |-> issuer]
      BY <1>5, <2>1, OidcStages DEF DiscoveryHead
    <2>3. op' \in Operations
      BY <2>1, <2>2, OidcStages DEF Operations, TypeOK
    <2>4. TypeOK'
      BY <1>5, <2>3 DEF DiscoveryHead, TypeOK
    <2>5. OidcMemoOK' /\ VerdictFromEndpoint'
      BY <1>5, <2>1, <2>2, OidcStages DEF DiscoveryHead, OidcMemoOK, VerdictFromEndpoint
    <2> QED BY <2>4, <2>5
  <1>6. ASSUME NEW status \in Statuses, AskHead(status)
        PROVE  OidcInv'
    <2>1. op \in Operations /\ op.at = "ask_head"
      BY <1>6, <1>d DEF AskHead, Waits
    <2>2. op' = [action |-> op.action, at |-> "ask_body", status |-> status, doc |-> None]
      BY <1>6, <2>1, OidcStages DEF AskHead
    <2>3. op' \in Operations
      BY <2>1, <2>2, OidcStages DEF Operations
    <2>4. TypeOK'
      BY <1>6, <2>3 DEF AskHead, TypeOK
    <2>5. OidcMemoOK' /\ VerdictFromEndpoint'
      BY <1>6, <2>2 DEF AskHead, OidcMemoOK, VerdictFromEndpoint
    <2> QED BY <2>4, <2>5
  <1>7. ASSUME op # None, NEW code \in Codes \ {"CLAIMS", "INVALID"},
               Answer(code),
               UNCHANGED <<config, client, discovery, issuer, calls, served, asked>>
        PROVE  OidcInv'
    <2>1. op \in Operations
      BY <1>7, <1>d
    <2>2. TypeOK'
      BY <1>7, <2>1, OidcAnswerTyped DEF TypeOK
    <2>3. OidcMemoOK' /\ VerdictFromEndpoint'
      BY <1>7, <2>1, OidcAnswerTyped DEF OidcMemoOK, VerdictFromEndpoint
    <2> QED BY <2>2, <2>3
  <1>8. CASE DiscoveryRefused
    BY <1>7, <1>8 DEF DiscoveryRefused, Waits, Codes
  <1>9. CASE DiscoveryGarbage
    BY <1>7, <1>9 DEF DiscoveryGarbage, Waits, Codes
  <1>10. CASE TransportFails
    BY <1>7, <1>10 DEF TransportFails, Codes
  <1>11. CASE DiscoveryDone
    <2>1. op \in Operations /\ op # None /\ op.at = "discover_body" /\ discovery = None
      BY <1>11, <1>d DEF DiscoveryDone, Waits, OidcMemoOK
    <2>2. op.doc \in Documents /\ op.doc # None /\ asked = {}
      BY <2>1, OidcStages, AuthOidcAssumption DEF OidcMemoOK
    <2>3. op.doc.version \in 1..MaxDocs
      BY <2>2 DEF Documents
    <2>4. /\ discovery' = op.doc /\ served' = served \cup {op.doc}
          /\ UNCHANGED <<config, client, issuer, calls>>
      BY <1>11 DEF DiscoveryDone
    <2>5. CASE op.action \in op.doc.names
      <3>1. /\ op' = [op EXCEPT !.at = "ask_head", !.status = None, !.doc = None]
            /\ asked' = asked \cup {op.doc.version}
            /\ UNCHANGED told
        BY <1>11, <2>5 DEF DiscoveryDone
      <3>2. op' = [action |-> op.action, at |-> "ask_head", status |-> None, doc |-> None]
        BY <3>1, <2>1, OidcStages
      <3>3. op' \in Operations
        BY <3>2, <2>1, OidcStages DEF Operations
      <3>4. TypeOK'
        BY <3>1, <3>3, <2>2, <2>3, <2>4 DEF TypeOK
      <3>5. OidcMemoOK' /\ VerdictFromEndpoint'
        BY <3>1, <3>2, <2>2, <2>4 DEF OidcMemoOK, VerdictFromEndpoint
      <3> QED BY <3>4, <3>5
    <2>6. CASE op.action \notin op.doc.names
      <3>1. Answer("AUTH_REQUEST") /\ UNCHANGED asked
        BY <1>11, <2>6 DEF DiscoveryDone
      <3>2. TypeOK'
        BY <3>1, <2>1, <2>2, <2>4, OidcAnswerTyped DEF TypeOK, Codes
      <3>3. OidcMemoOK' /\ VerdictFromEndpoint'
        BY <3>1, <2>1, <2>2, <2>4, OidcAnswerTyped
        DEF OidcMemoOK, VerdictFromEndpoint, Codes
      <3> QED BY <3>2, <3>3
    <2> QED BY <2>5, <2>6
  <1>12. ASSUME NEW json \in BOOLEAN, Body(json)
         PROVE  OidcInv'
    <2> DEFINE code == verdict(op.action, op.status, json)
    <2>1. op \in Operations /\ op.at = "ask_body" /\ op.status \in Statuses
      BY <1>12, <1>d, OidcStages DEF Body, Waits
    <2>2. /\ code \in Codes
          /\ code = "CLAIMS" => op.status = "2xx"
          /\ code = "INVALID" => op.action = "user_info" /\ op.status \in {"401", "403"}
      BY <2>1 DEF verdict, Statuses, Codes
    <2>3. /\ Answer(code)
          /\ UNCHANGED <<config, client, discovery, issuer, calls, served, asked>>
      BY <1>12 DEF Body
    <2> HIDE DEF code
    <2>4. TypeOK'
      BY <2>1, <2>2, <2>3, OidcAnswerTyped DEF TypeOK
    <2>5. OidcMemoOK'
      BY <2>1, <2>2, <2>3, OidcAnswerTyped DEF OidcMemoOK
    <2>6. VerdictFromEndpoint'
      BY <2>1, <2>2, <2>3, OidcAnswerTyped DEF VerdictFromEndpoint
    <2> QED BY <2>4, <2>5, <2>6
  <1>13. ASSUME NEW names \in SUBSET Actions, Rotate(names)
         PROVE  OidcInv'
    <2>1. issuer.version \in 1..MaxDocs /\ issuer.version < MaxDocs
      BY <1>13 DEF Rotate, TypeOK, Documents
    <2>2. issuer.version + 1 \in 1..MaxDocs
      BY <2>1, <1>n
    <2>3. issuer' \in Documents
      BY <1>13, <2>2 DEF Rotate, Documents
    <2>4. TypeOK'
      BY <1>13, <2>3 DEF Rotate, TypeOK
    <2>5. OidcMemoOK' /\ VerdictFromEndpoint'
      BY <1>13 DEF Rotate, OidcMemoOK, VerdictFromEndpoint
    <2> QED BY <2>4, <2>5
  <1>14. CASE Over
    BY <1>14 DEF Over, vars, TypeOK, OidcMemoOK, VerdictFromEndpoint
  <1> QED
    BY <1>1, <1>2, <1>3, <1>4, <1>5, <1>6, <1>8, <1>9, <1>10, <1>11, <1>12,
       <1>13, <1>14 DEF Next

\* Nothing happens to the invariant while nothing happens.
LEMMA OidcStutter == ASSUME OidcInv, UNCHANGED vars PROVE OidcInv'
  BY DEF OidcInv, vars, TypeOK, OidcMemoOK, VerdictFromEndpoint

\* The memo makes all asked versions one.
LEMMA OidcOne == ASSUME OidcInv PROVE OneDocument
  <1>1. CASE discovery = None
    <2>1. asked = {}
      BY <1>1 DEF OidcInv, OidcMemoOK
    <2>2. Cardinality(asked) = 0
      BY <2>1, FS_EmptySet
    <2> QED BY <1>1, <2>2 DEF OneDocument
  <1>2. CASE discovery # None
    <2>1. asked \subseteq {discovery.version} /\ discovery \in served
      BY <1>2 DEF OidcInv, OidcMemoOK
    <2>2. IsFiniteSet({discovery.version}) /\ Cardinality({discovery.version}) = 1
      BY FS_Singleton
    <2>3. Cardinality(asked) <= 1
      BY <2>1, <2>2, FS_Subset
    <2> QED BY <2>1, <2>3 DEF OneDocument
  <1> QED BY <1>1, <1>2

\* The auth backend keeps its inductive invariant.
THEOREM OidcInvariance == Spec => []OidcInv
  <1>1. Init => OidcInv
    BY OidcInit
  <1>2. OidcInv /\ [Next]_vars => OidcInv'
    BY OidcStep, OidcStutter
  <1> QED BY <1>1, <1>2, PTL DEF Spec

\* A verdict on the token comes from the endpoint that was asked about it: no
\* refused discovery or introspect tells the box that its caller's token is bad
\* (do_user_info, do_introspect, fetch_discovery).
THEOREM TokenJudged ==
    Spec => []VerdictFromEndpoint
  <1>1. OidcInv => VerdictFromEndpoint
    BY DEF OidcInv
  <1> QED BY <1>1, OidcInvariance, PTL

\* All the endpoints a session asks are those of one discovery document, although
\* the provider may serve another one between two calls (discover).
THEOREM EndpointsOfOneDocument ==
    Spec => []OneDocument
  <1>1. OidcInv => OneDocument
    BY OidcOne
  <1> QED BY <1>1, OidcInvariance, PTL

-----------------------------------------------------------------------------
(* The sa-token verifier. *)

\* The cache is what the last fetched document makes of it.
SaCacheOK ==
    \/ keys = NotLoaded /\ current = NotLoaded
    \/ current \in KeySets /\ keys = build_key_map(current)

\* The document of the cache is among those a verify has met.
SaSeenOK == \A s \in Sessions : Judging(s) => current \in seen[s]

\* A verify looks up a key id.
SaLookupOK ==
    \A s \in Sessions :
        verifying[s].pc = "lookup" => verifying[s].token.kid \in Kids

\* The key a verify has cloned out of the cache is one that some document it has
\* met carries for the token's kid, however often the cache was replaced since.
SaDecodeOK ==
    \A s \in Sessions :
        verifying[s].pc = "decode" =>
            \E doc \in seen[s] :
                /\ doc # NotLoaded
                /\ Carries(doc, verifying[s].token.kid, verifying[s].key)

\* The invariant that is inductive: a verdict needs the key it was decoded with, and
\* that one needs the cache to be some document's map.
SaInv ==
    /\ SaTypeOK
    /\ SaCacheOK
    /\ SaSeenOK
    /\ SaLookupOK
    /\ SaDecodeOK
    /\ VerdictFromOneFetch

\* A set of positions has a last one.
LEMMA LastExists ==
    ASSUME NEW n \in Nat, NEW S \in SUBSET (1..n), S # {}
    PROVE  \E i \in S : \A j \in S : j <= i
  <1> DEFINE T == {m \in Nat : \E i \in S : m = n - i}
  <1>0. PICK e \in S : TRUE
    OBVIOUS
  <1>1. n - e \in T
    OBVIOUS
  <1>2. PICK m \in T : \A k \in T : m <= k
    <2> DEFINE R == OpToRel(<, Nat)
    <2>1. IsWellFoundedOn(R, Nat)
      BY NatLessThanWellFounded
    <2>2. \A a, b \in Nat : a < b => <<a, b>> \in R
      BY DEF OpToRel
    <2> HIDE DEF R
    <2>3. PICK m \in T : \A k \in T : ~ (<<k, m>> \in R)
      BY <1>1, <2>1, WFMin
    <2>4. ASSUME NEW k \in T PROVE m <= k
      <3>1. m \in Nat /\ k \in Nat /\ ~ (k < m)
        BY <2>2, <2>3
      <3> QED BY <3>1
    <2> QED BY <2>3, <2>4
  <1>3. PICK i \in S : m = n - i
    BY <1>2
  <1>4. ASSUME NEW j \in S PROVE j <= i
    <2>1. n - i <= n - j
      BY <1>2, <1>3
    <2> QED BY <2>1
  <1> QED BY <1>3, <1>4

\* build_key_map: every key of the map is one the document carries for its kid,
\* and a kid that is not in the map has no usable key in the document.
LEMMA KeyMapCarries ==
    ASSUME NEW doc \in KeySets
    PROVE  /\ DOMAIN build_key_map(doc) \subseteq Kids
           /\ \A kid \in DOMAIN build_key_map(doc) :
                 /\ build_key_map(doc)[kid] \in Keys
                 /\ Carries(doc, kid, build_key_map(doc)[kid])
           /\ \A kid \in Kids \ DOMAIN build_key_map(doc), key \in Keys :
                 ~ Carries(doc, kid, key)
  <1> DEFINE at(kid) == {i \in 1..Len(doc) : UsableAt(doc, i) /\ doc[i].kid = kid}
             last(kid) == CHOOSE i \in at(kid) : \A j \in at(kid) : j <= i
  <1>1. doc \in Seq(JwkEntry)
    BY SaTokenAssumption
  <1>2. build_key_map(doc) = [kid \in {k \in Kids : at(k) # {}} |-> doc[last(kid)].key]
    BY DEF build_key_map
  <1>3. ASSUME NEW kid \in Kids, at(kid) # {} PROVE last(kid) \in at(kid)
    <2>1. Len(doc) \in Nat
      BY <1>1
    <2>2. at(kid) \in SUBSET (1..Len(doc))
      OBVIOUS
    <2>3. \E i \in at(kid) : \A j \in at(kid) : j <= i
      BY <1>3, <2>1, <2>2, LastExists
    <2> QED BY <2>3
  <1>4. ASSUME NEW kid \in Kids, at(kid) # {}
        PROVE  /\ doc[last(kid)].key \in Keys
               /\ Carries(doc, kid, doc[last(kid)].key)
    <2>1. PICK i \in 1..Len(doc) : i = last(kid) /\ UsableAt(doc, i) /\ doc[i].kid = kid
      BY <1>3, <1>4
    <2>2. doc[i] \in JwkEntry
      BY <1>1
    <2>3. doc[i].key \in Keys
      BY <2>1, <2>2 DEF JwkEntry, UsableAt
    <2>4. Carries(doc, kid, doc[i].key)
      BY <2>1 DEF Carries
    <2> QED BY <2>1, <2>3, <2>4
  <1>5. ASSUME NEW kid \in Kids, at(kid) = {}, NEW key \in Keys
        PROVE  ~ Carries(doc, kid, key)
    BY <1>5, SaTokenAssumption DEF Carries, UsableAt
  <1> HIDE DEF at, last
  <1> QED BY <1>2, <1>4, <1>5
\* The steps of a verify and what it knows in each of them.
LEMMA SaShapes ==
    ASSUME NEW v \in Verifying
    PROVE  /\ v.pc \in {"idle", "lookup", "decode", "done"}
           /\ v.pc = "lookup" => v.token \in Tokens
           /\ v.pc = "decode" => v.token \in Tokens /\ v.key \in Keys
           /\ v.pc = "done" => v.token \in Tokens /\ v.result \in Results
  BY DEF Verifying, Idle

\* What is kept when neither the cache nor any verify changes.
LEMMA SaUntouched ==
    ASSUME SaInv, SaTypeOK', UNCHANGED <<keys, verifying, current, seen>>
    PROVE  SaInv'
  BY DEF SaInv, SaCacheOK, SaSeenOK, Judging, SaLookupOK, SaDecodeOK,
         VerdictFromOneFetch

\* One session moves on and the documents of the others stay.
LEMMA SaOthers ==
    ASSUME SaInv, NEW s \in Sessions, SaTypeOK', UNCHANGED <<keys, current>>,
           NEW v \in Verifying, NEW met \in SUBSET (KeySets \cup {NotLoaded}),
           verifying' = [verifying EXCEPT ![s] = v],
           seen' = [seen EXCEPT ![s] = met],
           v.pc \in {"lookup", "decode"} => current \in met,
           v.pc = "lookup" => v.token.kid \in Kids,
           v.pc = "decode" => \E doc \in met : doc # NotLoaded
                                              /\ Carries(doc, v.token.kid, v.key),
           v.pc = "done" => \E doc \in met : JustifiedBy(doc, v.token, v.result)
    PROVE  SaInv'
  <1>t. verifying \in [Sessions -> Verifying] /\ DOMAIN seen = Sessions
    BY DEF SaInv, SaTypeOK
  <1>1. /\ \A d \in Sessions : verifying'[d] = IF d = s THEN v ELSE verifying[d]
        /\ \A d \in Sessions : seen'[d] = IF d = s THEN met ELSE seen[d]
    BY <1>t
  <1>2. SaCacheOK'
    BY DEF SaInv, SaCacheOK
  <1>3. SaSeenOK'
    BY <1>1 DEF SaInv, SaSeenOK, Judging
  <1>4. SaLookupOK'
    BY <1>1 DEF SaInv, SaLookupOK
  <1>5. SaDecodeOK'
    BY <1>1 DEF SaInv, SaDecodeOK
  <1>6. VerdictFromOneFetch'
    BY <1>1 DEF SaInv, VerdictFromOneFetch
  <1> QED BY <1>2, <1>3, <1>4, <1>5, <1>6 DEF SaInv

\* Nothing is fetched and nobody verifies.
LEMMA SaStart == ASSUME SaInit PROVE SaInv
  <1>1. \A s \in Sessions : verifying[s].pc = "idle"
    BY DEF SaInit, Idle
  <1>2. SaTypeOK
    <2>1. verifying \in [Sessions -> Verifying]
      BY DEF SaInit, Verifying
    <2>2. published # NotLoaded
      BY SaTokenAssumption DEF SaInit
    <2> QED BY <2>1, SaTokenAssumption DEF SaInit, SaTypeOK
  <1> QED
    BY <1>1, <1>2 DEF SaInv, SaInit, SaCacheOK, SaSeenOK, Judging, SaLookupOK,
       SaDecodeOK, VerdictFromOneFetch

\* The refresh loop replaces the whole cache, and every verify under way has
\* then met the new document as well.
LEMMA SaSwap ==
    ASSUME SaInv, Swap
    PROVE  SaInv'
  <1>1. answer \in KeySets /\ keys' = build_key_map(answer) /\ current' = answer
    BY DEF SaInv, SaTypeOK, Swap
  <1>2. /\ verifying' = verifying
        /\ \A s \in Sessions :
              seen'[s] = IF Judging(s) THEN seen[s] \cup {answer} ELSE seen[s]
    BY DEF Swap
  <1>3. \A s \in Sessions : seen[s] \subseteq seen'[s]
    BY <1>2
  <1>4. SaTypeOK'
    <2>1. seen' \in [Sessions -> SUBSET (KeySets \cup {NotLoaded})]
      BY <1>1 DEF SaInv, SaTypeOK, Swap
    <2>2. keys' \in KeyMaps
      BY <1>1 DEF KeyMaps
    <2> QED BY <1>1, <2>1, <2>2 DEF SaInv, SaTypeOK, Swap
  <1>5. SaCacheOK'
    BY <1>1 DEF SaCacheOK
  <1>6. SaSeenOK'
    BY <1>1, <1>2 DEF SaSeenOK, Judging
  <1>7. SaLookupOK'
    BY <1>2 DEF SaInv, SaLookupOK
  <1>8. SaDecodeOK'
    BY <1>2, <1>3 DEF SaInv, SaDecodeOK
  <1>9. VerdictFromOneFetch'
    BY <1>2, <1>3 DEF SaInv, VerdictFromOneFetch
  <1> QED BY <1>4, <1>5, <1>6, <1>7, <1>8, <1>9 DEF SaInv

\* Present: verify reads the header, and a token without a kid is decided at once.
LEMMA SaPresent ==
    ASSUME SaInv, NEW s \in Sessions, NEW token \in Tokens,
           Present(s, token)
    PROVE  SaInv'
  <1> DEFINE v == CASE token.kid = Garbled ->
                          [pc |-> "done", token |-> token, result |-> "Invalid"]
                    [] token.kid = NoKid ->
                          [pc |-> "done", token |-> token, result |-> "MissingKid"]
                    [] token.kid \in Kids -> [pc |-> "lookup", token |-> token]
  <1>1. /\ verifying' = [verifying EXCEPT ![s] = v]
        /\ seen' = [seen EXCEPT ![s] = {current}]
        /\ UNCHANGED <<published, rotations, failures, phase, answer, keys, current>>
    BY DEF Present, loop
  <1>2. token.kid \in Kids \cup {NoKid, Garbled}
    BY SaTokenAssumption DEF Token
  <1>3. CASE token.kid = Garbled
    <2>1. v = [pc |-> "done", token |-> token, result |-> "Invalid"]
      BY <1>3, SaTokenAssumption
    <2> HIDE DEF v
    <2>2. v \in Verifying
      BY <2>1 DEF Verifying, Results
    <2>3. JustifiedBy(current, v.token, v.result)
      BY <2>1, <1>3 DEF JustifiedBy
    <2>4. SaTypeOK'
      BY <1>1, <2>2 DEF SaInv, SaTypeOK
    <2> QED BY <1>1, <2>1, <2>2, <2>3, <2>4, SaOthers DEF SaInv, SaTypeOK
  <1>4. CASE token.kid = NoKid
    <2>1. v = [pc |-> "done", token |-> token, result |-> "MissingKid"]
      BY <1>4, SaTokenAssumption
    <2> HIDE DEF v
    <2>2. v \in Verifying
      BY <2>1 DEF Verifying, Results
    <2>3. JustifiedBy(current, v.token, v.result)
      BY <2>1, <1>4 DEF JustifiedBy
    <2>4. SaTypeOK'
      BY <1>1, <2>2 DEF SaInv, SaTypeOK
    <2> QED BY <1>1, <2>1, <2>2, <2>3, <2>4, SaOthers DEF SaInv, SaTypeOK
  <1>5. CASE token.kid \in Kids
    <2>1. v = [pc |-> "lookup", token |-> token]
      BY <1>5, SaTokenAssumption
    <2> HIDE DEF v
    <2>2. v \in Verifying
      BY <2>1 DEF Verifying
    <2>4. SaTypeOK'
      BY <1>1, <2>2 DEF SaInv, SaTypeOK
    <2> QED BY <1>1, <1>5, <2>1, <2>2, <2>4, SaOthers DEF SaInv, SaTypeOK
  <1> QED BY <1>2, <1>3, <1>4, <1>5

\* Under the lock the cache is the map of the current document, which the
\* verify has met.
LEMMA SaLookup ==
    ASSUME SaInv, NEW s \in Sessions, Lookup(s)
    PROVE  SaInv'
  <1> DEFINE token == verifying[s].token
             refused(why) == [pc |-> "done", token |-> token, result |-> why]
             v == CASE keys = NotLoaded -> refused("KeysNotLoaded")
                    [] keys # NotLoaded /\ token.kid \notin DOMAIN keys ->
                          refused("UnknownKid")
                    [] keys # NotLoaded /\ token.kid \in DOMAIN keys ->
                          [pc |-> "decode", token |-> token, key |-> keys[token.kid]]
  <1>1. /\ verifying[s].pc = "lookup"
        /\ verifying' = [verifying EXCEPT ![s] = v]
        /\ UNCHANGED <<published, rotations, failures, phase, answer, keys, current, seen>>
    BY DEF Lookup, loop
  <1>2. /\ seen[s] \in SUBSET (KeySets \cup {NotLoaded})
        /\ seen' = [seen EXCEPT ![s] = seen[s]]
    BY <1>1 DEF SaInv, SaTypeOK
  <1>3. verifying[s] \in Verifying
    BY DEF SaInv, SaTypeOK
  <1>4. token \in Tokens /\ token.kid \in Kids /\ current \in seen[s]
    BY <1>1, <1>3, SaShapes DEF SaInv, SaLookupOK, SaSeenOK, Judging
  <1>5. CASE keys = NotLoaded
    <2>1. v = refused("KeysNotLoaded")
      BY <1>5
    <2>2. v \in Verifying
      BY <1>4, <2>1 DEF Verifying, Results
    <2>3. current = NotLoaded
      BY <1>5, SaTokenAssumption DEF SaInv, SaCacheOK
    <2>4. JustifiedBy(current, v.token, v.result)
      BY <2>1, <2>3 DEF JustifiedBy
    <2>5. v.pc = "done"
      BY <2>1
    <2> HIDE DEF v, token
    <2>6. SaTypeOK'
      BY <1>1, <2>2 DEF SaInv, SaTypeOK
    <2> QED BY <1>1, <1>2, <1>4, <2>2, <2>4, <2>5, <2>6, SaOthers
  <1>6. CASE keys # NotLoaded /\ token.kid \notin DOMAIN keys
    <2>1. v = refused("UnknownKid")
      BY <1>6
    <2>2. v \in Verifying
      BY <1>4, <2>1 DEF Verifying, Results
    <2>3. current \in KeySets /\ current # NotLoaded /\ keys = build_key_map(current)
      BY <1>6, SaTokenAssumption DEF SaInv, SaCacheOK
    <2>4. \A key \in Keys : ~ Carries(current, token.kid, key)
      BY <1>4, <1>6, <2>3, KeyMapCarries
    <2>5. JustifiedBy(current, v.token, v.result)
      BY <2>1, <2>3, <2>4 DEF JustifiedBy
    <2>6. v.pc = "done"
      BY <2>1
    <2> HIDE DEF v, token
    <2>7. SaTypeOK'
      BY <1>1, <2>2 DEF SaInv, SaTypeOK
    <2> QED BY <1>1, <1>2, <1>4, <2>2, <2>5, <2>6, <2>7, SaOthers
  <1>7. CASE keys # NotLoaded /\ token.kid \in DOMAIN keys
    <2>1. v = [pc |-> "decode", token |-> token, key |-> keys[token.kid]]
      BY <1>7
    <2>2. current \in KeySets /\ current # NotLoaded /\ keys = build_key_map(current)
      BY <1>7, SaTokenAssumption DEF SaInv, SaCacheOK
    <2>3. keys[token.kid] \in Keys /\ Carries(current, token.kid, keys[token.kid])
      BY <1>7, <2>2, KeyMapCarries
    <2>4. v \in Verifying
      BY <1>4, <2>1, <2>3 DEF Verifying
    <2>5. v.pc = "decode" /\ v.token = token /\ v.key = keys[token.kid]
      BY <2>1
    <2> HIDE DEF v, token
    <2>6. SaTypeOK'
      BY <1>1, <2>4 DEF SaInv, SaTypeOK
    <2>7. \E doc \in seen[s] : doc # NotLoaded /\ Carries(doc, v.token.kid, v.key)
      BY <1>4, <2>2, <2>3, <2>5
    <2> QED BY <1>1, <1>2, <1>4, <2>4, <2>5, <2>6, <2>7, SaOthers
  <1> QED BY <1>5, <1>6, <1>7

\* The cloned key is judged without the lock: the document it came from, not the
\* one cached now, justifies the verdict.
LEMMA SaDecode ==
    ASSUME SaInv, NEW s \in Sessions, Decode(s)
    PROVE  SaInv'
  <1> DEFINE w == verifying[s]
             v == [pc |-> "done", token |-> w.token, result |-> Decoded(w.token, w.key)]
  <1>1. /\ w.pc = "decode"
        /\ verifying' = [verifying EXCEPT ![s] = v]
        /\ UNCHANGED <<published, rotations, failures, phase, answer, keys, current, seen>>
    BY DEF Decode, loop
  <1>2. /\ seen[s] \in SUBSET (KeySets \cup {NotLoaded})
        /\ seen' = [seen EXCEPT ![s] = seen[s]]
    BY <1>1 DEF SaInv, SaTypeOK
  <1>3. w \in Verifying
    BY DEF SaInv, SaTypeOK
  <1>4. w.token \in Tokens /\ w.key \in Keys
    BY <1>1, <1>3, SaShapes
  <1>5. v \in Verifying /\ v.pc = "done"
    BY <1>4 DEF Verifying, Decoded, Results
  <1>6. PICK doc \in seen[s] : doc # NotLoaded /\ Carries(doc, w.token.kid, w.key)
    BY <1>1 DEF SaInv, SaDecodeOK
  <1>7. JustifiedBy(doc, v.token, v.result)
    <2>1. CASE w.token.key = w.key /\ w.token.claims
      <3>1. v.result = "Ok" /\ v.token = w.token
        BY <2>1 DEF Decoded
      <3> HIDE DEF v, w
      <3> QED BY <1>6, <2>1, <3>1 DEF JustifiedBy
    <2>2. CASE ~ (w.token.key = w.key /\ w.token.claims)
      <3>1. v.result = "Invalid" /\ v.token = w.token
        BY <2>2 DEF Decoded
      <3> HIDE DEF v, w
      <3>2. \E key \in Keys : /\ doc # NotLoaded
                              /\ Carries(doc, w.token.kid, key)
                              /\ key # w.token.key \/ ~ w.token.claims
        BY <1>4, <1>6, <2>2
      <3> QED BY <3>1, <3>2 DEF JustifiedBy
    <2> QED BY <2>1, <2>2
  <1> HIDE DEF v, w
  <1>8. SaTypeOK'
    BY <1>1, <1>5 DEF SaInv, SaTypeOK
  <1> QED BY <1>1, <1>2, <1>5, <1>6, <1>7, <1>8, SaOthers

\* Every step of the refresher, the provider and the sessions keeps the invariant.
LEMMA SaStep ==
    ASSUME SaInv, [SaNext]_saVars
    PROVE  SaInv'
  <1>n. /\ MaxRotations \in Nat /\ MaxFailures \in Nat
        /\ rotations \in Nat /\ failures \in Nat
    BY SaTokenAssumption DEF SaInv, SaTypeOK
  <1>1. ASSUME NEW doc \in KeySets, RotateKeys(doc) PROVE SaInv'
    <2>1. SaTypeOK'
      BY <1>1, <1>n DEF RotateKeys, loop, SaInv, SaTypeOK
    <2> QED BY <1>1, <2>1, SaUntouched DEF RotateKeys
  <1>2. CASE Discovered
    <2>1. SaTypeOK'
      BY <1>2 DEF Discovered, SaInv, SaTypeOK
    <2> QED BY <1>2, <2>1, SaUntouched DEF Discovered
  <1>3. CASE Fetched
    <2>1. published # NotLoaded
      BY SaTokenAssumption DEF SaInv, SaTypeOK
    <2>2. SaTypeOK'
      BY <1>3, <2>1 DEF Fetched, SaInv, SaTypeOK
    <2> QED BY <1>3, <2>2, SaUntouched DEF Fetched
  <1>4. CASE FetchFails
    <2>1. SaTypeOK'
      BY <1>4, <1>n DEF FetchFails, SaInv, SaTypeOK
    <2> QED BY <1>4, <2>1, SaUntouched DEF FetchFails
  <1>5. CASE FetchHangs
    <2>1. SaTypeOK'
      BY <1>5 DEF FetchHangs, SaInv, SaTypeOK
    <2> QED BY <1>5, <2>1, SaUntouched DEF FetchHangs
  <1>6. CASE Swap
    BY <1>6, SaSwap
  <1>7. CASE Wake
    <2>1. SaTypeOK'
      BY <1>7 DEF Wake, SaInv, SaTypeOK
    <2> QED BY <1>7, <2>1, SaUntouched DEF Wake
  <1>8. ASSUME NEW s \in Sessions, NEW token \in Tokens, Present(s, token)
        PROVE  SaInv'
    BY <1>8, SaPresent
  <1>9. ASSUME NEW s \in Sessions, Lookup(s) PROVE SaInv'
    BY <1>9, SaLookup
  <1>10. ASSUME NEW s \in Sessions, Decode(s) PROVE SaInv'
    BY <1>10, SaDecode
  <1>11. CASE UNCHANGED saVars
    <2>1. SaTypeOK'
      BY <1>11 DEF saVars, loop, SaInv, SaTypeOK
    <2> QED BY <1>11, <2>1, SaUntouched DEF saVars
  <1> QED
    BY <1>1, <1>2, <1>3, <1>4, <1>5, <1>6, <1>7, <1>8, <1>9, <1>10, <1>11
    DEF SaNext

\* The sa-token verifier keeps its inductive invariant.
THEOREM SaInvariance == SaSpec => []SaInv
  <1>1. SaInit => SaInv
    BY SaStart
  <1>2. SaInv /\ [SaNext]_saVars => SaInv'
    BY SaStep
  <1> QED BY <1>1, <1>2, PTL DEF SaSpec

\* A verdict is the one that a single document met while verifying justifies, for
\* any number of sessions and rotations, whatever the cache was replaced by between
\* lookup and decode (JwksVerifier::verify, refresh_loop).
THEOREM OneFetchJudges ==
    SaSpec => []VerdictFromOneFetch
  <1>1. SaInv => VerdictFromOneFetch
    BY DEF SaInv
  <1> QED BY <1>1, SaInvariance, PTL
=============================================================================
