---------------------------- MODULE AccessProofs ----------------------------
(***************************************************************************)
(* Proofs about the key cache of Access, for any number of requests and    *)
(* keys, whatever the identity provider publishes and withdraws; and about *)
(* Visibility, for every caller, every resource and every set of stores.   *)
(***************************************************************************)
EXTENDS Access, Visibility, SequenceLemmas, TLAPS

(***************************************************************************)
(* The part of the state the key cache works on.                           *)
(***************************************************************************)
States == ActiveStates \cup Answers \cup {"idle"}

CacheType ==
    /\ authType \in AuthTypes
    /\ published \in SUBSET Keys
    /\ req \in [Requests -> Request]
    /\ \A r \in Requests :
         /\ req[r].pc \in ActiveStates => req[r].cred \in Credentials
         /\ req[r].steady => req[r].cred \in Credentials

(***************************************************************************)
(* An overdue key is neither published nor in a reply on its way, and the  *)
(* cache holds none while it counts as fresh.                              *)
(***************************************************************************)
OverdueGone ==
    /\ overdue \cap published = {}
    /\ \A r \in Requests : overdue \cap req[r].reply = {}
    /\ fresh => overdue \cap cached = {}

(***************************************************************************)
(* The key of a token that has been published since the request arrived is *)
(* published, and in the reply to a fetch the request has made.            *)
(***************************************************************************)
SteadyKnown ==
    \A r \in Requests : req[r].steady =>
        /\ req[r].cred.kid \in published
        /\ req[r].pc = "store" => req[r].cred.kid \in req[r].reply

-----------------------------------------------------------------------------
\* A request that is idle or answered carries nothing.
LEMMA IdleType ==
    ASSUME NEW pc \in States
    PROVE  /\ [Idle EXCEPT !.pc = pc] \in Request
           /\ [Idle EXCEPT !.pc = pc].pc = pc
           /\ [Idle EXCEPT !.pc = pc].cred = None
           /\ [Idle EXCEPT !.pc = pc].reply = {}
           /\ [Idle EXCEPT !.pc = pc].steady = FALSE
  <1>1. (CHOOSE e \in Endpoints : TRUE) \in Endpoints
    BY AccessAssumption
  <1> QED
    BY <1>1 DEF Idle, Request, States

\* A membership is a truth value.
LEMMA MemberBoolean ==
    ASSUME NEW x, NEW S
    PROVE  (x \in S) \in BOOLEAN
  <1>1. CASE x \in S
    <2>1. (x \in S) = TRUE
      BY <1>1
    <2> QED
      BY <2>1
  <1>2. CASE x \notin S
    <2>1. (x \in S) = FALSE
      BY <1>2
    <2> QED
      BY <2>1
  <1> QED
    BY <1>1, <1>2

(***************************************************************************)
(* What a handler's step does to its request: it moves on, and no reply is *)
(* left; or it is answered and forgotten.                                  *)
(***************************************************************************)
LEMMA Gone ==
    ASSUME CacheType, NEW r \in Requests, NEW pc \in States, Goto(r, pc)
    PROVE  /\ req' \in [Requests -> Request]
           /\ req'[r].pc = pc /\ req'[r].reply = {}
           /\ pc \in Answers => req'[r].cred = None /\ req'[r].steady = FALSE
           /\ pc \notin Answers =>
                /\ req'[r].cred = req[r].cred /\ req'[r].steady = req[r].steady
                /\ req'[r].endpoint = req[r].endpoint
           /\ req'[r].steady => req[r].steady /\ req'[r].cred = req[r].cred
           /\ \A q \in Requests \ {r} : req'[q] = req[q]
  <1>1. CASE pc \in Answers
    BY <1>1, IdleType DEF Goto, CacheType
  <1>2. CASE pc \notin Answers
    <2>1. [req[r] EXCEPT !.pc = pc, !.reply = {}] \in Request
      BY DEF CacheType, Request, States
    <2> QED
      BY <1>2, <2>1 DEF Goto, CacheType, Request
  <1> QED
    BY <1>1, <1>2

\* The votes of the chain are states of a request.
LEMMA VoteType ==
    ASSUME NEW cred, authType # "none", authType \in AuthTypes
    PROVE  FirstVote(Votes(authType, cred), "401") \in {"scope", "401", "lookup"}
  <1> DEFINE votes == Votes(authType, cred)
             cast == {i \in DOMAIN votes : votes[i] # "abstain"}
             first == CHOOSE i \in cast : \A j \in cast : i <= j
  <1>1. authType \in {"apikey", "jwt", "chain"}
    BY AccessAssumption
  <1>2. Chain(authType) \in {<<"apikey">>, <<"jwt">>, <<"apikey", "jwt">>}
    BY <1>1 DEF Chain
  <1>3. DOMAIN Chain(authType) \in {1 .. 1, 1 .. 2}
    BY <1>2
  <1>4. /\ DOMAIN votes = DOMAIN Chain(authType)
        /\ \A i \in DOMAIN votes :
             votes[i] \in {APIKeyVote(cred), JWTVote(cred)}
    BY DEF Votes
  <1>5. \A i \in cast : votes[i] \in {"scope", "401", "lookup"}
    BY <1>4 DEF APIKeyVote, JWTVote
  <1>6. CASE cast # {}
    <2>1. \E i \in cast : \A j \in cast : i <= j
      <3>1. cast \subseteq {1, 2}
        BY <1>3, <1>4
      <3> HIDE DEF cast
      <3>2. CASE 1 \in cast
        <4>1. \A j \in cast : 1 <= j
          BY <3>1
        <4> QED
          BY <3>2, <4>1
      <3>3. CASE 1 \notin cast
        <4>1. cast = {2}
          BY <1>6, <3>1, <3>3
        <4> QED
          BY <4>1
      <3> QED
        BY <3>2, <3>3
    <2> HIDE DEF cast
    <2>2. first \in cast
      BY <2>1
    <2> USE DEF cast
    <2> QED
      BY <1>5, <1>6, <2>2 DEF FirstVote
  <1>7. CASE cast = {}
    BY <1>7 DEF FirstVote
  <1> QED
    BY <1>6, <1>7

-----------------------------------------------------------------------------
(***************************************************************************)
(* Both parts of the cache's invariant are inductive.                      *)
(***************************************************************************)
CacheInv == CacheType /\ OverdueGone /\ SteadyKnown

\* At the start nobody asks and the cache is empty.
LEMMA CacheInit == Init => CacheInv
  <1> SUFFICES ASSUME Init PROVE CacheInv
    OBVIOUS
  <1>1. Idle \in Request /\ Idle.pc = "idle" /\ Idle.steady = FALSE
        /\ Idle.reply = {}
    <2>1. (CHOOSE e \in Endpoints : TRUE) \in Endpoints
      BY AccessAssumption
    <2> QED
      BY <2>1 DEF Idle, Request
  <1> QED
    BY <1>1
    DEF Init, CacheInv, CacheType, OverdueGone, SteadyKnown, ActiveStates

\* A handler that leaves the cache alone and moves on keeps the invariant.
LEMMA QuietHandler ==
    ASSUME CacheInv, NEW r \in Requests, NEW pc \in States \ {"store"},
           Goto(r, pc), pc \in ActiveStates => req[r].pc \in ActiveStates,
           pc # "idle", UNCHANGED <<authType, published, cached, fresh, overdue>>
    PROVE  CacheInv'
  <1>1. CacheType'
    <2>1. pc \in ActiveStates => req'[r].cred \in Credentials
      BY Gone DEF CacheInv, CacheType, ActiveStates, Answers
    <2>2. req'[r].pc = pc /\ (req'[r].steady => req'[r].cred \in Credentials)
      BY Gone DEF CacheInv, CacheType
    <2> QED
      BY <2>1, <2>2, Gone DEF CacheInv, CacheType
  <1>2. OverdueGone'
    BY Gone DEF CacheInv, OverdueGone
  <1>3. SteadyKnown'
    <2>1. req'[r].steady => req'[r].cred.kid \in published'
      BY Gone DEF CacheInv, SteadyKnown
    <2>2. CacheType /\ pc \in States /\ pc # "store"
      BY DEF CacheInv
    <2>3. /\ req'[r].pc # "store"
          /\ \A q \in Requests \ {r} : req'[q] = req[q]
      BY <2>2, Gone
    <2> QED
      BY <2>1, <2>3 DEF CacheInv, SteadyKnown
  <1> QED
    BY <1>1, <1>2, <1>3 DEF CacheInv

\* Every step of the middleware, the provider and the clock keeps CacheInv.
LEMMA CacheStep == CacheInv /\ [Next]_vars => CacheInv'
  <1> SUFFICES ASSUME CacheInv, [Next]_vars PROVE CacheInv'
    OBVIOUS
  <1> USE DEF States, ActiveStates, Answers, cache, config
  <1>v. ASSUME NEW r \in Requests PROVE Verified(r) \in {"scope", "401"}
    BY DEF Verified
  <1>1. ASSUME NEW r \in Requests, Arrive(r) PROVE CacheInv'
    <2>1. PICK cred \in Credentials, endpoint \in Endpoints :
            req' = [req EXCEPT ![r] =
                      [Idle EXCEPT !.pc = "chain", !.cred = cred,
                                   !.endpoint = endpoint,
                                   !.steady = cred.kid \in published]]
      BY <1>1 DEF Arrive
    <2> DEFINE new == [Idle EXCEPT !.pc = "chain", !.cred = cred,
                                   !.endpoint = endpoint,
                                   !.steady = cred.kid \in published]
    <2>2. (cred.kid \in published) \in BOOLEAN
      BY MemberBoolean
    <2>3. /\ new.pc = "chain" /\ new.cred = cred /\ new.reply = {}
          /\ new.steady = (cred.kid \in published)
          /\ new \in Request
      BY <2>2 DEF Idle, Request
    <2> HIDE DEF new
    <2>4. /\ req' \in [Requests -> Request] /\ req'[r] = new
          /\ \A q \in Requests \ {r} : req'[q] = req[q]
      BY <2>1, <2>3 DEF CacheInv, CacheType, new
    <2>5. UNCHANGED <<authType, published, cached, fresh, overdue>>
      BY <1>1 DEF Arrive
    <2>6. CacheType'
      BY <2>3, <2>4, <2>5 DEF CacheInv, CacheType
    <2>7. OverdueGone'
      BY <2>3, <2>4, <2>5 DEF CacheInv, OverdueGone
    <2>8. SteadyKnown'
      BY <2>3, <2>4, <2>5 DEF CacheInv, SteadyKnown
    <2> QED
      BY <2>6, <2>7, <2>8 DEF CacheInv
  <1>2. ASSUME NEW r \in Requests, Authenticate(r) PROVE CacheInv'
    <2> DEFINE pc == IF authType = "none" THEN "served"
                     ELSE FirstVote(Votes(authType, req[r].cred), "401")
    <2>1. pc \in {"served", "scope", "401", "lookup"}
      BY VoteType DEF CacheInv, CacheType
    <2>2. Goto(r, pc) /\ req[r].pc = "chain"
      BY <1>2 DEF Authenticate
    <2>3. UNCHANGED <<authType, published, cached, fresh, overdue>>
      BY <1>2 DEF Authenticate, config
    <2> HIDE DEF pc
    <2> QED
      BY <2>1, <2>2, <2>3, QuietHandler
  <1>3. ASSUME NEW r \in Requests, ReadCache(r) PROVE CacheInv'
    BY <1>3, <1>v, QuietHandler DEF ReadCache
  <1>4. ASSUME NEW r \in Requests, LockCache(r) PROVE CacheInv'
    BY <1>4, <1>v, QuietHandler DEF LockCache
  <1>5. ASSUME NEW r \in Requests, FetchKeys(r) PROVE CacheInv'
    <2>1. CASE Goto(r, "401")
      BY <1>5, <2>1, QuietHandler DEF FetchKeys
    <2>2. CASE req' = [req EXCEPT ![r].pc = "store", ![r].reply = published]
      <3> DEFINE new == [req[r] EXCEPT !.pc = "store", !.reply = published]
      <3>1. /\ new \in Request /\ new.pc = "store" /\ new.reply = published
            /\ new.cred = req[r].cred /\ new.steady = req[r].steady
        BY DEF CacheInv, CacheType, Request
      <3> HIDE DEF new
      <3>2. /\ req' \in [Requests -> Request] /\ req'[r] = new
            /\ \A q \in Requests \ {r} : req'[q] = req[q]
        BY <2>2, <3>1 DEF CacheInv, CacheType, new
      <3>3. UNCHANGED <<authType, published, cached, fresh, overdue>>
        BY <1>5 DEF FetchKeys
      <3>4. req[r].pc = "fetch"
        BY <1>5 DEF FetchKeys
      <3>5. CacheType'
        BY <3>1, <3>2, <3>3, <3>4 DEF CacheInv, CacheType
      <3>6. OverdueGone'
        BY <3>1, <3>2, <3>3 DEF CacheInv, OverdueGone
      <3>7. SteadyKnown'
        BY <3>1, <3>2, <3>3 DEF CacheInv, SteadyKnown
      <3> QED
        BY <3>5, <3>6, <3>7 DEF CacheInv
    <2> QED
      BY <1>5, <2>1, <2>2 DEF FetchKeys
  <1>6. ASSUME NEW r \in Requests, StoreKeys(r) PROVE CacheInv'
    <2> DEFINE pc == IF req[r].cred.kid \in cached' THEN Verified(r) ELSE "401"
    <2>1. pc \in {"scope", "401"}
      BY <1>v
    <2>2. /\ Goto(r, pc) /\ req[r].pc = "store" /\ cached' = req[r].reply
          /\ UNCHANGED <<authType, published, overdue>>
      BY <1>6 DEF StoreKeys
    <2> HIDE DEF pc
    <2>a. CacheType /\ pc \in States
      BY <2>1 DEF CacheInv
    <2>b. /\ req' \in [Requests -> Request]
          /\ req'[r].pc = pc /\ req'[r].reply = {}
          /\ req'[r].steady => req[r].steady /\ req'[r].cred = req[r].cred
          /\ \A q \in Requests \ {r} : req'[q] = req[q]
      BY <2>2, <2>a, Gone
    <2>c. pc = "scope" => req'[r].cred = req[r].cred
      BY <2>2, <2>a, Gone
    <2>3. CacheType'
      BY <2>1, <2>2, <2>a, <2>b, <2>c DEF CacheInv, CacheType
    <2>4. OverdueGone'
      BY <2>2, <2>b DEF CacheInv, OverdueGone
    <2>5. SteadyKnown'
      BY <2>1, <2>2, <2>b DEF CacheInv, SteadyKnown
    <2> QED
      BY <2>3, <2>4, <2>5 DEF CacheInv
  <1>7. ASSUME NEW r \in Requests, CheckScope(r) PROVE CacheInv'
    <2> DEFINE pc == IF ScopeAllows(req[r].cred, req[r].endpoint, expanded)
                     THEN "served" ELSE "403"
    <2>1. pc \in {"served", "403"}
      OBVIOUS
    <2>2. Goto(r, pc) /\ UNCHANGED <<authType, published, cached, fresh, overdue>>
      BY <1>7 DEF CheckScope
    <2> HIDE DEF pc
    <2> QED
      BY <2>1, <2>2, QuietHandler
  <1>8. CASE Expire
    BY <1>8 DEF Expire, OnTheWay, CacheInv, CacheType, OverdueGone, SteadyKnown
  <1>9. ASSUME NEW k \in Keys, Publish(k) PROVE CacheInv'
    BY <1>9 DEF Publish, CacheInv, CacheType, OverdueGone, SteadyKnown
  <1>10. ASSUME NEW k \in Keys, Withdraw(k) PROVE CacheInv'
    <2>1. ASSUME NEW r \in Requests
          PROVE  /\ req'[r] \in Request /\ req'[r].pc = req[r].pc
                 /\ req'[r].cred = req[r].cred /\ req'[r].reply = req[r].reply
                 /\ req'[r].steady => req[r].steady /\ req[r].cred.kid # k
      <3> DEFINE steady == req[r].steady /\ req[r].cred.kid # k
      <3>1. steady \in BOOLEAN
        BY Zenon
      <3>2. CASE req[r].cred = None
        <4>1. ~req[r].steady
          BY <3>2, AccessAssumption DEF CacheInv, CacheType
        <4>2. req'[r] = req[r]
          BY <1>10, <3>2 DEF Withdraw
        <4> QED
          BY <4>1, <4>2 DEF CacheInv, CacheType
      <3>3. CASE req[r].cred # None
        <4>1. req'[r] = [req[r] EXCEPT !.steady = steady]
          BY <1>10, <3>3 DEF Withdraw
        <4> HIDE DEF steady
        <4>2. req'[r] \in Request /\ req'[r].steady = steady
              /\ req'[r].pc = req[r].pc /\ req'[r].cred = req[r].cred
              /\ req'[r].reply = req[r].reply
          BY <3>1, <4>1 DEF CacheInv, CacheType, Request
        <4> QED
          BY <4>2 DEF steady
      <3> QED
        BY <3>2, <3>3
    <2>2. req' \in [Requests -> Request]
      BY <1>10, <2>1 DEF Withdraw
    <2>3. /\ published' = published \ {k}
          /\ UNCHANGED <<authType, cached, fresh, overdue>>
      BY <1>10 DEF Withdraw
    <2>4. CacheType'
      BY <2>1, <2>2, <2>3 DEF CacheInv, CacheType
    <2>5. OverdueGone'
      BY <2>1, <2>3 DEF CacheInv, OverdueGone
    <2>6. SteadyKnown'
      BY <2>1, <2>3 DEF CacheInv, SteadyKnown
    <2> QED
      BY <2>4, <2>5, <2>6 DEF CacheInv
  <1>11. CASE UNCHANGED vars
    BY <1>11 DEF vars, CacheInv, CacheType, OverdueGone, SteadyKnown
  <1> QED
    BY <1>1, <1>2, <1>3, <1>4, <1>5, <1>6, <1>7, <1>8, <1>9, <1>10, <1>11
    DEF Next, Serve

\* What the theorems start from.
LEMMA AlwaysCached == Spec => []CacheInv
  BY CacheInit, CacheStep, PTL DEF Spec

-----------------------------------------------------------------------------
(***************************************************************************)
(* getKey and fetchJWKS: a key that was withdrawn is not accepted any more *)
(* once the cache that held it has expired, whatever fetches are on their  *)
(* way and whoever holds the lock.                                         *)
(***************************************************************************)
THEOREM OverdueRefused == Spec => NoOverdueKey
  <1> DEFINE Refused ==
        \A r \in Requests :
          (req[r].pc \in {"lookup", "lock", "store"} /\ req'[r].pc = "scope")
            => req[r].cred.kid \notin overdue
  <1>1. CacheInv /\ [Next]_vars => [Refused]_vars
    <2> SUFFICES ASSUME CacheInv, Next, NEW q \in Requests,
                        req[q].pc \in {"lookup", "lock", "store"},
                        req'[q].pc = "scope"
                 PROVE  req[q].cred.kid \notin overdue
      BY DEF vars
    <2> USE DEF States, ActiveStates, Answers
    <2>a. CacheType
      BY DEF CacheInv
    <2>h. ASSUME Hit(q) PROVE req[q].cred.kid \notin overdue
      BY <2>h DEF Hit, CacheInv, OverdueGone
    <2>1. ASSUME NEW r \in Requests, ReadCache(r) \/ LockCache(r)
          PROVE  req[q].cred.kid \notin overdue
      <3>1. PICK pc \in {"lock", "fetch", "scope", "401"} :
              Goto(r, pc) /\ (pc = "scope" => Hit(r))
        BY <2>1 DEF ReadCache, LockCache, Verified
      <3>2. q = r /\ pc = "scope"
        BY <2>a, <3>1, Gone, Zenon
      <3> QED
        BY <2>h, <3>1, <3>2
    <2>2. ASSUME NEW r \in Requests, FetchKeys(r)
          PROVE  req[q].cred.kid \notin overdue
      <3>1. CASE Goto(r, "401")
        BY <2>a, <3>1, Gone
      <3>2. CASE req' = [req EXCEPT ![r].pc = "store", ![r].reply = published]
        BY <2>a, <3>2 DEF CacheType, Request
      <3> QED
        BY <2>2, <3>1, <3>2 DEF FetchKeys
    <2>3. ASSUME NEW r \in Requests, StoreKeys(r)
          PROVE  req[q].cred.kid \notin overdue
      <3>1. PICK pc \in {"scope", "401"} :
              Goto(r, pc) /\ (pc = "scope" => req[r].cred.kid \in req[r].reply)
        BY <2>3 DEF StoreKeys, Verified
      <3>2. q = r /\ pc = "scope"
        BY <2>a, <3>1, Gone, Zenon
      <3> QED
        BY <3>1, <3>2 DEF CacheInv, OverdueGone
    <2>4. ASSUME NEW r \in Requests, Arrive(r) PROVE FALSE
      <3>1. \A p \in Requests \ {r} : req'[p] = req[p]
        BY <2>4, <2>a DEF Arrive, CacheType
      <3> QED
        BY <2>4, <3>1 DEF Arrive
    <2>5. ASSUME NEW r \in Requests, Authenticate(r) \/ CheckScope(r) PROVE FALSE
      <3>1. PICK pc : Goto(r, pc)
        BY <2>5 DEF Authenticate, CheckScope
      <3>2. \A p \in Requests \ {r} : req'[p] = req[p]
        BY <2>a, <3>1 DEF Goto, CacheType
      <3>3. req[r].pc \in {"chain", "scope"}
        BY <2>5 DEF Authenticate, CheckScope
      <3> QED
        BY <3>2, <3>3
    <2>6. ASSUME NEW k \in Keys, Withdraw(k) PROVE FALSE
      <3>1. req'[q].pc = req[q].pc
        BY <2>6, <2>a DEF Withdraw, CacheType, Request
      <3> QED
        BY <3>1
    <2>7. ASSUME UNCHANGED req PROVE FALSE
      BY <2>7
    <2> QED
      BY <2>1, <2>2, <2>3, <2>4, <2>5, <2>6, <2>7
      DEF Next, Serve, Expire, Publish
  <1> QED
    BY <1>1, AlwaysCached, PTL DEF Spec, NoOverdueKey

(***************************************************************************)
(* getKey: a token that is valid, with a key that has been published since *)
(* its request arrived, is refused only by a fetch of its own that fails,  *)
(* never because of what another request put into the cache.               *)
(***************************************************************************)
THEOREM SteadyAccepted == Spec => KnownKeyAccepted
  <1> DEFINE Accepted ==
        \A r \in Requests :
          req[r].pc \in {"lookup", "lock", "store"} /\ req'[r].pc = "401"
            => ~(req[r].cred.valid /\ req[r].steady)
  <1>1. CacheInv /\ [Next]_vars => [Accepted]_vars
    <2> SUFFICES ASSUME CacheInv, Next, NEW q \in Requests,
                        req[q].pc \in {"lookup", "lock", "store"},
                        req'[q].pc = "401",
                        req[q].cred.valid, req[q].steady
                 PROVE  FALSE
      BY DEF vars
    <2> USE DEF States, ActiveStates, Answers
    <2>a. CacheType
      BY DEF CacheInv
    <2>1. ASSUME NEW r \in Requests, ReadCache(r) \/ LockCache(r) PROVE FALSE
      <3>1. PICK pc \in {"lock", "fetch", "scope", "401"} :
              Goto(r, pc) /\ (pc = "401" => ~req[r].cred.valid)
        BY <2>1 DEF ReadCache, LockCache, Verified
      <3> QED
        BY <2>a, <3>1, Gone, Zenon
    <2>2. ASSUME NEW r \in Requests, FetchKeys(r) PROVE FALSE
      <3>1. CASE Goto(r, "401")
        BY <2>2, <2>a, <3>1, Gone DEF FetchKeys
      <3>2. CASE req' = [req EXCEPT ![r].pc = "store", ![r].reply = published]
        BY <2>a, <3>2 DEF CacheType, Request
      <3> QED
        BY <2>2, <3>1, <3>2 DEF FetchKeys
    <2>3. ASSUME NEW r \in Requests, StoreKeys(r) PROVE FALSE
      <3>1. PICK pc \in {"scope", "401"} :
              /\ Goto(r, pc)
              /\ pc = "401" => \/ req[r].cred.kid \notin req[r].reply
                               \/ ~req[r].cred.valid
        BY <2>3 DEF StoreKeys, Verified
      <3>2. q = r /\ pc = "401" /\ req[r].pc = "store"
        BY <2>3, <2>a, <3>1, Gone DEF StoreKeys
      <3> QED
        BY <3>1, <3>2 DEF CacheInv, SteadyKnown
    <2>4. ASSUME NEW r \in Requests, Arrive(r) PROVE FALSE
      <3>1. \A p \in Requests \ {r} : req'[p] = req[p]
        BY <2>4, <2>a DEF Arrive, CacheType
      <3> QED
        BY <2>4, <3>1 DEF Arrive
    <2>5. ASSUME NEW r \in Requests, Authenticate(r) \/ CheckScope(r) PROVE FALSE
      <3>1. PICK pc : Goto(r, pc)
        BY <2>5 DEF Authenticate, CheckScope
      <3>2. \A p \in Requests \ {r} : req'[p] = req[p]
        BY <2>a, <3>1 DEF Goto, CacheType
      <3>3. req[r].pc \in {"chain", "scope"}
        BY <2>5 DEF Authenticate, CheckScope
      <3> QED
        BY <3>2, <3>3
    <2>6. ASSUME NEW k \in Keys, Withdraw(k) PROVE FALSE
      <3>1. req'[q].pc = req[q].pc
        BY <2>6, <2>a DEF Withdraw, CacheType, Request
      <3> QED
        BY <3>1
    <2>7. ASSUME UNCHANGED req PROVE FALSE
      BY <2>7
    <2> QED
      BY <2>1, <2>2, <2>3, <2>4, <2>5, <2>6, <2>7
      DEF Next, Serve, Expire, Publish
  <1> QED
    BY <1>1, AlwaysCached, PTL DEF Spec, KnownKeyAccepted

-----------------------------------------------------------------------------
(***************************************************************************)
(* Visibility: the handlers that answer the same question about a resource *)
(* in code of their own give the same answer.                              *)
(***************************************************************************)

\* A response or a conversation is listed, and selected by the database's
\* query, exactly when it can be fetched.
THEOREM ResponsesSeenAlike ==
    ASSUME NEW caller, NEW resource,
           caller.admin \in BOOLEAN
    PROVE  ResponsesAgree(caller, resource)
BY DEF ResponsesAgree, ListsResponse, GetsResponse, SelectsRow, InScope,
       OwnerAllowed, ForeignTo

\* A vector store is listed, searched when a call names it, and searched when
\* a call names none, exactly when it can be fetched.
THEOREM StoresSeenAlike ==
    ASSUME NEW caller, NEW stores,
           caller.admin \in BOOLEAN
    PROVE  StoresAgree(caller, stores)
<1> SUFFICES ASSUME NEW s \in stores
             PROVE  /\ s \in ListsStores(caller, stores)
                         <=> GetsStore(caller, s)
                    /\ s \in SearchesNamed(caller, stores, {s})
                         <=> GetsStore(caller, s)
  BY DEF StoresAgree, Searches
<1> DEFINE own == InScope(caller, s)
           shared == Shared(caller, s)
<1>1. own <=> ~(caller.tenant # "" /\ s.tenant # caller.tenant)
  BY DEF InScope
<1>2. ~OwnerAllowed(caller, s, FALSE) <=> ForeignTo(caller, s)
  BY DEF ForeignTo, OwnerAllowed
<1>3. GetsStore(caller, s) <=> shared \/ (own /\ ~ForeignTo(caller, s))
  BY <1>2, Zenon DEF GetsStore
<1>4. s \in Collected(caller, stores) <=> own \/ shared
  BY <1>1 DEF Collected
<1>5. s \in ListsStores(caller, stores) <=> GetsStore(caller, s)
  BY <1>3, <1>4 DEF ListsStores
<1>6. s \in SearchesNamed(caller, stores, {s}) <=> GetsStore(caller, s)
  BY <1>1, <1>3 DEF SearchesNamed
<1> QED
  BY <1>5, <1>6

-----------------------------------------------------------------------------

\* A function on 1 .. 3 is a sequence of three.
LEMMA ThreeLong ==
    ASSUME NEW S, NEW f \in [1 .. 3 -> S]
    PROVE  Len(f) = 3
<1>1. f = <<f[1], f[2], f[3]>>
  OBVIOUS
<1>2. Len(<<f[1], f[2], f[3]>>) = 3
  OBVIOUS
<1> QED
  BY <1>1, <1>2

\* The letters a client sends are the rights that are granted, in whatever
\* order it sends them (normalizePermSegment, then parsePermSet).
LEMMA SegmentKept ==
    ASSUME NEW letters
    PROVE  ParsePermSet(Normalized(letters))
             = ToSet(letters) \cap {"r", "w", "d"}
<1> DEFINE rwd == <<"r", "w", "d">>
           norm == Normalized(letters)
<1>1. norm \in [1 .. 3 -> {"r", "w", "d", "-"}]
  BY DEF Normalized
<1>2. Len(norm) = 3
  <2> HIDE DEF norm
  <2> QED
    BY <1>1, ThreeLong
<1>3. \A k \in 1 .. 3 : norm[k] = rwd[k] <=> rwd[k] \in ToSet(letters)
  BY DEF Normalized
<1>4. ParsePermSet(norm)
        = {rwd[i] : i \in {k \in 1 .. 3 : rwd[k] \in ToSet(letters)}}
  BY <1>2, <1>3 DEF ParsePermSet
<1>5. \A i \in 1 .. 3 : rwd[i] \in {"r", "w", "d"}
  OBVIOUS
<1>6. rwd[1] = "r" /\ rwd[2] = "w" /\ rwd[3] = "d"
  OBVIOUS
<1> HIDE DEF rwd
<1> QED
  BY <1>4, <1>5, <1>6

THEOREM LettersGranted ==
    ASSUME NEW group, NEW others
    PROVE  PermissionsKept(group, others)
<1> DEFINE parts == Compact(group, others)
<1>1. /\ Len(parts) = 3
      /\ parts[2] = Normalized(group)
      /\ parts[3] = Normalized(others)
  BY DEF Compact
<1>2. /\ ParsePermissions(parts).group = ParsePermSet(Normalized(group))
      /\ ParsePermissions(parts).others = ParsePermSet(Normalized(others))
  BY <1>1 DEF ParsePermissions
<1> QED
  BY <1>2, SegmentKept DEF PermissionsKept

-----------------------------------------------------------------------------
(***************************************************************************)
(* The type invariant.                                                     *)
(***************************************************************************)
CacheSets ==
    /\ cached \subseteq Keys /\ overdue \subseteq Keys
    /\ fresh \in BOOLEAN
    /\ writer \in Requests \cup {None}

LEMMA CacheSetsStep ==
    ASSUME CacheType, CacheSets, [Next]_vars
    PROVE  CacheSets'
  <1>1. published \subseteq Keys /\ \A r \in Requests : req[r].reply \subseteq Keys
    BY DEF CacheType, Request
  <1>2. ASSUME NEW r \in Requests, Arrive(r) \/ Serve(r) PROVE CacheSets'
    BY <1>1, <1>2
    DEF Arrive, Serve, Authenticate, ReadCache, LockCache, FetchKeys,
        StoreKeys, CheckScope, cache, CacheSets
  <1>3. CASE Expire
    BY <1>1, <1>3 DEF Expire, cache, CacheSets
  <1>4. ASSUME NEW k \in Keys, Publish(k) \/ Withdraw(k) PROVE CacheSets'
    BY <1>4 DEF Publish, Withdraw, cache, CacheSets
  <1>5. CASE UNCHANGED vars
    BY <1>5 DEF vars, CacheSets
  <1> QED
    BY <1>2, <1>3, <1>4, <1>5 DEF Next

(***************************************************************************)
(* The type of every variable: keys in the cache and on their way are keys *)
(* of the provider, and the lock is with one request or free.              *)
(***************************************************************************)
THEOREM TypeCorrect == Spec => []TypeOK
  <1>1. Init => CacheSets
    BY DEF Init, CacheSets
  <1>2. CacheInv /\ CacheSets /\ [Next]_vars => CacheSets'
    BY CacheSetsStep DEF CacheInv
  <1>3. CacheInv /\ CacheSets => TypeOK
    BY DEF CacheInv, CacheType, CacheSets, TypeOK
  <1> QED
    BY <1>1, <1>2, <1>3, AlwaysCached, PTL DEF Spec
=============================================================================
