------------------------------- MODULE Access -------------------------------
(***************************************************************************)
(* A request's way through authentication (pkg/auth): the chain of         *)
(* authenticators, of which the JWT authenticator looks its key up in a    *)
(* cache shared by all requests (pkg/auth/jwt), and the scope check        *)
(* (pkg/auth/scope).  The identity provider publishes and withdraws keys   *)
(* meanwhile.  The server installs no rate limiter (cmd/server/main.go).   *)
(***************************************************************************)
EXTENDS AccessControl

CONSTANTS
    Requests,       \* requests that may be served at the same time
    Keys,           \* key identifiers (kid) a token may name
    Credentials,    \* what a request may carry, see Credential
    Endpoints,      \* scopes a request may need, "" for none
    AuthTypes,      \* settings of auth.type the server may be started with
    RoleConfigs,    \* settings of auth.authorization.role_scopes
    None            \* stands for no key and no request

ASSUME AccessAssumption ==
    /\ None \notin Keys \cup Requests \cup Credentials
    /\ Endpoints # {}
    /\ AuthTypes \subseteq {"none", "apikey", "jwt", "chain"}

VARIABLES
    authType,   \* the authenticators of the server
    expanded,   \* scopes of each role, from ExpandRoles
    published,  \* keys in the provider's key set
    cached,     \* jwksCache.keys
    fresh,      \* fetchedAt is less than the TTL ago
    writer,     \* request that holds the cache's write lock, or None
    req,        \* each request
    overdue     \* history: keys withdrawn for longer than the cache lasted

vars == <<authType, expanded, published, cached, fresh, writer, req, overdue>>

config == <<authType, expanded>>

cache == <<cached, fresh, writer>>

(***************************************************************************)
(* "opaque" is a bearer token that is neither a configured API key nor a   *)
(* JWT; "valid" means that signature and claims of a JWT pass with its key.*)
(***************************************************************************)
Credential ==
    [kind : {"none", "empty", "apikey", "opaque", "jwt"},
     kid : Keys \cup {None}, valid : BOOLEAN,
     roles : SUBSET RoleNames, scopes : SUBSET ScopeNames]

ASSUME CredentialsAssumption == Credentials \subseteq Credential

ActiveStates == {"chain", "lookup", "lock", "fetch", "store", "scope"}

Answers == {"served", "401", "403"}

\* steady, a history: the key has been published since the request arrived.
Request ==
    [pc : ActiveStates \cup Answers \cup {"idle"},
     cred : Credentials \cup {None}, endpoint : Endpoints,
     reply : SUBSET Keys, steady : BOOLEAN]

Idle == [pc |-> "idle", cred |-> None, endpoint |-> CHOOSE e \in Endpoints : TRUE,
         reply |-> {}, steady |-> FALSE]

TypeOK ==
    /\ authType \in AuthTypes
    /\ published \subseteq Keys
    /\ cached \subseteq Keys
    /\ fresh \in BOOLEAN
    /\ writer \in Requests \cup {None}
    /\ req \in [Requests -> Request]
    /\ overdue \subseteq Keys

Init ==
    /\ authType \in AuthTypes
    /\ \E roles \in RoleConfigs :
         LET result == ExpandRoles(roles, SetToSeq(DOMAIN roles))
         IN  result.ok /\ expanded = result.scopes
    /\ published \in SUBSET Keys
    /\ cached = {}
    /\ fresh = FALSE
    /\ writer = None
    /\ req = [r \in Requests |-> Idle]
    /\ overdue = {}

-----------------------------------------------------------------------------
(***************************************************************************)
(* The authenticators and their votes.  "lookup" is the vote of a JWT      *)
(* whose key has to be looked up first.                                    *)
(***************************************************************************)
Chain(type) ==
    CASE type = "apikey" -> <<"apikey">>
      [] type = "jwt"    -> <<"jwt">>
      [] type = "chain"  -> <<"apikey", "jwt">>
      [] type = "none"   -> << >>

APIKeyVote(cred) ==
    CASE cred.kind = "none"   -> "abstain"
      [] cred.kind = "apikey" -> "scope"
      [] OTHER                -> "401"

JWTVote(cred) ==
    CASE cred.kind = "none"  -> "abstain"
      [] cred.kind = "jwt"   -> "lookup"
      [] OTHER               -> "401"

Votes(type, cred) ==
    LET chain == Chain(type)
    IN  [i \in DOMAIN chain |-> IF chain[i] = "apikey" THEN APIKeyVote(cred)
                                                       ELSE JWTVote(cred)]

Goto(r, pc) ==
    req' = [req EXCEPT ![r] = IF pc \in Answers THEN [Idle EXCEPT !.pc = pc]
                              ELSE [@ EXCEPT !.pc = pc, !.reply = {}]]

Arrive(r) ==
    /\ req[r].pc \in Answers \cup {"idle"}
    /\ \E cred \in Credentials, endpoint \in Endpoints :
         req' = [req EXCEPT ![r] =
                   [Idle EXCEPT !.pc = "chain", !.cred = cred,
                                !.endpoint = endpoint,
                                !.steady = cred.kid \in published]]
    /\ UNCHANGED <<config, published, cache, overdue>>

\* Without authentication no middleware is installed, and the scope check
\* lets a request without identity pass.
Authenticate(r) ==
    /\ req[r].pc = "chain"
    /\ Goto(r, IF authType = "none" THEN "served"
               ELSE FirstVote(Votes(authType, req[r].cred), "401"))
    /\ UNCHANGED <<config, published, cache, overdue>>

-----------------------------------------------------------------------------
(***************************************************************************)
(* jwksCache.getKey: under the read lock, then under the write lock, which *)
(* is held while the key set is fetched.                                   *)
(***************************************************************************)
Hit(r) == req[r].cred.kid \in cached /\ fresh

\* With the key at hand the token is verified.
Verified(r) == IF req[r].cred.valid THEN "scope" ELSE "401"

ReadCache(r) ==
    /\ req[r].pc = "lookup"
    /\ writer = None
    /\ Goto(r, IF Hit(r) THEN Verified(r) ELSE "lock")
    /\ UNCHANGED <<config, published, cache, overdue>>

\* Variant with a bug: the second check takes a fresh cache for a complete one.
LockCacheTrusting(r) ==
    /\ req[r].pc = "lock"
    /\ writer = None
    /\ IF fresh
       THEN /\ Goto(r, IF Hit(r) THEN Verified(r) ELSE "401")
            /\ UNCHANGED writer
       ELSE Goto(r, "fetch") /\ writer' = r
    /\ UNCHANGED <<config, published, cached, fresh, overdue>>

LockCache(r) ==
    /\ req[r].pc = "lock"
    /\ writer = None
    /\ IF Hit(r) THEN Goto(r, Verified(r)) /\ UNCHANGED writer
                 ELSE Goto(r, "fetch") /\ writer' = r
    /\ UNCHANGED <<config, published, cached, fresh, overdue>>

\* Variant with a bug: a fetch that fails keeps the lock.
FetchKeysLocked(r) ==
    /\ req[r].pc = "fetch"
    /\ \/ req' = [req EXCEPT ![r].pc = "store", ![r].reply = published]
       \/ Goto(r, "401")
    /\ UNCHANGED <<config, published, cache, overdue>>

(***************************************************************************)
(* fetchJWKS: the provider answers with its key set, or the request fails: *)
(* no connection, another status, a body that does not parse, or the       *)
(* client of this request went away, whose context the fetch uses.         *)
(***************************************************************************)
FetchKeys(r) ==
    /\ req[r].pc = "fetch"
    /\ \/ /\ req' = [req EXCEPT ![r].pc = "store", ![r].reply = published]
          /\ UNCHANGED writer
       \/ Goto(r, "401") /\ writer' = None
    /\ UNCHANGED <<config, published, cached, fresh, overdue>>

\* Variant with a bug: the keys are added to those the cache holds.
StoreKeysMerging(r) ==
    /\ req[r].pc = "store"
    /\ cached' = cached \cup req[r].reply
    /\ fresh' = TRUE
    /\ writer' = None
    /\ Goto(r, IF req[r].cred.kid \in cached' THEN Verified(r) ELSE "401")
    /\ UNCHANGED <<config, published, overdue>>

StoreKeys(r) ==
    /\ req[r].pc = "store"
    /\ cached' = req[r].reply
    /\ fresh' = TRUE
    /\ writer' = None
    /\ Goto(r, IF req[r].cred.kid \in cached' THEN Verified(r) ELSE "401")
    /\ UNCHANGED <<config, published, overdue>>

-----------------------------------------------------------------------------
\* The scope check of a request that has an identity.
CheckScope(r) ==
    /\ req[r].pc = "scope"
    /\ Goto(r, IF ScopeAllows(req[r].cred, req[r].endpoint, expanded)
               THEN "served" ELSE "403")
    /\ UNCHANGED <<config, published, cache, overdue>>

-----------------------------------------------------------------------------
(***************************************************************************)
(* The cache's age and the identity provider.                              *)
(***************************************************************************)
\* Keys of replies that are on their way.
OnTheWay == UNION {req[r].reply : r \in Requests}

\* The TTL of the cache ends.
Expire ==
    /\ fresh
    /\ fresh' = FALSE
    /\ overdue' = overdue \cup (cached \ (published \cup OnTheWay))
    /\ UNCHANGED <<config, published, cached, writer, req>>

Publish(k) ==
    /\ k \notin published
    /\ published' = published \cup {k}
    /\ overdue' = overdue \ {k}
    /\ UNCHANGED <<config, cache, req>>

Withdraw(k) ==
    /\ k \in published
    /\ published' = published \ {k}
    /\ req' = [r \in Requests |->
                 IF req[r].cred = None THEN req[r]
                 ELSE [req[r] EXCEPT !.steady = @ /\ req[r].cred.kid # k]]
    /\ UNCHANGED <<config, cache, overdue>>

Serve(r) ==
    \/ Authenticate(r) \/ ReadCache(r) \/ LockCache(r) \/ FetchKeys(r)
    \/ StoreKeys(r) \/ CheckScope(r)

Next ==
    \/ \E r \in Requests : Arrive(r) \/ Serve(r)
    \/ Expire
    \/ \E k \in Keys : Publish(k) \/ Withdraw(k)

(***************************************************************************)
(* Handlers run, and waiters of the lock get their turn, hence strong.  A  *)
(* fetch need not end: the HTTP client of the cache has no timeout.        *)
(***************************************************************************)
Fairness ==
    \A r \in Requests : SF_vars(Serve(r) /\ req[r].pc # "fetch")

Spec == Init /\ [][Next]_vars /\ Fairness

-----------------------------------------------------------------------------
\* A key the provider withdrew is not accepted any more once the cache that
\* still held it has expired, however fetches, rotations and the lock
\* interleave (getKey, fetchJWKS).
NoOverdueKey ==
    [][\A r \in Requests :
         (req[r].pc \in {"lookup", "lock", "store"} /\ req'[r].pc = "scope")
           => req[r].cred.kid \notin overdue]_vars

\* A key that was added is found at once, also by requests that waited for
\* another's fetch; only a fetch of its own that fails refuses such a token
\* (getKey).
KnownKeyAccepted ==
    [][\A r \in Requests :
         req[r].pc \in {"lookup", "lock", "store"} /\ req'[r].pc = "401"
           => ~(req[r].cred.valid /\ req[r].steady)]_vars

(***************************************************************************)
(* Every request is answered, although all of them pass one lock, as long  *)
(* as no fetch of the key set is left without an answer.  The condition    *)
(* speaks of every request: one fetch that hangs under the lock stops all  *)
(* tokens (getKey).                                                        *)
(***************************************************************************)
Answered ==
    (\A q \in Requests : []<>(req[q].pc # "fetch"))
      => \A r \in Requests : req[r].pc = "chain" ~> req[r].pc \in Answers

=============================================================================
