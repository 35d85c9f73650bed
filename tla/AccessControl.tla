--------------------------- MODULE AccessControl ---------------------------
(***************************************************************************)
(* The pure parts of authentication and authorization: the vote of an      *)
(* authenticator chain (pkg/auth/auth.go), the expansion of roles into     *)
(* scopes and the endpoint table (pkg/auth/scope), and the permissions of  *)
(* a resource (pkg/authz).                                                 *)
(***************************************************************************)
EXTENDS Integers, FiniteSets, Sequences, SequencesExt

(***************************************************************************)
(* Three-outcome voting: the first authenticator that does not abstain     *)
(* decides, and the default when all abstain.                              *)
(***************************************************************************)
FirstVote(votes, default) ==
    LET cast == {i \in DOMAIN votes : votes[i] # "abstain"}
    IN  IF cast = {} THEN default
        ELSE votes[CHOOSE i \in cast : \A j \in cast : i <= j]

-----------------------------------------------------------------------------
(***************************************************************************)
(* Roles.  A configuration maps role names to sequences of entries; an     *)
(* entry is "*", a role, a scope (it holds a colon), or neither.  A cache  *)
(* maps a name to the set that holds its scopes, empty until resolved.     *)
(***************************************************************************)
CONSTANTS
    RoleNames,      \* names a role configuration may define
    ScopeNames      \* scopes

IsRoleReference(entry) == entry \notin ScopeNames

NotResolved == [n \in RoleNames |-> {}]

Caches == [RoleNames -> SUBSET SUBSET (ScopeNames \cup {"*"})]

(***************************************************************************)
(* resolveRole: depth first, with the path walked as "visited".            *)
(***************************************************************************)
Added(acc, found) ==
    [acc EXCEPT !.ok = found.ok, !.cache = found.cache,
                !.scopes = @ \cup found.scopes]

Failed(cache) == [ok |-> FALSE, scopes |-> {}, cache |-> cache]

ResolveRole(role, config, known) ==
    LET Resolve[name \in RoleNames, visited \in SUBSET RoleNames,
                cache \in Caches] ==
          LET Enter(acc, entry) ==
                IF ~acc.ok THEN acc
                ELSE IF entry = "*" THEN [acc EXCEPT !.scopes = @ \cup {"*"}]
                ELSE IF entry \in DOMAIN config
                THEN Added(acc, Resolve[entry, visited \cup {name}, acc.cache])
                ELSE IF IsRoleReference(entry) THEN Failed(acc.cache)
                ELSE [acc EXCEPT !.scopes = @ \cup {entry}]
              start == [ok |-> TRUE, scopes |-> {}, cache |-> cache]
              all == FoldLeft(Enter, start, config[name])
          IN  IF cache[name] # {}
              THEN [start EXCEPT !.scopes = UNION cache[name]]
              ELSE IF name \in visited THEN Failed(cache)
              ELSE IF ~all.ok THEN all
              ELSE [all EXCEPT !.cache[name] = {all.scopes}]
    IN  Resolve[role, {}, known]

\* ExpandRoles visits the configuration in the order of a map's iteration.
ExpandRoles(config, order) ==
    LET Visit(acc, role) ==
          IF acc.ok THEN ResolveRole(role, config, acc.cache) ELSE acc
        all == FoldLeft(Visit, [Failed(NotResolved) EXCEPT !.ok = TRUE], order)
    IN  [ok |-> all.ok,
         scopes |-> [r \in DOMAIN config |->
                       IF all.ok THEN UNION all.cache[r] ELSE {}]]

(***************************************************************************)
(* Reference: the roles a role leads to, the entries it grants, and the    *)
(* configurations that are refused.                                        *)
(***************************************************************************)
Refers(config) ==
    {p \in (DOMAIN config) \X (DOMAIN config) : p[2] \in ToSet(config[p[1]])}

LeadsTo(config, role) ==
    LET Reach[n \in Nat] ==
          IF n = 0 THEN {role}
          ELSE Reach[n - 1] \cup {e \in DOMAIN config :
                 \E r \in Reach[n - 1] : <<r, e>> \in Refers(config)}
    IN  Reach[Cardinality(DOMAIN config)]

Grants(config, role) ==
    UNION {ToSet(config[r]) : r \in LeadsTo(config, role)}
      \cap (ScopeNames \cup {"*"})

Cyclic(config) ==
    \E r, e \in DOMAIN config : <<r, e>> \in Refers(config)
                                /\ r \in LeadsTo(config, e)

Undefined(config) ==
    \E r \in DOMAIN config : \E e \in ToSet(config[r]) :
      e # "*" /\ e \notin DOMAIN config /\ IsRoleReference(e)

\* Whatever the order of the map, the expansion is the closure, and it fails
\* exactly on a cycle or on a role that is not defined.
ExpansionOK(config, order) ==
    LET result == ExpandRoles(config, order)
    IN  /\ result.ok <=> ~Cyclic(config) /\ ~Undefined(config)
        /\ result.ok => \A r \in DOMAIN config :
                          result.scopes[r] = Grants(config, r)

(***************************************************************************)
(* The scopes of an identity: its own and those of its roles.              *)
(***************************************************************************)
EffectiveScopes(identity, expanded) ==
    identity.scopes \cup
      UNION {expanded[r] : r \in identity.roles \cap DOMAIN expanded}

\* Without roles in the configuration, and for a path that is not in the
\* table, no scope is asked for ("").
ScopeAllows(identity, required, expanded) ==
    \/ DOMAIN expanded = {}
    \/ required = ""
    \/ {"*", required} \cap EffectiveScopes(identity, expanded) # {}

-----------------------------------------------------------------------------
(***************************************************************************)
(* The endpoint table.  A path is the sequence of its segments; "{}" in a  *)
(* pattern stands for any segment.                                         *)
(***************************************************************************)
Endpoint(method, segments, scope) ==
    [method |-> method, segments |-> segments, scope |-> scope]

DefaultEndpointScopes ==
    LET Crud(name, scopes) ==
          {Endpoint("POST", <<"v1", name>>, scopes[1]),
           Endpoint("GET", <<"v1", name>>, scopes[2]),
           Endpoint("GET", <<"v1", name, "{}">>, scopes[2]),
           Endpoint("DELETE", <<"v1", name, "{}">>, scopes[3])}
        Items(method, name, part, scope) ==
          Endpoint(method, <<"v1", name, "{}", part>>, scope)
    IN  Crud("responses",
             <<"responses:create", "responses:read", "responses:delete">>)
        \cup Crud("conversations",
             <<"conversations:create", "conversations:read",
               "conversations:delete">>)
        \cup Crud("vector_stores",
             <<"vector_stores:create", "vector_stores:read",
               "vector_stores:delete">>)
        \cup Crud("files", <<"files:create", "files:read", "files:delete">>)
        \cup {Items("GET", "responses", "input_items", "responses:read"),
              Items("GET", "conversations", "items", "conversations:read"),
              Items("POST", "conversations", "items", "conversations:write"),
              Endpoint("GET", <<"v1", "agents">>, "agents:read")}

PatternMatches(p, method, path) ==
    /\ p.method = method
    /\ Len(p.segments) = Len(path)
    /\ \A i \in DOMAIN path : p.segments[i] \in {"{}", path[i]}

\* matchEndpoint takes the first match, in the order of a map's iteration.
MatchEndpoint(table, method, path) ==
    LET matches == {p \in table : PatternMatches(p, method, path)}
    IN  IF matches = {} THEN "" ELSE (CHOOSE p \in matches : TRUE).scope

\* The choice makes no difference: no path matches two patterns.
Unambiguous(table) ==
    \A p, q \in table :
      (p # q /\ p.method = q.method /\ Len(p.segments) = Len(q.segments)) =>
        \E i \in DOMAIN p.segments :
          /\ p.segments[i] # q.segments[i]
          /\ "{}" \notin {p.segments[i], q.segments[i]}

-----------------------------------------------------------------------------
(***************************************************************************)
(* Permissions "rwd|rwd|rwd" of owner, group and others; the owner part is *)
(* fixed, and a part that does not have three letters grants nothing.      *)
(***************************************************************************)
PermSet == SUBSET {"r", "w", "d"}

ParsePermSet(part) ==
    IF Len(part) # 3 THEN {}
    ELSE {<<"r", "w", "d">>[i] : i \in {k \in 1 .. 3 :
                                          part[k] = <<"r", "w", "d">>[k]}}

ParsePermissions(parts) ==
    [owner |-> {"r", "w", "d"},
     group |-> IF Len(parts) >= 2 THEN ParsePermSet(parts[2]) ELSE {},
     others |-> IF Len(parts) >= 3 THEN ParsePermSet(parts[3]) ELSE {}]

\* An empty owner or tenant is "".
CanAccessResource(permissions, caller, owner, callerTenant, tenant) ==
    LET perms == ParsePermissions(permissions)
    IN  \/ caller # "" /\ caller = owner
        \/ "r" \in IF callerTenant # "" /\ callerTenant = tenant
                   THEN perms.group ELSE perms.others

=============================================================================
