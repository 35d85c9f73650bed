----------------------------- MODULE Visibility -----------------------------
(***************************************************************************)
(* Which resources a caller sees, per tenant, owner, admin flag and        *)
(* permissions: the scoping of the response and conversation stores        *)
(* (pkg/storage), of vector stores and their search (builtins/filesearch), *)
(* and of files (pkg/files).  Every store answers the question anew in     *)
(* each of its handlers.  Writes are another matter: the handlers of a     *)
(* vector store's files ask for no owner of the store.                     *)
(*                                                                         *)
(* A caller is a record of its owner, tenant and admin flag, a resource    *)
(* one of its owner, tenant and permissions; "" is an owner or a tenant    *)
(* that is not there, << >> the default permissions.                       *)
(***************************************************************************)
EXTENDS AccessControl

\* What the middleware puts into a request's context; without authentication
\* nothing is there.
Anonymous == [owner |-> "", tenant |-> "", admin |-> FALSE]

CallerOf(identity, adminRole) ==
    [owner |-> identity.subject, tenant |-> identity.tenant,
     admin |-> adminRole # "" /\ adminRole \in identity.roles]

InScope(caller, resource) ==
    caller.tenant = "" \/ caller.tenant = resource.tenant

\* The permissions of a request: letters in any order, "" for none.
Normalized(letters) ==
    [i \in 1 .. 3 |-> LET letter == <<"r", "w", "d">>[i]
                      IN  IF letter \in ToSet(letters) THEN letter ELSE "-"]

Compact(group, others) ==
    << <<"r", "w", "d">>, Normalized(group), Normalized(others) >>

\* canAccessResource: the permissions, or the default, which is private.
Shared(caller, resource) ==
    CanAccessResource(IF resource.permissions = << >>
                        THEN Compact(<< >>, << >>) ELSE resource.permissions,
                      caller.owner, resource.owner,
                      caller.tenant, resource.tenant)

-----------------------------------------------------------------------------
(***************************************************************************)
(* Responses, conversations and vector stores: ownerAllowed,               *)
(* convOwnerAllowed and vsOwnerAllowed are the same function.              *)
(***************************************************************************)
OwnerAllowed(caller, resource, writeOp) ==
    \/ caller.owner = ""
    \/ ~writeOp /\ caller.admin
    \/ resource.owner \in {"", caller.owner}

\* The loops of the list handlers have a condition of their own.
ForeignTo(caller, resource) ==
    /\ caller.owner # ""
    /\ ~caller.admin
    /\ resource.owner # ""
    /\ resource.owner # caller.owner

\* GetResponse, GetInputItems and GetConversation, and their lists.
GetsResponse(caller, resource) ==
    InScope(caller, resource) /\ OwnerAllowed(caller, resource, FALSE)

ListsResponse(caller, resource) ==
    InScope(caller, resource) /\ ~ForeignTo(caller, resource)

\* The condition of the SQL queries.
SelectsRow(caller, row) ==
    /\ caller.tenant # "" => row.tenant = caller.tenant
    /\ caller.owner # "" /\ ~caller.admin
         => row.owner = "" \/ row.owner = caller.owner

-----------------------------------------------------------------------------
(***************************************************************************)
(* Vector stores: shared across tenants by their permissions.              *)
(***************************************************************************)
GetsStore(caller, store) ==
    IF ~InScope(caller, store) THEN Shared(caller, store)
    ELSE OwnerAllowed(caller, store, FALSE) \/ Shared(caller, store)

\* MetadataStore.List and, for a caller with a tenant, ListAll.
Collected(caller, stores) ==
    {s \in stores : InScope(caller, s)}
      \cup {s \in stores : caller.tenant # "" /\ s.tenant # caller.tenant
                             /\ Shared(caller, s)}

ListsStores(caller, stores) ==
    {s \in Collected(caller, stores) :
       ForeignTo(caller, s) => Shared(caller, s)}

\* Execute: the stores a call names, or all that are collected.
SearchesNamed(caller, stores, named) ==
    {s \in stores \cap named :
       /\ caller.tenant # "" /\ s.tenant # caller.tenant => Shared(caller, s)
       /\ ForeignTo(caller, s) => Shared(caller, s)}

Searches(caller, stores, named) ==
    IF named = {} THEN ListsStores(caller, stores)
    ELSE SearchesNamed(caller, stores, named)

-----------------------------------------------------------------------------
(***************************************************************************)
(* Files: no tenant boundary, no admin, no files without an owner for all. *)
(***************************************************************************)
GetsFile(caller, file) ==
    caller.owner \in {"", file.owner} \/ Shared(caller, file)

-----------------------------------------------------------------------------
(***************************************************************************)
(* What holds of them, for every caller and resource.                      *)
(***************************************************************************)

\* A response is listed exactly when it can be fetched, by the memory store
\* and by the database's queries alike (ListResponses, GetResponse).
ResponsesAgree(caller, resource) ==
    /\ ListsResponse(caller, resource) <=> GetsResponse(caller, resource)
    /\ SelectsRow(caller, resource) <=> GetsResponse(caller, resource)

\* A vector store is listed, and searched when named or when no store is,
\* exactly when it can be fetched (handleListStores, Execute,
\* handleGetStore).
StoresAgree(caller, stores) ==
    \A s \in stores :
      /\ s \in ListsStores(caller, stores) <=> GetsStore(caller, s)
      /\ s \in Searches(caller, stores, {s}) <=> GetsStore(caller, s)
      /\ s \in Searches(caller, stores, {}) <=> GetsStore(caller, s)

\* The permissions a client asks for are those that are granted: its letters,
\* in whatever order (toCompactPermissions, parseFilePermissions, and
\* ParsePermissions on every access).
PermissionsKept(group, others) ==
    LET kept == ParsePermissions(Compact(group, others))
    IN  /\ kept.group = ToSet(group) \cap {"r", "w", "d"}
        /\ kept.others = ToSet(others) \cap {"r", "w", "d"}

=============================================================================
