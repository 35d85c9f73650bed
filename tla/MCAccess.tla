----------------------------- MODULE MCAccess -----------------------------
(***************************************************************************)
(* Instances of Access for TLC, and the pure operators over bounded inputs.*)
(***************************************************************************)
EXTENDS Access, Visibility, TLC

CONSTANTS r1, r2, k1, k2

\* A role that grants a scope, and one that refers to it.
MCRoleConfigs ==
    {[r \in {"user", "editor"} |->
        IF r = "user" THEN <<"files:read">> ELSE <<"user">>]}

MCCredentials ==
    LET key == [kind |-> "apikey", kid |-> None, valid |-> FALSE,
                roles |-> {}, scopes |-> {}]
        token == [key EXCEPT !.kind = "jwt", !.kid = k1, !.valid = TRUE,
                             !.roles = {"editor"}]
    IN  {[key EXCEPT !.kind = "none"], [key EXCEPT !.kind = "opaque"], key,
         token, [token EXCEPT !.kid = k2], [token EXCEPT !.valid = FALSE]}

-----------------------------------------------------------------------------
(***************************************************************************)
(* The pure operators, over all configurations of two roles with at most   *)
(* two entries each and a third role that refers to both.                  *)
(***************************************************************************)
Entries == {"user", "editor", "files:read", "*", "missing"}

Rows == {<< >>} \cup {<<e>> : e \in Entries}
                \cup {<<e, f>> : e, f \in Entries}

Configs ==
    {[r \in RoleNames |-> CASE r = "user"   -> rows[1]
                            [] r = "editor" -> rows[2]
                            [] r = "admin"  -> <<"user", "editor">>] :
       rows \in Rows \X Rows}

Orders == {<<"user", "editor", "admin">>, <<"admin", "editor", "user">>}

ASSUME RolesExpand == \A c \in Configs, o \in Orders : ExpansionOK(c, o)

ASSUME EndpointsMatch ==
    /\ Unambiguous(DefaultEndpointScopes)
    /\ MatchEndpoint(DefaultEndpointScopes, "GET",
                     <<"v1", "responses", "r1", "input_items">>)
         = "responses:read"
    /\ MatchEndpoint(DefaultEndpointScopes, "GET", <<"v1", "models">>) = ""

\* A part that is missing, or is not three letters long, grants nothing: only
\* the owner reads a resource without permissions.
ASSUME PermissionsDefault ==
    \A parts \in {<< >>, <<"rwd">>, <<"rwd", <<"r", "w">>, <<"r">>>>} :
      \A caller, owner, mine, its \in {"", "a", "b"} :
        CanAccessResource(parts, caller, owner, mine, its)
          <=> caller # "" /\ caller = owner

(***************************************************************************)
(* Who sees what, over two owners and two tenants and those that have      *)
(* none.                                                                   *)
(***************************************************************************)
Callers ==
    LET identities == [subject : {"a", "b"}, tenant : {"", "t", "u"},
                       roles : SUBSET {"admin"}]
    IN  {Anonymous} \cup {CallerOf(i, r) : i \in identities, r \in {"", "admin"}}

Letters == {<< >>, <<"r">>, <<"w", "r">>, <<"d", "x">>}

Resources ==
    [owner : {"", "a", "b"}, tenant : {"", "t", "u"},
     permissions : {<< >>} \cup {Compact(g, o) : g, o \in Letters}]

ASSUME SeenAlike ==
    \A c \in Callers, r \in Resources :
      ResponsesAgree(c, r) /\ StoresAgree(c, {r})

ASSUME LettersKept == \A g, o \in Letters : PermissionsKept(g, o)

=============================================================================
