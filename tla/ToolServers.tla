---------------------------- MODULE ToolServers -----------------------------
(***************************************************************************)
(* Tool calls that leave the gateway: the MCP executor with its lazy       *)
(* discovery (pkg/tools/mcp/executor.go), the OAuth token its requests     *)
(* carry (auth.go), and the code interpreter with the sandbox it claims or *)
(* shares (pkg/tools/builtins/codeinterpreter, cmd/sandbox-server).  The   *)
(* calls of a turn run in goroutines of their own and share all of it.     *)
(***************************************************************************)
EXTENDS Integers, FiniteSets

CONSTANTS
    Calls,      \* tool calls, each made once
    Servers,    \* MCP servers
    Secured,    \* the one whose requests carry an OAuth token
    Tools,      \* names of tools
    Builtin,    \* the tools the code interpreter answers
    Offers,     \* the tools each MCP server lists
    Modes,      \* "claim": a sandbox per call; "static": one for all
    Capacity,   \* executions the shared sandbox server admits
    Lifetime,   \* expires_in of a token
    FetchTime,  \* timeout of a token request
    MaxClock,   \* bound on the clock
    MaxFaults,  \* bound on replies of the cluster that are lost, and crashes
    None        \* no call, server or tool

ASSUME ToolAssumption ==
    /\ None \notin Calls \cup Servers \cup Tools
    /\ Secured \in Servers
    /\ Builtin \subseteq Tools
    /\ Offers \in [Servers -> SUBSET Tools]
    /\ Modes \subseteq {"claim", "static"}
    /\ Capacity \in Nat \ {0}
    /\ Lifetime \in Nat /\ FetchTime \in Nat
    /\ MaxClock \in Nat /\ MaxFaults \in Nat

VARIABLES
    mode,       \* how the code interpreter gets its sandbox
    call,       \* the goroutine of each call
    discovered, \* the executor has asked its servers
    route,      \* toolToServer
    writer,     \* who holds the executor's lock for writing
    pending,    \* servers the discovery has still to ask
    asked,      \* history: how often each server was asked to list its tools
    listed,     \* history: servers whose list arrived
    clock,
    token,      \* the cached token: when it expires, when to renew it
    renewing,   \* who holds the token's mutex, and since when
    claim,      \* each call's SandboxClaim as the cluster has it
    load,       \* currentLoad of the shared sandbox server
    exec,       \* each call's request at the shared sandbox server
    faults,     \* lost replies and crashes so far
    excused     \* history: calls that lost a reply, a delete or the gateway

executorVars == <<discovered, route, writer, pending, asked, listed>>

tokenVars == <<token, renewing>>

sandboxVars == <<claim, load, exec, faults, excused>>

vars == <<mode, call, executorVars, clock, tokenVars, sandboxVars>>

(***************************************************************************)
(* stage tells what an MCP request is for, the discovery a call makes on   *)
(* its way or the call itself; server is the one it goes to.               *)
(***************************************************************************)
PCs == {"idle", "ask", "lock", "discover", "headers", "fetch", "send",
        "route", "create", "wait", "execute", "reply", "release",
        "answered", "lost"}

Call == [pc : PCs, tool : Tools \cup {None}, server : Servers \cup {None},
         stage : {"discover", "call"}]

NoCall == [pc |-> "idle", tool |-> None, server |-> None, stage |-> "call"]

NoToken == [expiry |-> 0, renew |-> 0, there |-> FALSE]

TypeOK ==
    /\ mode \in Modes
    /\ call \in [Calls -> Call]
    /\ discovered \in BOOLEAN
    /\ route \in [Tools -> Servers \cup {None}]
    /\ writer \in Calls \cup {None}
    /\ pending \subseteq Servers /\ listed \subseteq Servers
    /\ asked \in [Servers -> Nat]
    /\ clock \in 0..MaxClock
    /\ token \in [expiry : Nat, renew : Nat, there : BOOLEAN]
    /\ token.renew <= token.expiry
    /\ renewing \in [by : Calls \cup {None}, since : 0..MaxClock]
    /\ claim \in [Calls -> {"none", "bound", "deleted"}]
    /\ load \in Nat
    /\ exec \in [Calls -> {"none", "running", "refused", "done"}]
    /\ faults \in 0..MaxFaults
    /\ excused \subseteq Calls

Init ==
    /\ mode \in Modes
    /\ call = [c \in Calls |-> NoCall]
    /\ discovered = FALSE
    /\ route = [t \in Tools |-> None]
    /\ writer = None
    /\ pending = {}
    /\ asked = [s \in Servers |-> 0]
    /\ listed = {}
    /\ clock = 0
    /\ token = NoToken
    /\ renewing = [by |-> None, since |-> 0]
    /\ claim = [c \in Calls |-> "none"]
    /\ load = 0
    /\ exec = [c \in Calls |-> "none"]
    /\ faults = 0
    /\ excused = {}

At(c, pc) == call[c].pc = pc

Goto(c, pc) == call' = [call EXCEPT ![c].pc = pc]

-----------------------------------------------------------------------------
(***************************************************************************)
(* findExecutor: the MCP executor is asked first, and what it is asked is  *)
(* behind ensureDiscovered.                                                *)
(***************************************************************************)
Start(c, tool) ==
    /\ At(c, "idle")
    /\ call' = [call EXCEPT ![c] = [NoCall EXCEPT !.pc = "ask", !.tool = tool]]
    /\ UNCHANGED <<mode, executorVars, clock, tokenVars, sandboxVars>>

\* The check under the read lock.
Ask(c) ==
    /\ At(c, "ask")
    /\ writer = None
    /\ Goto(c, IF discovered THEN "route" ELSE "lock")
    /\ UNCHANGED <<mode, executorVars, clock, tokenVars, sandboxVars>>

\* Variant with a bug: not checked again under the write lock.
LockUnchecked(c) ==
    /\ At(c, "lock")
    /\ writer = None
    /\ writer' = c
    /\ pending' = Servers
    /\ Goto(c, "discover")
    /\ UNCHANGED <<mode, discovered, route, asked, listed, clock, tokenVars,
                   sandboxVars>>

\* The write lock, and the check under it.
Lock(c) ==
    /\ At(c, "lock")
    /\ writer = None
    /\ IF discovered
         THEN Goto(c, "route") /\ UNCHANGED <<writer, pending>>
         ELSE Goto(c, "discover") /\ writer' = c /\ pending' = Servers
    /\ UNCHANGED <<mode, discovered, route, asked, listed, clock, tokenVars,
                   sandboxVars>>

\* The next server, in the order of a map: any.
AskServer(c, s) ==
    /\ At(c, "discover")
    /\ s \in pending
    /\ pending' = pending \ {s}
    /\ asked' = [asked EXCEPT ![s] = @ + 1]
    /\ call' = [call EXCEPT ![c].server = s, ![c].stage = "discover",
                            ![c].pc = "headers"]
    /\ UNCHANGED <<mode, discovered, route, writer, listed, clock, tokenVars,
                   sandboxVars>>

\* Variant with a bug: servers that failed leave the discovery open, locked.
DiscoveredAllOnly(c) ==
    /\ At(c, "discover")
    /\ pending = {} /\ listed = Servers
    /\ discovered' = TRUE
    /\ writer' = None
    /\ Goto(c, "route")
    /\ UNCHANGED <<mode, route, pending, asked, listed, clock, tokenVars,
                   sandboxVars>>

\* All were asked; what failed is not asked again.
Discovered(c) ==
    /\ At(c, "discover")
    /\ pending = {}
    /\ discovered' = TRUE
    /\ writer' = None
    /\ Goto(c, "route")
    /\ UNCHANGED <<mode, route, pending, asked, listed, clock, tokenVars,
                   sandboxVars>>

(***************************************************************************)
(* CanExecute and Execute: the server that provides the tool, the builtin  *)
(* provider, or an answer that there is none.                              *)
(***************************************************************************)
Route(c) ==
    /\ At(c, "route")
    /\ writer = None
    /\ LET t == call[c].tool
       IN  call' = [call EXCEPT
             ![c].server = route[t], ![c].stage = "call",
             ![c].pc = IF route[t] # None THEN "headers"
                       ELSE IF t \notin Builtin THEN "answered"
                       ELSE IF mode = "claim" THEN "create" ELSE "execute"]
    /\ UNCHANGED <<mode, executorVars, clock, tokenVars, sandboxVars>>

-----------------------------------------------------------------------------
(***************************************************************************)
(* The token.  It is renewed when four fifths of its life, in whole        *)
(* seconds, are over.                                                      *)
(***************************************************************************)
RenewAfter(expiresIn) == (expiresIn * 8) \div 10

\* GetHeaders, up to the request it makes while it holds the mutex.  A server
\* without OAuth gets the headers of its configuration.
GetHeaders(c) ==
    /\ At(c, "headers")
    /\ \/ /\ call[c].server # Secured
          /\ Goto(c, "send") /\ UNCHANGED renewing
       \/ /\ call[c].server = Secured
          /\ renewing.by = None
          /\ IF token.there /\ clock < token.renew
               THEN Goto(c, "send") /\ UNCHANGED renewing
               ELSE Goto(c, "fetch") /\ renewing' = [by |-> c, since |-> clock]
    /\ UNCHANGED <<mode, executorVars, clock, token, sandboxVars>>

\* The token counts from the moment the mutex was taken.
FetchSucceeds(c) ==
    /\ At(c, "fetch")
    /\ token' = [expiry |-> renewing.since + Lifetime,
                 renew |-> renewing.since + RenewAfter(Lifetime),
                 there |-> TRUE]
    /\ renewing' = [renewing EXCEPT !.by = None]
    /\ Goto(c, "send")
    /\ UNCHANGED <<mode, executorVars, clock, sandboxVars>>

\* A request that cannot be sent: an error, for the discovery or the call.
Unsent(c) ==
    IF call[c].stage = "discover" THEN "discover" ELSE "answered"

\* Variant with a bug: any cached token will do.
StillValidAlways == token.there

\* Whether the cached token had not expired when the mutex was taken.
StillValid == token.there /\ renewing.since < token.expiry

FetchFails(c) ==
    /\ At(c, "fetch")
    /\ renewing' = [renewing EXCEPT !.by = None]
    /\ Goto(c, IF StillValid THEN "send" ELSE Unsent(c))
    /\ UNCHANGED <<mode, executorVars, clock, token, sandboxVars>>

\* The client of a token request gives up in time.
Tick ==
    /\ clock < MaxClock
    /\ renewing.by # None => clock - renewing.since < FetchTime
    /\ clock' = clock + 1
    /\ UNCHANGED <<mode, call, executorVars, tokenVars, sandboxVars>>

-----------------------------------------------------------------------------
\* Variant with a bug: the last server that lists a tool provides it.
RoutesLast(s) ==
    [t \in Tools |-> IF t \in Offers[s] THEN s ELSE route[t]]

\* The first server that lists a tool provides it.
Routes(s) ==
    [t \in Tools |-> IF t \in Offers[s] /\ route[t] = None THEN s ELSE route[t]]

\* tools/list is answered.
ListArrives(c) ==
    /\ At(c, "send") /\ call[c].stage = "discover"
    /\ listed' = listed \cup {call[c].server}
    /\ route' = Routes(call[c].server)
    /\ Goto(c, "discover")
    /\ UNCHANGED <<mode, discovered, writer, pending, asked, clock, tokenVars,
                   sandboxVars>>

\* tools/list fails: the server is left out.
ListFails(c) ==
    /\ At(c, "send") /\ call[c].stage = "discover"
    /\ Goto(c, "discover")
    /\ UNCHANGED <<mode, executorVars, clock, tokenVars, sandboxVars>>

\* tools/call is answered, with a result or an error the model is shown.
CallReturns(c) ==
    /\ At(c, "send") /\ call[c].stage = "call"
    /\ Goto(c, "answered")
    /\ UNCHANGED <<mode, executorVars, clock, tokenVars, sandboxVars>>

-----------------------------------------------------------------------------
(***************************************************************************)
(* ClaimAcquirer.Acquire.  The cluster creates the claim, refuses to, or   *)
(* creates it and its reply is lost.                                       *)
(***************************************************************************)
CreateClaim(c) ==
    /\ At(c, "create")
    /\ \/ /\ claim' = [claim EXCEPT ![c] = "bound"]
          /\ Goto(c, "wait")
          /\ UNCHANGED <<faults, excused>>
       \/ /\ Goto(c, "answered")
          /\ UNCHANGED <<claim, faults, excused>>
       \/ /\ faults < MaxFaults
          /\ faults' = faults + 1
          /\ excused' = excused \cup {c}
          /\ claim' = [claim EXCEPT ![c] = "bound"]
          /\ Goto(c, "answered")
    /\ UNCHANGED <<mode, executorVars, clock, tokenVars, load, exec>>

\* waitForReady: the sandbox is ready.
SandboxReady(c) ==
    /\ At(c, "wait")
    /\ Goto(c, "execute")
    /\ UNCHANGED <<mode, executorVars, clock, tokenVars, sandboxVars>>

\* Variant with a bug: a wait that fails returns without cleaning up.
WaitEndsUncleaned(c) ==
    /\ At(c, "wait")
    /\ Goto(c, "answered")
    /\ UNCHANGED <<mode, executorVars, clock, tokenVars, sandboxVars>>

\* waitForReady: the timeout passes or the request is cancelled.
WaitEnds(c) ==
    /\ At(c, "wait")
    /\ Goto(c, "release")
    /\ UNCHANGED <<mode, executorVars, clock, tokenVars, sandboxVars>>

\* deleteClaim: an error is logged and the claim stays.
Release(c) ==
    /\ At(c, "release")
    /\ \/ /\ claim' = [claim EXCEPT ![c] = "deleted"]
          /\ UNCHANGED <<faults, excused>>
       \/ /\ faults < MaxFaults
          /\ faults' = faults + 1
          /\ excused' = excused \cup {c}
          /\ UNCHANGED claim
    /\ Goto(c, "answered")
    /\ UNCHANGED <<mode, executorVars, clock, tokenVars, load, exec>>

(***************************************************************************)
(* SandboxClient.Execute.  The sandbox of a claim has one call at a time;  *)
(* the shared one counts its requests before it looks at the count.        *)
(***************************************************************************)
Finish(c) == IF mode = "claim" THEN "release" ELSE "answered"

ExecuteClaimed(c) ==
    /\ At(c, "execute") /\ mode = "claim"
    /\ Goto(c, "release")
    /\ UNCHANGED <<mode, executorVars, clock, tokenVars, sandboxVars>>

\* Variant with a bug: compared to the count before this request.
AdmitLate(c) == IF load > Capacity THEN "refused" ELSE "running"

\* handleExecute: Add returns this request's own count.
Admit(c) == IF load + 1 > Capacity THEN "refused" ELSE "running"

Enter(c) ==
    /\ At(c, "execute") /\ mode = "static"
    /\ load' = load + 1
    /\ exec' = [exec EXCEPT ![c] = Admit(c)]
    /\ Goto(c, "reply")
    /\ UNCHANGED <<mode, executorVars, clock, tokenVars, claim, faults, excused>>

\* The code ended, timed out or was killed, or the request was refused.
Leave(c) ==
    /\ exec[c] \in {"running", "refused"}
    /\ load' = load - 1
    /\ exec' = [exec EXCEPT ![c] = "done"]
    /\ UNCHANGED <<mode, call, executorVars, clock, tokenVars, claim, faults,
                   excused>>

\* The client has the reply, or stops waiting before the server is done.
ExecuteReturns(c) ==
    /\ At(c, "reply")
    /\ Goto(c, "answered")
    /\ UNCHANGED <<mode, executorVars, clock, tokenVars, sandboxVars>>

(***************************************************************************)
(* The gateway crashes and starts again: what it held in memory is gone.   *)
(***************************************************************************)
InFlight == {c \in Calls : call[c].pc \notin {"idle", "answered", "lost"}}

Crash ==
    /\ faults < MaxFaults
    /\ faults' = faults + 1
    /\ call' = [c \in Calls |-> IF c \in InFlight
                                  THEN [call[c] EXCEPT !.pc = "lost"]
                                  ELSE call[c]]
    /\ excused' = excused \cup InFlight
    /\ discovered' = FALSE
    /\ route' = [t \in Tools |-> None]
    /\ writer' = None
    /\ pending' = {}
    /\ asked' = [s \in Servers |-> 0]
    /\ listed' = {}
    /\ token' = NoToken
    /\ renewing' = [renewing EXCEPT !.by = None]
    /\ UNCHANGED <<mode, clock, claim, load, exec>>

-----------------------------------------------------------------------------
\* The steps of a goroutine, and of the requests that have a timeout.
Local(c) ==
    \/ Ask(c) \/ Lock(c) \/ Discovered(c) \/ Route(c)
    \/ \E s \in Servers : AskServer(c, s)
    \/ GetHeaders(c) \/ FetchSucceeds(c) \/ FetchFails(c)
    \/ ExecuteClaimed(c) \/ Enter(c) \/ ExecuteReturns(c)

\* The ends of the requests without one, to an MCP server or the cluster.
Reply(c) ==
    \/ ListArrives(c) \/ ListFails(c) \/ CallReturns(c)
    \/ CreateClaim(c) \/ SandboxReady(c) \/ WaitEnds(c) \/ Release(c)

Step(c) == Local(c) \/ Reply(c)

Next ==
    \/ \E c \in Calls : Step(c) \/ Leave(c) \/ \E t \in Tools : Start(c, t)
    \/ Tick
    \/ Crash

(***************************************************************************)
(* Goroutines run, waiters of a lock get their turn, and the requests for  *)
(* a token and to a sandbox end by their timeouts.  Those to an MCP server *)
(* and to the cluster (Create, Get, Delete of a claim) have none and need  *)
(* not end; the discovery has not even a context that could be cancelled.  *)
(***************************************************************************)
Fairness == \A c \in Calls : SF_vars(Local(c)) /\ WF_vars(Leave(c))

Spec == Init /\ [][Next]_vars /\ Fairness

-----------------------------------------------------------------------------
(***************************************************************************)
(* ensureDiscovered: however many calls find nothing discovered at the     *)
(* same time, each server lists its tools once.                            *)
(***************************************************************************)
AskedOnce == \A s \in Servers : asked[s] <= 1

(***************************************************************************)
(* toolToServer: which server provides a tool does not change while the    *)
(* gateway runs, although two servers list it and other calls are in       *)
(* flight (the first one listed keeps it).                                 *)
(***************************************************************************)
ProviderKept ==
    [][\A t \in Tools :
         route[t] # None => route'[t] = route[t] \/ faults' > faults]_vars

\* A call waits for a request that may never end; for a list of tools, which
\* it does while it holds the executor's lock.
Waiting(c) == call[c].pc \in {"send", "create", "wait", "release"}

Listing(c) == At(c, "send") /\ call[c].stage = "discover"

(***************************************************************************)
(* Every call whose own requests end is answered or lost in a crash,       *)
(* unless a server never answers the request for its list: that one keeps  *)
(* the lock, and every call waits (ensureDiscovered).  Nothing else that   *)
(* fails or hangs keeps others waiting: a server that cannot list its      *)
(* tools, a token that cannot be had, a claim that is not bound, another   *)
(* call without an answer, a refusal of the sandbox.                       *)
(***************************************************************************)
CallsAnswered ==
    (\A d \in Calls : []<>~Listing(d)) =>
       \A c \in Calls :
          []<>~Waiting(c) =>
             (At(c, "ask") ~> call[c].pc \in {"answered", "lost"})

(***************************************************************************)
(* GetHeaders: a request never carries a token that had expired, except    *)
(* for the time a failing renewal may have taken, and except a token just  *)
(* obtained whose life is over on arrival.                                 *)
(***************************************************************************)
TokenAlive ==
    [][\A c \in Calls :
         (/\ call[c].server = Secured
          /\ call[c].pc \in {"headers", "fetch"}
          /\ call'[c].pc = "send")
           => \/ token' # token
              \/ clock < token.expiry + FetchTime]_vars

(***************************************************************************)
(* Acquire and release: once a call is over its claim is gone, on every    *)
(* path, unless the gateway crashed, the reply to the create was lost or   *)
(* the delete failed.                                                      *)
(***************************************************************************)
ClaimsReleased ==
    \A c \in Calls \ excused :
        call[c].pc \in {"answered", "lost"} => claim[c] # "bound"

Running == {c \in Calls : exec[c] = "running"}

(***************************************************************************)
(* handleExecute: the shared sandbox never runs more than it admits,       *)
(* although callers give up early and the counter also counts the refused; *)
(* and it counts nobody once everybody has left.                           *)
(***************************************************************************)
CapacityHeld ==
    /\ Cardinality(Running) <= Capacity
    /\ load = Cardinality({c \in Calls : exec[c] \in {"running", "refused"}})
=============================================================================
