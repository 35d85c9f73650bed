------------------------------ MODULE Threads -------------------------------
(***************************************************************************)
(* What clients read back from the stores while others write to them: the  *)
(* history behind previous_response_id (pkg/engine/history.go over         *)
(* pkg/storage/memory/memory.go), and the paginated lists of responses,    *)
(* conversations, conversation items and files.  A store call holds the    *)
(* store's lock and is one step; a walk along a chain or over the pages of *)
(* a list is many calls, and everything may change between two of them.    *)
(* Readers change nothing, so one behaviour has one kind of reader:        *)
(* "entries" reads the conversations or the files, "items" the items of    *)
(* one conversation.                                                       *)
(***************************************************************************)
EXTENDS Paging, FiniteSets

CONSTANTS
    Ids,        \* identifiers; they are random, so any order of creation
    Foreign,    \* identifiers of another owner's responses
    Clients,    \* requests served at the same time
    None,       \* no identifier
    Readers,    \* what is read: a chain of responses, or one of the lists
    Content,    \* items of each response: [input |-> .., output |-> ..]
    MaxSize,    \* entries the response store keeps, 0 for no limit
    MaxSecond,  \* bound on the clock
    MaxItems,   \* bound on the items of a conversation
    MaxSeen,    \* bound on the entries given to a client, repeated ones too
    Inserted,   \* length up to which sort.Slice inserts, 12 in Go
    Shuffle,    \* what it makes of the longer lists of items, see ItemOrder
    Limit       \* page size the lister asks for, 1 to 100

ASSUME ThreadsAssumption ==
    /\ Ids \subseteq Nat
    /\ Foreign \subseteq Ids
    /\ None \notin Nat
    /\ Readers \subseteq
         {"history", "responses", "entries", "items"}
    /\ Content \in [Ids -> [input : Seq(STRING), output : Seq(STRING)]]
    /\ MaxSize \in Nat /\ MaxSecond \in Nat /\ MaxSeen \in Nat
    /\ MaxItems \in Nat
    /\ Limit \in 1..100
    /\ Inserted \in Nat
    /\ \A n \in DOMAIN Shuffle :
         n \in Nat /\ n > Inserted /\ Shuffle[n] \in Bijection(1..n, 1..n)

VARIABLES
    reader,     \* what this behaviour reads
    clock,      \* the second
    entry,      \* each identifier's entry
    lru,        \* live and deleted responses, least recently saved first
    walk,       \* each request along a chain of responses
    adder,      \* each handler that adds an item
    lister      \* the client that reads a list page by page

vars == <<reader, clock, entry, lru, walk, adder, lister>>

\* An evicted entry keeps its data in the model, for the properties to read.
Entry == [state : {"none", "live", "deleted", "evicted"},
          created : 0..MaxSecond,
          prev : Ids \cup {None},
          items : Seq(Nat)]

Unsaved == [state |-> "none", created |-> 0, prev |-> None, items |-> <<>>]

Walk == [pc : {"idle", "walk", "generate", "failed"},
         start : Ids \cup {None}, at : Ids \cup {None}, chain : Seq(Ids)]

AtRest == [pc |-> "idle", start |-> None, at |-> None, chain |-> <<>>]

(***************************************************************************)
(* of is None for the list of entries, or the entry whose items are read.  *)
(* stable, lost and tied are history: what was there at every page,        *)
(* whether a cursor had gone when it was used, whether two entries of one  *)
(* second were sorted.                                                     *)
(***************************************************************************)
Lister == [pc : {"idle", "reading", "done", "failed"},
           of : Ids \cup {None}, order : {"asc", "desc"},
           after : Nat \cup {None}, seen : Seq(Nat), stable : SUBSET Nat,
           lost : BOOLEAN, tied : BOOLEAN]

NotListing == [pc |-> "idle", of |-> None, order |-> "asc", after |-> None,
               seen |-> <<>>, stable |-> {}, lost |-> FALSE, tied |-> FALSE]

TypeOK ==
    /\ reader \in Readers
    /\ clock \in 0..MaxSecond
    /\ entry \in [Ids -> Entry]
    /\ lru \in Seq(Ids)
    /\ MaxSize > 0 => Len(lru) <= MaxSize
    /\ walk \in [Clients -> Walk]
    /\ adder \in [Clients -> Ids \cup {None}]
    /\ lister \in Lister

Init ==
    /\ reader \in Readers
    /\ clock = 0
    /\ entry = [i \in Ids |-> Unsaved]
    /\ lru = <<>>
    /\ walk = [c \in Clients |-> AtRest]
    /\ adder = [c \in Clients |-> None]
    /\ lister = NotListing

\* The readers of the response store.
Responses == {"history", "responses"}

Created == [i \in Ids |-> entry[i].created]

\* What a list of the caller shows: not deleted and not another owner's.
Listed == {i \in Ids \ Foreign : entry[i].state = "live"}

Tick ==
    /\ reader \notin {"history", "items"}
    /\ clock < MaxSecond
    /\ clock' = clock + 1
    /\ UNCHANGED <<reader, entry, lru, walk, adder, lister>>

-----------------------------------------------------------------------------
\* Variant with a bug: the chain is read with GetResponse.
FoundUndeleted(i) == i \notin Foreign /\ entry[i].state = "live"

(***************************************************************************)
(* GetResponseForChain finds deleted responses too, of the caller only.    *)
(***************************************************************************)
FoundForChain(i) == i \notin Foreign /\ entry[i].state \in {"live", "deleted"}

\* A request arrives; previous_response_id is one that was given out.
Begin(c, start) ==
    /\ reader = "history"
    /\ walk[c].pc \in {"idle", "failed"}
    /\ start # None => entry[start].state # "none"
    /\ walk' = [walk EXCEPT ![c] =
                  [AtRest EXCEPT !.pc = IF start = None THEN "generate"
                                        ELSE "walk",
                                 !.start = start, !.at = start]]
    /\ UNCHANGED <<reader, clock, entry, lru, adder, lister>>

\* Variant with a bug: the chain is left newest first.
FollowChainNewestFirst(c) ==
    LET w == walk[c]
        found == FoundForChain(w.at) /\ w.at \notin ToSet(w.chain)
    IN  /\ w.pc = "walk"
        /\ walk' = [walk EXCEPT ![c] =
                      IF ~found THEN [w EXCEPT !.pc = "failed"]
                      ELSE [w EXCEPT !.chain = Append(@, w.at),
                                     !.at = entry[w.at].prev,
                                     !.pc = IF entry[w.at].prev = None
                                              THEN "generate" ELSE "walk"]]
        /\ UNCHANGED <<reader, clock, entry, lru, adder, lister>>

(***************************************************************************)
(* One round of loadConversationHistory's loop.  The reversal at its end   *)
(* is made by putting each older response in front.                        *)
(***************************************************************************)
FollowChain(c) ==
    LET w == walk[c]
        found == FoundForChain(w.at) /\ w.at \notin ToSet(w.chain)
    IN  /\ w.pc = "walk"
        /\ walk' = [walk EXCEPT ![c] =
                      IF ~found THEN [w EXCEPT !.pc = "failed"]
                      ELSE [w EXCEPT !.chain = <<w.at>> \o @,
                                     !.at = entry[w.at].prev,
                                     !.pc = IF entry[w.at].prev = None
                                              THEN "generate" ELSE "walk"]]
        /\ UNCHANGED <<reader, clock, entry, lru, adder, lister>>

\* itemToMessage: a reasoning item is not sent to the backend.
ItemsToMessages(items) == SelectSeq(items, LAMBDA k : k # "reasoning")

\* The messages of one response, input before output.
Messages(i) ==
    [n \in DOMAIN ItemsToMessages(Content[i].input \o Content[i].output) |->
        <<i, ItemsToMessages(Content[i].input \o Content[i].output)[n]>>]

History(chain) == FlattenSeq([n \in DOMAIN chain |-> Messages(chain[n])])

(***************************************************************************)
(* SaveResponse evicts the least recently saved entry when the store is    *)
(* full: reading an entry does not move it.                                *)
(***************************************************************************)
Evicted == IF MaxSize > 0 /\ Len(lru) >= MaxSize THEN {Head(lru)} ELSE {}

Store(i, prev, items) ==
    /\ entry[i].state = "none"
    /\ entry' = [j \in Ids |->
                   IF j = i
                     THEN [state |-> "live", created |-> clock, prev |-> prev,
                           items |-> items]
                   ELSE IF j \in Evicted
                     THEN [entry[j] EXCEPT !.state = "evicted"]
                   ELSE entry[j]]
    /\ lru' = IF reader \in Responses
                THEN Append(IF Evicted = {} THEN lru ELSE Tail(lru), i)
                ELSE lru

\* The answer is there and is saved under a fresh identifier.
SaveResponse(c, i) ==
    /\ walk[c].pc = "generate"
    /\ i \notin Foreign
    /\ Store(i, walk[c].start,
             [n \in DOMAIN Content[i].input |-> n])
    /\ walk' = [walk EXCEPT ![c] = AtRest]
    /\ UNCHANGED <<reader, clock, adder, lister>>

\* Another owner's response, or an entry for the list that is read.
SaveEntry(i) ==
    /\ reader = "history" => i \in Foreign
    /\ reader = "items" => \A j \in Ids : entry[j].state = "none"
    /\ Store(i, None, IF reader = "responses"
                        THEN [n \in DOMAIN Content[i].input |-> n] ELSE <<>>)
    /\ UNCHANGED <<reader, clock, walk, adder, lister>>

(***************************************************************************)
(* Deletes mark responses and conversations and remove files; a response   *)
(* keeps its place among the least recently saved.                         *)
(***************************************************************************)
Delete(i) ==
    /\ entry[i].state = "live"
    /\ entry' = [entry EXCEPT ![i].state = "deleted"]
    /\ UNCHANGED <<reader, clock, lru, walk, adder, lister>>

-----------------------------------------------------------------------------
(***************************************************************************)
(* handleAddConversationItem looks the conversation up, reads the body,    *)
(* and adds the item in a second store call.                               *)
(***************************************************************************)
CheckConversation(c, i) ==
    /\ reader = "items"
    /\ adder[c] = None
    /\ entry[i].state = "live"
    /\ adder' = [adder EXCEPT ![c] = i]
    /\ UNCHANGED <<reader, clock, entry, lru, walk, lister>>

\* AddItems: the item is numbered from the current length.
AddItems(c) ==
    /\ adder[c] # None
    /\ LET i == adder[c]
           position == Len(entry[i].items) + 1
       IN  /\ position <= MaxItems
           /\ entry' = IF entry[i].state = "live"
                         THEN [entry EXCEPT ![i].items = Append(@, position)]
                         ELSE entry
    /\ adder' = [adder EXCEPT ![c] = None]
    /\ UNCHANGED <<reader, clock, lru, walk, lister>>

-----------------------------------------------------------------------------
(***************************************************************************)
(* A client reads a list to its end: it asks for the page after the last   *)
(* entry it was given, until a page says that there is no more.            *)
(***************************************************************************)
StartListing(of, order) ==
    /\ reader # "history" /\ lister.pc = "idle"
    /\ IF of = None THEN reader # "items"
       ELSE of \in Listed /\ reader \in {"responses", "items"}
    /\ lister' = [NotListing EXCEPT
                    !.pc = "reading", !.of = of, !.order = order,
                    !.stable = IF of = None THEN Listed
                               ELSE ToSet(entry[of].items)]
    /\ UNCHANGED <<reader, clock, entry, lru, walk, adder>>

\* The orders a store may have put the list in.
Lists ==
    IF lister.of # None
      THEN {ItemOrder(entry[lister.of].items,
                      IF reader = "responses" THEN "asc" ELSE lister.order,
                      Shuffle)}
    ELSE IF reader = "responses"
      THEN ResponseOrder(Listed, Created, lister.order)
      ELSE SecondOrder(Listed, Created, lister.order)

Page(list) == IF reader = "responses"
                THEN ResponsePage(list, lister.after, None, Limit, None)
                ELSE RestartingPage(list, lister.after, Limit, None)

Ties == \E i, j \in Listed : i # j /\ Created[i] = Created[j]

NextPage ==
    /\ lister.pc = "reading"
    /\ lister.of # None => lister.of \in Listed
    /\ Len(lister.seen) < MaxSeen
    /\ \E list \in Lists :
         LET page == Page(list)
         IN  lister' = [lister EXCEPT
               !.pc = IF page.more THEN "reading" ELSE "done",
               !.after = IF page.data = <<>> THEN @ ELSE Last(page.data),
               !.seen = @ \o page.data,
               !.stable = @ \cap ToSet(list),
               !.lost = @ \/ lister.after \notin ToSet(list) \cup {None},
               !.tied = @ \/ (lister.of = None /\ Ties)]
    /\ UNCHANGED <<reader, clock, entry, lru, walk, adder>>

\* The entry whose items are read is gone: the request answers 404.
ListingFails ==
    /\ lister.pc = "reading"
    /\ lister.of # None /\ lister.of \notin Listed
    /\ lister' = [lister EXCEPT !.pc = "failed"]
    /\ UNCHANGED <<reader, clock, entry, lru, walk, adder>>

-----------------------------------------------------------------------------
Next ==
    \/ Tick
    \/ \E c \in Clients :
         \/ \E start \in Ids \cup {None} : Begin(c, start)
         \/ FollowChain(c)
         \/ \E i \in Ids : SaveResponse(c, i)
         \/ \E i \in Ids : CheckConversation(c, i)
         \/ AddItems(c)
    \/ \E i \in Ids : SaveEntry(i) \/ Delete(i)
    \/ \E of \in Ids \cup {None}, order \in {"asc", "desc"} :
         StartListing(of, order)
    \/ NextPage
    \/ ListingFails

Spec == Init /\ [][Next]_vars

-----------------------------------------------------------------------------
(***************************************************************************)
(* The chain a response was saved with, oldest first, whatever has become  *)
(* of its responses since.                                                 *)
(***************************************************************************)
Lineage[i \in Ids \cup {None}] ==
    IF i = None THEN <<>> ELSE Append(Lineage[entry[i].prev], i)

(***************************************************************************)
(* history.go: the history a request goes on with is that of its whole     *)
(* chain, oldest first, each response's input before its output and        *)
(* without reasoning, although responses of the chain are deleted and the  *)
(* store evicts while the chain is walked call by call.                    *)
(***************************************************************************)
HistoryWhole ==
    \A c \in Clients :
        walk[c].pc = "generate" =>
            History(walk[c].chain) = History(Lineage[walk[c].start])

(***************************************************************************)
(* history.go and the interface's promise that chains survive deletes: a   *)
(* request is refused only for a response that never was the caller's, or  *)
(* because its chain has lost a response to eviction; a soft delete at any *)
(* place of the chain, at any moment, never breaks it, and no chain that   *)
(* requests can build is a cycle.                                          *)
(***************************************************************************)
DeleteKeepsChain ==
    \A c \in Clients :
        walk[c].pc = "failed" =>
            \/ walk[c].at \in Foreign
            \/ \E i \in ToSet(Lineage[walk[c].start]) :
                 entry[i].state = "evicted"

Occurrences(x) == Cardinality({n \in DOMAIN lister.seen : lister.seen[n] = x})

(***************************************************************************)
(* The lists: a client that follows the pages to the end is given every    *)
(* entry that was there all the time exactly once, although others are     *)
(* saved, deleted and evicted between the pages, unless the entry its      *)
(* cursor named went away; a response is not given twice even then         *)
(* (ListResponses).  Of conversations and files it is true only as long as *)
(* no two entries of one second had to be put in order                     *)
(* (ListConversations, MetadataStore.List).                                *)
(***************************************************************************)
ListedOnce ==
    lister.of = None =>
        /\ reader = "responses" \/ ~(lister.lost \/ lister.tied) =>
             \A x \in ToSet(lister.seen) : Occurrences(x) = 1
        /\ lister.pc = "done" /\ ~lister.lost =>
             \/ lister.stable \subseteq ToSet(lister.seen)
             \/ reader # "responses" /\ lister.tied

\* The input items of a response are listed in one direction only.
Upwards == lister.order = "asc" \/ reader = "responses"

(***************************************************************************)
(* ListItems: the items of a conversation read page by page come out once  *)
(* each and in one direction, although items are added between the pages;  *)
(* downwards only as long as the conversation is short enough for its      *)
(* comparison of indexes.  In a longer one the order is arbitrary, and     *)
(* every item comes out exactly once only if none is added meanwhile.      *)
(***************************************************************************)
ItemsInOrder ==
    lister.of # None =>
        LET items == entry[lister.of].items
            whole == lister.pc = "done"
                       => lister.stable \subseteq ToSet(lister.seen)
        IN  /\ Upwards \/ Len(items) <= Inserted =>
                 /\ whole
                 /\ \A m, n \in DOMAIN lister.seen :
                      m < n => IF Upwards
                                 THEN lister.seen[m] < lister.seen[n]
                                 ELSE lister.seen[m] > lister.seen[n]
            /\ lister.stable = ToSet(items) =>
                 /\ whole
                 /\ \A x \in ToSet(lister.seen) : Occurrences(x) = 1
=============================================================================
