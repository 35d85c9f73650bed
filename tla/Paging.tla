------------------------------- MODULE Paging -------------------------------
(***************************************************************************)
(* How the stores cut a page out of a list: the cursors `after` and        *)
(* `before`, and the limit.  Two families of code do it differently: the   *)
(* response store finds nothing after a cursor it does not know, the       *)
(* conversation and file stores start again from the first entry.          *)
(***************************************************************************)
EXTENDS Integers, Sequences, SequencesExt

\* The position of a cursor in a list, 0 when the list does not hold it.
Position(list, id) == IF Contains(list, id)
                        THEN CHOOSE n \in DOMAIN list : list[n] = id
                        ELSE 0

\* The first limit entries of what the cursor left.
Cut(list, limit) ==
    [data |-> SubSeq(list, 1, IF Len(list) > limit THEN limit ELSE Len(list)),
     more |-> Len(list) > limit]

\* Variant with a bug: an unknown cursor is no cursor.
ResponsePageRestarting(list, after, before, limit, None) ==
    Cut(IF after # None THEN SubSeq(list, Position(list, after) + 1, Len(list))
        ELSE IF before # None THEN SubSeq(list, 1, Position(list, before) - 1)
        ELSE list,
        limit)

(***************************************************************************)
(* ListResponses and GetInputItems.  An empty cursor is None.  The page    *)
(* before a cursor is cut from the start of the list, not from its end.    *)
(***************************************************************************)
ResponsePage(list, after, before, limit, None) ==
    LET p == Position(list, IF after # None THEN after ELSE before)
    IN  Cut(CASE after # None /\ p > 0 -> SubSeq(list, p + 1, Len(list))
              [] after # None /\ p = 0 -> <<>>
              [] after = None /\ before # None -> SubSeq(list, 1, p - 1)
              [] OTHER -> list,
            limit)

(***************************************************************************)
(* ListConversations, ListItems and the two lists of files: start stays 0  *)
(* when the cursor is not found.                                           *)
(***************************************************************************)
RestartingPage(list, after, limit, None) ==
    LET start == IF after = None THEN 0 ELSE Position(list, after)
    IN  Cut(SubSeq(list, start + 1, Len(list)), limit)

-----------------------------------------------------------------------------
(***************************************************************************)
(* The order of a list.  created gives each entry its second.              *)
(***************************************************************************)
Before(created, order, x, y) ==
    IF order = "asc" THEN created[x] < created[y] ELSE created[x] > created[y]

Ordered(list, Less(_, _)) ==
    \A m, n \in DOMAIN list : m < n => ~Less(list[n], list[m])

\* Responses are sorted by second and then by identifier.
ResponseOrder(S, created, order) ==
    LET Tie(x, y) == created[x] = created[y]
                     /\ IF order = "asc" THEN x < y ELSE x > y
    IN  {list \in SetToSeqs(S) :
            Ordered(list, LAMBDA x, y : Before(created, order, x, y)
                                        \/ Tie(x, y))}

(***************************************************************************)
(* Conversations and files are collected from a map and sorted by second   *)
(* alone, so entries of one second come in any order, at every call.       *)
(***************************************************************************)
SecondOrder(S, created, order) ==
    {list \in SetToSeqs(S) :
        Ordered(list, LAMBDA x, y : Before(created, order, x, y))}

\* Variant with a bug: the comparison leaves the items as they are.
ItemOrderUnturned(items, order, shuffle) == items

(***************************************************************************)
(* Items of a conversation are kept in the order they were added.  The     *)
(* comparison given to sort.Slice compares indexes, not items.  A list     *)
(* that is short enough to be sorted by insertion it turns around; of a    *)
(* longer one it makes an order that depends on the length alone,          *)
(* shuffle[n] for n items.                                                 *)
(***************************************************************************)
ItemOrder(items, order, shuffle) ==
    IF order = "asc" THEN items
    ELSE IF Len(items) \notin DOMAIN shuffle THEN Reverse(items)
    ELSE [k \in 1 .. Len(items) |-> items[shuffle[Len(items)][k]]]
=============================================================================
