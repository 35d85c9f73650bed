--------------------------- MODULE ThreadsProofs ----------------------------
(***************************************************************************)
(* Proofs about Threads, for any identifiers, clients, capacity, limits    *)
(* and contents of responses.                                              *)
(***************************************************************************)
EXTENDS Threads, SequenceLemmas

-----------------------------------------------------------------------------
(***************************************************************************)
(* Pages.  Both families of stores cut the page out of the list at some    *)
(* place p: right after the cursor, or, where they do not find it, at the  *)
(* end or at the start.                                                    *)
(***************************************************************************)
PageAt(list, p, page) ==
    /\ page.data \in Seq(Nat)
    /\ Len(page.data) = IF Len(list) - p > Limit THEN Limit ELSE Len(list) - p
    /\ \A k \in 1 .. Len(page.data) : page.data[k] = list[p + k]
    /\ page.more = (Len(list) - p > Limit)

CursorAt(list, p) ==
    /\ p \in 0 .. Len(list)
    /\ lister.after = None => p = 0
    /\ lister.after # None /\ lister.after \in ToSet(list) =>
         p > 0 /\ list[p] = lister.after
    /\ lister.after # None /\ lister.after \notin ToSet(list) =>
         p = IF reader = "responses" THEN Len(list) ELSE 0

\* The rest of a list, and its first entries.
LEMMA CutRest ==
    ASSUME NEW list \in Seq(Nat), NEW p \in 0 .. Len(list)
    PROVE  PageAt(list, p, Cut(SubSeq(list, p + 1, Len(list)), Limit))
<1> DEFINE rest == SubSeq(list, p + 1, Len(list))
<1>1. /\ rest \in Seq(Nat) /\ Len(list) \in Nat /\ Len(rest) = Len(list) - p
      /\ \A k \in 1 .. Len(rest) : rest[k] = list[p + k]
  OBVIOUS
<1>2. Limit \in Nat
  BY ThreadsAssumption
<1> HIDE DEF rest
<1> DEFINE n == IF Len(rest) > Limit THEN Limit ELSE Len(rest)
           data == SubSeq(rest, 1, n)
<1>3. n \in 0 .. Len(rest)
  BY <1>1, <1>2
<1>4. /\ data \in Seq(Nat) /\ Len(data) = n
      /\ \A k \in 1 .. n : data[k] = rest[k]
  <2> HIDE DEF n
  <2> QED
    BY <1>1, <1>3
<1>5. /\ Cut(rest, Limit).data = data
      /\ Cut(rest, Limit).more = (Len(rest) > Limit)
  BY DEF Cut
<1> HIDE DEF data
<1>6. \A k \in 1 .. n : k \in 1 .. Len(rest)
  BY <1>1, <1>3
<1> QED
  BY <1>1, <1>3, <1>4, <1>5, <1>6 DEF PageAt, rest

LEMMA PositionFound ==
    ASSUME NEW list \in Seq(Nat), NEW id
    PROVE  /\ Position(list, id) \in 0 .. Len(list)
           /\ id \in ToSet(list) =>
                Position(list, id) > 0 /\ list[Position(list, id)] = id
           /\ id \notin ToSet(list) => Position(list, id) = 0
<1>1. DOMAIN list = 1 .. Len(list) /\ Len(list) \in Nat
  OBVIOUS
<1>2. Contains(list, id) <=> id \in ToSet(list)
  BY <1>1 DEF Contains, ToSet
<1>3. CASE id \in ToSet(list)
  <2> DEFINE n == CHOOSE m \in DOMAIN list : list[m] = id
  <2>1. n \in DOMAIN list /\ list[n] = id
    BY <1>3 DEF ToSet
  <2>2. Position(list, id) = n
    BY <1>2, <1>3 DEF Position
  <2> QED
    BY <1>1, <1>3, <2>1, <2>2
<1>4. CASE id \notin ToSet(list)
  BY <1>1, <1>2, <1>4 DEF Position
<1> QED
  BY <1>3, <1>4

LEMMA PageCut ==
    ASSUME NEW list \in Seq(Nat)
    PROVE  \E p : CursorAt(list, p) /\ PageAt(list, p, Page(list))
<1> DEFINE after == lister.after
           q == Position(list, after)
<1>1. /\ q \in 0 .. Len(list)
      /\ after \in ToSet(list) => q > 0 /\ list[q] = after
      /\ after \notin ToSet(list) => q = 0
  BY PositionFound
<1>2. Len(list) \in Nat /\ SubSeq(list, 1, Len(list)) = list
  OBVIOUS
<1>3. CASE reader # "responses"
  <2> DEFINE p == IF after = None THEN 0 ELSE q
  <2>1. p \in 0 .. Len(list)
    BY <1>1, <1>2
  <2>2. Page(list) = Cut(SubSeq(list, p + 1, Len(list)), Limit)
    BY <1>3 DEF Page, RestartingPage
  <2>3. CursorAt(list, p)
    BY <1>1, <1>2, <1>3 DEF CursorAt
  <2> HIDE DEF p
  <2> QED
    BY <2>1, <2>2, <2>3, CutRest
<1>4. CASE reader = "responses" /\ after = None
  <2>1. Page(list) = Cut(list, Limit)
    BY <1>4 DEF Page, ResponsePage
  <2>2. 0 + 1 = 1 /\ 0 \in 0 .. Len(list)
    BY <1>2
  <2>3. CursorAt(list, 0)
    BY <1>2, <1>4 DEF CursorAt
  <2>4. PageAt(list, 0, Cut(SubSeq(list, 0 + 1, Len(list)), Limit))
    BY <2>2, CutRest
  <2>5. PageAt(list, 0, Cut(list, Limit))
    BY <1>2, <2>2, <2>4
  <2> QED
    BY <2>1, <2>3, <2>5
<1>5. CASE reader = "responses" /\ after # None /\ after \in ToSet(list)
  <2>1. Page(list) = Cut(SubSeq(list, q + 1, Len(list)), Limit)
    BY <1>1, <1>5 DEF Page, ResponsePage
  <2>2. CursorAt(list, q)
    BY <1>1, <1>2, <1>5 DEF CursorAt
  <2> HIDE DEF q
  <2> QED
    BY <1>1, <2>1, <2>2, CutRest
<1>6. CASE reader = "responses" /\ after # None /\ after \notin ToSet(list)
  <2>1. Page(list) = Cut(<< >>, Limit)
    BY <1>1, <1>6 DEF Page, ResponsePage
  <2> DEFINE p == Len(list)
  <2>2. p \in 0 .. Len(list) /\ SubSeq(list, p + 1, Len(list)) = << >>
    BY <1>2
  <2>3. CursorAt(list, p)
    BY <1>2, <1>6 DEF CursorAt
  <2> HIDE DEF p
  <2> QED
    BY <2>1, <2>2, <2>3, CutRest
<1> QED
  BY <1>3, <1>4, <1>5, <1>6

-----------------------------------------------------------------------------
(***************************************************************************)
(* The lists of entries: all of the entries listed, each one once, in      *)
(* order of their seconds and, of responses, of their identifiers.         *)
(***************************************************************************)
LEMMA Enumeration ==
    ASSUME NEW S \in SUBSET Nat, IsFiniteSet(S), NEW list \in SetToSeqs(S)
    PROVE  list \in Seq(Nat) /\ ToSet(list) = S /\ Distinct(list)
<1> DEFINE n == Cardinality(S)
<1>1. n \in Nat
  BY FS_CardinalityType
<1>2. list \in [1 .. n -> S] /\ \A i, j \in 1 .. n : i # j => list[i] # list[j]
  BY DEF SetToSeqs
<1> HIDE DEF n
<1>3. list \in Seq(Nat) /\ Len(list) = n /\ DOMAIN list = 1 .. n
  <2>1. list \in [1 .. n -> Nat]
    BY <1>2
  <2> QED
    BY <1>1, <2>1
<1>4. S \subseteq ToSet(list)
  <2>1. list \in Injection(1 .. n, S)
    BY <1>2 DEF Injection, IsInjective
  <2>2. IsFiniteSet(1 .. n) /\ Cardinality(1 .. n) = n
    BY <1>1, FS_Interval
  <2>3. list \in Surjection(1 .. n, S)
    BY <2>1, <2>2, FS_Injection DEF n
  <2> QED
    BY <1>3, <2>3 DEF Surjection, ToSet
<1>5. ToSet(list) \subseteq S
  BY <1>2, <1>3 DEF ToSet
<1>6. Distinct(list)
  BY <1>2, <1>3 DEF Distinct
<1> QED
  BY <1>3, <1>4, <1>5, <1>6

\* Whether x comes before y in the list of responses.
Precedes(created, order, x, y) ==
    \/ Before(created, order, x, y)
    \/ created[x] = created[y] /\ IF order = "asc" THEN x < y ELSE x > y

LEMMA ResponsesOrdered ==
    ASSUME NEW S \in SUBSET Nat, IsFiniteSet(S), NEW created,
           \A x \in S : created[x] \in Nat, NEW order,
           NEW list \in ResponseOrder(S, created, order)
    PROVE  /\ list \in Seq(Nat) /\ ToSet(list) = S /\ Distinct(list)
           /\ \A m, n \in 1 .. Len(list) :
                 m < n => Precedes(created, order, list[m], list[n])
<1>1. list \in SetToSeqs(S)
  BY DEF ResponseOrder
<1>2. list \in Seq(Nat) /\ ToSet(list) = S /\ Distinct(list)
  BY <1>1, Enumeration
<1>3. DOMAIN list = 1 .. Len(list) /\ \A n \in 1 .. Len(list) : list[n] \in S
  BY <1>2 DEF ToSet
<1>4. ASSUME NEW m \in 1 .. Len(list), NEW n \in 1 .. Len(list), m < n
      PROVE  Precedes(created, order, list[m], list[n])
  <2>1. ~Precedes(created, order, list[n], list[m])
    BY <1>3, <1>4 DEF ResponseOrder, Ordered, Precedes
  <2>2. list[m] # list[n]
    BY <1>2, <1>4 DEF Distinct
  <2>3. /\ list[m] \in Nat /\ list[n] \in Nat
        /\ created[list[m]] \in Nat /\ created[list[n]] \in Nat
    BY <1>3
  <2> QED
    BY <2>1, <2>2, <2>3 DEF Precedes, Before
<1> QED
  BY <1>2, <1>4

LEMMA SecondsOrdered ==
    ASSUME NEW S \in SUBSET Nat, IsFiniteSet(S), NEW created,
           \A x \in S : created[x] \in Nat, NEW order,
           NEW list \in SecondOrder(S, created, order)
    PROVE  /\ list \in Seq(Nat) /\ ToSet(list) = S /\ Distinct(list)
           /\ \A m, n \in 1 .. Len(list) :
                 m < n => ~Before(created, order, list[n], list[m])
<1>1. list \in SetToSeqs(S)
  BY DEF SecondOrder
<1>2. list \in Seq(Nat) /\ ToSet(list) = S /\ Distinct(list)
  BY <1>1, Enumeration
<1>3. DOMAIN list = 1 .. Len(list)
  BY <1>2
<1> QED
  BY <1>2, <1>3 DEF SecondOrder, Ordered

-----------------------------------------------------------------------------
(***************************************************************************)
(* Types.  Only finitely many entries have been saved.                     *)
(***************************************************************************)
Saved == {i \in Ids : entry[i].state # "none"}

EntriesTyped ==
    /\ reader \in Readers
    /\ clock \in 0 .. MaxSecond
    /\ entry \in [Ids -> Entry]
    /\ IsFiniteSet(Saved)

LruTyped ==
    /\ lru \in Seq(Ids)
    /\ MaxSize > 0 => Len(lru) <= MaxSize

WalksTyped ==
    /\ walk \in [Clients -> Walk]
    /\ adder \in [Clients -> Ids \cup {None}]
    /\ \A c \in Clients : walk[c].pc = "walk" => walk[c].at \in Ids

Typed == EntriesTyped /\ LruTyped /\ WalksTyped /\ lister \in Lister

\* Items are numbered from 1 in the order they were added.
Numbered(items) == \A n \in 1 .. Len(items) : items[n] = n

LEMMA ConstantFacts ==
    /\ Ids \subseteq Nat /\ None \notin Ids /\ None \notin Nat
    /\ MaxSize \in Nat /\ MaxSecond \in Nat /\ Limit \in Nat /\ Limit > 0
    /\ \A i \in Ids : /\ [n \in DOMAIN Content[i].input |-> n] \in Seq(Nat)
                      /\ Numbered([n \in DOMAIN Content[i].input |-> n])
                      /\ Content[i].input \in Seq(STRING)
<1>1. ASSUME NEW i \in Ids
      PROVE  /\ Content[i].input \in Seq(STRING)
             /\ [n \in DOMAIN Content[i].input |-> n] \in Seq(Nat)
             /\ Numbered([n \in DOMAIN Content[i].input |-> n])
  <2>1. Content[i].input \in Seq(STRING)
    BY ThreadsAssumption
  <2>2. Len(Content[i].input) \in Nat
        /\ DOMAIN Content[i].input = 1 .. Len(Content[i].input)
    BY <2>1
  <2> DEFINE s == [n \in DOMAIN Content[i].input |-> n]
  <2>3. /\ s \in [1 .. Len(Content[i].input) -> Nat]
        /\ \A n \in 1 .. Len(Content[i].input) : s[n] = n
    BY <2>2
  <2> HIDE DEF s
  <2>4. s \in Seq(Nat) /\ Len(s) = Len(Content[i].input)
    BY <2>2, <2>3
  <2>5. s \in Seq(Nat) /\ Numbered(s)
    BY <2>3, <2>4 DEF Numbered
  <2> QED
    BY <2>1, <2>5 DEF s
<1>2. Limit \in Nat /\ Limit > 0
  BY ThreadsAssumption
<1>3. Ids \subseteq Nat /\ None \notin Nat
  BY ThreadsAssumption
<1>4. None \notin Ids
  BY <1>3
<1> QED
  BY <1>1, <1>2, <1>3, <1>4, ThreadsAssumption

\* What the listing reads.
LEMMA ListedTyped ==
    ASSUME EntriesTyped
    PROVE  /\ Listed \subseteq Saved /\ Listed \in SUBSET Nat
           /\ IsFiniteSet(Listed)
           /\ \A x \in Listed : Created[x] \in Nat
           /\ \A x \in Ids : Created[x] = entry[x].created
<1>1. Listed \subseteq Saved
  BY DEF Listed, Saved
<1>2. IsFiniteSet(Listed)
  BY <1>1, FS_Subset DEF EntriesTyped
<1>3. Ids \subseteq Nat /\ MaxSecond \in Nat
  BY ConstantFacts
<1>4. \A x \in Ids : Created[x] = entry[x].created /\ entry[x].created \in Nat
  BY <1>3 DEF EntriesTyped, Entry, Created
<1> QED
  BY <1>1, <1>2, <1>3, <1>4 DEF Listed

\* What sort.Slice makes of a long list is a permutation of it.
LEMMA ShuffleType ==
    ASSUME NEW n \in DOMAIN Shuffle
    PROVE  /\ n \in Nat /\ n > Inserted /\ Inserted \in Nat
           /\ Shuffle[n] \in [1 .. n -> 1 .. n]
           /\ \A j, k \in 1 .. n : Shuffle[n][j] = Shuffle[n][k] => j = k
           /\ \A x \in 1 .. n : \E k \in 1 .. n : Shuffle[n][k] = x
<1>1. /\ n \in Nat /\ n > Inserted /\ Inserted \in Nat
      /\ Shuffle[n] \in Bijection(1 .. n, 1 .. n)
  BY ThreadsAssumption
<1>2. /\ Shuffle[n] \in [1 .. n -> 1 .. n] /\ IsInjective(Shuffle[n])
      /\ \A x \in 1 .. n : \E k \in 1 .. n : Shuffle[n][k] = x
  BY <1>1, Zenon DEF Bijection, Injection, Surjection
<1> QED
  BY <1>1, <1>2 DEF IsInjective

LEMMA ItemListTyped ==
    ASSUME NEW items \in Seq(Nat), NEW order
    PROVE  ItemOrder(items, order, Shuffle) \in Seq(Nat)
<1> DEFINE n == Len(items)
<1>1. CASE order # "asc" /\ n \notin DOMAIN Shuffle
  <2>1. \A k \in 1 .. Len(items) : items[(Len(items) - k) + 1] \in Nat
    OBVIOUS
  <2>2. Reverse(items) \in [1 .. Len(items) -> Nat]
    BY <2>1 DEF Reverse
  <2> QED
    BY <1>1, <2>2 DEF ItemOrder
<1>2. CASE order # "asc" /\ n \in DOMAIN Shuffle
  <2>1. n \in Nat /\ Shuffle[n] \in [1 .. n -> 1 .. n]
    BY <1>2, ShuffleType
  <2>2. \A k \in 1 .. n : Shuffle[n][k] \in 1 .. n
    BY <2>1
  <2>3. \A k \in 1 .. n : items[Shuffle[n][k]] \in Nat
    BY <2>2
  <2>4. [k \in 1 .. n |-> items[Shuffle[n][k]]] \in [1 .. n -> Nat]
    BY <2>3, Zenon
  <2>5. [k \in 1 .. n |-> items[Shuffle[n][k]]] \in Seq(Nat)
    BY <2>1, <2>4
  <2> QED
    BY <1>2, <2>5 DEF ItemOrder
<1>3. CASE order = "asc"
  BY <1>3 DEF ItemOrder
<1> QED
  BY <1>1, <1>2, <1>3

LEMMA ListsTyped ==
    ASSUME EntriesTyped, lister \in Lister, NEW list \in Lists
    PROVE  list \in Seq(Nat)
<1>1. CASE lister.of # None
  <2>1. entry[lister.of].items \in Seq(Nat)
    BY <1>1 DEF EntriesTyped, Entry, Lister
  <2> QED
    BY <1>1, <2>1, ItemListTyped DEF Lists
<1>2. CASE lister.of = None /\ reader = "responses"
  <2>1. list \in ResponseOrder(Listed, Created, lister.order)
    BY <1>2 DEF Lists
  <2> QED
    BY <2>1, ListedTyped, ResponsesOrdered
<1>3. CASE lister.of = None /\ reader # "responses"
  <2>1. list \in SecondOrder(Listed, Created, lister.order)
    BY <1>3 DEF Lists
  <2> QED
    BY <2>1, ListedTyped, SecondsOrdered
<1> QED
  BY <1>1, <1>2, <1>3

LEMMA TypedInit == Init => Typed
<1> SUFFICES ASSUME Init PROVE Typed
  OBVIOUS
<1>1. Saved = {}
  BY DEF Init, Saved, Unsaved
<1>2. EntriesTyped
  <2>1. Unsaved \in Entry
    BY ConstantFacts DEF Unsaved, Entry
  <2> QED
    BY <1>1, <2>1, ConstantFacts, FS_EmptySet DEF Init, EntriesTyped
<1>3. LruTyped
  BY ConstantFacts DEF Init, LruTyped
<1>4. WalksTyped
  <2>1. AtRest \in Walk /\ AtRest.pc # "walk"
    BY DEF AtRest, Walk
  <2> QED
    BY <2>1 DEF Init, WalksTyped
<1>5. lister \in Lister
  BY DEF Init, NotListing, Lister
<1> QED
  BY <1>2, <1>3, <1>4, <1>5 DEF Typed

LEMMA StoreTyped ==
    ASSUME EntriesTyped, LruTyped, NEW i \in Ids, NEW prev \in Ids \cup {None},
           NEW items \in Seq(Nat), Store(i, prev, items), reader' = reader,
           clock' = clock
    PROVE  /\ EntriesTyped' /\ LruTyped'
           /\ entry[i].state = "none"
           /\ entry'[i] = [state |-> "live", created |-> clock, prev |-> prev,
                           items |-> items]
           /\ \A j \in Ids \ {i} :
                 \/ entry'[j] = entry[j]
                 \/ /\ Evicted = {j}
                    /\ entry'[j] = [entry[j] EXCEPT !.state = "evicted"]
<1> DEFINE new == [state |-> "live", created |-> clock, prev |-> prev,
                   items |-> items]
<1>1. new \in Entry
  BY DEF EntriesTyped, Entry
<1>2. /\ entry[i].state = "none"
      /\ entry' = [j \in Ids |-> IF j = i THEN new
                                 ELSE IF j \in Evicted
                                   THEN [entry[j] EXCEPT !.state = "evicted"]
                                 ELSE entry[j]]
      /\ lru' = IF reader \in Responses
                  THEN Append(IF Evicted = {} THEN lru ELSE Tail(lru), i)
                  ELSE lru
  BY DEF Store
<1> HIDE DEF new
<1>3. \A j \in Ids : [entry[j] EXCEPT !.state = "evicted"] \in Entry
  BY DEF EntriesTyped, Entry
<1>4. entry' \in [Ids -> Entry]
  BY <1>1, <1>2, <1>3 DEF EntriesTyped
<1>5. /\ entry'[i] = new
      /\ \A j \in Ids \ {i} : entry'[j] = IF j \in Evicted
                                 THEN [entry[j] EXCEPT !.state = "evicted"]
                                 ELSE entry[j]
  BY <1>2
<1>6. \A j \in Evicted : Evicted = {j}
  BY DEF Evicted
<1>7. Evicted # {} => Len(lru) > 0 /\ Head(lru) \in Ids /\ Tail(lru) \in Seq(Ids)
                      /\ Len(Tail(lru)) = Len(lru) - 1
  BY ConstantFacts DEF Evicted, LruTyped
<1>8. MaxSize > 0 => Len(lru) < MaxSize \/ Evicted # {}
  BY ConstantFacts DEF Evicted, LruTyped
<1>9. LruTyped'
  <2>1. CASE reader \notin Responses
    BY <1>2, <2>1 DEF LruTyped
  <2>2. CASE reader \in Responses /\ Evicted = {}
    <3>1. lru' = Append(lru, i)
      BY <1>2, <2>2
    <3>2. lru' \in Seq(Ids) /\ Len(lru') = Len(lru) + 1 /\ Len(lru) \in Nat
      BY <3>1 DEF LruTyped
    <3> QED
      BY <1>8, <2>2, <3>2, ConstantFacts DEF LruTyped
  <2>3. CASE reader \in Responses /\ Evicted # {}
    <3>1. lru' = Append(Tail(lru), i)
      BY <1>2, <2>3
    <3>2. lru' \in Seq(Ids) /\ Len(lru') = Len(lru) /\ Len(lru) \in Nat
      BY <1>7, <2>3, <3>1 DEF LruTyped
    <3> QED
      BY <3>2 DEF LruTyped
  <2> QED
    BY <2>1, <2>2, <2>3
<1>10. IsFiniteSet(Saved)'
  <2>1. Saved' \subseteq Saved \cup Evicted \cup {i}
    BY <1>5 DEF Saved
  <2>2. IsFiniteSet(Evicted)
    BY FS_EmptySet, FS_Singleton DEF Evicted
  <2>3. IsFiniteSet(Saved \cup Evicted \cup {i})
    BY <2>2, FS_Singleton, FS_Union DEF EntriesTyped
  <2> QED
    BY <2>1, <2>3, FS_Subset
<1>11. EntriesTyped'
  BY <1>4, <1>10 DEF EntriesTyped
<1> QED
  BY <1>2, <1>5, <1>6, <1>9, <1>11 DEF new

\* Deleting an entry, adding an item to it.
LEMMA EntryChanged ==
    ASSUME EntriesTyped, NEW i \in Ids, entry[i].state = "live",
           NEW e \in Entry, entry' = [entry EXCEPT ![i] = e],
           e.state # "none",
           reader' = reader, clock' = clock
    PROVE  EntriesTyped'
<1>1. entry' \in [Ids -> Entry]
  BY DEF EntriesTyped
<1>2. Saved' = Saved
  BY DEF EntriesTyped, Saved
<1> QED
  BY <1>1, <1>2 DEF EntriesTyped

LEMMA ListerTyped ==
    ASSUME EntriesTyped, lister \in Lister,
           NextPage \/ ListingFails
             \/ \E of \in Ids \cup {None}, order \in {"asc", "desc"} :
                   StartListing(of, order)
    PROVE  lister' \in Lister
<1>1. ASSUME NextPage PROVE lister' \in Lister
  <2>1. PICK list \in Lists :
          lister' = [lister EXCEPT
               !.pc = IF Page(list).more THEN "reading" ELSE "done",
               !.after = IF Page(list).data = <<>> THEN @ ELSE Last(Page(list).data),
               !.seen = @ \o Page(list).data,
               !.stable = @ \cap ToSet(list),
               !.lost = @ \/ lister.after \notin ToSet(list) \cup {None},
               !.tied = @ \/ (lister.of = None /\ Ties)]
    BY <1>1 DEF NextPage
  <2> DEFINE data == Page(list).data
             after == IF data = << >> THEN lister.after ELSE Last(data)
             lost == lister.lost \/ lister.after \notin ToSet(list) \cup {None}
             tied == lister.tied \/ (lister.of = None /\ Ties)
             stable == lister.stable \cap ToSet(list)
             seen == lister.seen \o data
             pc == IF Page(list).more THEN "reading" ELSE "done"
  <2>2. data \in Seq(Nat)
    BY ListsTyped, PageCut DEF PageAt
  <2>3. after \in Nat \cup {None}
    <3>1. CASE data # << >>
      <4>1. Len(data) > 0 /\ data[Len(data)] \in Nat
        BY <2>2, <3>1
      <4> QED
        BY <3>1, <4>1 DEF Last
    <3>2. CASE data = << >>
      BY <3>2 DEF Lister
    <3> QED
      BY <3>1, <3>2
  <2>4. /\ seen \in Seq(Nat) /\ stable \in SUBSET Nat
        /\ lost \in BOOLEAN /\ tied \in BOOLEAN
    BY <2>2 DEF Lister
  <2>5. lister' = [lister EXCEPT !.pc = pc, !.after = after, !.seen = seen,
                      !.stable = stable, !.lost = lost, !.tied = tied]
    BY <2>1
  <2>6. pc \in {"reading", "done"}
    OBVIOUS
  <2> HIDE DEF data, after, lost, tied, stable, seen, pc
  <2> QED
    BY <2>3, <2>4, <2>5, <2>6 DEF Lister
<1>2. ASSUME ListingFails PROVE lister' \in Lister
  BY <1>2 DEF ListingFails, Lister
<1>3. ASSUME NEW of \in Ids \cup {None}, NEW order \in {"asc", "desc"},
             StartListing(of, order)
      PROVE  lister' \in Lister
  <2> DEFINE stable == IF of = None THEN Listed ELSE ToSet(entry[of].items)
  <2>1. stable \in SUBSET Nat
    <3>1. CASE of = None
      BY <3>1, ListedTyped
    <3>2. CASE of # None
      <4>1. entry[of].items \in Seq(Nat)
        BY <3>2 DEF EntriesTyped, Entry
      <4> QED
        BY <3>2, <4>1 DEF ToSet
    <3> QED
      BY <3>1, <3>2
  <2>2. lister' = [NotListing EXCEPT !.pc = "reading", !.of = of,
                                     !.order = order, !.stable = stable]
    BY <1>3 DEF StartListing
  <2> HIDE DEF stable
  <2>3. NotListing \in Lister
    BY DEF NotListing, Lister
  <2> QED
    BY <2>1, <2>2, <2>3 DEF Lister
<1> QED
  BY <1>1, <1>2, <1>3

\* One round of the loop: the request goes one response back, or is refused.
Followed(c, new) ==
    LET w == walk[c]
    IN  /\ w.at \in Ids /\ FoundForChain(w.at) /\ w.at \notin ToSet(w.chain)
        /\ new.start = w.start
        /\ new.at = entry[w.at].prev
        /\ new.chain = <<w.at>> \o w.chain
        /\ new.pc = IF entry[w.at].prev = None THEN "generate" ELSE "walk"

Refused(c, new) ==
    LET w == walk[c]
    IN  /\ ~FoundForChain(w.at) \/ w.at \in ToSet(w.chain)
        /\ new.start = w.start /\ new.at = w.at /\ new.chain = w.chain
        /\ new.pc = "failed"

Turn(c, new) ==
    /\ walk' = [walk EXCEPT ![c] = new]
    /\ Followed(c, new) \/ Refused(c, new)

WalksOn(c) ==
    /\ walk[c].pc = "walk"
    /\ \E new \in Walk : Turn(c, new)

LEMMA ChainFollowed ==
    ASSUME EntriesTyped, WalksTyped, NEW c \in Clients, FollowChain(c)
    PROVE  WalksOn(c)
<1> DEFINE w == walk[c]
           found == FoundForChain(w.at) /\ w.at \notin ToSet(w.chain)
           chain == <<w.at>> \o w.chain
           at == entry[w.at].prev
           pc == IF at = None THEN "generate" ELSE "walk"
           no == [w EXCEPT !.pc = "failed"]
           yes == [w EXCEPT !.chain = chain, !.at = at, !.pc = pc]
<1>1. w \in Walk
  BY DEF WalksTyped
<1>2. w.pc = "walk" /\ walk' = [walk EXCEPT ![c] = IF ~found THEN no ELSE yes]
  <2>1. w.pc = "walk"
    BY DEF FollowChain
  <2>2. walk' = [walk EXCEPT ![c] = IF ~found THEN no ELSE yes]
    BY DEF FollowChain
  <2> QED
    BY <2>1, <2>2
<1>3. ASSUME ~found
      PROVE  \E new \in Walk : Turn(c, new)
  <2>1. /\ no \in Walk /\ no.start = w.start /\ no.at = w.at
        /\ no.chain = w.chain /\ no.pc = "failed"
    BY <1>1 DEF Walk
  <2>2. Refused(c, no)
    BY <1>3, <2>1 DEF Refused
  <2> HIDE DEF no, found
  <2> QED
    BY <1>2, <1>3, <2>1, <2>2 DEF Turn
<1>4. ASSUME found
      PROVE  \E new \in Walk : Turn(c, new)
  <2>1. w.at \in Ids
    BY <1>2 DEF WalksTyped
  <2>2. chain \in Seq(Ids) /\ at \in Ids \cup {None} /\ pc \in {"generate", "walk"}
    BY <1>1, <2>1 DEF EntriesTyped, Entry, Walk
  <2>3. /\ yes \in Walk /\ yes.start = w.start /\ yes.at = at
        /\ yes.chain = chain /\ yes.pc = pc
    <3> HIDE DEF chain, at, pc, w
    <3> QED
      BY <1>1, <2>2 DEF Walk
  <2>4. Followed(c, yes)
    <3> HIDE DEF yes
    <3> QED
      BY <1>4, <2>1, <2>3 DEF Followed
  <2> HIDE DEF yes, found
  <2> QED
    BY <1>2, <1>4, <2>3, <2>4 DEF Turn
<1>5. \E new \in Walk : Turn(c, new)
  BY <1>3, <1>4
<1> QED
  BY <1>2, <1>5 DEF WalksOn

LEMMA TypedStep == Typed /\ [Next]_vars => Typed'
<1> SUFFICES ASSUME Typed, [Next]_vars PROVE Typed'
  OBVIOUS
<1>a. EntriesTyped /\ LruTyped /\ WalksTyped /\ lister \in Lister
  BY DEF Typed
<1>b. AtRest \in Walk
  BY DEF AtRest, Walk
<1>c. ASSUME NEW c \in Clients, NEW new \in Walk,
             new.pc = "walk" => new.at \in Ids,
             walk' = [walk EXCEPT ![c] = new], adder' = adder
      PROVE  WalksTyped'
  BY <1>c, <1>a DEF WalksTyped
<1>1. CASE Tick
  <2>1. Saved' = Saved
    BY <1>1 DEF Tick, Saved
  <2> QED
    BY <1>1, <1>a, <2>1, ConstantFacts
    DEF Tick, Typed, EntriesTyped, LruTyped, WalksTyped
<1>2. ASSUME UNCHANGED <<reader, clock, entry, lru>>
      PROVE  EntriesTyped' /\ LruTyped'
  BY <1>2, <1>a DEF EntriesTyped, LruTyped, Saved
<1>3. ASSUME NEW c \in Clients, NEW start \in Ids \cup {None}, Begin(c, start)
      PROVE  Typed'
  <2> DEFINE new == [AtRest EXCEPT !.pc = IF start = None THEN "generate" ELSE "walk",
                                   !.start = start, !.at = start]
  <2>1. new \in Walk /\ (new.pc = "walk" => new.at \in Ids)
    <3>1. new.pc = IF start = None THEN "generate" ELSE "walk"
      BY <1>b DEF Walk
    <3>2. new \in Walk /\ new.at = start
      BY <1>b DEF Walk
    <3> QED
      BY <3>1, <3>2
  <2>2. walk' = [walk EXCEPT ![c] = new]
    BY <1>3 DEF Begin
  <2> HIDE DEF new
  <2>3. WalksTyped'
    <3>1. adder' = adder
      BY <1>3 DEF Begin
    <3>2. new \in Walk
      BY <2>1
    <3> QED
      BY <1>c, <2>1, <2>2, <3>1, <3>2, Zenon
  <2> QED
    BY <1>2, <1>3, <1>a, <2>3 DEF Begin, Typed
<1>4. ASSUME NEW c \in Clients, FollowChain(c) PROVE Typed'
  <2>1. PICK new \in Walk : Turn(c, new)
    <3>1. WalksOn(c)
      BY <1>4, <1>a, ChainFollowed
    <3> QED
      BY <3>1 DEF WalksOn
  <2>a. new.pc = "walk" => new.at \in Ids
    BY <1>a, <2>1 DEF Turn, Followed, Refused, EntriesTyped, Entry
  <2>2. WalksTyped'
    BY <1>4, <1>c, <2>1, <2>a DEF FollowChain, Turn
  <2> QED
    BY <1>2, <1>4, <1>a, <2>2 DEF FollowChain, Typed
<1>5. ASSUME NEW c \in Clients, NEW i \in Ids, SaveResponse(c, i) PROVE Typed'
  <2>1. /\ Store(i, walk[c].start, [n \in DOMAIN Content[i].input |-> n])
        /\ walk' = [walk EXCEPT ![c] = AtRest]
        /\ UNCHANGED <<reader, clock, adder, lister>>
    BY <1>5 DEF SaveResponse
  <2>2. walk[c].start \in Ids \cup {None}
    BY <1>a DEF WalksTyped, Walk
  <2>3. EntriesTyped' /\ LruTyped'
    BY <1>a, <2>1, <2>2, ConstantFacts, StoreTyped
  <2> QED
    <3>1. AtRest.pc # "walk"
      BY DEF AtRest
    <3> QED
      BY <1>a, <1>b, <1>c, <2>1, <2>3, <3>1 DEF Typed
<1>6. ASSUME NEW i \in Ids, SaveEntry(i) PROVE Typed'
  <2> DEFINE items == IF reader = "responses"
                        THEN [n \in DOMAIN Content[i].input |-> n] ELSE <<>>
  <2>1. /\ Store(i, None, items)
        /\ UNCHANGED <<reader, clock, walk, adder, lister>>
    BY <1>6 DEF SaveEntry
  <2>2. items \in Seq(Nat)
    BY ConstantFacts
  <2> HIDE DEF items
  <2>3. EntriesTyped' /\ LruTyped'
    BY <1>a, <2>1, <2>2, StoreTyped
  <2> QED
    BY <1>a, <2>1, <2>3 DEF Typed, WalksTyped
<1>7. ASSUME NEW i \in Ids, Delete(i) PROVE Typed'
  <2> DEFINE e == [entry[i] EXCEPT !.state = "deleted"]
  <2>1. e \in Entry /\ e.state # "none"
    BY <1>a DEF EntriesTyped, Entry
  <2>2. entry' = [entry EXCEPT ![i] = e]
    BY <1>7 DEF Delete
  <2> HIDE DEF e
  <2>3. EntriesTyped'
    BY <1>7, <1>a, <2>1, <2>2, EntryChanged DEF Delete
  <2> QED
    BY <1>7, <1>a, <2>3 DEF Delete, Typed, LruTyped, WalksTyped
<1>8. ASSUME NEW c \in Clients, NEW i \in Ids, CheckConversation(c, i)
      PROVE  Typed'
  <2>1. WalksTyped'
    BY <1>8, <1>a DEF CheckConversation, WalksTyped
  <2> QED
    BY <1>2, <1>8, <1>a, <2>1 DEF CheckConversation, Typed
<1>9. ASSUME NEW c \in Clients, AddItems(c) PROVE Typed'
  <2> DEFINE i == adder[c]
             e == [entry[i] EXCEPT !.items = Append(@, Len(entry[i].items) + 1)]
  <2>1. i \in Ids
    BY <1>9, <1>a DEF AddItems, WalksTyped
  <2>2. EntriesTyped'
    <3>1. CASE entry[i].state = "live"
      <4>1. Append(entry[i].items, Len(entry[i].items) + 1) \in Seq(Nat)
        BY <1>a, <2>1 DEF EntriesTyped, Entry
      <4>2. e \in Entry /\ e.state = entry[i].state
        BY <1>a, <2>1, <4>1 DEF EntriesTyped, Entry
      <4>3. entry' = [entry EXCEPT ![i] = e]
        BY <1>9, <3>1 DEF AddItems
      <4> HIDE DEF e
      <4> QED
        BY <1>9, <1>a, <2>1, <3>1, <4>2, <4>3, EntryChanged DEF AddItems
    <3>2. CASE entry[i].state # "live"
      BY <1>2, <1>9, <3>2 DEF AddItems
    <3> QED
      BY <3>1, <3>2
  <2> QED
    BY <1>9, <1>a, <2>2 DEF AddItems, Typed, LruTyped, WalksTyped
<1>10. ASSUME \/ NextPage \/ ListingFails
              \/ \E of \in Ids \cup {None}, order \in {"asc", "desc"} :
                    StartListing(of, order)
       PROVE  Typed'
  <2>1. lister' \in Lister
    BY <1>10, <1>a, ListerTyped
  <2>2. UNCHANGED <<reader, clock, entry, lru, walk, adder>>
    BY <1>10 DEF NextPage, ListingFails, StartListing
  <2> QED
    BY <1>2, <1>a, <2>1, <2>2 DEF Typed, WalksTyped
<1>11. CASE UNCHANGED vars
  BY <1>2, <1>11, <1>a DEF vars, Typed, WalksTyped
<1> QED
  BY <1>1, <1>3, <1>4, <1>5, <1>6, <1>7, <1>8, <1>9, <1>10, <1>11 DEF Next

LEMMA AlwaysTyped == Spec => []Typed
  BY TypedInit, TypedStep, PTL DEF Spec

(***************************************************************************)
(* Every variable keeps its type.                                          *)
(***************************************************************************)
THEOREM TypeCorrect == Spec => []TypeOK
<1>1. Typed => TypeOK
  BY DEF Typed, EntriesTyped, LruTyped, WalksTyped, TypeOK
<1> QED
  BY <1>1, AlwaysTyped, PTL

-----------------------------------------------------------------------------
(***************************************************************************)
(* Chains.  previous_response_id names a response saved before, so there   *)
(* are ranks that fall along every chain.                                  *)
(***************************************************************************)
Ranked(R, rank) ==
    /\ R \in Nat
    /\ rank \in [Ids -> 0 .. R]
    /\ \A i \in Ids :
          entry[i].prev # None =>
             /\ i \in Saved /\ entry[i].prev \in Saved
             /\ rank[entry[i].prev] < rank[i]

ChainsFinite == \E R, rank : Ranked(R, rank)

\* What no step undoes.
EntriesKept ==
    \A i \in Saved :
        /\ i \in Saved'
        /\ entry'[i].prev = entry[i].prev
        /\ entry'[i].created = entry[i].created
        /\ Len(entry[i].items) <= Len(entry'[i].items)
        /\ entry[i].state = "evicted" => entry'[i].state = "evicted"

\* A step links at most one response to another, a new one to an old one.
NewLink(i) ==
    /\ i \in Ids \ Saved /\ i \in Saved'
    /\ entry'[i].prev \in Saved \cup {None}
    /\ \A j \in Ids \ {i} : entry'[j].prev = entry[j].prev

EntriesMove ==
    /\ EntriesKept
    /\ \/ \A j \in Ids : entry'[j].prev = entry[j].prev
       \/ \E i \in Ids : NewLink(i)
    /\ \A j \in Ids : Numbered(entry[j].items) => Numbered(entry'[j].items)

\* The recursive function in the definition of Lineage is there.
LEMMA LineageRule ==
    ASSUME EntriesTyped, ChainsFinite
    PROVE  /\ Lineage[None] = << >>
           /\ \A i \in Ids :
                /\ Lineage[i] \in Seq(Ids)
                /\ Lineage[entry[i].prev] \in Seq(Ids)
                /\ Lineage[i] = Append(Lineage[entry[i].prev], i)
<1>1. PICK R, rank : Ranked(R, rank)
  BY DEF ChainsFinite
<1> DEFINE Nodes == Ids \cup {None}
           Rule(f) == [i \in Nodes |-> IF i = None THEN << >>
                                       ELSE Append(f[entry[i].prev], i)]
           Below(n) == {None} \cup {i \in Ids : rank[i] < n}
           Follows(f, n) ==
             /\ f \in [Below(n) -> Seq(Ids)]
             /\ f[None] = << >>
             /\ \A i \in Below(n) \ {None} : f[i] = Append(f[entry[i].prev], i)
           Reached == {n \in Nat : \E f : Follows(f, n)}
           h == CHOOSE f : f = Rule(f)
<1>2. None \notin Ids /\ R \in Nat /\ rank \in [Ids -> 0 .. R]
  BY <1>1, ConstantFacts DEF Ranked
<1>3. ASSUME NEW n \in Nat, NEW i \in Below(n + 1) \ {None}
      PROVE  i \in Ids /\ entry[i].prev \in Below(n)
  <2>1. i \in Ids /\ rank[i] < n + 1 /\ rank[i] \in Nat
    BY <1>2, <1>3
  <2>2. entry[i].prev \in Ids \cup {None}
    BY <2>1 DEF EntriesTyped, Entry
  <2>3. CASE entry[i].prev # None
    <3>1. rank[entry[i].prev] < rank[i] /\ rank[entry[i].prev] \in Nat
      BY <1>1, <1>2, <2>1, <2>2, <2>3 DEF Ranked
    <3> QED
      BY <2>1, <2>2, <2>3, <3>1
  <2> QED
    BY <2>1, <2>3
<1>4. \A n \in Nat : None \in Below(n) /\ Below(n) \subseteq Below(n + 1)
  BY <1>2
<1>5. 0 \in Reached
  <2> DEFINE f == [i \in {None} |-> << >>]
  <2>1. Below(0) = {None}
    BY <1>2
  <2>2. f \in [{None} -> Seq(Ids)] /\ f[None] = << >>
    OBVIOUS
  <2> HIDE DEF f, Below
  <2>3. Follows(f, 0)
    BY <2>1, <2>2
  <2> HIDE DEF Follows
  <2> QED
    BY <2>3
<1>6. ASSUME NEW n \in Nat, n \in Reached PROVE n + 1 \in Reached
  <2>1. PICK f : Follows(f, n)
    BY <1>6
  <2> DEFINE g == [i \in Below(n + 1) |-> IF i = None THEN << >>
                                          ELSE Append(f[entry[i].prev], i)]
  <2>2. ASSUME NEW i \in Below(n + 1) \ {None}
        PROVE  g[i] = Append(f[entry[i].prev], i) /\ g[i] \in Seq(Ids)
    <3>1. i \in Ids /\ entry[i].prev \in Below(n)
      BY <1>3, <2>2
    <3>2. f[entry[i].prev] \in Seq(Ids)
      BY <2>1, <3>1
    <3>3. g[i] = Append(f[entry[i].prev], i)
      BY <2>2
    <3> HIDE DEF g
    <3> QED
      BY <3>1, <3>2, <3>3
  <2>3. g[None] = << >>
    BY <1>4
  <2>4. \A j \in Below(n) : g[j] = f[j]
    <3> SUFFICES ASSUME NEW j \in Below(n) PROVE g[j] = f[j]
      OBVIOUS
    <3>1. CASE j = None
      BY <2>1, <2>3, <3>1
    <3>2. CASE j # None
      <4>1. j \in Below(n + 1) \ {None} /\ j \in Below(n) \ {None}
        BY <1>4, <3>2
      <4>2. g[j] = Append(f[entry[j].prev], j)
        BY <2>2, <4>1
      <4>3. f[j] = Append(f[entry[j].prev], j)
        BY <2>1, <4>1
      <4> QED
        BY <4>2, <4>3
    <3> QED
      BY <3>1, <3>2
  <2>5. g \in [Below(n + 1) -> Seq(Ids)]
    <3>1. \A i \in Below(n + 1) : g[i] \in Seq(Ids)
      <4>1. g[None] \in Seq(Ids)
        BY <2>3
      <4> HIDE DEF g, Below
      <4> QED
        BY <2>2, <4>1
    <3>2. g = [i \in Below(n + 1) |-> g[i]]
      OBVIOUS
    <3> HIDE DEF g, Below
    <3> QED
      BY <3>1, <3>2
  <2>6. \A i \in Below(n + 1) \ {None} : g[i] = Append(g[entry[i].prev], i)
    BY <1>3, <2>2, <2>4
  <2>7. Follows(g, n + 1)
    BY <2>3, <2>5, <2>6
  <2> HIDE DEF g, Follows
  <2> QED
    BY <2>7
<1>7. PICK f : Follows(f, R + 1)
  <2> HIDE DEF Reached
  <2>1. Nat \subseteq Reached
    BY <1>5, <1>6, SetInduction
  <2> USE DEF Reached
  <2> HIDE DEF Follows
  <2>2. R + 1 \in Reached
    BY <1>2, <2>1
  <2> QED
    BY <2>2
<1>8. Below(R + 1) = Nodes
  BY <1>2
<1>9. f = Rule(f)
  <2> HIDE DEF Below
  <2>1. /\ f \in [Nodes -> Seq(Ids)] /\ f[None] = << >>
        /\ \A i \in Nodes \ {None} : f[i] = Append(f[entry[i].prev], i)
    BY <1>7, <1>8
  <2>2. \A i \in Nodes : f[i] = Rule(f)[i]
    BY <2>1
  <2>3. f = [i \in Nodes |-> f[i]]
    BY <2>1
  <2> QED
    BY <2>2, <2>3
<1>10. h = Rule(h) /\ Lineage = h
  BY <1>9 DEF Lineage
<1> HIDE DEF h
<1>11. /\ h[None] = << >>
       /\ \A i \in Ids : h[i] = Append(h[entry[i].prev], i)
  <2>1. h = [i \in Nodes |-> IF i = None THEN << >>
                             ELSE Append(h[entry[i].prev], i)]
    BY <1>10
  <2> QED
    BY <1>2, <2>1
<1>a. h[None] \in Seq(Ids)
  BY <1>11
<1>b. \A i \in Ids : h[i] = Append(h[entry[i].prev], i)
  BY <1>11
<1> DEFINE Good == {n \in Nat : \A i \in Below(n) : h[i] \in Seq(Ids)}
<1>12. 0 \in Good
  <2>1. Below(0) = {None}
    BY <1>2
  <2> HIDE DEF Below
  <2> QED
    BY <1>a, <2>1
<1>13. ASSUME NEW n \in Nat, n \in Good PROVE n + 1 \in Good
  <2>1. ASSUME NEW i \in Below(n + 1) PROVE h[i] \in Seq(Ids)
    <3>1. CASE i = None
      BY <1>a, <3>1
    <3>2. CASE i # None
      <4>1. i \in Ids /\ entry[i].prev \in Below(n)
        BY <1>3, <2>1, <3>2
      <4>2. h[entry[i].prev] \in Seq(Ids)
        BY <1>13, <4>1
      <4>3. Append(h[entry[i].prev], i) \in Seq(Ids)
        BY <4>1, <4>2
      <4> QED
        BY <1>b, <4>1, <4>3
    <3> QED
      BY <3>1, <3>2
  <2> HIDE DEF Below
  <2> QED
    BY <2>1
<1>14. \A i \in Nodes : h[i] \in Seq(Ids)
  <2> HIDE DEF Good
  <2>1. Nat \subseteq Good
    BY <1>12, <1>13, SetInduction
  <2> USE DEF Good
  <2> HIDE DEF Below
  <2>2. R + 1 \in Good
    BY <1>2, <2>1
  <2> QED
    BY <1>8, <2>2
<1>15. \A i \in Ids : entry[i].prev \in Nodes
  BY DEF EntriesTyped, Entry
<1> QED
  BY <1>10, <1>11, <1>14, <1>15

(***************************************************************************)
(* A walk: its chain holds saved responses, each one the previous response *)
(* of the next, up to the one the request named, and at is the response    *)
(* before them.                                                            *)
(***************************************************************************)
OnChain(w) ==
    /\ w.start # None => w.start \in Saved
    /\ w.at # None => w.at \in Saved
    /\ \A k \in 1 .. Len(w.chain) : w.chain[k] \in Saved
    /\ \A k \in 1 .. Len(w.chain) - 1 : w.chain[k] = entry[w.chain[k + 1]].prev
    /\ Len(w.chain) = 0 => w.at = w.start
    /\ Len(w.chain) > 0 => /\ w.chain[Len(w.chain)] = w.start
                           /\ w.at = entry[w.chain[1]].prev

Where(w) ==
    /\ w.pc = "generate" => w.at = None
    /\ w.pc \in {"walk", "failed"} => w.at # None
    /\ w.pc = "failed" => w.at \in Foreign \/ entry[w.at].state = "evicted"

OnChains == \A c \in Clients : OnChain(walk[c]) /\ Where(walk[c])

\* The ranks of a chain rise, so the response before it is not in it.
LEMMA ChainRises ==
    ASSUME EntriesTyped, ChainsFinite, NEW w \in Walk, OnChain(w), w.at # None
    PROVE  w.at \notin ToSet(w.chain)
<1>1. PICK R, rank : Ranked(R, rank)
  BY DEF ChainsFinite
<1>2. /\ Len(w.chain) \in Nat /\ DOMAIN w.chain = 1 .. Len(w.chain)
      /\ \A k \in 1 .. Len(w.chain) : w.chain[k] \in Ids
      /\ w.at \in Ids
  BY DEF Walk
<1>3. rank \in [Ids -> Nat]
  BY <1>1 DEF Ranked
<1> DEFINE Rising == {k \in Nat : k + 1 <= Len(w.chain) =>
                        rank[w.chain[1]] <= rank[w.chain[k + 1]]}
<1>4. 0 \in Rising
  BY <1>2, <1>3
<1>5. ASSUME NEW k \in Nat, k \in Rising PROVE k + 1 \in Rising
  <2> SUFFICES ASSUME (k + 1) + 1 <= Len(w.chain)
               PROVE  rank[w.chain[1]] <= rank[w.chain[(k + 1) + 1]]
    OBVIOUS
  <2> DEFINE a == w.chain[k + 1]
             b == w.chain[(k + 1) + 1]
  <2>1. k + 1 \in 1 .. Len(w.chain) - 1 /\ 1 \in 1 .. Len(w.chain)
        /\ k + 1 \in 1 .. Len(w.chain) /\ (k + 1) + 1 \in 1 .. Len(w.chain)
    BY <1>2
  <2>2. a = entry[b].prev /\ a \in Ids /\ b \in Ids /\ w.chain[1] \in Ids
    BY <1>2, <2>1 DEF OnChain
  <2>3. rank[w.chain[1]] <= rank[a]
    BY <1>2, <1>5, <2>1
  <2>4. rank[a] < rank[b]
    BY <1>1, <2>2, ConstantFacts DEF Ranked
  <2>5. rank[w.chain[1]] \in Nat /\ rank[a] \in Nat /\ rank[b] \in Nat
    BY <1>3, <2>2
  <2> HIDE DEF a, b
  <2>6. rank[w.chain[1]] <= rank[b]
    BY <2>3, <2>4, <2>5
  <2> QED
    BY <2>6 DEF b
<1>6. Nat \subseteq Rising
  <2> HIDE DEF Rising
  <2> QED
    BY <1>4, <1>5, SetInduction
<1>7. ASSUME NEW k \in 1 .. Len(w.chain) PROVE w.chain[k] # w.at
  <2>1. k - 1 \in Nat /\ (k - 1) + 1 = k /\ 1 \in 1 .. Len(w.chain)
        /\ Len(w.chain) > 0
    BY <1>2, <1>7
  <2>2. k - 1 \in Rising
    BY <1>6, <2>1
  <2>3. rank[w.chain[1]] <= rank[w.chain[k]]
    BY <1>2, <2>1, <2>2
  <2>4. w.at = entry[w.chain[1]].prev /\ w.chain[1] \in Ids /\ w.chain[k] \in Ids
    BY <1>2, <2>1 DEF OnChain
  <2>5. rank[w.at] < rank[w.chain[1]]
    BY <1>1, <2>4, ConstantFacts DEF Ranked
  <2>6. /\ rank[w.at] \in Nat /\ rank[w.chain[1]] \in Nat
        /\ rank[w.chain[k]] \in Nat
    BY <1>2, <1>3, <2>4
  <2> QED
    BY <2>3, <2>5, <2>6
<1> QED
  BY <1>2, <1>7 DEF ToSet

\* A finished walk has the whole lineage of the response it began with.
LEMMA ChainIsLineage ==
    ASSUME EntriesTyped, ChainsFinite, NEW w \in Walk, OnChain(w), w.at = None
    PROVE  w.chain = Lineage[w.start]
<1>1. /\ Len(w.chain) \in Nat /\ w.chain \in Seq(Ids)
      /\ \A k \in 1 .. Len(w.chain) : w.chain[k] \in Ids
  BY DEF Walk
<1>2. CASE Len(w.chain) = 0
  <2>1. w.chain = << >>
    BY <1>1, <1>2
  <2>2. w.start = None
    BY <1>2 DEF OnChain
  <2> QED
    BY <2>1, <2>2, LineageRule
<1>3. CASE Len(w.chain) > 0
  <2> DEFINE Same == {k \in Nat : k + 1 <= Len(w.chain) =>
                        SubSeq(w.chain, 1, k + 1) = Lineage[w.chain[k + 1]]}
  <2>1. 0 \in Same
    <3>1. entry[w.chain[1]].prev = None /\ w.chain[1] \in Ids
      BY <1>1, <1>3 DEF OnChain
    <3> DEFINE empty == << >>
               first == w.chain[1]
    <3>2. Lineage[first] = Append(empty, first)
      BY <3>1, LineageRule
    <3>3. SubSeq(w.chain, 1, 1) = Append(empty, first)
      <4>1. empty \in Seq(Ids) /\ Len(empty) = 0
        OBVIOUS
      <4>2. first \in Ids /\ first = w.chain[1]
        BY <3>1
      <4> HIDE DEF empty, first
      <4>3. /\ SubSeq(w.chain, 1, 1) \in Seq(Ids)
            /\ Len(SubSeq(w.chain, 1, 1)) = 1
            /\ SubSeq(w.chain, 1, 1)[1] = first
        BY <1>1, <1>3, <4>2
      <4>4. /\ Append(empty, first) \in Seq(Ids)
            /\ Len(Append(empty, first)) = 1
            /\ Append(empty, first)[1] = first
        BY <4>1, <4>2
      <4> QED
        BY <4>3, <4>4
    <3> QED
      BY <3>2, <3>3
  <2>2. ASSUME NEW k \in Nat, k \in Same PROVE k + 1 \in Same
    <3> SUFFICES ASSUME (k + 1) + 1 <= Len(w.chain)
                 PROVE  SubSeq(w.chain, 1, (k + 1) + 1)
                          = Lineage[w.chain[(k + 1) + 1]]
      OBVIOUS
    <3>1. k + 1 \in 1 .. Len(w.chain) - 1 /\ (k + 1) + 1 \in 1 .. Len(w.chain)
          /\ k + 1 <= Len(w.chain)
      BY <1>1
    <3>2. /\ w.chain[k + 1] = entry[w.chain[(k + 1) + 1]].prev
          /\ w.chain[(k + 1) + 1] \in Ids
      BY <1>1, <3>1 DEF OnChain
    <3>3. SubSeq(w.chain, 1, k + 1) = Lineage[w.chain[k + 1]]
      BY <2>2, <3>1
    <3>4. Lineage[w.chain[(k + 1) + 1]]
            = Append(SubSeq(w.chain, 1, k + 1), w.chain[(k + 1) + 1])
      BY <3>2, <3>3, LineageRule
    <3>5. SubSeq(w.chain, 1, (k + 1) + 1)
            = Append(SubSeq(w.chain, 1, k + 1), w.chain[(k + 1) + 1])
      BY <1>1, <3>1
    <3> QED
      BY <3>4, <3>5
  <2>3. Nat \subseteq Same
    <3> HIDE DEF Same
    <3> QED
      BY <2>1, <2>2, SetInduction
  <2>4. Len(w.chain) - 1 \in Same /\ (Len(w.chain) - 1) + 1 = Len(w.chain)
    <3> HIDE DEF Same
    <3> QED
      BY <1>1, <1>3, <2>3
  <2>5. SubSeq(w.chain, 1, Len(w.chain)) = Lineage[w.chain[Len(w.chain)]]
    BY <1>1, <2>4
  <2>6. SubSeq(w.chain, 1, Len(w.chain)) = w.chain
    BY <1>1
  <2> QED
    BY <1>3, <2>5, <2>6 DEF OnChain
<1> QED
  BY <1>1, <1>2, <1>3

\* A walk never leaves the lineage of the response it began with.
LEMMA WalkInLineage ==
    ASSUME EntriesTyped, ChainsFinite, NEW w \in Walk, OnChain(w), w.at # None
    PROVE  w.at \in ToSet(Lineage[w.start])
<1>1. /\ Len(w.chain) \in Nat
      /\ \A k \in 1 .. Len(w.chain) : w.chain[k] \in Ids
      /\ w.at \in Ids /\ w.start \in Ids \cup {None}
  BY DEF Walk
<1>2. ASSUME NEW i \in Ids
      PROVE  /\ i \in ToSet(Lineage[i])
             /\ ToSet(Lineage[entry[i].prev]) \subseteq ToSet(Lineage[i])
  <2> DEFINE s == Lineage[entry[i].prev]
  <2>1. s \in Seq(Ids) /\ Lineage[i] = Append(s, i)
    BY LineageRule
  <2> HIDE DEF s
  <2>2. /\ Append(s, i)[Len(s) + 1] = i /\ Len(Append(s, i)) = Len(s) + 1
        /\ \A n \in 1 .. Len(s) : Append(s, i)[n] = s[n]
        /\ DOMAIN s = 1 .. Len(s) /\ Len(s) \in Nat
        /\ DOMAIN Append(s, i) = 1 .. Len(s) + 1
    BY <2>1
  <2>3. 1 .. Len(s) \subseteq 1 .. Len(s) + 1 /\ Len(s) + 1 \in 1 .. Len(s) + 1
    BY <2>2
  <2>4. i \in ToSet(Append(s, i)) /\ ToSet(s) \subseteq ToSet(Append(s, i))
    BY <2>2, <2>3 DEF ToSet
  <2> QED
    BY <2>1, <2>4 DEF s
<1>3. CASE Len(w.chain) = 0
  BY <1>1, <1>2, <1>3 DEF OnChain
<1>4. CASE Len(w.chain) > 0
  <2> DEFINE Held == {k \in Nat : k + 1 <= Len(w.chain) =>
                        w.at \in ToSet(Lineage[w.chain[k + 1]])}
  <2>1. 0 \in Held
    <3>1. entry[w.chain[1]].prev = w.at /\ w.chain[1] \in Ids
      BY <1>1, <1>4 DEF OnChain
    <3> QED
      BY <1>1, <1>2, <3>1
  <2>2. ASSUME NEW k \in Nat, k \in Held PROVE k + 1 \in Held
    <3> SUFFICES ASSUME (k + 1) + 1 <= Len(w.chain)
                 PROVE  w.at \in ToSet(Lineage[w.chain[(k + 1) + 1]])
      OBVIOUS
    <3>1. k + 1 \in 1 .. Len(w.chain) - 1 /\ (k + 1) + 1 \in 1 .. Len(w.chain)
          /\ k + 1 <= Len(w.chain)
      BY <1>1
    <3>2. /\ w.chain[k + 1] = entry[w.chain[(k + 1) + 1]].prev
          /\ w.chain[(k + 1) + 1] \in Ids
      BY <1>1, <3>1 DEF OnChain
    <3> QED
      BY <1>2, <2>2, <3>1, <3>2
  <2>3. Nat \subseteq Held
    <3> HIDE DEF Held
    <3> QED
      BY <2>1, <2>2, SetInduction
  <2>4. Len(w.chain) - 1 \in Held /\ (Len(w.chain) - 1) + 1 = Len(w.chain)
    <3> HIDE DEF Held
    <3> QED
      BY <1>1, <1>4, <2>3
  <2> QED
    BY <1>1, <1>4, <2>4 DEF OnChain
<1> QED
  BY <1>1, <1>3, <1>4

-----------------------------------------------------------------------------
(***************************************************************************)
(* What a step does to the entries.                                        *)
(***************************************************************************)
LEMMA StoreMoves ==
    ASSUME EntriesTyped, LruTyped, NEW i \in Ids, NEW prev \in Saved \cup {None},
           NEW items \in Seq(Nat), Numbered(items), Store(i, prev, items),
           reader' = reader, clock' = clock
    PROVE  EntriesMove
<1>1. prev \in Ids \cup {None}
  BY DEF Saved
<1> DEFINE new == [state |-> "live", created |-> clock, prev |-> prev,
                   items |-> items]
<1>2. /\ entry[i].state = "none" /\ entry'[i] = new
      /\ \A j \in Ids \ {i} :
            \/ entry'[j] = entry[j]
            \/ entry'[j] = [entry[j] EXCEPT !.state = "evicted"]
  BY <1>1, StoreTyped
<1>3. new.state = "live" /\ new.prev = prev /\ new.items = items
  OBVIOUS
<1> HIDE DEF new
<1>4. ASSUME NEW j \in Ids \ {i}
      PROVE  /\ entry'[j].prev = entry[j].prev
             /\ entry'[j].created = entry[j].created
             /\ entry'[j].items = entry[j].items
             /\ entry'[j].state \in {entry[j].state, "evicted"}
  BY <1>2, <1>4 DEF EntriesTyped, Entry
<1>5. i \notin Saved /\ i \in Saved'
  BY <1>2, <1>3 DEF Saved
<1>6. ASSUME NEW j \in Saved
      PROVE  /\ j \in Saved'
             /\ entry'[j].prev = entry[j].prev
             /\ entry'[j].created = entry[j].created
             /\ Len(entry[j].items) <= Len(entry'[j].items)
             /\ entry[j].state = "evicted" => entry'[j].state = "evicted"
  <2>1. j \in Ids \ {i} /\ entry[j].state # "none"
    BY <1>5 DEF Saved
  <2>2. Len(entry[j].items) \in Nat
    BY <2>1 DEF EntriesTyped, Entry
  <2>3. j \in Saved'
    BY <1>4, <2>1 DEF Saved
  <2> QED
    BY <1>4, <2>1, <2>2, <2>3
<1>7. EntriesKept
  BY <1>6 DEF EntriesKept
<1>8. NewLink(i)
  BY <1>2, <1>3, <1>4, <1>5 DEF NewLink
<1>9. \A j \in Ids : Numbered(entry[j].items) => Numbered(entry'[j].items)
  <2>1. entry'[i].items = items
    BY <1>2, <1>3
  <2> QED
    BY <1>4, <2>1
<1> QED
  BY <1>7, <1>8, <1>9 DEF EntriesMove

\* A step that changes one live entry, its links excepted, or none.
LEMMA OneMoves ==
    ASSUME EntriesTyped, NEW i \in Ids, entry[i].state = "live", NEW e \in Entry,
           entry' = [entry EXCEPT ![i] = e], e.state # "none",
           e.prev = entry[i].prev, e.created = entry[i].created,
           Len(entry[i].items) <= Len(e.items),
           Numbered(entry[i].items) => Numbered(e.items)
    PROVE  EntriesMove
<1>1. /\ entry'[i] = e
      /\ \A j \in Ids \ {i} : entry'[j] = entry[j]
  BY DEF EntriesTyped
<1>2. \A j \in Ids : Len(entry[j].items) \in Nat
  BY DEF EntriesTyped, Entry
<1> QED
  BY <1>1, <1>2 DEF EntriesMove, EntriesKept, Saved

LEMMA NoneMoves ==
    ASSUME EntriesTyped, entry' = entry
    PROVE  EntriesMove
<1>1. \A j \in Ids : Len(entry[j].items) \in Nat
  BY DEF EntriesTyped, Entry
<1> QED
  BY <1>1 DEF EntriesMove, EntriesKept, Saved

LEMMA StepMoves ==
    ASSUME Typed, OnChains, [Next]_vars
    PROVE  EntriesMove
<1>a. EntriesTyped /\ LruTyped /\ WalksTyped
  BY DEF Typed
<1>1. ASSUME NEW c \in Clients, NEW i \in Ids, SaveResponse(c, i)
      PROVE  EntriesMove
  <2>1. /\ Store(i, walk[c].start, [n \in DOMAIN Content[i].input |-> n])
        /\ reader' = reader /\ clock' = clock
    BY <1>1 DEF SaveResponse
  <2>2. walk[c].start \in Saved \cup {None}
    BY DEF OnChains, OnChain
  <2> QED
    BY <1>a, <2>1, <2>2, ConstantFacts, StoreMoves
<1>2. ASSUME NEW i \in Ids, SaveEntry(i) PROVE EntriesMove
  <2> DEFINE items == IF reader = "responses"
                        THEN [n \in DOMAIN Content[i].input |-> n] ELSE <<>>
  <2>1. Store(i, None, items) /\ reader' = reader /\ clock' = clock
    BY <1>2 DEF SaveEntry
  <2>2. items \in Seq(Nat) /\ Numbered(items) /\ None \in Saved \cup {None}
    BY ConstantFacts DEF Numbered
  <2> HIDE DEF items
  <2> QED
    BY <1>a, <2>1, <2>2, StoreMoves
<1>3. ASSUME NEW i \in Ids, Delete(i) PROVE EntriesMove
  <2> DEFINE e == [entry[i] EXCEPT !.state = "deleted"]
  <2>1. /\ e \in Entry /\ e.state # "none" /\ e.prev = entry[i].prev
        /\ e.created = entry[i].created /\ e.items = entry[i].items
        /\ Len(entry[i].items) \in Nat
    BY <1>a DEF EntriesTyped, Entry
  <2>2. entry' = [entry EXCEPT ![i] = e] /\ entry[i].state = "live"
    BY <1>3 DEF Delete
  <2> HIDE DEF e
  <2>3. Len(entry[i].items) <= Len(e.items)
    BY <2>1
  <2> QED
    BY <1>a, <2>1, <2>2, <2>3, OneMoves
<1>4. ASSUME NEW c \in Clients, AddItems(c) PROVE EntriesMove
  <2> DEFINE i == adder[c]
             more == Append(entry[i].items, Len(entry[i].items) + 1)
             e == [entry[i] EXCEPT !.items = more]
  <2>1. i \in Ids
    BY <1>4, <1>a DEF AddItems, WalksTyped
  <2>2. CASE entry[i].state = "live"
    <3> DEFINE items == entry[i].items
    <3>a. items \in Seq(Nat)
      BY <1>a, <2>1 DEF EntriesTyped, Entry
    <3>1. more \in Seq(Nat) /\ Len(items) <= Len(more)
          /\ (Numbered(items) => Numbered(more))
      <4> HIDE DEF items, i
      <4>1. /\ Append(items, Len(items) + 1) \in Seq(Nat)
            /\ Len(Append(items, Len(items) + 1)) = Len(items) + 1
            /\ Len(items) \in Nat
            /\ Append(items, Len(items) + 1)[Len(items) + 1] = Len(items) + 1
            /\ \A n \in 1 .. Len(items) :
                  Append(items, Len(items) + 1)[n] = items[n]
        BY <3>a
      <4> QED
        BY <4>1 DEF Numbered, items
    <3>2. entry' = [entry EXCEPT ![i] = e]
      BY <1>4, <2>2 DEF AddItems
    <3> HIDE DEF more, i
    <3>b. Len(entry[i].items) <= Len(more)
          /\ (Numbered(entry[i].items) => Numbered(more))
      BY <3>1
    <3> HIDE DEF items
    <3>3. /\ e \in Entry /\ e.state = entry[i].state /\ e.prev = entry[i].prev
          /\ e.created = entry[i].created /\ e.items = more
      BY <1>a, <2>1, <3>1 DEF EntriesTyped, Entry
    <3> HIDE DEF e
    <3> QED
      BY <1>a, <2>1, <2>2, <3>b, <3>2, <3>3, OneMoves
  <2>3. CASE entry[i].state # "live"
    <3>1. entry' = entry
      BY <1>4, <2>3 DEF AddItems
    <3> QED
      BY <1>a, <3>1, NoneMoves
  <2> QED
    BY <2>2, <2>3
<1>5. CASE UNCHANGED entry
  BY <1>5, <1>a, NoneMoves
<1> QED
  BY <1>1, <1>2, <1>3, <1>4, <1>5
  DEF Next, vars, Tick, Begin, FollowChain, CheckConversation, StartListing,
      NextPage, ListingFails

LEMMA ChainsStayFinite ==
    ASSUME EntriesTyped, EntriesTyped', ChainsFinite, EntriesMove
    PROVE  ChainsFinite'
<1>1. PICK R, rank : Ranked(R, rank)
  BY DEF ChainsFinite
<1>2. R \in Nat /\ rank \in [Ids -> 0 .. R]
  BY <1>1 DEF Ranked
<1>3. ASSUME NEW j \in Ids, entry[j].prev # None
      PROVE  /\ entry[j].prev \in Ids /\ j \in Saved' /\ entry[j].prev \in Saved'
             /\ j \in Saved /\ entry[j].prev \in Saved
             /\ rank[entry[j].prev] < rank[j]
  BY <1>1, <1>3 DEF Ranked, EntriesMove, EntriesKept, Saved
<1>4. CASE \A j \in Ids : entry'[j].prev = entry[j].prev
  <2>1. Ranked(R, rank)'
    BY <1>2, <1>3, <1>4 DEF Ranked
  <2> QED
    BY <2>1 DEF ChainsFinite
<1>5. ASSUME NEW i \in Ids, NewLink(i) PROVE ChainsFinite'
  <2> DEFINE more == [rank EXCEPT ![i] = R + 1]
  <2>1. /\ more \in [Ids -> 0 .. R + 1] /\ R + 1 \in Nat
        /\ more[i] = R + 1
        /\ \A j \in Ids \ {i} : more[j] = rank[j]
        /\ \A j \in Ids : rank[j] \in 0 .. R
    BY <1>2
  <2> HIDE DEF more
  <2>2. ASSUME NEW j \in Ids, entry'[j].prev # None
        PROVE  /\ j \in Saved' /\ entry'[j].prev \in Saved'
               /\ more[entry'[j].prev] < more[j]
    <3>1. CASE j = i
      <4>1. entry'[i].prev \in Saved /\ i \notin Saved /\ i \in Saved'
        BY <1>5, <2>2, <3>1 DEF NewLink
      <4>2. entry'[i].prev \in Ids \ {i} /\ entry'[i].prev \in Saved'
        BY <4>1 DEF EntriesMove, EntriesKept, Saved
      <4>3. more[entry'[i].prev] \in 0 .. R
        BY <2>1, <4>2
      <4> QED
        BY <1>2, <2>1, <3>1, <4>1, <4>2, <4>3
    <3>2. CASE j # i
      <4>1. entry'[j].prev = entry[j].prev /\ i \notin Saved
        BY <1>5, <3>2 DEF NewLink
      <4>2. /\ entry[j].prev \in Ids /\ j \in Saved' /\ entry[j].prev \in Saved'
            /\ entry[j].prev \in Saved /\ rank[entry[j].prev] < rank[j]
        BY <1>3, <2>2, <4>1
      <4>3. entry[j].prev # i
        BY <4>1, <4>2
      <4> QED
        BY <2>1, <3>2, <4>1, <4>2, <4>3
    <3> QED
      BY <3>1, <3>2
  <2>3. Ranked(R + 1, more)'
    BY <2>1, <2>2 DEF Ranked
  <2> QED
    BY <2>3 DEF ChainsFinite
<1> QED
  BY <1>4, <1>5 DEF EntriesMove

\* A walk that waits stays on its chain, whatever the others do.
LEMMA ChainKept ==
    ASSUME EntriesMove, NEW w \in Walk, OnChain(w), Where(w)
    PROVE  OnChain(w)' /\ Where(w)'
<1>1. Len(w.chain) \in Nat
  BY DEF Walk
<1>2. /\ \A k \in 1 .. Len(w.chain) :
             w.chain[k] \in Saved' /\ entry'[w.chain[k]].prev = entry[w.chain[k]].prev
      /\ w.start # None => w.start \in Saved'
      /\ w.at # None => w.at \in Saved'
  BY DEF OnChain, EntriesMove, EntriesKept
<1>3. \A k \in 1 .. Len(w.chain) - 1 : k + 1 \in 1 .. Len(w.chain)
  BY <1>1
<1>4. OnChain(w)'
  <2>1. \A k \in 1 .. Len(w.chain) - 1 :
           w.chain[k] = entry'[w.chain[k + 1]].prev
    BY <1>2, <1>3 DEF OnChain
  <2>2. Len(w.chain) > 0 => 1 \in 1 .. Len(w.chain)
    BY <1>1
  <2> QED
    BY <1>2, <2>1, <2>2 DEF OnChain
<1>5. Where(w)'
  BY DEF Where, OnChain, EntriesMove, EntriesKept
<1> QED
  BY <1>4, <1>5

\* One request moves, the others wait.
LEMMA WalkMoves ==
    ASSUME Typed, OnChains, EntriesMove,
           NEW c \in Clients, NEW new \in Walk, walk' = [walk EXCEPT ![c] = new],
           OnChain(new), Where(new)
    PROVE  OnChains'
<1>1. ASSUME NEW d \in Clients PROVE (OnChain(walk[d]) /\ Where(walk[d]))'
  <2>1. PICK w \in Walk : w = walk'[d] /\ OnChain(w) /\ Where(w)
    <3>1. walk[d] \in Walk /\ OnChain(walk[d]) /\ Where(walk[d])
      BY DEF Typed, WalksTyped, OnChains
    <3>2. walk'[d] = IF d = c THEN new ELSE walk[d]
      BY DEF Typed, WalksTyped
    <3> QED
      BY <3>1, <3>2
  <2>2. OnChain(w)' /\ Where(w)'
    BY <2>1, ChainKept
  <2> QED
    BY <2>1, <2>2 DEF OnChain, Where
<1> QED
  BY <1>1 DEF OnChains

\* The response found is put in front of the chain.
LEMMA FollowedOnChain ==
    ASSUME EntriesTyped, ChainsFinite, NEW c \in Clients, walk[c] \in Walk,
           OnChain(walk[c]), walk[c].pc = "walk", Where(walk[c]),
           NEW new \in Walk, Followed(c, new)
    PROVE  OnChain(new) /\ Where(new)
<1> DEFINE w == walk[c]
<1>1. /\ w.at \in Ids /\ w.chain \in Seq(Ids) /\ Len(w.chain) \in Nat
      /\ new.start = w.start /\ new.at = entry[w.at].prev
      /\ new.chain = <<w.at>> \o w.chain
      /\ new.pc = IF entry[w.at].prev = None THEN "generate" ELSE "walk"
  BY DEF Followed, Walk
<1>2. PICK at, chain : at = w.at /\ chain = w.chain
  OBVIOUS
<1> HIDE DEF w
<1>3. /\ <<at>> \o chain \in Seq(Ids)
      /\ Len(<<at>> \o chain) = Len(chain) + 1
      /\ (<<at>> \o chain)[1] = at
      /\ \A k \in 1 .. Len(chain) : (<<at>> \o chain)[k + 1] = chain[k]
  BY <1>1, <1>2
<1>4. /\ new.chain \in Seq(Ids) /\ Len(new.chain) = Len(chain) + 1
      /\ new.chain[1] = at
      /\ \A k \in 1 .. Len(chain) : new.chain[k + 1] = chain[k]
  BY <1>1, <1>2, <1>3
<1>5. /\ w.start # None => w.start \in Saved
      /\ at \in Saved
      /\ \A k \in 1 .. Len(chain) : chain[k] \in Saved
      /\ \A k \in 1 .. Len(chain) - 1 : chain[k] = entry[chain[k + 1]].prev
      /\ Len(chain) = 0 => at = w.start
      /\ Len(chain) > 0 => /\ chain[Len(chain)] = w.start
                           /\ at = entry[chain[1]].prev
  BY <1>1, <1>2, ConstantFacts DEF OnChain, w
<1>6. new.at # None => new.at \in Saved
  BY <1>1 DEF ChainsFinite, Ranked
<1>7. ASSUME NEW k \in 1 .. Len(new.chain) PROVE new.chain[k] \in Saved
  <2>1. CASE k = 1
    BY <1>4, <1>5, <2>1
  <2>2. CASE k # 1
    <3>1. k - 1 \in 1 .. Len(chain) /\ (k - 1) + 1 = k
      BY <1>1, <1>2, <1>4, <1>7, <2>2
    <3> QED
      BY <1>4, <1>5, <3>1
  <2> QED
    BY <2>1, <2>2
<1>8. ASSUME NEW k \in 1 .. Len(new.chain) - 1
      PROVE  new.chain[k] = entry[new.chain[k + 1]].prev
  <2>1. k \in 1 .. Len(chain) /\ new.chain[k + 1] = chain[k]
    BY <1>1, <1>2, <1>4, <1>8
  <2>2. CASE k = 1
    BY <1>4, <1>5, <2>1, <2>2
  <2>3. CASE k # 1
    <3>1. k - 1 \in 1 .. Len(chain) - 1 /\ (k - 1) + 1 = k
          /\ k - 1 \in 1 .. Len(chain)
      BY <1>1, <1>2, <2>1, <2>3
    <3>2. chain[k - 1] = entry[chain[k]].prev
      BY <1>5, <3>1
    <3>3. new.chain[k] = chain[k - 1]
      BY <1>4, <3>1
    <3> QED
      BY <2>1, <3>2, <3>3
  <2> QED
    BY <2>2, <2>3
<1>9. new.chain[Len(new.chain)] = new.start
  <2>1. CASE Len(chain) = 0
    BY <1>1, <1>4, <1>5, <2>1
  <2>2. CASE Len(chain) > 0
    <3>1. Len(chain) \in 1 .. Len(chain)
      BY <1>1, <1>2, <2>2
    <3> QED
      BY <1>1, <1>4, <1>5, <2>2, <3>1
  <2> QED
    BY <1>1, <1>2, <2>1, <2>2
<1>10. OnChain(new)
  BY <1>1, <1>2, <1>4, <1>5, <1>6, <1>7, <1>8, <1>9 DEF OnChain
<1>11. Where(new)
  BY <1>1 DEF Where
<1> QED
  BY <1>10, <1>11

\* A request is refused for another owner's response or an evicted one.
LEMMA RefusedOnChain ==
    ASSUME EntriesTyped, ChainsFinite, NEW c \in Clients, walk[c] \in Walk,
           OnChain(walk[c]), walk[c].pc = "walk", Where(walk[c]),
           NEW new \in Walk, Refused(c, new)
    PROVE  OnChain(new) /\ Where(new)
<1>1. PICK w \in Walk : w = walk[c]
  OBVIOUS
<1>2. w.at # None /\ OnChain(w)
  BY <1>1 DEF Where
<1>3. w.at \notin ToSet(w.chain)
  BY <1>2, ChainRises
<1>4. w.at \in Saved
  BY <1>2 DEF OnChain
<1>5. w.at \in Foreign \/ entry[w.at].state = "evicted"
  BY <1>1, <1>3, <1>4 DEF Refused, FoundForChain, Saved, EntriesTyped, Entry
<1>6. /\ new.start = w.start /\ new.at = w.at /\ new.chain = w.chain
      /\ new.pc = "failed"
  BY <1>1 DEF Refused
<1>7. OnChain(new)
  BY <1>2, <1>6 DEF OnChain
<1> QED
  BY <1>2, <1>5, <1>6, <1>7 DEF Where

Chained == Typed /\ ChainsFinite /\ OnChains

LEMMA ChainedInit == Init => Chained
<1> SUFFICES ASSUME Init PROVE Chained
  OBVIOUS
<1>1. Typed
  BY TypedInit
<1>2. \A j \in Ids : entry[j].prev = None
  BY DEF Init, Unsaved
<1>3. ChainsFinite
  <2> DEFINE rank == [j \in Ids |-> 0]
  <2>1. rank \in [Ids -> 0 .. 0]
    OBVIOUS
  <2> HIDE DEF rank
  <2>2. Ranked(0, rank)
    BY <1>2, <2>1 DEF Ranked
  <2> QED
    BY <2>2 DEF ChainsFinite
<1>4. OnChains
  <2>1. \A c \in Clients : walk[c] = AtRest
    BY DEF Init
  <2>2. /\ AtRest.pc = "idle" /\ AtRest.start = None /\ AtRest.at = None
        /\ Len(AtRest.chain) = 0
    BY DEF AtRest
  <2>3. OnChain(AtRest) /\ Where(AtRest)
    BY <2>2 DEF OnChain, Where
  <2> QED
    BY <2>1, <2>3 DEF OnChains
<1> QED
  BY <1>1, <1>3, <1>4 DEF Chained

LEMMA ChainedStep == Chained /\ [Next]_vars => Chained'
<1> SUFFICES ASSUME Chained, [Next]_vars PROVE Chained'
  OBVIOUS
<1>1. Typed /\ ChainsFinite /\ OnChains /\ Typed'
  BY TypedStep DEF Chained
<1>2. EntriesTyped /\ WalksTyped /\ EntriesTyped'
  BY <1>1 DEF Typed
<1>3. EntriesMove
  BY <1>1, StepMoves
<1>4. ChainsFinite'
  BY <1>1, <1>2, <1>3, ChainsStayFinite
<1>5. AtRest \in Walk /\ OnChain(AtRest) /\ Where(AtRest)
  <2>1. /\ AtRest.pc = "idle" /\ AtRest.start = None /\ AtRest.at = None
        /\ Len(AtRest.chain) = 0 /\ AtRest \in Walk
    BY DEF AtRest, Walk
  <2> QED
    BY <2>1 DEF OnChain, Where
<1>6. ASSUME NEW c \in Clients, NEW start \in Ids \cup {None}, Begin(c, start)
      PROVE  OnChains'
  <2> DEFINE pc == IF start = None THEN "generate" ELSE "walk"
             new == [AtRest EXCEPT !.pc = pc, !.start = start, !.at = start]
  <2>1. walk' = [walk EXCEPT ![c] = new]
    BY <1>6 DEF Begin
  <2>2. /\ new \in Walk /\ new.start = start /\ new.at = start
        /\ Len(new.chain) = 0 /\ new.pc = pc
    <3>1. AtRest \in Walk /\ Len(AtRest.chain) = 0
      BY <1>5 DEF AtRest
    <3>2. pc \in {"generate", "walk"}
      OBVIOUS
    <3> HIDE DEF pc
    <3> QED
      BY <3>1, <3>2 DEF Walk
  <2>3. start # None => start \in Saved
    BY <1>6 DEF Begin, Saved
  <2> HIDE DEF new
  <2>4. OnChain(new) /\ Where(new)
    BY <2>2, <2>3 DEF OnChain, Where
  <2> QED
    BY <1>1, <1>3, <2>1, <2>2, <2>4, WalkMoves
<1>7. ASSUME NEW c \in Clients, FollowChain(c) PROVE OnChains'
  <2>1. WalksOn(c)
    BY <1>2, <1>7, ChainFollowed
  <2>2. PICK new \in Walk : Turn(c, new)
    BY <2>1 DEF WalksOn
  <2>3. /\ walk[c] \in Walk /\ OnChain(walk[c]) /\ Where(walk[c])
        /\ walk[c].pc = "walk"
    BY <1>1, <1>2, <2>1 DEF WalksOn, OnChains, WalksTyped
  <2>4. OnChain(new) /\ Where(new)
    BY <1>1, <1>2, <2>2, <2>3, FollowedOnChain, RefusedOnChain DEF Turn
  <2> QED
    BY <1>1, <1>3, <2>2, <2>4, WalkMoves DEF Turn
<1>8. ASSUME NEW c \in Clients, NEW i \in Ids, SaveResponse(c, i)
      PROVE  OnChains'
  BY <1>1, <1>3, <1>5, <1>8, WalkMoves DEF SaveResponse
<1>9. ASSUME UNCHANGED walk PROVE OnChains'
  <2>1. ASSUME NEW c \in Clients PROVE OnChains'
    <3>1. PICK w \in Walk : w = walk[c] /\ OnChain(w) /\ Where(w)
      BY <1>1, <1>2 DEF WalksTyped, OnChains
    <3>2. walk' = [walk EXCEPT ![c] = w]
      BY <1>2, <1>9, <3>1 DEF WalksTyped
    <3> QED
      BY <1>1, <1>3, <3>1, <3>2, WalkMoves
  <2>2. Clients = {} => OnChains'
    BY DEF OnChains
  <2> QED
    BY <2>1, <2>2
<1>10. OnChains'
  BY <1>6, <1>7, <1>8, <1>9
  DEF Next, vars, Tick, CheckConversation, AddItems, SaveEntry, Delete,
      StartListing, NextPage, ListingFails
<1> QED
  BY <1>1, <1>4, <1>10 DEF Chained

LEMMA AlwaysChained == Spec => []Chained
  BY ChainedInit, ChainedStep, PTL DEF Spec

(***************************************************************************)
(* history.go: the history a request goes on with is that of its whole     *)
(* chain, oldest first, however long the chain, whoever else saves,        *)
(* deletes or evicts while it is walked.                                   *)
(***************************************************************************)
THEOREM HistoryAlwaysWhole == Spec => []HistoryWhole
<1>1. Chained => HistoryWhole
  <2> SUFFICES ASSUME Chained, NEW c \in Clients, walk[c].pc = "generate"
               PROVE  walk[c].chain = Lineage[walk[c].start]
    BY DEF HistoryWhole
  <2>1. PICK w \in Walk : w = walk[c]
    BY DEF Chained, Typed, WalksTyped
  <2> QED
    BY <2>1, ChainIsLineage DEF Chained, Typed, OnChains, Where
<1> QED
  BY <1>1, AlwaysChained, PTL

(***************************************************************************)
(* A chain is refused only for a response of another owner or one that was *)
(* evicted: no delete breaks it, at any moment, and no chain that requests *)
(* build is a cycle.                                                       *)
(***************************************************************************)
THEOREM DeleteAlwaysKeepsChain == Spec => []DeleteKeepsChain
<1>1. Chained => DeleteKeepsChain
  <2> SUFFICES ASSUME Chained, NEW c \in Clients, walk[c].pc = "failed"
               PROVE  \/ walk[c].at \in Foreign
                      \/ \E i \in ToSet(Lineage[walk[c].start]) :
                            entry[i].state = "evicted"
    BY DEF DeleteKeepsChain
  <2>1. PICK w \in Walk : w = walk[c]
    BY DEF Chained, Typed, WalksTyped
  <2>2. /\ w.at # None /\ OnChain(w)
        /\ w.at \in Foreign \/ entry[w.at].state = "evicted"
    BY <2>1 DEF Chained, OnChains, Where
  <2>3. w.at \in ToSet(Lineage[w.start])
    BY <2>2, WalkInLineage DEF Chained, Typed
  <2> QED
    BY <2>1, <2>2, <2>3
<1> QED
  BY <1>1, AlwaysChained, PTL

-----------------------------------------------------------------------------
(***************************************************************************)
(* One page: the entries data of a list after its place p.                 *)
(***************************************************************************)
Taken(list, p, data) ==
    /\ list \in Lists /\ list \in Seq(Nat) /\ data \in Seq(Nat)
    /\ CursorAt(list, p)
    /\ Len(data) = IF Len(list) - p > Limit THEN Limit ELSE Len(list) - p
    /\ \A k \in 1 .. Len(data) : data[k] = list[p + k]
    /\ lister'.pc = IF Len(list) - p > Limit THEN "reading" ELSE "done"
    /\ lister'.of = lister.of /\ lister'.order = lister.order
    /\ lister'.after = IF Len(data) = 0 THEN lister.after ELSE data[Len(data)]
    /\ lister'.seen = lister.seen \o data
    /\ lister'.stable = lister.stable \cap ToSet(list)
    /\ lister'.lost = (lister.lost \/ lister.after \notin ToSet(list) \cup {None})
    /\ lister'.tied = (lister.tied \/ (lister.of = None /\ Ties))

LEMMA PageTaken ==
    ASSUME EntriesTyped, lister \in Lister, NextPage
    PROVE  \E list, p, data : Taken(list, p, data)
<1>1. PICK list \in Lists :
        lister' = [lister EXCEPT
             !.pc = IF Page(list).more THEN "reading" ELSE "done",
             !.after = IF Page(list).data = <<>> THEN @ ELSE Last(Page(list).data),
             !.seen = @ \o Page(list).data,
             !.stable = @ \cap ToSet(list),
             !.lost = @ \/ lister.after \notin ToSet(list) \cup {None},
             !.tied = @ \/ (lister.of = None /\ Ties)]
  BY DEF NextPage
<1>2. list \in Seq(Nat)
  BY ListsTyped
<1>3. PICK p : CursorAt(list, p) /\ PageAt(list, p, Page(list))
  BY <1>2, PageCut
<1> DEFINE data == Page(list).data
           after == IF data = << >> THEN lister.after ELSE Last(data)
           lost == lister.lost \/ lister.after \notin ToSet(list) \cup {None}
           tied == lister.tied \/ (lister.of = None /\ Ties)
           stable == lister.stable \cap ToSet(list)
           seen == lister.seen \o data
           pc == IF Page(list).more THEN "reading" ELSE "done"
<1>4. lister' = [lister EXCEPT !.pc = pc, !.after = after, !.seen = seen,
                    !.stable = stable, !.lost = lost, !.tied = tied]
  BY <1>1
<1>5. /\ data \in Seq(Nat)
      /\ Len(data) = IF Len(list) - p > Limit THEN Limit ELSE Len(list) - p
      /\ \A k \in 1 .. Len(data) : data[k] = list[p + k]
      /\ pc = IF Len(list) - p > Limit THEN "reading" ELSE "done"
  BY <1>3 DEF PageAt
<1>6. after = IF Len(data) = 0 THEN lister.after ELSE data[Len(data)]
  <2> HIDE DEF data
  <2>1. data = << >> <=> Len(data) = 0
    BY <1>5
  <2> QED
    BY <2>1 DEF Last
<1> HIDE DEF data, after, lost, tied, stable, seen, pc
<1>7. /\ lister'.pc = pc /\ lister'.after = after /\ lister'.seen = seen
      /\ lister'.stable = stable /\ lister'.lost = lost /\ lister'.tied = tied
      /\ lister'.of = lister.of /\ lister'.order = lister.order
  BY <1>4 DEF Lister
<1>8. Taken(list, p, data)
  BY <1>2, <1>3, <1>5, <1>6, <1>7 DEF Taken, lost, tied, stable, seen
<1> QED
  BY <1>8

\* What the lister has been given, page after page.
LEMMA SeenExtended ==
    ASSUME lister \in Lister, NEW list, NEW p, NEW data, Taken(list, p, data)
    PROVE  /\ lister.seen \in Seq(Nat) /\ Len(lister.seen) \in Nat
           /\ data \in Seq(Nat) /\ Len(data) \in Nat /\ Len(list) \in Nat
           /\ p \in 0 .. Len(list) /\ p \in Nat /\ p + Len(data) <= Len(list)
           /\ lister'.seen \in Seq(Nat)
           /\ Len(lister'.seen) = Len(lister.seen) + Len(data)
           /\ \A k \in 1 .. Len(lister.seen) : lister'.seen[k] = lister.seen[k]
           /\ \A k \in 1 .. Len(data) :
                 lister'.seen[Len(lister.seen) + k] = list[p + k]
           /\ \A k \in 1 .. Len(lister'.seen) :
                 \/ k \in 1 .. Len(lister.seen)
                 \/ k - Len(lister.seen) \in 1 .. Len(data)
<1>1. lister.seen \in Seq(Nat) /\ data \in Seq(Nat) /\ list \in Seq(Nat)
      /\ p \in 0 .. Len(list)
  BY DEF Taken, CursorAt, Lister
<1>2. PICK seen : seen = lister.seen /\ seen \in Seq(Nat)
  BY <1>1
<1>3. lister'.seen = seen \o data
  BY <1>2 DEF Taken
<1>4. /\ seen \o data \in Seq(Nat) /\ Len(seen \o data) = Len(seen) + Len(data)
      /\ \A k \in 1 .. Len(seen) : (seen \o data)[k] = seen[k]
      /\ \A k \in 1 .. Len(data) : (seen \o data)[Len(seen) + k] = data[k]
      /\ \A k \in 1 .. Len(seen \o data) :
            k \in 1 .. Len(seen) \/ k - Len(seen) \in 1 .. Len(data)
  BY <1>1, <1>2, ConcatElements
<1>5. /\ Len(seen) \in Nat /\ Len(data) \in Nat /\ Len(list) \in Nat /\ p \in Nat
      /\ p + Len(data) <= Len(list)
  <2>1. Len(data) = IF Len(list) - p > Limit THEN Limit ELSE Len(list) - p
    BY DEF Taken
  <2>2. Len(seen) \in Nat /\ Len(data) \in Nat /\ Len(list) \in Nat /\ p \in Nat
    BY <1>1, <1>2
  <2> QED
    BY <1>1, <2>1, <2>2
<1> QED
  BY <1>1, <1>2, <1>3, <1>4, <1>5 DEF Taken

-----------------------------------------------------------------------------
(***************************************************************************)
(* The items of a conversation, read upwards or downwards.                 *)
(***************************************************************************)
ReadUp(items) ==
    /\ Len(lister.seen) <= Len(items)
    /\ \A k \in 1 .. Len(lister.seen) : lister.seen[k] = k
    /\ lister.after = IF Len(lister.seen) = 0 THEN None ELSE Len(lister.seen)
    /\ lister.pc = "done" => lister.stable \subseteq 1 .. Len(lister.seen)

\* top is the number of items that there were for the first page.
ReadDown(items, top) ==
    /\ top \in 0 .. Len(items)
    /\ Len(lister.seen) <= top
    /\ \A k \in 1 .. Len(lister.seen) : lister.seen[k] = (top + 1) - k
    /\ lister.after = IF Len(lister.seen) = 0 THEN None
                      ELSE (top + 1) - Len(lister.seen)
    /\ lister.stable \subseteq 1 .. top
    /\ lister.pc = "done" => Len(lister.seen) = top

\* The item at place k of a list of n that is read downwards.
Placed(n, k) == IF n \in DOMAIN Shuffle THEN Shuffle[n][k] ELSE (n + 1) - k

\* As long as no item has been added, what was given is how the list begins.
ReadWhole(items) ==
    /\ lister.stable \subseteq 1 .. Len(items)
    /\ lister.stable = 1 .. Len(items) =>
         /\ Len(lister.seen) <= Len(items)
         /\ \A k \in 1 .. Len(lister.seen) :
               lister.seen[k] = Placed(Len(items), k)
         /\ lister.after = IF Len(lister.seen) = 0 THEN None
                           ELSE Placed(Len(items), Len(lister.seen))
         /\ lister.pc = "done" => Len(lister.seen) = Len(items)

ItemsRead ==
    lister.of # None =>
       /\ lister.of \in Saved
       /\ Upwards => ReadUp(entry[lister.of].items)
       /\ ~Upwards => ReadWhole(entry[lister.of].items)
       /\ ~Upwards /\ Len(entry[lister.of].items) <= Inserted
            => \E top : ReadDown(entry[lister.of].items, top)

ItemsNumbered == \A i \in Ids : Numbered(entry[i].items)

LEMMA NumberedSet ==
    ASSUME NEW items \in Seq(Nat), Numbered(items)
    PROVE  ToSet(items) = 1 .. Len(items)
<1>1. DOMAIN items = 1 .. Len(items)
  OBVIOUS
<1> QED
  BY <1>1 DEF Numbered, ToSet

\* The next page upwards begins where the last one ended.
LEMMA PageUp ==
    ASSUME lister \in Lister, NEW list, NEW p, NEW data, Taken(list, p, data),
           Numbered(list), NEW items \in Seq(Nat), list = items, ReadUp(items)
    PROVE  ReadUp(items)'
<1>1. PICK s : s = Len(lister.seen)
  OBVIOUS
<1>2. /\ s \in Nat /\ Len(data) \in Nat /\ Len(items) \in Nat /\ p \in Nat
      /\ p \in 0 .. Len(items) /\ p + Len(data) <= Len(items)
      /\ Len(lister'.seen) = s + Len(data)
      /\ \A k \in 1 .. s : lister'.seen[k] = lister.seen[k]
      /\ \A k \in 1 .. Len(data) : lister'.seen[s + k] = items[p + k]
      /\ \A k \in 1 .. Len(lister'.seen) : k \in 1 .. s \/ k - s \in 1 .. Len(data)
  BY <1>1, SeenExtended
<1>3. s <= Len(items) /\ \A k \in 1 .. s : lister.seen[k] = k
  BY <1>1 DEF ReadUp
<1>4. p = s
  <2>1. CASE s = 0
    BY <1>1, <2>1 DEF ReadUp, Taken, CursorAt
  <2>2. CASE s # 0
    <3>1. lister.after = s /\ s \in 1 .. Len(items) /\ s # None
      BY <1>1, <1>2, <1>3, <2>2, ConstantFacts DEF ReadUp
    <3>2. s \in ToSet(items)
      BY <3>1, NumberedSet
    <3>3. p > 0 /\ items[p] = s
      BY <3>1, <3>2 DEF Taken, CursorAt
    <3>4. p \in 1 .. Len(items)
      BY <1>2, <3>3
    <3> QED
      BY <3>3, <3>4 DEF Numbered
  <2> QED
    BY <2>1, <2>2
<1>5. \A k \in 1 .. Len(data) : s + k \in 1 .. Len(items) /\ items[s + k] = s + k
  BY <1>2, <1>4 DEF Numbered
<1>6. ASSUME NEW k \in 1 .. Len(lister'.seen) PROVE lister'.seen[k] = k
  <2>1. CASE k \in 1 .. s
    BY <1>2, <1>3, <2>1
  <2>2. CASE k - s \in 1 .. Len(data)
    <3>1. s + (k - s) = k
      BY <1>2, <1>6
    <3> QED
      BY <1>2, <1>4, <1>5, <2>2, <3>1
  <2> QED
    BY <1>2, <2>1, <2>2
<1>7. lister'.after = IF s + Len(data) = 0 THEN None ELSE s + Len(data)
  <2>1. CASE Len(data) = 0
    BY <1>1, <1>2, <2>1 DEF ReadUp, Taken
  <2>2. CASE Len(data) # 0
    <3>1. Len(data) \in 1 .. Len(data)
      BY <1>2, <2>2
    <3>2. data[Len(data)] = s + Len(data)
      BY <1>4, <1>5, <3>1 DEF Taken
    <3> QED
      BY <1>2, <2>2, <3>2 DEF Taken
  <2> QED
    BY <2>1, <2>2
<1>8. lister'.pc = "done" => lister'.stable \subseteq 1 .. s + Len(data)
  <2>1. lister'.pc = "done" => s + Len(data) = Len(items)
    BY <1>2, <1>4 DEF Taken
  <2>2. lister'.stable \subseteq 1 .. Len(items)
    BY NumberedSet DEF Taken
  <2> QED
    BY <2>1, <2>2
<1> QED
  BY <1>2, <1>4, <1>6, <1>7, <1>8 DEF ReadUp

LEMMA PageDown ==
    ASSUME lister \in Lister, NEW list, NEW p, NEW data, Taken(list, p, data),
           NEW items \in Seq(Nat), Len(list) = Len(items),
           \A k \in 1 .. Len(list) : list[k] = (Len(list) + 1) - k,
           NEW top, ReadDown(items, top)
    PROVE  \E new : ReadDown(items, new)'
<1>1. PICK s, L : s = Len(lister.seen) /\ L = Len(items)
  OBVIOUS
<1>2. /\ s \in Nat /\ Len(data) \in Nat /\ L \in Nat /\ p \in Nat
      /\ p \in 0 .. L /\ p + Len(data) <= L
      /\ Len(lister'.seen) = s + Len(data)
      /\ \A k \in 1 .. s : lister'.seen[k] = lister.seen[k]
      /\ \A k \in 1 .. Len(data) : lister'.seen[s + k] = list[p + k]
      /\ \A k \in 1 .. Len(lister'.seen) : k \in 1 .. s \/ k - s \in 1 .. Len(data)
  BY <1>1, SeenExtended
<1>3. \A k \in 1 .. L : list[k] = (L + 1) - k
  BY <1>1
<1>4. ToSet(list) = 1 .. L
  <2>1. DOMAIN list = 1 .. L
    BY <1>1 DEF Taken
  <2>2. \A x \in 1 .. L : (L + 1) - x \in 1 .. L /\ (L + 1) - ((L + 1) - x) = x
    BY <1>2
  <2>3. \A x \in 1 .. L : list[(L + 1) - x] = x
    BY <1>3, <2>2
  <2>4. \A k \in 1 .. L : list[k] \in 1 .. L
    BY <1>3, <2>2
  <2> QED
    BY <2>1, <2>2, <2>3, <2>4 DEF ToSet
<1>5. /\ top \in 0 .. L /\ s <= top
      /\ \A k \in 1 .. s : lister.seen[k] = (top + 1) - k
      /\ lister.after = IF s = 0 THEN None ELSE (top + 1) - s
      /\ lister.stable \subseteq 1 .. top
  BY <1>1 DEF ReadDown
<1> DEFINE new == IF s = 0 THEN L ELSE top
<1>6. new \in 0 .. L /\ p = L - (new - s) /\ s <= new
  <2>1. CASE s = 0
    BY <1>1, <1>2, <1>5, <2>1 DEF Taken, CursorAt
  <2>2. CASE s # 0
    <3>1. lister.after = (top + 1) - s /\ (top + 1) - s \in 1 .. L
          /\ (top + 1) - s # None
      BY <1>2, <1>5, <2>2, ConstantFacts
    <3>2. p > 0 /\ list[p] = (top + 1) - s
      BY <1>4, <3>1 DEF Taken, CursorAt
    <3>3. p \in 1 .. L
      BY <1>2, <3>2
    <3>4. (L + 1) - p = (top + 1) - s
      BY <1>3, <3>2, <3>3
    <3>5. s \in Nat /\ p \in Nat /\ L \in Nat /\ top \in Nat /\ s <= top
      BY <1>2, <1>5
    <3>6. p = L - (top - s)
      BY <3>4, <3>5
    <3> QED
      BY <1>5, <2>2, <3>5, <3>6
  <2> QED
    BY <2>1, <2>2
<1>7. lister'.stable \subseteq 1 .. new
  <2>1. lister'.stable \subseteq 1 .. L
    BY <1>4 DEF Taken
  <2>2. lister'.stable \subseteq 1 .. top
    BY <1>5 DEF Taken
  <2> QED
    BY <2>1, <2>2
<1>8. \A k \in 1 .. s : lister.seen[k] = (new + 1) - k
  BY <1>2, <1>5
<1>9. lister.after = IF s = 0 THEN None ELSE (new + 1) - s
  BY <1>5
<1> HIDE DEF new
<1>10. \A k \in 1 .. Len(data) :
          p + k \in 1 .. L /\ list[p + k] = (new + 1) - (s + k)
  BY <1>2, <1>3, <1>6
<1>11. ASSUME NEW k \in 1 .. Len(lister'.seen) PROVE lister'.seen[k] = (new + 1) - k
  <2>1. CASE k \in 1 .. s
    BY <1>2, <1>8, <2>1
  <2>2. CASE k - s \in 1 .. Len(data)
    <3>1. s + (k - s) = k
      BY <1>2, <1>11
    <3> QED
      BY <1>2, <1>10, <2>2, <3>1
  <2> QED
    BY <1>2, <2>1, <2>2
<1>12. lister'.after = IF s + Len(data) = 0 THEN None
                       ELSE (new + 1) - (s + Len(data))
  <2>1. CASE Len(data) = 0
    BY <1>2, <1>9, <2>1 DEF Taken
  <2>2. CASE Len(data) # 0
    <3>1. Len(data) \in 1 .. Len(data)
      BY <1>2, <2>2
    <3>2. data[Len(data)] = (new + 1) - (s + Len(data))
      BY <1>10, <3>1 DEF Taken
    <3> QED
      BY <1>2, <2>2, <3>2 DEF Taken
  <2> QED
    BY <2>1, <2>2
<1>13. lister'.pc = "done" => s + Len(data) = new
  <2>1. lister'.pc = "done" => Len(data) = Len(list) - p
    BY DEF Taken
  <2>2. Len(list) = L /\ L \in Nat /\ s \in Nat /\ p = L - (new - s)
        /\ new \in Nat
    BY <1>1, <1>2, <1>6
  <2> QED
    BY <2>1, <2>2
<1>14. s + Len(data) <= new
  BY <1>2, <1>6
<1>15. ReadDown(items, new)'
  BY <1>1, <1>2, <1>6, <1>7, <1>11, <1>12, <1>13, <1>14 DEF ReadDown
<1> QED
  BY <1>15

LEMMA TurnedAround ==
    ASSUME NEW items \in Seq(Nat), Numbered(items), NEW list, list = Reverse(items)
    PROVE  /\ Len(list) = Len(items)
           /\ \A k \in 1 .. Len(list) : list[k] = (Len(list) + 1) - k
<1> DEFINE n == Len(items)
<1>1. n \in Nat /\ list = [k \in 1 .. n |-> items[(n - k) + 1]]
  BY DEF Reverse
<1>2. \A k \in 1 .. n : (n - k) + 1 \in 1 .. n /\ (n - k) + 1 = (n + 1) - k
  BY <1>1
<1>3. \A k \in 1 .. n : list[k] = (n + 1) - k
  BY <1>1, <1>2 DEF Numbered
<1>4. list \in Seq(Nat) /\ Len(list) = n
  <2>1. list \in [1 .. n -> Nat]
    <3> HIDE DEF n
    <3>1. \A k \in 1 .. n : (n + 1) - k \in Nat
      BY <1>1
    <3> QED
      BY <1>1, <1>3, <3>1
  <2> HIDE DEF n
  <2> QED
    BY <1>1, <2>1
<1> QED
  BY <1>3, <1>4

\* A list read downwards holds every item once, at its place.
LEMMA PlacesTyped ==
    ASSUME NEW n \in Nat
    PROVE  /\ \A k \in 1 .. n : Placed(n, k) \in 1 .. n
           /\ \A j, k \in 1 .. n : Placed(n, j) = Placed(n, k) => j = k
           /\ \A x \in 1 .. n : \E k \in 1 .. n : Placed(n, k) = x
<1>1. CASE n \in DOMAIN Shuffle
  <2>1. /\ Shuffle[n] \in [1 .. n -> 1 .. n]
        /\ \A j, k \in 1 .. n : Shuffle[n][j] = Shuffle[n][k] => j = k
        /\ \A x \in 1 .. n : \E k \in 1 .. n : Shuffle[n][k] = x
    BY <1>1, ShuffleType
  <2>2. PICK f : f = Shuffle[n]
    OBVIOUS
  <2>3. \A k \in 1 .. n : Placed(n, k) = f[k]
    BY <1>1, <2>2 DEF Placed
  <2>4. \A k \in 1 .. n : f[k] \in 1 .. n
    BY <2>1, <2>2
  <2>5. /\ \A j, k \in 1 .. n : f[j] = f[k] => j = k
        /\ \A x \in 1 .. n : \E k \in 1 .. n : f[k] = x
    BY <2>1, <2>2, Zenon
  <2> QED
    BY <2>3, <2>4, <2>5
<1>2. CASE n \notin DOMAIN Shuffle
  <2>1. \A k \in 1 .. n : Placed(n, k) = (n + 1) - k
    BY <1>2 DEF Placed
  <2>2. ASSUME NEW x \in 1 .. n PROVE \E k \in 1 .. n : Placed(n, k) = x
    <3>1. (n + 1) - x \in 1 .. n /\ (n + 1) - ((n + 1) - x) = x
      OBVIOUS
    <3> QED
      BY <2>1, <3>1
  <2> QED
    BY <2>1, <2>2
<1> QED
  BY <1>1, <1>2

LEMMA ItemsPlaced ==
    ASSUME NEW items \in Seq(Nat), Numbered(items),
           NEW list, list = ItemOrder(items, "desc", Shuffle)
    PROVE  /\ list \in Seq(Nat) /\ Len(list) = Len(items)
           /\ \A k \in 1 .. Len(items) : list[k] = Placed(Len(items), k)
           /\ ToSet(list) = 1 .. Len(items)
<1> DEFINE n == Len(items)
<1>1. n \in Nat /\ list \in Seq(Nat)
  BY ItemListTyped
<1>2. Len(list) = n /\ \A k \in 1 .. n : list[k] = Placed(n, k)
  <2>1. CASE n \notin DOMAIN Shuffle
    <3>1. list = Reverse(items)
      BY <2>1 DEF ItemOrder
    <3> QED
      BY <2>1, <3>1, TurnedAround DEF Placed
  <2>2. CASE n \in DOMAIN Shuffle
    <3>1. list = [k \in 1 .. n |-> items[Shuffle[n][k]]]
      BY <2>2 DEF ItemOrder
    <3>2. Shuffle[n] \in [1 .. n -> 1 .. n]
      BY <2>2, ShuffleType
    <3>3. \A k \in 1 .. n : Shuffle[n][k] \in 1 .. n
      BY <3>2
    <3>4. \A k \in 1 .. n : items[Shuffle[n][k]] = Shuffle[n][k]
      BY <3>3 DEF Numbered
    <3>5. \A k \in 1 .. n : list[k] = Shuffle[n][k]
      BY <3>1, <3>4
    <3>6. DOMAIN list = 1 .. n
      BY <3>1
    <3>7. Len(list) = n
      BY <1>1, <3>6
    <3> QED
      BY <2>2, <3>5, <3>7 DEF Placed
  <2> QED
    BY <2>1, <2>2
<1>3. ToSet(list) = 1 .. n
  <2>1. DOMAIN list = 1 .. n
    BY <1>1, <1>2
  <2>2. PICK m : m = n
    OBVIOUS
  <2> HIDE DEF n
  <2>3. /\ m \in Nat /\ DOMAIN list = 1 .. m
        /\ \A k \in 1 .. m : list[k] = Placed(m, k)
    BY <1>1, <1>2, <2>1, <2>2
  <2>4. /\ \A k \in 1 .. m : Placed(m, k) \in 1 .. m
        /\ \A x \in 1 .. m : \E k \in 1 .. m : Placed(m, k) = x
    BY <2>3, PlacesTyped
  <2>5. \A k \in 1 .. m : list[k] \in 1 .. m
    BY <2>3, <2>4
  <2>6. \A x \in 1 .. m : \E k \in 1 .. m : list[k] = x
    BY <2>3, <2>4, Zenon
  <2>7. ToSet(list) = 1 .. m
    BY <2>3, <2>5, <2>6 DEF ToSet
  <2> QED
    BY <2>2, <2>7
<1> QED
  BY <1>1, <1>2, <1>3

\* The next page of a list nobody adds to begins where the last one ended.
LEMMA PageWhole ==
    ASSUME lister \in Lister, NEW list, NEW p, NEW data, Taken(list, p, data),
           NEW items \in Seq(Nat), Numbered(items), ReadWhole(items),
           list = ItemOrder(items, "desc", Shuffle)
    PROVE  ReadWhole(items)'
<1>1. PICK s, n : s = Len(lister.seen) /\ n = Len(items)
  OBVIOUS
<1>2. /\ list \in Seq(Nat) /\ Len(list) = n
      /\ \A k \in 1 .. n : list[k] = Placed(n, k)
      /\ ToSet(list) = 1 .. n
  BY <1>1, ItemsPlaced
<1>3. /\ s \in Nat /\ Len(data) \in Nat /\ n \in Nat /\ p \in Nat
      /\ p \in 0 .. n /\ p + Len(data) <= n
      /\ Len(lister'.seen) = s + Len(data)
      /\ \A k \in 1 .. s : lister'.seen[k] = lister.seen[k]
      /\ \A k \in 1 .. Len(data) : lister'.seen[s + k] = list[p + k]
      /\ \A k \in 1 .. Len(lister'.seen) : k \in 1 .. s \/ k - s \in 1 .. Len(data)
  BY <1>1, <1>2, SeenExtended
<1>4. lister'.stable = lister.stable \cap (1 .. n) /\ lister.stable \subseteq 1 .. n
  BY <1>1, <1>2 DEF Taken, ReadWhole
<1> SUFFICES ASSUME lister'.stable = 1 .. n
             PROVE  /\ Len(lister'.seen) <= n
                    /\ \A k \in 1 .. Len(lister'.seen) :
                          lister'.seen[k] = Placed(n, k)
                    /\ lister'.after = IF Len(lister'.seen) = 0 THEN None
                                       ELSE Placed(n, Len(lister'.seen))
                    /\ lister'.pc = "done" => Len(lister'.seen) = n
  BY <1>1, <1>4 DEF ReadWhole
<1>5. /\ s <= n /\ \A k \in 1 .. s : lister.seen[k] = Placed(n, k)
      /\ lister.after = IF s = 0 THEN None ELSE Placed(n, s)
  BY <1>1, <1>4 DEF ReadWhole
<1>6. p = s
  <2>1. CASE s = 0
    BY <1>5, <2>1 DEF Taken, CursorAt
  <2>2. CASE s # 0
    <3>1. s \in 1 .. n /\ lister.after = Placed(n, s)
      BY <1>3, <1>5, <2>2
    <3>a. \A k \in 1 .. n : Placed(n, k) \in 1 .. n
      BY <1>3, PlacesTyped
    <3>b. lister.after \in 1 .. n
      BY <3>1, <3>a
    <3>2. lister.after \in 1 .. n /\ lister.after # None
      BY <1>3, <3>b, ConstantFacts
    <3>3. p > 0 /\ list[p] = lister.after
      BY <1>2, <3>2 DEF Taken, CursorAt
    <3>4. p \in 1 .. n
      BY <1>3, <3>3
    <3>5. Placed(n, p) = Placed(n, s)
      BY <1>2, <3>1, <3>3, <3>4
    <3> QED
      BY <1>3, <3>1, <3>4, <3>5, PlacesTyped
  <2> QED
    BY <2>1, <2>2
<1>7. \A k \in 1 .. Len(data) : s + k \in 1 .. n /\ list[s + k] = Placed(n, s + k)
  BY <1>2, <1>3, <1>6
<1>8. ASSUME NEW k \in 1 .. Len(lister'.seen) PROVE lister'.seen[k] = Placed(n, k)
  <2>1. CASE k \in 1 .. s
    BY <1>3, <1>5, <2>1
  <2>2. CASE k - s \in 1 .. Len(data)
    <3>1. s + (k - s) = k
      BY <1>3, <1>8
    <3> QED
      BY <1>3, <1>6, <1>7, <2>2, <3>1
  <2> QED
    BY <1>3, <2>1, <2>2
<1>9. lister'.after = IF s + Len(data) = 0 THEN None ELSE Placed(n, s + Len(data))
  <2>1. CASE Len(data) = 0
    <3>1. lister'.after = lister.after
      BY <2>1 DEF Taken
    <3>2. s + Len(data) = s
      BY <1>3, <2>1
    <3> QED
      BY <1>5, <3>1, <3>2
  <2>2. CASE Len(data) # 0
    <3>1. Len(data) \in 1 .. Len(data)
      BY <1>3, <2>2
    <3>2. data[Len(data)] = Placed(n, s + Len(data))
      BY <1>6, <1>7, <3>1 DEF Taken
    <3> QED
      BY <1>3, <2>2, <3>2 DEF Taken
  <2> QED
    BY <2>1, <2>2
<1>10. lister'.pc = "done" => s + Len(data) = n
  <2>1. lister'.pc = "done" => Len(data) = Len(list) - p
    BY DEF Taken
  <2> QED
    BY <1>2, <1>3, <1>6, <2>1
<1> QED
  BY <1>3, <1>6, <1>8, <1>9, <1>10

\* Others add items, or delete the conversation, between two pages.
LEMMA ItemsWait ==
    ASSUME EntriesTyped, EntriesTyped', EntriesMove, lister \in Lister,
           ItemsRead, reader' = reader,
           \/ lister' = lister
           \/ lister' = [lister EXCEPT !.pc = "failed"]
    PROVE  ItemsRead'
<1>1. /\ lister'.of = lister.of /\ lister'.order = lister.order
      /\ lister'.after = lister.after /\ lister'.seen = lister.seen
      /\ lister'.stable = lister.stable
      /\ lister'.pc = lister.pc \/ lister'.pc = "failed"
  BY DEF Lister
<1> SUFFICES ASSUME lister.of # None
             PROVE  /\ lister.of \in Saved'
                    /\ Upwards => ReadUp(entry[lister.of].items)'
                    /\ ~Upwards => ReadWhole(entry[lister.of].items)'
                    /\ ~Upwards /\ Len(entry'[lister.of].items) <= Inserted
                         => \E top : ReadDown(entry[lister.of].items, top)'
  BY <1>1 DEF ItemsRead, Upwards
<1>2. PICK i \in Ids : i = lister.of
  BY DEF Lister
<1>3. i \in Saved /\ i \in Saved'
  BY <1>2 DEF ItemsRead, EntriesMove, EntriesKept
<1>4. PICK old, new : old = entry[i].items /\ new = entry'[i].items
  OBVIOUS
<1>5. old \in Seq(Nat) /\ new \in Seq(Nat) /\ Len(old) <= Len(new)
      /\ Len(old) \in Nat /\ Len(new) \in Nat
  <2>1. entry[i] \in Entry /\ entry'[i] \in Entry
    BY DEF EntriesTyped
  <2>2. old \in Seq(Nat) /\ new \in Seq(Nat)
    BY <1>4, <2>1 DEF Entry
  <2> QED
    BY <1>3, <1>4, <2>2 DEF EntriesMove, EntriesKept
<1>6. lister.seen \in Seq(Nat) /\ Len(lister.seen) \in Nat
  BY DEF Lister
<1>7. ASSUME Upwards PROVE ReadUp(new)'
  <2>1. ReadUp(old)
    BY <1>2, <1>4, <1>7 DEF ItemsRead
  <2> QED
    BY <1>1, <1>5, <1>6, <2>1 DEF ReadUp
<1>8. ASSUME ~Upwards, Len(new) <= Inserted PROVE \E top : ReadDown(new, top)'
  <2>0. Len(old) <= Inserted
    BY <1>5, <1>8, ThreadsAssumption
  <2>1. PICK top : ReadDown(old, top)
    BY <1>2, <1>4, <1>8, <2>0 DEF ItemsRead
  <2>2. ReadDown(new, top)'
    BY <1>1, <1>5, <1>6, <2>1 DEF ReadDown
  <2> QED
    BY <2>2
<1>9. ASSUME Upwards PROVE ReadUp(entry[lister.of].items)'
  <2>1. entry'[lister'.of].items = new
    BY <1>1, <1>2, <1>4
  <2> QED
    BY <1>7, <1>9, <2>1 DEF ReadUp
<1>10. ASSUME ~Upwards, Len(entry'[lister.of].items) <= Inserted
       PROVE  \E top : ReadDown(entry[lister.of].items, top)'
  <2>1. entry'[lister'.of].items = new /\ entry'[lister.of].items = new
    BY <1>1, <1>2, <1>4
  <2>2. PICK top : ReadDown(new, top)'
    BY <1>8, <1>10, <2>1
  <2>3. ReadDown(entry[lister.of].items, top)'
    BY <2>1, <2>2 DEF ReadDown
  <2> QED
    BY <2>3
<1>11. ASSUME ~Upwards PROVE ReadWhole(entry[lister.of].items)'
  <2>1. ReadWhole(old)
    BY <1>2, <1>4, <1>11 DEF ItemsRead
  <2>2. lister.stable = 1 .. Len(new) => Len(new) = Len(old)
    <3>1. lister.stable = 1 .. Len(new) /\ Len(new) > 0
            => Len(new) \in 1 .. Len(old)
      BY <1>5, <2>1 DEF ReadWhole
    <3> QED
      BY <1>5, <3>1
  <2>3. lister.stable \subseteq 1 .. Len(new)
    BY <1>5, <2>1 DEF ReadWhole
  <2>4. ReadWhole(new)'
    BY <1>1, <2>1, <2>2, <2>3 DEF ReadWhole
  <2>5. entry'[lister'.of].items = new
    BY <1>1, <1>2, <1>4
  <2> QED
    BY <2>4, <2>5 DEF ReadWhole
<1> QED
  BY <1>2, <1>3, <1>9, <1>10, <1>11

LEMMA ItemsPage ==
    ASSUME EntriesTyped, lister \in Lister, ItemsRead, ItemsNumbered, NextPage
    PROVE  ItemsRead'
<1>1. PICK list, p, data : Taken(list, p, data)
  BY PageTaken
<1>2. /\ lister'.of = lister.of /\ lister'.order = lister.order
      /\ UNCHANGED <<reader, entry>> /\ list \in Lists
  BY <1>1 DEF Taken, NextPage
<1> SUFFICES ASSUME lister.of # None PROVE ItemsRead'
  BY <1>2 DEF ItemsRead
<1>3. PICK i \in Ids : i = lister.of
  BY DEF Lister
<1>4. PICK items \in Seq(Nat) : items = entry[i].items
  BY DEF EntriesTyped, Entry
<1>5. Numbered(items) /\ i \in Saved
  BY <1>3, <1>4 DEF ItemsNumbered, ItemsRead
<1>6. list = ItemOrder(items, IF reader = "responses" THEN "asc" ELSE lister.order,
                       Shuffle)
  BY <1>2, <1>3, <1>4 DEF Lists
<1>7. (Upwards' <=> Upwards) /\ Saved' = Saved /\ entry'[lister'.of].items = items
      /\ lister'.of = i
  BY <1>2, <1>3, <1>4 DEF Upwards, Saved
<1>8. CASE Upwards
  <2>1. list = items
    BY <1>6, <1>8 DEF Upwards, ItemOrder
  <2>2. ReadUp(items)
    BY <1>3, <1>4, <1>8 DEF ItemsRead
  <2>3. ReadUp(items)'
    BY <1>1, <1>5, <2>1, <2>2, PageUp
  <2>4. ReadUp(entry[lister.of].items)'
    BY <1>7, <2>3 DEF ReadUp
  <2> QED
    BY <1>5, <1>7, <1>8, <2>4 DEF ItemsRead
<1>9. CASE ~Upwards
  <2>1. list = ItemOrder(items, "desc", Shuffle)
    BY <1>6, <1>9 DEF Upwards, Lister
  <2>2. ReadWhole(entry[lister.of].items)'
    <3>1. ReadWhole(items)
      BY <1>3, <1>4, <1>9 DEF ItemsRead
    <3>2. ReadWhole(items)'
      BY <1>1, <1>5, <2>1, <3>1, PageWhole
    <3> QED
      BY <1>7, <3>2 DEF ReadWhole
  <2>3. ASSUME Len(items) <= Inserted
        PROVE  \E new : ReadDown(entry[lister.of].items, new)'
    <3>1. Len(items) \notin DOMAIN Shuffle
      BY <2>3, ShuffleType
    <3>2. list = Reverse(items)
      BY <2>1, <3>1 DEF ItemOrder
    <3>3. PICK top : ReadDown(items, top)
      BY <1>3, <1>4, <1>9, <2>3 DEF ItemsRead
    <3>4. /\ Len(list) = Len(items)
          /\ \A k \in 1 .. Len(list) : list[k] = (Len(list) + 1) - k
      BY <1>5, <3>2, TurnedAround
    <3>5. PICK new : ReadDown(items, new)'
      BY <1>1, <3>3, <3>4, PageDown
    <3>6. ReadDown(entry[lister.of].items, new)'
      BY <1>7, <3>5 DEF ReadDown
    <3> QED
      BY <3>6
  <2> QED
    BY <1>5, <1>7, <1>9, <2>2, <2>3 DEF ItemsRead
<1> QED
  BY <1>8, <1>9

LEMMA ItemsStart ==
    ASSUME EntriesTyped, ItemsNumbered,
           NEW of \in Ids \cup {None}, NEW order \in {"asc", "desc"},
           StartListing(of, order)
    PROVE  ItemsRead'
<1> DEFINE stable == IF of = None THEN Listed ELSE ToSet(entry[of].items)
<1>1. /\ lister' = [NotListing EXCEPT !.pc = "reading", !.of = of,
                                      !.order = order, !.stable = stable]
      /\ of # None => of \in Listed
      /\ UNCHANGED <<reader, entry>>
  BY DEF StartListing
<1>2. /\ lister'.of = of /\ lister'.pc = "reading" /\ Len(lister'.seen) = 0
      /\ lister'.after = None /\ lister'.stable = stable
  <2> HIDE DEF stable
  <2> QED
    BY <1>1 DEF NotListing
<1> SUFFICES ASSUME of # None PROVE ItemsRead'
  BY <1>2 DEF ItemsRead
<1>3. of \in Saved'
  BY <1>1, ListedTyped DEF Saved
<1>4. PICK items \in Seq(Nat) : items = entry[of].items
  BY DEF EntriesTyped, Entry
<1>5. stable = 1 .. Len(items) /\ Len(items) \in Nat
  BY <1>4, NumberedSet DEF ItemsNumbered
<1> HIDE DEF stable
<1>6. entry'[lister'.of].items = items
  BY <1>1, <1>2, <1>4
<1>7. ReadUp(entry[lister.of].items)'
  BY <1>2, <1>5, <1>6 DEF ReadUp
<1>8. PICK top : top = Len(items)
  OBVIOUS
<1>9. ReadDown(entry[lister.of].items, top)'
  BY <1>2, <1>5, <1>6, <1>8 DEF ReadDown
<1>10. ReadWhole(entry[lister.of].items)'
  BY <1>2, <1>5, <1>6 DEF ReadWhole
<1> QED
  BY <1>2, <1>3, <1>7, <1>9, <1>10 DEF ItemsRead

-----------------------------------------------------------------------------
(***************************************************************************)
(* The lists of entries.  A list is strictly ordered, the one of responses *)
(* always, the others as long as no two of its entries are of one second.  *)
(***************************************************************************)
Follows(x, y) ==
    IF reader = "responses" THEN Precedes(Created, lister.order, x, y)
    ELSE Before(Created, lister.order, x, y)

LEMMA FollowsStrict ==
    ASSUME EntriesTyped, NEW x \in Ids, NEW y \in Ids
    PROVE  /\ ~Follows(x, x)
           /\ \A z \in Ids : Follows(x, y) /\ Follows(y, z) => Follows(x, z)
<1>1. \A z \in Ids : Created[z] \in Nat /\ z \in Nat
  <2>1. Ids \subseteq Nat /\ MaxSecond \in Nat
    BY ConstantFacts
  <2> QED
    BY <2>1 DEF EntriesTyped, Entry, Created
<1>2. ~Follows(x, x)
  BY <1>1 DEF Follows, Precedes, Before
<1>3. ASSUME NEW z \in Ids, Follows(x, y), Follows(y, z) PROVE Follows(x, z)
  BY <1>1, <1>3 DEF Follows, Precedes, Before
<1> QED
  BY <1>2, <1>3

\* An order does not change: entries keep the second they were created in.
LEMMA FollowsKept ==
    ASSUME EntriesTyped, EntriesTyped', EntriesMove, reader' = reader,
           lister'.order = lister.order
    PROVE  \A x, y \in Saved : Follows(x, y)' <=> Follows(x, y)
<1>1. \A x \in Saved : Created'[x] = Created[x]
  <2>1. \A x \in Saved : x \in Ids /\ entry'[x].created = entry[x].created
    BY DEF Saved, EntriesMove, EntriesKept
  <2> QED
    BY <2>1 DEF Created
<1> QED
  BY <1>1 DEF Follows, Precedes, Before

LEMMA ListOrdered ==
    ASSUME EntriesTyped, lister.of = None, NEW list \in Lists
    PROVE  /\ list \in Seq(Nat) /\ ToSet(list) = Listed
           /\ reader = "responses" \/ ~Ties =>
                \A m, n \in 1 .. Len(list) : m < n => Follows(list[m], list[n])
<1>1. /\ Listed \in SUBSET Nat /\ IsFiniteSet(Listed)
      /\ \A x \in Listed : Created[x] \in Nat
  BY ListedTyped
<1>2. CASE reader = "responses"
  <2>1. list \in ResponseOrder(Listed, Created, lister.order)
    BY <1>2 DEF Lists
  <2>2. /\ list \in Seq(Nat) /\ ToSet(list) = Listed
        /\ \A m, n \in 1 .. Len(list) :
              m < n => Precedes(Created, lister.order, list[m], list[n])
    BY <1>1, <2>1, ResponsesOrdered
  <2> QED
    BY <1>2, <2>2 DEF Follows
<1>3. CASE reader # "responses"
  <2>1. list \in SecondOrder(Listed, Created, lister.order)
    BY <1>3 DEF Lists
  <2>2. /\ list \in Seq(Nat) /\ ToSet(list) = Listed /\ Distinct(list)
        /\ \A m, n \in 1 .. Len(list) :
              m < n => ~Before(Created, lister.order, list[n], list[m])
    BY <1>1, <2>1, SecondsOrdered
  <2>3. ASSUME ~Ties, NEW m \in 1 .. Len(list), NEW n \in 1 .. Len(list), m < n
        PROVE  Follows(list[m], list[n])
    <3>1. list[m] \in Listed /\ list[n] \in Listed
      BY <2>2 DEF ToSet
    <3>2. list[m] # list[n]
      BY <2>2, <2>3 DEF Distinct
    <3>3. Created[list[m]] # Created[list[n]]
      BY <2>3, <3>1, <3>2 DEF Ties
    <3>4. ~Before(Created, lister.order, list[n], list[m])
      BY <2>2, <2>3
    <3>5. Created[list[m]] \in Nat /\ Created[list[n]] \in Nat
      BY <1>1, <3>1
    <3>6. Before(Created, lister.order, list[m], list[n])
      BY <3>3, <3>4, <3>5 DEF Before
    <3> QED
      BY <1>3, <3>6 DEF Follows
  <2> QED
    BY <1>3, <2>2, <2>3
<1> QED
  BY <1>2, <1>3

\* x is not given yet, and stands after all that was.
Coming(x) ==
    /\ lister.pc = "reading"
    /\ Len(lister.seen) > 0 => Follows(lister.seen[Len(lister.seen)], x)

Given(x) == \E k \in 1 .. Len(lister.seen) : lister.seen[k] = x

EntriesSaved ==
    /\ \A k \in 1 .. Len(lister.seen) : lister.seen[k] \in Saved
    /\ lister.stable \subseteq Saved
    /\ lister.after = IF Len(lister.seen) = 0 THEN None
                      ELSE lister.seen[Len(lister.seen)]

Sorted ==
    reader = "responses" \/ ~(lister.lost \/ lister.tied) =>
       \A m, n \in 1 .. Len(lister.seen) :
          m < n => Follows(lister.seen[m], lister.seen[n])

Complete ==
    ~lister.lost /\ (reader = "responses" \/ ~lister.tied) =>
       \A x \in lister.stable : Given(x) \/ Coming(x)

EntriesRead == lister.of = None => EntriesSaved /\ Sorted /\ Complete

LEMMA EntriesWait ==
    ASSUME EntriesTyped, EntriesTyped', EntriesMove, lister \in Lister,
           EntriesRead, reader' = reader, lister' = lister
    PROVE  EntriesRead'
<1> SUFFICES ASSUME lister.of = None
             PROVE  EntriesSaved' /\ Sorted' /\ Complete'
  BY DEF EntriesRead
<1>1. EntriesSaved /\ Sorted /\ Complete
  BY DEF EntriesRead
<1>2. \A x \in Saved : x \in Saved'
  BY DEF EntriesMove, EntriesKept
<1>3. \A x, y \in Saved : Follows(x, y)' <=> Follows(x, y)
  BY FollowsKept
<1>4. Len(lister.seen) \in Nat
  BY DEF Lister
<1>5. EntriesSaved'
  BY <1>1, <1>2 DEF EntriesSaved
<1>6. Sorted'
  <2> SUFFICES ASSUME reader = "responses" \/ ~(lister.lost \/ lister.tied),
                      NEW m \in 1 .. Len(lister.seen),
                      NEW n \in 1 .. Len(lister.seen), m < n
               PROVE  Follows(lister.seen[m], lister.seen[n])'
    BY DEF Sorted
  <2>1. PICK x, y \in Saved : x = lister.seen[m] /\ y = lister.seen[n]
    BY <1>1 DEF EntriesSaved
  <2>2. Follows(x, y)
    BY <1>1, <2>1 DEF Sorted
  <2>3. Follows(x, y)'
    BY <1>3, <2>2
  <2> QED
    BY <2>1, <2>3 DEF Follows
<1>7. Complete'
  <2> SUFFICES ASSUME ~lister.lost, reader = "responses" \/ ~lister.tied,
                      NEW x \in lister.stable
               PROVE  (Given(x) \/ Coming(x))'
    BY DEF Complete
  <2>1. CASE Given(x)
    BY <2>1 DEF Given
  <2>2. CASE Coming(x) /\ Len(lister.seen) > 0
    <3>1. Len(lister.seen) \in 1 .. Len(lister.seen)
      BY <1>4, <2>2
    <3>2. PICK y \in Saved : y = lister.seen[Len(lister.seen)]
      BY <1>1, <3>1 DEF EntriesSaved
    <3>3. x \in Saved /\ Follows(y, x)
      BY <1>1, <2>2, <3>2 DEF EntriesSaved, Coming
    <3>4. Follows(y, x)'
      BY <1>3, <3>3
    <3>5. Coming(x)'
      BY <2>2, <3>2, <3>4 DEF Coming, Follows
    <3> QED
      BY <3>5
  <2>3. CASE Coming(x) /\ ~(Len(lister.seen) > 0)
    BY <2>3 DEF Coming
  <2>4. Given(x) \/ Coming(x)
    BY <1>1 DEF Complete
  <2> QED
    BY <2>1, <2>2, <2>3, <2>4
<1> QED
  BY <1>5, <1>6, <1>7

\* Where a page begins: behind the last entry given, if it is still there.
LEMMA PageBegins ==
    ASSUME EntriesTyped, lister \in Lister, EntriesSaved, lister.of = None,
           NEW list, NEW p, NEW data, Taken(list, p, data)
    PROVE  /\ Len(lister.seen) = 0 => p = 0
           /\ Len(lister.seen) > 0 /\ lister.after \in ToSet(list) =>
                 p \in 1 .. Len(list) /\ list[p] = lister.seen[Len(lister.seen)]
           /\ Len(lister.seen) > 0 /\ lister.after \notin ToSet(list) =>
                 lister'.lost /\ (reader = "responses" => p = Len(list))
<1>1. CursorAt(list, p) /\ list \in Seq(Nat)
  BY DEF Taken
<1>2. Len(lister.seen) \in Nat
  BY DEF Lister
<1>3. CASE Len(lister.seen) = 0
  BY <1>1, <1>3 DEF EntriesSaved, CursorAt
<1>4. CASE Len(lister.seen) > 0
  <2>1. /\ lister.after = lister.seen[Len(lister.seen)]
        /\ lister.after \in Ids /\ lister.after # None
    <3>1. Len(lister.seen) \in 1 .. Len(lister.seen)
      BY <1>2, <1>4
    <3> QED
      BY <1>4, <3>1, ConstantFacts DEF EntriesSaved, Saved
  <2>2. lister.after \in ToSet(list) => p > 0 /\ list[p] = lister.after
    BY <1>1, <2>1 DEF CursorAt
  <2>3. lister.after \notin ToSet(list) =>
           lister'.lost /\ (reader = "responses" => p = Len(list))
    BY <1>1, <2>1 DEF CursorAt, Taken
  <2>4. p \in 0 .. Len(list) /\ Len(list) \in Nat
    BY <1>1 DEF CursorAt
  <2> QED
    BY <1>4, <2>1, <2>2, <2>3, <2>4
<1> QED
  BY <1>2, <1>3, <1>4

LEMMA PageOfEntries ==
    ASSUME EntriesTyped, lister \in Lister, EntriesRead, NextPage,
           lister.of = None
    PROVE  EntriesRead'
<1>1. PICK list, p, data : Taken(list, p, data)
  BY PageTaken
<1>2. PICK s, L, d : s = Len(lister.seen) /\ L = Len(list) /\ d = Len(data)
  OBVIOUS
<1>3. /\ s \in Nat /\ d \in Nat /\ L \in Nat /\ p \in 0 .. L /\ p + d <= L
      /\ Len(lister'.seen) = s + d
      /\ \A k \in 1 .. s : lister'.seen[k] = lister.seen[k]
      /\ \A k \in 1 .. d : lister'.seen[s + k] = list[p + k]
      /\ \A k \in 1 .. Len(lister'.seen) : k \in 1 .. s \/ k - s \in 1 .. d
  <2>1. /\ Len(lister.seen) \in Nat /\ Len(data) \in Nat /\ Len(list) \in Nat
        /\ p \in 0 .. Len(list) /\ p + Len(data) <= Len(list)
        /\ Len(lister'.seen) = Len(lister.seen) + Len(data)
        /\ \A k \in 1 .. Len(lister.seen) : lister'.seen[k] = lister.seen[k]
        /\ \A k \in 1 .. Len(data) :
              lister'.seen[Len(lister.seen) + k] = list[p + k]
        /\ \A k \in 1 .. Len(lister'.seen) :
              \/ k \in 1 .. Len(lister.seen)
              \/ k - Len(lister.seen) \in 1 .. Len(data)
    BY <1>1, SeenExtended
  <2> QED
    BY <1>2, <2>1
<1>4. /\ EntriesSaved /\ Sorted /\ Complete
      /\ UNCHANGED <<reader, entry>>
      /\ lister'.of = lister.of /\ lister'.order = lister.order
  BY <1>1 DEF EntriesRead, NextPage, Taken
<1>5. /\ Saved' = Saved
      /\ \A x, y : Follows(x, y)' <=> Follows(x, y)
  <2>1. Created' = Created
    BY <1>4 DEF Created
  <2>2. lister'.order = lister.order /\ reader' = reader
    BY <1>4
  <2>3. ASSUME NEW x, NEW y PROVE Follows(x, y)' <=> Follows(x, y)
    BY <2>1, <2>2 DEF Follows, Precedes, Before
  <2>4. Saved' = Saved
    BY <1>4 DEF Saved
  <2> QED
    BY <2>3, <2>4
<1>6. /\ list \in Seq(Nat) /\ ToSet(list) = Listed /\ Listed \subseteq Saved
      /\ Saved \subseteq Ids
      /\ reader = "responses" \/ ~Ties =>
            \A m, n \in 1 .. L : m < n => Follows(list[m], list[n])
  BY <1>1, <1>2, ListOrdered, ListedTyped DEF Taken, Saved
<1>7. \A k \in 1 .. L : list[k] \in Listed
  <2>1. DOMAIN list = 1 .. L
    BY <1>2, <1>6
  <2> QED
    BY <1>6, <2>1 DEF ToSet
<1>8. \A k \in 1 .. s : lister.seen[k] \in Saved
  BY <1>2, <1>4 DEF EntriesSaved
<1>9. /\ s = 0 => p = 0
      /\ s > 0 /\ lister.after \in ToSet(list) =>
           p \in 1 .. L /\ list[p] = lister.seen[s]
      /\ s > 0 /\ lister.after \notin ToSet(list) =>
           lister'.lost /\ (reader = "responses" => p = L)
  BY <1>1, <1>2, <1>4, PageBegins
<1>10. \A k \in 1 .. d : p + k \in 1 .. L
  BY <1>3
<1>11. EntriesSaved'
  <2>1. ASSUME NEW k \in 1 .. Len(lister'.seen) PROVE lister'.seen[k] \in Saved
    <3>1. CASE k \in 1 .. s
      BY <1>3, <1>8, <3>1
    <3>2. CASE k - s \in 1 .. d
      <4>1. s + (k - s) = k
        BY <1>3, <2>1
      <4>2. lister'.seen[k] = list[p + (k - s)]
        BY <1>3, <3>2, <4>1
      <4> QED
        BY <1>6, <1>7, <1>10, <3>2, <4>2
    <3> QED
      BY <1>3, <2>1, <3>1, <3>2
  <2>2. lister'.stable \subseteq Saved
    BY <1>1, <1>4 DEF Taken, EntriesSaved
  <2>3. lister'.after = IF s + d = 0 THEN None ELSE lister'.seen[s + d]
    <3>1. CASE d = 0
      <4>1. lister'.after = lister.after
        BY <1>1, <1>2, <3>1 DEF Taken
      <4>2. lister.after = IF s = 0 THEN None ELSE lister.seen[s]
        BY <1>2, <1>4 DEF EntriesSaved
      <4>3. s # 0 => s \in 1 .. s
        BY <1>3
      <4> QED
        BY <1>3, <3>1, <4>1, <4>2, <4>3
    <3>2. CASE d # 0
      <4>1. d \in 1 .. d /\ s + d # 0
        BY <1>3, <3>2
      <4>2. lister'.after = data[d] /\ data[d] = list[p + d]
        BY <1>1, <1>2, <3>2, <4>1 DEF Taken
      <4>3. lister'.seen[s + d] = list[p + d]
        BY <1>3, <4>1
      <4> QED
        BY <4>1, <4>2, <4>3
    <3> QED
      BY <3>1, <3>2
  <2> QED
    BY <1>3, <1>5, <2>1, <2>2, <2>3 DEF EntriesSaved
<1>12. Sorted'
  <2> SUFFICES ASSUME (reader = "responses" \/ ~(lister.lost \/ lister.tied))',
                      NEW m \in 1 .. Len(lister'.seen),
                      NEW n \in 1 .. Len(lister'.seen), m < n
               PROVE  Follows(lister'.seen[m], lister'.seen[n])
    BY <1>5 DEF Sorted
  <2>1. /\ reader = "responses" \/ ~(lister.lost \/ lister.tied)
        /\ reader = "responses" \/ ~lister'.lost
        /\ reader = "responses" \/ ~Ties
    BY <1>1, <1>4 DEF Taken
  <2>2. CASE m \in 1 .. s /\ n \in 1 .. s
    BY <1>2, <1>3, <1>4, <2>1, <2>2 DEF Sorted
  <2>3. CASE m - s \in 1 .. d /\ n - s \in 1 .. d
    <3>1. s + (m - s) = m /\ s + (n - s) = n /\ p + (m - s) < p + (n - s)
      BY <1>3
    <3>2. /\ lister'.seen[m] = list[p + (m - s)]
          /\ lister'.seen[n] = list[p + (n - s)]
      BY <1>3, <2>3, <3>1
    <3>3. p + (m - s) \in 1 .. L /\ p + (n - s) \in 1 .. L
      BY <1>10, <2>3
    <3> QED
      BY <1>6, <2>1, <3>1, <3>2, <3>3
  <2>4. CASE m \in 1 .. s /\ n - s \in 1 .. d
    <3>1. s > 0 /\ d > 0 /\ s \in 1 .. s
      BY <1>3, <2>4
    <3>2. p \in 1 .. L /\ list[p] = lister.seen[s]
      BY <1>3, <1>9, <2>1, <3>1
    <3>3. s + (n - s) = n
      BY <1>3
    <3>4. /\ lister'.seen[m] = lister.seen[m]
          /\ lister'.seen[n] = list[p + (n - s)]
      BY <1>3, <2>4, <3>3
    <3>5. p + (n - s) \in 1 .. L /\ p < p + (n - s)
      BY <1>3, <1>10, <2>4
    <3>6. Follows(lister.seen[s], lister'.seen[n])
      BY <1>6, <2>1, <3>2, <3>4, <3>5
    <3>7. CASE m = s
      BY <3>4, <3>6, <3>7
    <3>8. CASE m # s
      <4>1. m < s
        BY <1>3, <2>4, <3>8
      <4>2. Follows(lister.seen[m], lister.seen[s])
        BY <1>2, <1>4, <2>1, <2>4, <3>1, <4>1 DEF Sorted
      <4>3. /\ lister.seen[m] \in Ids /\ lister.seen[s] \in Ids
            /\ lister'.seen[n] \in Ids
        BY <1>6, <1>7, <1>8, <2>4, <3>1, <3>4, <3>5
      <4> QED
        BY <3>4, <3>6, <4>2, <4>3, FollowsStrict
    <3> QED
      BY <3>7, <3>8
  <2>5. ~(n \in 1 .. s /\ m - s \in 1 .. d)
    BY <1>3
  <2> QED
    BY <1>3, <2>2, <2>3, <2>4, <2>5
<1>13. Complete'
  <2> SUFFICES ASSUME ~lister'.lost, reader = "responses" \/ ~lister'.tied,
                      NEW x \in lister'.stable
               PROVE  (Given(x) \/ Coming(x))'
    BY <1>4 DEF Complete
  <2>1. /\ ~lister.lost
        /\ reader = "responses" \/ ~lister.tied
        /\ reader = "responses" \/ ~Ties
        /\ x \in lister.stable /\ x \in ToSet(list)
    BY <1>1, <1>4 DEF Taken
  <2>2. CASE Given(x)
    <3>1. PICK k \in 1 .. s : lister.seen[k] = x
      BY <1>2, <2>2 DEF Given
    <3>2. k \in 1 .. Len(lister'.seen) /\ lister'.seen[k] = x
      BY <1>3, <3>1
    <3> QED
      BY <3>2 DEF Given
  <2>3. CASE Coming(x)
    <3>1. PICK q \in 1 .. L : list[q] = x
      <4>1. DOMAIN list = 1 .. L
        BY <1>2, <1>6
      <4> QED
        BY <2>1, <4>1 DEF ToSet
    <3>2. q > p
      <4>1. CASE s = 0
        BY <1>3, <1>9, <3>1, <4>1
      <4>2. CASE s # 0
        <5>1. s > 0 /\ p \in 1 .. L /\ list[p] = lister.seen[s]
          BY <1>3, <1>9, <4>2
        <5>2. Follows(list[p], x)
          BY <1>2, <2>3, <5>1 DEF Coming
        <5>3. list[p] \in Ids /\ x \in Ids
          BY <1>6, <1>7, <3>1, <5>1
        <5>4. q # p
          BY <3>1, <5>2, <5>3, FollowsStrict
        <5>5. q < p => Follows(x, list[p])
          BY <1>6, <2>1, <3>1, <5>1
        <5>6. ~(q < p)
          BY <5>2, <5>3, <5>5, FollowsStrict
        <5> QED
          BY <1>3, <3>1, <5>4, <5>6
      <4> QED
        BY <4>1, <4>2
    <3>3. CASE q <= p + d
      <4>1. q - p \in 1 .. d /\ p + (q - p) = q
        BY <1>3, <3>1, <3>2, <3>3
      <4>2. lister'.seen[s + (q - p)] = x /\ s + (q - p) \in 1 .. s + d
        BY <1>3, <3>1, <4>1
      <4> QED
        BY <1>3, <4>2 DEF Given
    <3>4. CASE q > p + d
      <4>1. L - p > Limit /\ d = Limit /\ lister'.pc = "reading"
        <5>1. /\ d = IF L - p > Limit THEN Limit ELSE L - p
              /\ lister'.pc = IF L - p > Limit THEN "reading" ELSE "done"
          BY <1>1, <1>2 DEF Taken
        <5>2. Limit \in Nat
          BY ConstantFacts
        <5> QED
          BY <1>3, <3>1, <3>4, <5>1, <5>2
      <4>2. d > 0 /\ d \in 1 .. d
        BY <1>3, <4>1, ConstantFacts
      <4>3. lister'.seen[s + d] = list[p + d] /\ p + d \in 1 .. L
        BY <1>3, <1>10, <4>2
      <4>4. Follows(lister'.seen[s + d], x)
        BY <1>6, <2>1, <3>1, <3>4, <4>3
      <4>5. PICK y : y = lister'.seen[s + d]
        OBVIOUS
      <4>6. Follows(y, x)'
        BY <1>5, <4>4, <4>5
      <4>7. Follows(lister.seen[Len(lister.seen)], x)'
        BY <1>3, <4>5, <4>6 DEF Follows
      <4>8. Coming(x)'
        BY <4>1, <4>7 DEF Coming
      <4> QED
        BY <4>8
    <3> QED
      BY <1>3, <3>1, <3>3, <3>4
  <2>4. Given(x) \/ Coming(x)
    BY <1>4, <2>1 DEF Complete
  <2> QED
    BY <2>2, <2>3, <2>4
<1> QED
  BY <1>11, <1>12, <1>13 DEF EntriesRead

LEMMA EntriesStart ==
    ASSUME EntriesTyped,
           NEW of \in Ids \cup {None}, NEW order \in {"asc", "desc"},
           StartListing(of, order)
    PROVE  EntriesRead'
<1> DEFINE stable == IF of = None THEN Listed ELSE ToSet(entry[of].items)
<1>1. /\ lister' = [NotListing EXCEPT !.pc = "reading", !.of = of,
                                      !.order = order, !.stable = stable]
      /\ UNCHANGED <<reader, entry>>
  BY DEF StartListing
<1>2. /\ lister'.of = of /\ lister'.pc = "reading" /\ Len(lister'.seen) = 0
      /\ lister'.after = None /\ lister'.stable = stable
  <2> HIDE DEF stable
  <2> QED
    BY <1>1 DEF NotListing
<1>3. of = None => stable \subseteq Saved
  BY ListedTyped
<1>4. Saved' = Saved
  BY <1>1 DEF Saved
<1> HIDE DEF stable
<1> QED
  BY <1>2, <1>3, <1>4
  DEF EntriesRead, EntriesSaved, Sorted, Complete, Coming

-----------------------------------------------------------------------------
(***************************************************************************)
(* The lister, whatever it reads.                                          *)
(***************************************************************************)
Reading == ItemsNumbered /\ ItemsRead /\ EntriesRead

LEMMA ReadingInit == Init => Reading
<1> SUFFICES ASSUME Init PROVE Reading
  OBVIOUS
<1>1. /\ lister.of = None /\ Len(lister.seen) = 0 /\ lister.after = None
      /\ lister.stable = {}
  BY DEF Init, NotListing
<1>2. \A i \in Ids : Len(entry[i].items) = 0
  BY DEF Init, Unsaved
<1>3. ItemsNumbered
  BY <1>2 DEF ItemsNumbered, Numbered
<1> QED
  BY <1>1, <1>3
  DEF Reading, ItemsRead, EntriesRead, EntriesSaved, Sorted, Complete

LEMMA ReadingStep ==
    Chained /\ Reading /\ [Next]_vars => Reading'
<1> SUFFICES ASSUME Chained, Reading, [Next]_vars PROVE Reading'
  OBVIOUS
<1>1. /\ Typed /\ OnChains /\ Typed' /\ EntriesTyped /\ EntriesTyped'
      /\ lister \in Lister /\ ItemsNumbered /\ ItemsRead /\ EntriesRead
  BY TypedStep DEF Chained, Typed, Reading
<1>2. EntriesMove
  BY <1>1, StepMoves
<1>3. ItemsNumbered'
  BY <1>1, <1>2 DEF ItemsNumbered, EntriesMove
<1>4. ASSUME NextPage PROVE ItemsRead' /\ EntriesRead'
  <2>1. ItemsRead'
    BY <1>1, <1>4, ItemsPage
  <2>2. CASE lister.of = None
    BY <1>1, <1>4, <2>1, <2>2, PageOfEntries
  <2>3. CASE lister.of # None
    <3>1. lister'.of = lister.of
      BY <1>1, <1>4, PageTaken DEF Taken
    <3> QED
      BY <2>1, <2>3, <3>1 DEF EntriesRead
  <2> QED
    BY <2>2, <2>3
<1>5. ASSUME ListingFails PROVE ItemsRead' /\ EntriesRead'
  <2>1. /\ lister.of # None /\ reader' = reader
        /\ lister' = [lister EXCEPT !.pc = "failed"]
    BY <1>5 DEF ListingFails
  <2>2. lister'.of = lister.of
    BY <1>1, <2>1 DEF Lister
  <2>3. ItemsRead'
    BY <1>1, <1>2, <2>1, ItemsWait
  <2> QED
    BY <2>1, <2>2, <2>3 DEF EntriesRead
<1>6. ASSUME NEW of \in Ids \cup {None}, NEW order \in {"asc", "desc"},
             StartListing(of, order)
      PROVE  ItemsRead' /\ EntriesRead'
  BY <1>1, <1>6, ItemsStart, EntriesStart
<1>7. ASSUME UNCHANGED <<reader, lister>> PROVE ItemsRead' /\ EntriesRead'
  BY <1>1, <1>2, <1>7, ItemsWait, EntriesWait
<1>8. ItemsRead' /\ EntriesRead'
  BY <1>4, <1>5, <1>6, <1>7
  DEF Next, vars, Tick, Begin, FollowChain, SaveResponse, CheckConversation,
      AddItems, SaveEntry, Delete
<1> QED
  BY <1>3, <1>8 DEF Reading

LEMMA AlwaysReading == Spec => [](Chained /\ Reading)
<1>1. Init => Chained /\ Reading
  BY ChainedInit, ReadingInit
<1>2. Chained /\ Reading /\ [Next]_vars => (Chained /\ Reading)'
  BY ChainedStep, ReadingStep
<1> QED
  BY <1>1, <1>2, PTL DEF Spec

\* What is given without repetition is given once.
LEMMA GivenOnce ==
    ASSUME lister \in Lister, NEW s, s = Len(lister.seen),
           \A j, k \in 1 .. s : lister.seen[j] = lister.seen[k] => j = k,
           NEW x \in ToSet(lister.seen)
    PROVE  Occurrences(x) = 1
<1>1. DOMAIN lister.seen = 1 .. s
  BY DEF Lister
<1>2. PICK k \in 1 .. s : lister.seen[k] = x
  BY <1>1 DEF ToSet
<1>3. {n \in DOMAIN lister.seen : lister.seen[n] = x} = {k}
  BY <1>1, <1>2
<1> QED
  BY <1>3, FS_Singleton DEF Occurrences

(***************************************************************************)
(* ListItems: whatever is added between the pages, the items of a          *)
(* conversation come out once each and in one direction, and those that    *)
(* were there from the first page to the last one are all given: always    *)
(* upwards, and downwards while the conversation is short enough to be     *)
(* sorted by insertion.  Whatever order a longer one comes in, its items   *)
(* come out once each, and all of them, if none is added meanwhile.        *)
(***************************************************************************)
THEOREM ItemsAlwaysInOrder == Spec => []ItemsInOrder
<1>1. Chained /\ Reading => ItemsInOrder
  <2> DEFINE Whole == lister.pc = "done"
                        => lister.stable \subseteq ToSet(lister.seen)
             InOrder == \A m, n \in DOMAIN lister.seen :
                           m < n => IF Upwards
                                      THEN lister.seen[m] < lister.seen[n]
                                      ELSE lister.seen[m] > lister.seen[n]
             Once == \A x \in ToSet(lister.seen) : Occurrences(x) = 1
  <2> SUFFICES ASSUME Chained, Reading, lister.of # None
               PROVE  /\ Upwards \/ Len(entry[lister.of].items) <= Inserted
                           => Whole /\ InOrder
                      /\ lister.stable = ToSet(entry[lister.of].items)
                           => Whole /\ Once
    BY DEF ItemsInOrder
  <2>0. lister \in Lister
    BY DEF Chained, Typed
  <2>1. PICK i \in Ids : i = lister.of
    BY <2>0 DEF Lister
  <2>2. PICK items : items = entry[i].items
    OBVIOUS
  <2>3. items \in Seq(Nat) /\ Len(items) \in Nat /\ Numbered(items)
    <3>1. entry[i] \in Entry
      BY DEF Chained, Typed, EntriesTyped
    <3> QED
      BY <2>2, <3>1 DEF Entry, Reading, ItemsNumbered
  <2>4. PICK s : s = Len(lister.seen)
    OBVIOUS
  <2>5. DOMAIN lister.seen = 1 .. s /\ s \in Nat
    BY <2>0, <2>4 DEF Lister
  <2>6. CASE Upwards
    <3>1. ReadUp(items)
      BY <2>1, <2>2, <2>6 DEF Reading, ItemsRead
    <3>2. \A k \in 1 .. s : lister.seen[k] = k
      BY <2>4, <3>1 DEF ReadUp
    <3>3. ToSet(lister.seen) = 1 .. s
      BY <2>5, <3>2 DEF ToSet
    <3>4. Whole
      BY <2>4, <3>1, <3>3 DEF ReadUp
    <3>5. Once
      BY <2>0, <2>4, <3>2, GivenOnce
    <3>6. InOrder
      BY <2>5, <2>6, <3>2
    <3> QED
      BY <3>4, <3>5, <3>6
  <2>7. ASSUME ~Upwards, Len(items) <= Inserted PROVE Whole /\ InOrder
    <3>1. PICK top : ReadDown(items, top)
      BY <2>1, <2>2, <2>7 DEF Reading, ItemsRead
    <3>2. /\ top \in Nat
          /\ \A k \in 1 .. s : lister.seen[k] = (top + 1) - k
          /\ lister.stable \subseteq 1 .. top
          /\ lister.pc = "done" => s = top
      BY <2>3, <2>4, <3>1 DEF ReadDown
    <3>3. ASSUME lister.pc = "done"
          PROVE  lister.stable \subseteq ToSet(lister.seen)
      <4>1. \A x \in 1 .. top :
               (top + 1) - x \in 1 .. s /\ lister.seen[(top + 1) - x] = x
        BY <2>5, <3>2, <3>3
      <4>2. 1 .. top \subseteq ToSet(lister.seen)
        BY <2>5, <4>1 DEF ToSet
      <4> QED
        BY <3>2, <4>2
    <3>4. \A m, n \in 1 .. s : m < n => lister.seen[m] > lister.seen[n]
      BY <2>5, <3>2
    <3> QED
      BY <2>5, <2>7, <3>3, <3>4
  <2>8. ASSUME ~Upwards, lister.stable = ToSet(items) PROVE Whole /\ Once
    <3>1. ReadWhole(items)
      BY <2>1, <2>2, <2>8 DEF Reading, ItemsRead
    <3>2. PICK n \in Nat : n = Len(items)
      BY <2>3
    <3>3. lister.stable = 1 .. n
      BY <2>3, <2>8, <3>2, NumberedSet
    <3>4. /\ s <= n /\ \A k \in 1 .. s : lister.seen[k] = Placed(n, k)
          /\ lister.pc = "done" => s = n
      BY <2>4, <3>1, <3>2, <3>3 DEF ReadWhole
    <3>5. \A j, k \in 1 .. s : lister.seen[j] = lister.seen[k] => j = k
      <4>1. \A k \in 1 .. s : k \in 1 .. n
        BY <2>5, <3>4
      <4> QED
        BY <3>4, <4>1, PlacesTyped
    <3>6. Once
      BY <2>0, <2>4, <3>5, GivenOnce
    <3>7. ASSUME lister.pc = "done"
          PROVE  lister.stable \subseteq ToSet(lister.seen)
      <4>1. \A x \in 1 .. n : \E k \in 1 .. n : Placed(n, k) = x
        BY PlacesTyped
      <4>2. s = n /\ \A k \in 1 .. n : lister.seen[k] = Placed(n, k)
        BY <3>4, <3>7
      <4>3. \A x \in 1 .. n : \E k \in 1 .. n : lister.seen[k] = x
        BY <4>1, <4>2
      <4> QED
        BY <2>5, <3>3, <4>2, <4>3 DEF ToSet
    <3> QED
      BY <3>6, <3>7
  <2> QED
    BY <2>1, <2>2, <2>6, <2>7, <2>8
<1> QED
  BY <1>1, AlwaysReading, PTL

(***************************************************************************)
(* ListResponses, ListConversations, MetadataStore.List: whatever is       *)
(* saved, deleted and evicted between the pages, no response is given      *)
(* twice, and as long as the entry a cursor named is still there every     *)
(* entry that was there all the time is given; for conversations and files *)
(* as long as no two entries of one second are sorted.                     *)
(***************************************************************************)
THEOREM AlwaysListedOnce == Spec => []ListedOnce
<1>1. Chained /\ Reading => ListedOnce
  <2> SUFFICES ASSUME Chained, Reading, lister.of = None
               PROVE  /\ reader = "responses" \/ ~(lister.lost \/ lister.tied) =>
                           \A x \in ToSet(lister.seen) : Occurrences(x) = 1
                      /\ lister.pc = "done" /\ ~lister.lost =>
                           \/ lister.stable \subseteq ToSet(lister.seen)
                           \/ reader # "responses" /\ lister.tied
    BY DEF ListedOnce
  <2>1. EntriesTyped /\ EntriesSaved /\ Sorted /\ Complete
    BY DEF Chained, Typed, Reading, EntriesRead
  <2>2. PICK s : s = Len(lister.seen)
    OBVIOUS
  <2>3. DOMAIN lister.seen = 1 .. s /\ s \in Nat
    BY <2>2 DEF Chained, Typed, Lister
  <2>4. ASSUME reader = "responses" \/ ~(lister.lost \/ lister.tied),
               NEW x \in ToSet(lister.seen)
        PROVE  Occurrences(x) = 1
    <3>1. PICK k \in 1 .. s : lister.seen[k] = x
      BY <2>3 DEF ToSet
    <3>2. ASSUME NEW n \in 1 .. s, n # k PROVE lister.seen[n] # x
      <4>1. x \in Ids /\ lister.seen[n] \in Ids
        BY <2>1, <2>2, <3>1 DEF EntriesSaved, Saved
      <4>2. n < k => Follows(lister.seen[n], x)
        BY <2>1, <2>2, <2>4, <3>1 DEF Sorted
      <4>3. k < n => Follows(x, lister.seen[n])
        BY <2>1, <2>2, <2>4, <3>1 DEF Sorted
      <4>4. n < k \/ k < n
        BY <2>3, <3>2
      <4> QED
        BY <2>1, <4>1, <4>2, <4>3, <4>4, FollowsStrict
    <3>3. {n \in DOMAIN lister.seen : lister.seen[n] = x} = {k}
      BY <2>3, <3>1, <3>2
    <3> QED
      BY <3>3, FS_Singleton DEF Occurrences
  <2>5. ASSUME lister.pc = "done", ~lister.lost,
               ~(reader # "responses" /\ lister.tied)
        PROVE  lister.stable \subseteq ToSet(lister.seen)
    <3>1. \A x \in lister.stable : Given(x)
      BY <2>1, <2>5 DEF Complete, Coming
    <3> QED
      BY <2>2, <2>3, <3>1 DEF Given, ToSet
  <2> QED
    BY <2>4, <2>5
<1> QED
  BY <1>1, AlwaysReading, PTL

=============================================================================
