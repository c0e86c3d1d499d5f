----------------------- MODULE SealedListsResultProofs -----------------------
(* What the operations of SealedLists report, as a whole: in the order of  *)
(* the service's page, and, if the keys stay as they are, exactly what the *)
(* reference says.                                                         *)
EXTENDS SealedListsProofs

-----------------------------------------------------------------------------
(* InOrder and GroupById.                                                  *)

Rank(x, S) == Cardinality({y \in S : y <= x})

LEMMA RankGrows ==
  ASSUME NEW S \in SUBSET Nat, IsFiniteSet(S)
  PROVE  /\ \A x \in S : Rank(x, S) \in 1 .. Cardinality(S)
         /\ \A x, y \in S : x < y => Rank(x, S) < Rank(y, S)
<1> DEFINE Below(x) == {y \in S : y <= x}
<1>1. ASSUME NEW x \in S
      PROVE  /\ IsFiniteSet(Below(x)) /\ Rank(x, S) = Cardinality(Below(x))
             /\ Rank(x, S) \in 1 .. Cardinality(S)
  <2>1. IsFiniteSet(Below(x)) /\ Cardinality(Below(x)) <= Cardinality(S)
    BY FS_Subset
  <2>2. x \in Below(x)
    OBVIOUS
  <2>3. Cardinality(Below(x)) \in Nat /\ Cardinality(S) \in Nat
    BY <2>1, FS_CardinalityType
  <2>4. Cardinality(Below(x)) # 0
    BY <2>1, <2>2, FS_EmptySet
  <2>5. QED  BY <2>1, <2>3, <2>4 DEF Rank
<1>2. ASSUME NEW x \in S, NEW y \in S, x < y
      PROVE  Rank(x, S) < Rank(y, S)
  <2>0. x \in Nat /\ y \in Nat /\ x < y /\ \A z \in S : z \in Nat
    BY <1>2
  <2>1. Below(x) \subseteq Below(y) /\ y \in Below(y) /\ y \notin Below(x)
    <3>1. \A z \in S : z <= x => z <= y
      BY <2>0
    <3>2. y <= y /\ ~(y <= x)
      BY <2>0
    <3>3. QED  BY <3>1, <3>2
  <2>2. /\ Cardinality(Below(x)) <= Cardinality(Below(y))
        /\ Cardinality(Below(x)) # Cardinality(Below(y))
    <3> HIDE DEF Below
    <3>1. IsFiniteSet(Below(y))
      BY <1>1
    <3>2. QED  BY <2>1, <3>1, FS_Subset
  <2>3. QED  BY <1>1, <2>2
<1>3. QED  BY <1>1, <1>2

\* InOrder lists a set of numbers completely, once, and in increasing order.
LEMMA InOrderSorts ==
  ASSUME NEW S \in SUBSET Nat, IsFiniteSet(S)
  PROVE  /\ DOMAIN InOrder(S) = 1 .. Cardinality(S)
         /\ InOrder(S) \in [1 .. Cardinality(S) -> S]
         /\ \A m, n \in DOMAIN InOrder(S) : m < n => InOrder(S)[m] < InOrder(S)[n]
         /\ \A x \in S : \E m \in DOMAIN InOrder(S) : InOrder(S)[m] = x
<1> DEFINE N == Cardinality(S)
           f == [x \in S |-> Rank(x, S)]
<1>1. N \in Nat /\ IsFiniteSet(1 .. N) /\ Cardinality(1 .. N) = N
  <2>1. N \in Nat
    BY FS_CardinalityType
  <2>2. QED  BY <2>1, FS_Interval
<1>2. /\ \A x \in S : Rank(x, S) \in 1 .. N
      /\ \A x, y \in S : Rank(x, S) = Rank(y, S) => x = y
      /\ \A x, y \in S : Rank(x, S) < Rank(y, S) => x < y
  BY RankGrows, <1>1
<1>3. f \in Injection(S, 1 .. N)
  BY <1>2 DEF Injection, IsInjective
<1>4. f \in Surjection(S, 1 .. N)
  BY <1>1, <1>3, FS_Injection
<1>5. \A m \in 1 .. N : \E x \in S : Rank(x, S) = m
  BY <1>4 DEF Surjection
<1>6. InOrder(S) = [m \in 1 .. N |-> CHOOSE x \in S : Rank(x, S) = m]
  BY DEF InOrder, Rank
<1>7. \A m \in 1 .. N : InOrder(S)[m] \in S /\ Rank(InOrder(S)[m], S) = m
  BY <1>5, <1>6
<1>8. ASSUME NEW m \in 1 .. N, NEW n \in 1 .. N, m < n
      PROVE  InOrder(S)[m] < InOrder(S)[n]
  <2> DEFINE x == InOrder(S)[m]
             y == InOrder(S)[n]
  <2>1. x \in S /\ y \in S /\ Rank(x, S) = m /\ Rank(y, S) = n
    BY <1>7
  <2>2. QED  BY <1>2, <1>8, <2>1
<1>9. \A x \in S : InOrder(S)[Rank(x, S)] = x
  BY <1>2, <1>7
<1>10. InOrder(S) \in [1 .. N -> S]
  BY <1>6, <1>7
<1>11. QED  BY <1>2, <1>6, <1>8, <1>9, <1>10

\* The first place of every id of the page.
Firsts(p) == {n \in DOMAIN p : \A m \in DOMAIN p : m < n => p[m].id # p[n].id}

\* An item has the id of its first copy, and at least one copy.
LEMMA ItemOfHasCopies ==
  ASSUME NEW p \in Seq(Copy), NEW first \in DOMAIN p
  PROVE  /\ ItemOf(p, first).id = p[first].id
         /\ 1 \in DOMAIN ItemOf(p, first).copies
<1> DEFINE S == {m \in DOMAIN p : p[m].id = p[first].id}
<1>1. S \in SUBSET Nat /\ first \in S
  OBVIOUS
<1>2. IsFiniteSet(S)
  BY PlacesFinite
<1>3. /\ DOMAIN InOrder(S) = 1 .. Cardinality(S)
      /\ \E m \in DOMAIN InOrder(S) : InOrder(S)[m] = first
  BY <1>1, <1>2, InOrderSorts
<1>4. 1 \in DOMAIN InOrder(S)
  BY <1>2, <1>3, FS_CardinalityType
<1>5. ItemOf(p, first) = [id |-> p[first].id,
                          copies |-> [m \in DOMAIN InOrder(S) |-> p[InOrder(S)[m]]]]
  BY DEF ItemOf
<1>6. QED  BY <1>4, <1>5

\* GroupById has an item for each first place, in the order of these places.
LEMMA GroupsInOrder ==
  ASSUME NEW p \in Seq(Copy)
  PROVE  \E f \in [DOMAIN GroupById(p) -> Firsts(p)] :
           /\ \A m, n \in DOMAIN GroupById(p) : m < n => f[m] < f[n]
           /\ \A n \in DOMAIN GroupById(p) : GroupById(p)[n] = ItemOf(p, f[n])
<1> DEFINE S == Firsts(p)
           f == InOrder(S)
<1>1. S \in SUBSET Nat /\ S \in SUBSET DOMAIN p
  BY DEF Firsts
<1>2. IsFiniteSet(S)
  BY <1>1, PlacesFinite
<1>3. /\ f \in [DOMAIN f -> S]
      /\ \A m, n \in DOMAIN f : m < n => f[m] < f[n]
  BY <1>1, <1>2, InOrderSorts
<1>4. GroupById(p) = [n \in DOMAIN f |-> ItemOf(p, f[n])]
  BY DEF GroupById, Firsts
<1>5. QED  BY <1>3, <1>4

-----------------------------------------------------------------------------
(* Results in the order of the page.                                       *)

\* A list of provisional cards names a card once.
ItemsDistinct ==
  \A l \in ItemLists : \A m, n \in DOMAIN l : l[m].id = l[n].id => m = n

\* The items are in the order of the page.
PlacesInv ==
  \A m, n \in DOMAIN items :
    m <= n => \E p \in DOMAIN page :
                /\ page[p].id = items[m].id
                /\ \A q \in 1 .. p - 1 : page[q].id # items[n].id

LEMMA InitPlaces == ItemsDistinct /\ Init => PlacesInv
<1> SUFFICES ASSUME ItemsDistinct, Init PROVE PlacesInv  OBVIOUS
<1>1. CASE page \in Pages /\ items = GroupById(page)
  <2>1. page \in Seq(Copy)
    BY <1>1, PagesAssumption
  <2>2. PICK f \in [DOMAIN items -> Firsts(page)] :
           /\ \A m, n \in DOMAIN items : m < n => f[m] < f[n]
           /\ \A n \in DOMAIN items : items[n] = ItemOf(page, f[n])
    BY <1>1, <2>1, GroupsInOrder
  <2>3. \A n \in DOMAIN items :
          /\ f[n] \in Firsts(page) /\ f[n] \in DOMAIN page
          /\ items[n].id = page[f[n]].id
    BY <2>1, <2>2, ItemOfHasCopies DEF Firsts
  <2>4. ASSUME NEW m \in DOMAIN items, NEW n \in DOMAIN items, m <= n
        PROVE  /\ f[m] \in DOMAIN page /\ page[f[m]].id = items[m].id
               /\ \A q \in 1 .. f[m] - 1 : page[q].id # items[n].id
    <3>1. DOMAIN page = 1 .. Len(page) /\ Len(page) \in Nat
      BY <2>1
    <3>2. IsList(items)
      BY InitItems DEF ItemsInv
    <3>3. f[m] <= f[n] /\ f[m] \in DOMAIN page /\ f[n] \in DOMAIN page
      <4>1. m \in Nat /\ n \in Nat
        BY <3>2 DEF IsList
      <4>2. m < n \/ m = n
        BY <2>4, <4>1
      <4>3. QED  BY <2>2, <2>3, <3>1, <4>2
    <3>4. \A q \in 1 .. f[m] - 1 : q \in DOMAIN page /\ q < f[n]
      BY <3>1, <3>3
    <3>5. \A q \in DOMAIN page : q < f[n] => page[q].id # page[f[n]].id
      BY <2>3 DEF Firsts
    <3>6. QED  BY <2>3, <3>4, <3>5
  <2>5. QED  BY <2>4 DEF PlacesInv
<1>2. CASE page \in ItemLists /\ items = page
  <2>1. IsList(items)
    BY InitItems DEF ItemsInv
  <2>2. ASSUME NEW m \in DOMAIN items, NEW n \in DOMAIN items, m <= n
        PROVE  /\ m \in DOMAIN page /\ page[m].id = items[m].id
               /\ \A q \in 1 .. m - 1 : page[q].id # items[n].id
    <3>1. \A q \in 1 .. m - 1 : q \in DOMAIN page /\ q # n
      BY <1>2, <2>1, <2>2 DEF IsList
    <3>2. QED  BY <1>2, <3>1 DEF ItemsDistinct
  <2>3. QED  BY <2>2 DEF PlacesInv
<1>3. QED  BY <1>1, <1>2 DEF Init, Request

LEMMA NextPlaces == PlacesInv /\ [Next]_vars => PlacesInv'
<1> SUFFICES ASSUME PlacesInv, [Next]_vars PROVE PlacesInv'  OBVIOUS
<1>1. UNCHANGED <<kind, page, items>>
  BY DEF Next, vars, TryTransaction, TryVirtualCard, KeyExists, UnsealFound,
         Return, Done, ChangeKeys, request
<1>2. QED  BY <1>1 DEF PlacesInv

\* Results are of items in the order of the loop, and of none ahead of it.
SortedInv ==
  /\ \A m \in DOMAIN success : success[m][1] <= i
  /\ \A m, n \in DOMAIN success : m < n => success[m][1] <= success[n][1]

LEMMA SortedNext == TypeInv /\ SortedInv /\ [Next]_vars => SortedInv'
<1> SUFFICES ASSUME TypeInv, SortedInv, [Next]_vars PROVE SortedInv'  OBVIOUS
<1>t. /\ i \in Nat /\ k \in Nat /\ found \in Nat /\ success \in Seq(Positions)
      /\ DOMAIN success = 1 .. Len(success) /\ Len(success) \in Nat
      /\ \A m \in DOMAIN success : success[m][1] \in Nat
  <2>1. success \in Seq(Positions) /\ i \in Nat /\ k \in Nat /\ found \in Nat
    BY DEF TypeInv, TypeOK, ItemsInv, IsList
  <2>2. \A p \in Positions : p[1] \in Nat
    BY DEF Positions
  <2>3. QED  BY <2>1, <2>2
<1>1. CASE UNCHANGED success /\ i' \in {i, i + 1}
  BY <1>1, <1>t DEF SortedInv
<1>2. ASSUME NEW m \in Nat, success' = Append(success, <<i, m>>),
             i' \in {i, i + 1}, i <= Len(items)
      PROVE  SortedInv'
  <2>1. <<i, m>> \in Positions
    BY <1>2, <1>t DEF TypeInv, TypeOK, ItemsInv, IsList, Positions
  <2>2. /\ DOMAIN success' = DOMAIN success \cup {Len(success) + 1}
        /\ \A n \in DOMAIN success : success'[n] = success[n]
        /\ success'[Len(success) + 1] = <<i, m>>
    BY <1>2, <1>t, <2>1, AppendedItem
  <2>3. success'[Len(success) + 1][1] = i
    BY <2>2
  <2>4. \A n \in DOMAIN success' : success'[n][1] <= i
    BY <1>t, <2>2, <2>3 DEF SortedInv
  <2>5. i <= i'
    BY <1>2, <1>t
  <2>6. \A n \in DOMAIN success' : success'[n][1] <= i'
    BY <1>2, <1>t, <2>2, <2>3, <2>4, <2>5
  <2>7. ASSUME NEW x \in DOMAIN success', NEW y \in DOMAIN success', x < y
        PROVE  success'[x][1] <= success'[y][1]
    <3>1. x \in DOMAIN success
      BY <1>t, <2>2, <2>7
    <3>2. CASE y \in DOMAIN success
      BY <2>2, <2>7, <3>1, <3>2 DEF SortedInv
    <3>3. CASE y = Len(success) + 1
      BY <2>3, <2>4, <3>3
    <3>4. QED  BY <2>2, <3>2, <3>3
  <2>8. QED  BY <2>6, <2>7 DEF SortedInv
<1>3. CASE TryTransaction \/ TryVirtualCard
  BY <1>1, <1>2, <1>3, <1>t
  DEF TryTransaction, TryVirtualCard, Reading, NextItem, NextCopy
<1>4. CASE UnsealFound
  BY <1>1, <1>2, <1>4, <1>t
  DEF UnsealFound, Provisional, Reading, NextItem, Fail
<1>5. CASE UNCHANGED <<i, success>>
  BY <1>1, <1>5
<1>6. QED
  BY <1>3, <1>4, <1>5 DEF Next, vars, KeyExists, Return, Done, ChangeKeys

\* Whatever fails on the way, results come in the order of the service's page,
\* if a list of provisional cards does not name a card twice.
THEOREM OrderAlwaysKept ==
  ASSUME ItemsDistinct PROVE Spec => []OrderKept
<1>1. Init => SortedInv
  BY DEF Init, SortedInv
<1>2. TypeInv /\ PlacesInv /\ SortedInv => OrderKept
  <2> SUFFICES ASSUME TypeInv, PlacesInv, SortedInv,
                      NEW m \in DOMAIN success, NEW n \in DOMAIN success, m < n
               PROVE  \E p \in DOMAIN page :
                        /\ page[p].id = items[success[m][1]].id
                        /\ \A q \in 1 .. p - 1 : page[q].id # items[success[n][1]].id
    BY DEF OrderKept
  <2>1. success \in Seq(Positions) /\ \A p \in Positions : p[1] \in DOMAIN items
    BY DEF TypeInv, TypeOK, ItemsInv, IsList, Positions
  <2>2. success[m][1] \in DOMAIN items /\ success[n][1] \in DOMAIN items
    BY <2>1
  <2>3. QED  BY <2>2 DEF PlacesInv, SortedInv
<1>3. QED
  BY <1>1, <1>2, InitTypeInv, NextTypeInv, InitPlaces, NextPlaces, SortedNext, PTL
  DEF Spec

-----------------------------------------------------------------------------
(* The result with keys that stay as they are.                             *)

Places == UNION {{n} \X (0 .. Len(items[n].copies)) : n \in DOMAIN items}

\* The places the loop has dealt with.
Passed(p) ==
  p[1] < i \/ (kind = "virtualCards" /\ p[1] = i /\ p[2] \in 1 .. k - 1)

NoRepeats(s) == \A m, n \in DOMAIN s : s[m] = s[n] => m = n

\* Of these places the reference's are in the results, and nothing else.
AccountInv ==
  /\ NoRepeats(success) /\ NoRepeats(failed)
  /\ Entries(success) = {p \in Places : Passed(p) /\ ReportsAsRead(p[1], p[2])}
  /\ Entries(failed) = {p \in Places : Passed(p) /\ ReportsAsFailed(p[1], p[2])}

\* What the loop has found out about the item it is at.
ScanInv ==
  i <= Len(items) =>
    /\ kind \in {"transactions", "virtualCards"} => k <= Len(items[i].copies)
    /\ kind = "transactions" =>
         /\ failedForId = [m \in 1 .. k - 1 |-> <<i, m>>]
         /\ \A m \in 1 .. k - 1 : ~Readable(items[i].copies[m])
    /\ kind = "provisionalCards" =>
         IF found = 0 THEN HeldCopies(i) \cap (1 .. k - 1) = {}
         ELSE IsFirst(found, HeldCopies(i))
    /\ kind = "provisionalCard" =>
         IF found = 0 THEN HeldCopies(i) \cap (1 .. k - 1) = {}
         ELSE IsLast(found, HeldCopies(i) \cap (1 .. k - 1))

\* A get throws at its only item; everything else returns at the end.
StatusInv ==
  /\ status = "reading" /\ kind = "provisionalCard" => failed = <<>>
  /\ status # "reading" => i > Len(items)
  /\ status = "threw" => kind = "provisionalCard" /\ failed # <<>>
  /\ status \in {"success", "partial"} =>
       /\ status = IF failed = <<>> THEN "success" ELSE "partial"
       /\ kind = "provisionalCard" => failed = <<>>

SteadyInv == StatusInv /\ (changes = 0 => AccountInv /\ ScanInv)

\* A transaction or card on a page has a copy; a get is of one item at most.
ShapeInv ==
  /\ kind \in {"transactions", "virtualCards"} =>
       \A n \in DOMAIN items : 1 \in DOMAIN items[n].copies
  /\ kind = "provisionalCard" => Len(items) <= 1

LEMMA InitShape == Init => ShapeInv
<1> SUFFICES ASSUME Init PROVE ShapeInv  OBVIOUS
<1>1. CASE page \in Pages /\ items = GroupById(page) /\ kind # "provisionalCard"
  <2>1. page \in Seq(Copy)
    BY <1>1, PagesAssumption
  <2>2. PICK f \in [DOMAIN items -> Firsts(page)] :
          \A n \in DOMAIN items : items[n] = ItemOf(page, f[n])
    BY <1>1, <2>1, GroupsInOrder
  <2>3. \A n \in DOMAIN items : f[n] \in DOMAIN page
    BY <2>2 DEF Firsts
  <2>4. QED  BY <1>1, <2>1, <2>2, <2>3, ItemOfHasCopies DEF ShapeInv
<1>2. QED  BY <1>1 DEF Init, Request, ShapeInv

LEMMA NextShape == ShapeInv /\ [Next]_vars => ShapeInv'
<1> SUFFICES ASSUME ShapeInv, [Next]_vars PROVE ShapeInv'  OBVIOUS
<1>1. UNCHANGED <<kind, page, items>>
  BY DEF Next, vars, TryTransaction, TryVirtualCard, KeyExists, UnsealFound,
         Return, Done, ChangeKeys, request
<1>2. QED  BY <1>1 DEF ShapeInv

LEMMA AppendedOnce ==
  ASSUME NEW S, NEW s \in Seq(S), NEW x, NEW y, <<x, y>> \in S,
         NoRepeats(s), <<x, y>> \notin Entries(s)
  PROVE  NoRepeats(Append(s, <<x, y>>))
<1> DEFINE t == Append(s, <<x, y>>)
<1>1. /\ DOMAIN t = DOMAIN s \cup {Len(s) + 1} /\ t[Len(s) + 1] = <<x, y>>
      /\ \A n \in DOMAIN s : t[n] = s[n]
  BY AppendedItem
<1>2. \A n \in DOMAIN s : s[n] # <<x, y>>
  BY DEF Entries
<1>3. QED  BY <1>1, <1>2 DEF NoRepeats

LEMMA JoinedOnce ==
  ASSUME NEW S, NEW s \in Seq(S), NEW t \in Seq(S), NoRepeats(s), NoRepeats(t),
         Entries(s) \cap Entries(t) = {}
  PROVE  NoRepeats(s \o t)
<1> DEFINE u == s \o t
<1>1. /\ u \in Seq(S) /\ Len(u) = Len(s) + Len(t) /\ DOMAIN u = 1 .. Len(u)
      /\ \A n \in 1 .. Len(s) : u[n] = s[n]
      /\ \A n \in 1 .. Len(t) : u[Len(s) + n] = t[n]
  OBVIOUS
<1>2. /\ DOMAIN s = 1 .. Len(s) /\ DOMAIN t = 1 .. Len(t)
      /\ Len(s) \in Nat /\ Len(t) \in Nat
  OBVIOUS
<1>3. \A n \in DOMAIN u :
        \/ n \in DOMAIN s /\ u[n] = s[n]
        \/ /\ n - Len(s) \in DOMAIN t /\ n \notin DOMAIN s
           /\ u[n] = t[n - Len(s)]
  <2> TAKE n \in DOMAIN u
  <2>1. CASE n <= Len(s)
    BY <1>1, <1>2, <2>1
  <2>2. CASE n > Len(s)
    <3>1. n - Len(s) \in 1 .. Len(t) /\ n = Len(s) + (n - Len(s))
      BY <1>1, <1>2, <2>2
    <3>2. u[n] = t[n - Len(s)]
      BY <1>1, <3>1
    <3>3. QED  BY <1>2, <2>2, <3>1, <3>2
  <2>3. QED  BY <1>1, <1>2, <2>1, <2>2
<1>4. \A m \in DOMAIN s : \A n \in DOMAIN t : s[m] # t[n]
  BY DEF Entries
<1>5. ASSUME NEW m \in DOMAIN u, NEW n \in DOMAIN u, u[m] = u[n]
      PROVE  m = n
  <2>1. CASE m \in DOMAIN s /\ n \in DOMAIN s
    BY <1>3, <1>5, <2>1 DEF NoRepeats
  <2>2. CASE m \notin DOMAIN s /\ n \notin DOMAIN s
    <3>1. m - Len(s) = n - Len(s)
      BY <1>3, <1>5, <2>2 DEF NoRepeats
    <3>2. QED  BY <1>1, <1>2, <3>1
  <2>3. QED  BY <1>3, <1>4, <1>5, <2>1, <2>2
<1>6. QED  BY <1>5 DEF NoRepeats

LEMMA PlaceIsPair ==
  ASSUME TypeInv
  PROVE  \A p : p \in Places <=>
           \E n \in DOMAIN items : \E m \in 0 .. Len(items[n].copies) : p = <<n, m>>
BY DEF Places

\* What the reference says depends on the request and the keys only.
LEMMA SameReference ==
  ASSUME UNCHANGED <<kind, items, held>>
  PROVE  /\ UNCHANGED Places
         /\ \A n, m : ReportsAsRead(n, m)' <=> ReportsAsRead(n, m)
         /\ \A n, m : ReportsAsFailed(n, m)' <=> ReportsAsFailed(n, m)
         /\ \A n : UNCHANGED <<ReadableCopies(n), HeldCopies(n)>>
<1>1. \A n : UNCHANGED <<ReadableCopies(n), HeldCopies(n)>>
  BY DEF ReadableCopies, HeldCopies, Readable
<1>2. UNCHANGED Places
  BY DEF Places
<1>3. \A n, m : Chosen(n, m)' <=> Chosen(n, m)
  BY <1>1 DEF Chosen
<1>4. \A n, m : ReportsAsRead(n, m)' <=> ReportsAsRead(n, m)
  BY <1>1, <1>3 DEF ReportsAsRead
<1>5. \A n, m : ReportsAsFailed(n, m)' <=> ReportsAsFailed(n, m)
  BY <1>1, <1>3, <1>4 DEF ReportsAsFailed
<1>6. QED  BY <1>1, <1>2, <1>4, <1>5

\* A turn that passes the places N and reports on them as the reference does.
LEMMA AccountStep ==
  ASSUME AccountInv, UNCHANGED <<kind, items, held>>, NEW N,
         \A p \in Places : Passed(p)' <=> Passed(p) \/ p \in N,
         Entries(success') = Entries(success)
           \cup {p \in Places : p \in N /\ ReportsAsRead(p[1], p[2])},
         Entries(failed') = Entries(failed)
           \cup {p \in Places : p \in N /\ ReportsAsFailed(p[1], p[2])},
         NoRepeats(success'), NoRepeats(failed')
  PROVE  AccountInv'
BY SameReference DEF AccountInv

\* The places of the item the loop is at, and what typing says of them.
LEMMA HereTyped ==
  ASSUME TypeInv, i <= Len(items)
  PROVE  /\ i \in DOMAIN items /\ IsList(Copies) /\ Copies = items[i].copies
         /\ \A m : m \in DOMAIN Copies <=> m \in 1 .. Len(Copies)
         /\ \A p \in Places :
              /\ p[1] \in DOMAIN items /\ p[1] \in Nat /\ p[2] \in Nat
              /\ p = <<p[1], p[2]>>
              /\ p[1] = i => p[2] \in 0 .. Len(Copies)
         /\ \A m \in 0 .. Len(Copies) : <<i, m>> \in Places
<1>1. i \in DOMAIN items /\ IsList(Copies) /\ Copies = items[i].copies /\ IsList(items)
  BY DEF TypeInv, TypeOK, ItemsInv, IsList, Copies
<1>2. \A m \in 0 .. Len(Copies) : <<i, m>> \in Places
  BY <1>1, PlaceIsPair
<1>3. ASSUME NEW p \in Places
      PROVE  /\ p[1] \in DOMAIN items /\ p[1] \in Nat /\ p[2] \in Nat
             /\ p = <<p[1], p[2]>>
             /\ p[1] = i => p[2] \in 0 .. Len(Copies)
  <2>1. PICK n \in DOMAIN items : \E m \in 0 .. Len(items[n].copies) : p = <<n, m>>
    BY PlaceIsPair
  <2>2. PICK m \in 0 .. Len(items[n].copies) : p = <<n, m>>
    BY <2>1
  <2>3. p[1] = n /\ p[2] = m
    BY <2>2
  <2>4. QED  BY <1>1, <2>2, <2>3 DEF IsList
<1>4. QED  BY <1>1, <1>2, <1>3 DEF IsList

\* Nothing of an item is reported before the loop is at it.
LEMMA NotYet ==
  ASSUME TypeInv, AccountInv, i <= Len(items), NEW m \in 0 .. Len(Copies),
         kind # "virtualCards" \/ m = k
  PROVE  <<i, m>> \notin Entries(success) /\ <<i, m>> \notin Entries(failed)
<1>1. i \in Nat /\ k \in Nat
  BY DEF TypeInv, TypeOK, ItemsInv, IsList
<1>2. ~Passed(<<i, m>>)
  BY <1>1 DEF Passed
<1>3. QED  BY <1>2 DEF AccountInv

\* Leaving an item passes the places of the item.
LEMMA LeavePasses ==
  ASSUME TypeInv, i <= Len(items), NextItem, UNCHANGED <<kind, items>>,
         kind # "virtualCards"
  PROVE  \A p \in Places : Passed(p)' <=> Passed(p) \/ p \in {q \in Places : q[1] = i}
<1>1. \A p \in Places : p[1] \in Nat
  BY HereTyped
<1>2. i \in Nat /\ i' = i + 1 /\ kind' = kind
  BY DEF TypeInv, TypeOK, ItemsInv, IsList, NextItem
<1>3. \A p \in Places : p[1] < i' <=> p[1] < i \/ p[1] = i
  BY <1>1, <1>2
<1>4. QED  BY <1>2, <1>3 DEF Passed

\* Turns that leave an item with one entry in the results.
LEMMA AccountOne ==
  ASSUME TypeInv, AccountInv, i <= Len(items), NextItem,
         UNCHANGED <<kind, items, held>>, kind # "virtualCards",
         NEW m \in 0 .. Len(Copies),
         \/ /\ success' = Append(success, <<i, m>>) /\ failed' = failed
            /\ \A n \in 0 .. Len(Copies) : ReportsAsRead(i, n) <=> n = m
            /\ \A n \in 0 .. Len(Copies) : ~ReportsAsFailed(i, n)
         \/ /\ failed' = Append(failed, <<i, m>>) /\ success' = success
            /\ \A n \in 0 .. Len(Copies) : ReportsAsFailed(i, n) <=> n = m
            /\ \A n \in 0 .. Len(Copies) : ~ReportsAsRead(i, n)
  PROVE  AccountInv'
<1> DEFINE N == {q \in Places : q[1] = i}
<1>1. \A p \in Places : Passed(p)' <=> Passed(p) \/ p \in N
  BY LeavePasses
<1>2. /\ success \in Seq(Positions) /\ failed \in Seq(Positions)
      /\ <<i, m>> \in Positions
  BY HereTyped DEF TypeInv, TypeOK, Positions, IsList
<1>3. NoRepeats(success') /\ NoRepeats(failed')
  <2>1. <<i, m>> \notin Entries(success) /\ <<i, m>> \notin Entries(failed)
    BY NotYet
  <2>2. /\ NoRepeats(success) /\ NoRepeats(failed)
        /\ NoRepeats(Append(success, <<i, m>>)) /\ NoRepeats(Append(failed, <<i, m>>))
    BY <1>2, <2>1, AppendedOnce DEF AccountInv
  <2>3. QED  BY <2>2
<1>4. <<i, m>> \in Places /\ \A p \in N : p[2] \in 0 .. Len(Copies) /\ p = <<i, p[2]>>
  BY HereTyped
<1>5. CASE /\ success' = Append(success, <<i, m>>) /\ failed' = failed
           /\ \A n \in 0 .. Len(Copies) : ReportsAsRead(i, n) <=> n = m
           /\ \A n \in 0 .. Len(Copies) : ~ReportsAsFailed(i, n)
  <2>1. {p \in Places : p \in N /\ ReportsAsRead(p[1], p[2])} = {<<i, m>>}
    BY <1>4, <1>5
  <2>2. {p \in Places : p \in N /\ ReportsAsFailed(p[1], p[2])} = {}
    BY <1>4, <1>5
  <2>3. Entries(success') = Entries(success) \cup {<<i, m>>}
    BY <1>2, <1>5, AppendedItem
  <2>4. QED  BY <1>1, <1>3, <1>5, <2>1, <2>2, <2>3, AccountStep
<1>6. CASE /\ failed' = Append(failed, <<i, m>>) /\ success' = success
           /\ \A n \in 0 .. Len(Copies) : ReportsAsFailed(i, n) <=> n = m
           /\ \A n \in 0 .. Len(Copies) : ~ReportsAsRead(i, n)
  <2>1. {p \in Places : p \in N /\ ReportsAsFailed(p[1], p[2])} = {<<i, m>>}
    BY <1>4, <1>6
  <2>2. {p \in Places : p \in N /\ ReportsAsRead(p[1], p[2])} = {}
    BY <1>4, <1>6
  <2>3. Entries(failed') = Entries(failed) \cup {<<i, m>>}
    BY <1>2, <1>6, AppendedItem
  <2>4. QED  BY <1>1, <1>3, <1>6, <2>1, <2>2, <2>3, AccountStep
<1>7. QED  BY <1>5, <1>6

\* At the next item nothing has been found out.
LEMMA FreshScan ==
  ASSUME NextItem, TypeInv, TypeInv', ShapeInv'
  PROVE  ScanInv'
<1> SUFFICES ASSUME i' <= Len(items') PROVE ScanInv'
  BY DEF ScanInv
<1>1. /\ k' = 1 /\ found' = 0 /\ failedForId' = <<>> /\ 1 .. k' - 1 = {}
      /\ i' \in DOMAIN items' /\ IsList(items'[i'].copies)
  BY DEF NextItem, TypeInv, TypeOK, ItemsInv, IsList
<1>2. kind' \in {"transactions", "virtualCards"} => k' <= Len(items'[i'].copies)
  BY <1>1 DEF ShapeInv, IsList
<1>3. failedForId' = [m \in 1 .. k' - 1 |-> <<i', m>>]
  BY <1>1
<1>4. QED  BY <1>1, <1>2, <1>3 DEF ScanInv

LEMMA StatusNext == TypeInv /\ ShapeInv /\ StatusInv /\ [Next]_vars => StatusInv'
<1> SUFFICES ASSUME TypeInv, ShapeInv, StatusInv, [Next]_vars PROVE StatusInv'
  OBVIOUS
<1>t. i \in Nat \ {0} /\ Len(items) \in Nat /\ failed \in Seq(Positions) /\ kind \in Kinds
  BY DEF TypeInv, TypeOK, ItemsInv, IsList
<1>1. CASE TryTransaction \/ TryVirtualCard
  BY <1>1 DEF TryTransaction, TryVirtualCard, Reading, request, StatusInv
<1>2. CASE UnsealFound
  <2>1. /\ status = "reading" /\ kind \in {"provisionalCards", "provisionalCard"}
        /\ i' = i + 1 /\ i <= Len(items) /\ UNCHANGED <<kind, items>>
    BY <1>2 DEF UnsealFound, Provisional, Reading, NextItem, Fail, request
  <2>2. CASE UNCHANGED <<failed, status>>
    BY <2>1, <2>2 DEF StatusInv
  <2>3. CASE Fail
    <3>1. failed' # <<>>
      BY <1>t, <2>3 DEF Fail
    <3>2. kind = "provisionalCard" => i' > Len(items')
      BY <1>t, <2>1 DEF ShapeInv
    <3>3. QED  BY <2>1, <2>3, <3>1, <3>2 DEF Fail, StatusInv
  <2>4. QED  BY <1>2, <2>2, <2>3 DEF UnsealFound
<1>3. CASE Return
  BY <1>3 DEF Return, StatusInv, request
<1>4. CASE UNCHANGED <<kind, items, i, failed, status>>
  BY <1>4 DEF StatusInv
<1>5. QED
  BY <1>1, <1>2, <1>3, <1>4 DEF Next, vars, KeyExists, Done, ChangeKeys, request

\* The hypotheses of the steps below.
Steady ==
  /\ TypeInv /\ TypeInv' /\ ShapeInv' /\ AccountInv /\ ScanInv
  /\ i <= Len(items) /\ UNCHANGED <<kind, items, held>>

\* unsealTransactions: the failures kept back are those of all copies so far.
LEMMA TransactionSteady ==
  ASSUME Steady, TryTransaction PROVE AccountInv' /\ ScanInv'
<1> USE DEF Steady
<1>t. /\ kind = "transactions" /\ i \in Nat /\ k \in Nat \ {0}
      /\ success \in Seq(Positions) /\ failed \in Seq(Positions)
  BY DEF TryTransaction, Reading, TypeInv, TypeOK, ItemsInv, IsList
<1>h. /\ IsList(Copies) /\ Copies = items[i].copies
      /\ \A m : m \in DOMAIN Copies <=> m \in 1 .. Len(Copies)
  BY HereTyped
<1>s. /\ k \in 1 .. Len(Copies)
      /\ failedForId = [m \in 1 .. k - 1 |-> <<i, m>>]
      /\ \A m \in 1 .. k - 1 : ~Readable(Copies[m])
  BY <1>t, <1>h DEF ScanInv, IsList
<1>r. /\ \A m : m \in ReadableCopies(i) <=> m \in 1 .. Len(Copies) /\ Readable(Copies[m])
      /\ \A m : ReportsAsRead(i, m) <=> IsFirst(m, ReadableCopies(i))
      /\ \A m : ReportsAsFailed(i, m) <=> m \in 1 .. Len(Copies) /\ ReadableCopies(i) = {}
  BY <1>t, <1>h DEF ReadableCopies, ReportsAsRead, ReportsAsFailed
<1>1. CASE /\ Readable(Copies[k]) /\ success' = Append(success, <<i, k>>)
           /\ NextItem /\ failed' = failed
  <2>1. k \in ReadableCopies(i) /\ \A m \in ReadableCopies(i) : m >= k
    <3>1. \A m \in 1 .. Len(Copies) : m < k => m \in 1 .. k - 1
      BY <1>t, <1>s, <1>h DEF IsList
    <3>2. \A m \in ReadableCopies(i) : m \in Nat /\ ~(m < k)
      BY <1>s, <1>r, <1>h, <3>1 DEF IsList
    <3>3. QED  BY <1>t, <1>1, <1>s, <1>r, <3>2
  <2>2. \A n \in 0 .. Len(Copies) : ReportsAsRead(i, n) <=> n = k
    BY <1>t, <1>h, <1>r, <2>1 DEF IsFirst, IsList
  <2>3. \A n \in 0 .. Len(Copies) : ~ReportsAsFailed(i, n)
    BY <1>r, <2>1
  <2>4. k \in 0 .. Len(Copies)
    BY <1>s, <1>h DEF IsList
  <2>5. AccountInv'
    BY <1>t, <1>1, <2>2, <2>3, <2>4, AccountOne
  <2>6. QED  BY <1>1, <2>5, FreshScan
<1>2. CASE /\ ~Readable(Copies[k]) /\ k < Len(Copies)
           /\ failedForId' = Append(failedForId, <<i, k>>)
           /\ NextCopy /\ UNCHANGED <<success, failed>>
  <2>1. AccountInv'
    <3>1. \A p : Passed(p)' <=> Passed(p)
      BY <1>t, <1>2 DEF Passed, NextCopy
    <3>2. QED  BY <1>2, <3>1, AccountStep DEF AccountInv
  <2>2. failedForId' = [m \in 1 .. k' - 1 |-> <<i', m>>]
    BY <1>t, <1>2, <1>s DEF NextCopy
  <2>3. \A m \in 1 .. k' - 1 : ~Readable(Copies[m])
    <3>1. \A m \in 1 .. k' - 1 : m \in 1 .. k - 1 \/ m = k
      BY <1>t, <1>2 DEF NextCopy
    <3>2. QED  BY <1>2, <1>s, <3>1
  <2>4. \A m \in 1 .. k' - 1 : ~Readable(items[i].copies[m])'
    BY <1>2, <1>h, <2>3 DEF Readable, NextCopy
  <2>5. k' <= Len(items'[i'].copies)
    BY <1>t, <1>2, <1>h DEF NextCopy, IsList
  <2>6. ScanInv'
    BY <1>t, <1>2, <2>2, <2>4, <2>5 DEF ScanInv, NextCopy
  <2>7. QED  BY <2>1, <2>6
<1>3. CASE /\ ~Readable(Copies[k]) /\ k = Len(Copies)
           /\ failed' = failed \o Append(failedForId, <<i, k>>)
           /\ NextItem /\ success' = success
  <2> DEFINE t == Append(failedForId, <<i, k>>)
             N == {q \in Places : q[1] = i}
  <2>1. t = [m \in 1 .. k |-> <<i, m>>]
    BY <1>t, <1>s
  <2>2. ReadableCopies(i) = {}
    <3>1. \A m \in 1 .. Len(Copies) : m \in 1 .. k - 1 \/ m = k
      BY <1>t, <1>3
    <3>2. QED  BY <1>3, <1>s, <1>r, <3>1
  <2>3. t \in Seq(Positions) /\ DOMAIN t = 1 .. k
    <3>1. \A m \in 1 .. k : <<i, m>> \in Positions
      BY <1>t, HereTyped DEF Positions, TypeInv, ItemsInv, IsList
    <3>2. [m \in 1 .. k |-> <<i, m>>] \in [1 .. k -> Positions] /\ k \in Nat
      BY <1>t, <3>1
    <3>3. [m \in 1 .. k |-> <<i, m>>] \in Seq(Positions)
      BY <3>2
    <3>4. QED  BY <2>1, <3>3
  <2>4. Entries(t) = {<<i, m>> : m \in 1 .. k}
    BY <2>1 DEF Entries
  <2>5. Entries(failed') = Entries(failed) \cup Entries(t)
    <3> HIDE DEF t
    <3>1. failed' = failed \o t
      BY <1>3 DEF t
    <3>2. QED  BY <1>t, <2>3, <3>1, JoinedItems
  <2>6. {p \in Places : p \in N /\ ReportsAsFailed(p[1], p[2])} = Entries(t)
    <3>1. ASSUME NEW p \in Places, p \in N, ReportsAsFailed(p[1], p[2])
          PROVE  p \in Entries(t)
      <4>1. p = <<i, p[2]>> /\ p[2] \in 1 .. k
        BY <3>1, <1>3, <1>r, HereTyped
      <4>2. QED  BY <2>4, <4>1
    <3>2. ASSUME NEW p \in Entries(t)
          PROVE  p \in Places /\ p \in N /\ ReportsAsFailed(p[1], p[2])
      <4>1. PICK m \in 1 .. k : p = <<i, m>>
        BY <2>4
      <4>2. m \in 0 .. Len(Copies) /\ m \in 1 .. Len(Copies)
        BY <1>t, <1>3
      <4>3. p \in Places /\ p[1] = i /\ p[2] = m
        BY <4>1, <4>2, HereTyped
      <4>4. QED  BY <1>r, <2>2, <4>2, <4>3
    <3>3. QED  BY <3>1, <3>2
  <2>7. {p \in Places : p \in N /\ ReportsAsRead(p[1], p[2])} = {}
    BY <1>r, <2>2 DEF IsFirst
  <2>8. NoRepeats(failed')
    <3>1. NoRepeats(t)
      <4> HIDE DEF t
      <4>1. \A m \in 1 .. k : t[m] = <<i, m>>
        BY <2>1
      <4>2. \A m, n \in 1 .. k : <<i, m>> = <<i, n>> => m = n
        OBVIOUS
      <4>3. QED  BY <2>3, <4>1, <4>2 DEF NoRepeats
    <3>2. Entries(failed) \cap Entries(t) = {}
      <4>1. \A m \in 1 .. k : m \in 0 .. Len(Copies)
        BY <1>t, <1>3
      <4>2. \A m \in 1 .. k : <<i, m>> \notin Entries(failed)
        BY <1>t, <4>1, NotYet
      <4>3. QED  BY <2>4, <4>2
    <3> HIDE DEF t
    <3>3. failed' = failed \o t
      BY <1>3 DEF t
    <3>4. QED  BY <1>t, <2>3, <3>1, <3>2, <3>3, JoinedOnce DEF AccountInv
  <2>9. AccountInv'
    <3>1. \A p \in Places : Passed(p)' <=> Passed(p) \/ p \in N
      BY <1>t, <1>3, LeavePasses
    <3> HIDE DEF N, t
    <3>2. NoRepeats(success')
      BY <1>3 DEF AccountInv
    <3>3. Entries(success') = Entries(success) \cup {}
      BY <1>3
    <3>4. QED
      BY <2>5, <2>6, <2>7, <2>8, <3>1, <3>2, <3>3, AccountStep
  <2>10. QED  BY <1>3, <2>9, FreshScan
<1>4. QED  BY <1>1, <1>2, <1>3 DEF TryTransaction

\* listVirtualCards: a turn passes one copy.
LEMMA VirtualCardSteady ==
  ASSUME Steady, TryVirtualCard PROVE AccountInv' /\ ScanInv'
<1> USE DEF Steady
<1>t. /\ kind = "virtualCards" /\ kind' = kind /\ i \in Nat /\ k \in Nat \ {0}
      /\ success \in Seq(Positions) /\ failed \in Seq(Positions)
  BY DEF TryVirtualCard, Reading, TypeInv, TypeOK, ItemsInv, IsList
<1>h. /\ IsList(Copies) /\ Copies = items[i].copies
      /\ k \in 1 .. Len(Copies) /\ k \in 0 .. Len(Copies) /\ k \in DOMAIN Copies
      /\ <<i, k>> \in Places /\ <<i, k>> \in Positions
  <2>1. IsList(Copies) /\ Copies = items[i].copies /\ i \in DOMAIN items
    BY HereTyped
  <2>2. k \in 1 .. Len(Copies) /\ k \in 0 .. Len(Copies) /\ k \in DOMAIN Copies
    BY <1>t, <2>1 DEF ScanInv, IsList
  <2>3. QED  BY <1>t, <2>1, <2>2, HereTyped DEF Positions, TypeInv, ItemsInv, IsList
<1>r. /\ \A m : ReportsAsRead(i, m) <=> m \in DOMAIN Copies /\ Readable(Copies[m])
      /\ \A m : ReportsAsFailed(i, m) <=> m \in DOMAIN Copies /\ ~Readable(Copies[m])
  BY <1>t, <1>h DEF ReadableCopies, ReportsAsRead, ReportsAsFailed
<1> DEFINE N == {p \in {<<i, 0>>, <<i, k>>} : p[2] = k \/ k = Len(Copies)}
<1>1. \A p \in Places : Passed(p)' <=> Passed(p) \/ p \in N
  <2> SUFFICES ASSUME NEW p \in Places PROVE Passed(p)' <=> Passed(p) \/ p \in N
    OBVIOUS
  <2>1. /\ p[1] \in Nat /\ p[2] \in Nat /\ p = <<p[1], p[2]>>
        /\ p[1] = i => p[2] \in 0 .. Len(Copies)
    BY HereTyped
  <2>2. p \in N <=> p[1] = i /\ (p[2] = k \/ (p[2] = 0 /\ k = Len(Copies)))
    BY <2>1
  <2>3. CASE k < Len(Copies) /\ NextCopy
    BY <1>t, <2>1, <2>2, <2>3 DEF Passed, NextCopy
  <2>4. CASE k = Len(Copies) /\ NextItem
    BY <1>t, <2>1, <2>2, <2>4 DEF Passed, NextItem
  <2>5. QED  BY <1>h, <2>3, <2>4 DEF TryVirtualCard
<1>2. /\ \A p : p \in N /\ ReportsAsRead(p[1], p[2])
                  <=> p = <<i, k>> /\ Readable(Copies[k])
      /\ \A p : p \in N /\ ReportsAsFailed(p[1], p[2])
                  <=> p = <<i, k>> /\ ~Readable(Copies[k])
  <2>1. 0 \notin DOMAIN Copies
    BY <1>h DEF IsList
  <2>2. \A p \in N : p = <<i, 0>> \/ p = <<i, k>>
    OBVIOUS
  <2>3. <<i, k>> \in N
    OBVIOUS
  <2>4. \A m : <<i, m>>[1] = i /\ <<i, m>>[2] = m
    OBVIOUS
  <2> HIDE DEF N
  <2>5. \A p : p = <<i, 0>> => ~ReportsAsRead(p[1], p[2]) /\ ~ReportsAsFailed(p[1], p[2])
    BY <1>r, <2>1, <2>4
  <2>6. \A p : p = <<i, k>> =>
          /\ ReportsAsRead(p[1], p[2]) <=> Readable(Copies[k])
          /\ ReportsAsFailed(p[1], p[2]) <=> ~Readable(Copies[k])
    BY <1>h, <1>r, <2>4
  <2>7. QED  BY <2>2, <2>3, <2>5, <2>6
<1>3. <<i, k>> \notin Entries(success) /\ <<i, k>> \notin Entries(failed)
  BY <1>h, NotYet
<1>4. AccountInv'
  <2>1. CASE /\ Readable(Copies[k]) /\ success' = Append(success, <<i, k>>)
             /\ failed' = failed
    <3>1. {p \in Places : p \in N /\ ReportsAsRead(p[1], p[2])} = {<<i, k>>}
      BY <1>h, <1>2, <2>1
    <3>2. {p \in Places : p \in N /\ ReportsAsFailed(p[1], p[2])} = {}
      BY <1>2, <2>1
    <3>3. NoRepeats(success') /\ NoRepeats(failed')
      BY <1>t, <1>h, <1>3, <2>1, AppendedOnce DEF AccountInv
    <3>4. Entries(success') = Entries(success) \cup {<<i, k>>}
      BY <1>t, <1>h, <2>1, AppendedItem
    <3> HIDE DEF N
    <3>5. QED  BY <1>1, <2>1, <3>1, <3>2, <3>3, <3>4, AccountStep
  <2>2. CASE /\ ~Readable(Copies[k]) /\ failed' = Append(failed, <<i, k>>)
             /\ success' = success
    <3>1. {p \in Places : p \in N /\ ReportsAsFailed(p[1], p[2])} = {<<i, k>>}
      BY <1>h, <1>2, <2>2
    <3>2. {p \in Places : p \in N /\ ReportsAsRead(p[1], p[2])} = {}
      BY <1>2, <2>2
    <3>3. NoRepeats(success') /\ NoRepeats(failed')
      BY <1>t, <1>h, <1>3, <2>2, AppendedOnce DEF AccountInv
    <3>4. Entries(failed') = Entries(failed) \cup {<<i, k>>}
      BY <1>t, <1>h, <2>2, AppendedItem
    <3> HIDE DEF N
    <3>5. QED  BY <1>1, <2>2, <3>1, <3>2, <3>3, <3>4, AccountStep
  <2>3. QED  BY <2>1, <2>2 DEF TryVirtualCard
<1>5. ScanInv'
  <2>1. CASE NextItem
    BY <2>1, FreshScan
  <2>2. CASE k < Len(Copies) /\ NextCopy
    BY <1>t, <1>h, <2>2 DEF ScanInv, NextCopy, IsList
  <2>3. QED  BY <2>1, <2>2 DEF TryVirtualCard
<1>6. QED  BY <1>4, <1>5

\* The provisional cards: what the search for a key has found.
LEMMA SearchSteady ==
  ASSUME Steady, KeyExists PROVE AccountInv' /\ ScanInv'
<1> USE DEF Steady
<1>t. /\ kind \in {"provisionalCards", "provisionalCard"} /\ i \in Nat
      /\ k \in Nat \ {0} /\ found \in Nat /\ found < k
      /\ i' = i /\ k' = k + 1 /\ UNCHANGED <<success, failed>>
  BY DEF KeyExists, Provisional, Reading, TypeInv, TypeOK, ItemsInv, IsList
<1>h. /\ IsList(Copies) /\ Copies = items[i].copies
      /\ \A m : m \in DOMAIN Copies <=> m \in 1 .. Len(Copies)
  BY HereTyped
<1>s. /\ ~ScanOver /\ k \in DOMAIN Copies
      /\ found' = IF k \in HeldCopies(i) THEN k ELSE found
  <2>1. ~ScanOver /\ found' = IF Copies[k].key \in held THEN k ELSE found
    BY DEF KeyExists
  <2>2. k \in DOMAIN Copies
    BY <1>t, <1>h, <2>1 DEF ScanOver, IsList
  <2>3. QED  BY <1>h, <2>1, <2>2 DEF HeldCopies
<1>1. AccountInv'
  <2>1. \A p : Passed(p)' <=> Passed(p)
    BY <1>t DEF Passed
  <2>2. QED  BY <1>t, <2>1, AccountStep DEF AccountInv
<1>2. /\ UNCHANGED HeldCopies(i) /\ HeldCopies(i) \subseteq Nat
      /\ \A m \in HeldCopies(i) : m \in 1 .. k' - 1 <=> m \in 1 .. k - 1 \/ m = k
  <2>1. HeldCopies(i) \subseteq 1 .. Len(Copies)
    BY <1>h DEF HeldCopies
  <2>2. UNCHANGED HeldCopies(i)
    BY <1>t, SameReference
  <2>3. QED  BY <1>t, <1>h, <2>1, <2>2 DEF IsList
<1>3. kind = "provisionalCards" =>
        IF found' = 0 THEN HeldCopies(i) \cap (1 .. k' - 1) = {}
        ELSE IsFirst(found', HeldCopies(i))
  <2> SUFFICES ASSUME kind = "provisionalCards"
               PROVE  IF found' = 0 THEN HeldCopies(i) \cap (1 .. k' - 1) = {}
                      ELSE IsFirst(found', HeldCopies(i))
    OBVIOUS
  <2>1. found = 0 /\ HeldCopies(i) \cap (1 .. k - 1) = {}
    BY <1>s DEF ScanOver, ScanInv
  <2>2. CASE k \in HeldCopies(i)
    <3>1. \A m \in HeldCopies(i) : m >= k
      <4>1. \A m \in HeldCopies(i) : m \in Nat /\ m \notin 1 .. k - 1
        BY <1>2, <2>1
      <4>2. \A m \in HeldCopies(i) : m # 0
        BY <1>h DEF HeldCopies
      <4>3. QED  BY <1>t, <4>1, <4>2
    <3>2. QED  BY <1>t, <1>s, <2>2, <3>1 DEF IsFirst
  <2>3. CASE k \notin HeldCopies(i)
    BY <1>s, <1>2, <2>1, <2>3
  <2>4. QED  BY <2>2, <2>3
<1>4. kind = "provisionalCard" =>
        IF found' = 0 THEN HeldCopies(i) \cap (1 .. k' - 1) = {}
        ELSE IsLast(found', HeldCopies(i) \cap (1 .. k' - 1))
  <2> SUFFICES ASSUME kind = "provisionalCard"
               PROVE  IF found' = 0 THEN HeldCopies(i) \cap (1 .. k' - 1) = {}
                      ELSE IsLast(found', HeldCopies(i) \cap (1 .. k' - 1))
    OBVIOUS
  <2>1. IF found = 0 THEN HeldCopies(i) \cap (1 .. k - 1) = {}
        ELSE IsLast(found, HeldCopies(i) \cap (1 .. k - 1))
    BY DEF ScanInv
  <2>2. CASE k \in HeldCopies(i)
    <3>1. HeldCopies(i) \cap (1 .. k' - 1) = (HeldCopies(i) \cap (1 .. k - 1)) \cup {k}
      BY <1>2, <2>2
    <3>2. \A m \in 1 .. k - 1 : m <= k
      BY <1>t
    <3>3. found' = k /\ k # 0 /\ k <= k
      BY <1>t, <1>s, <2>2
    <3>4. QED  BY <3>1, <3>2, <3>3 DEF IsLast
  <2>3. CASE k \notin HeldCopies(i)
    <3>1. HeldCopies(i) \cap (1 .. k' - 1) = HeldCopies(i) \cap (1 .. k - 1)
      BY <1>2, <2>3
    <3>2. QED  BY <1>s, <2>1, <2>3, <3>1
  <2>4. QED  BY <2>2, <2>3
<1>5. ScanInv'
  <2>1. kind' = kind /\ i' = i /\ HeldCopies(i)' = HeldCopies(i)
    BY <1>t, <1>2
  <2>2. QED  BY <1>t, <1>3, <1>4, <2>1 DEF ScanInv
<1>6. QED  BY <1>1, <1>5

\* ... and that it has found the copy the reference chooses.
LEMMA UnsealSteady ==
  ASSUME Steady, UnsealFound PROVE AccountInv' /\ ScanInv'
<1> USE DEF Steady
<1>t. /\ kind \in {"provisionalCards", "provisionalCard"} /\ NextItem
      /\ k \in Nat \ {0} /\ found \in Nat /\ found < k
  BY DEF UnsealFound, Fail, Provisional, Reading, TypeInv, TypeOK
<1>h. /\ IsList(Copies) /\ Copies = items[i].copies
      /\ \A m : m \in DOMAIN Copies <=> m \in 1 .. Len(Copies)
  BY HereTyped
<1>1. /\ HeldCopies(i) \subseteq 1 .. Len(Copies) /\ 0 \notin HeldCopies(i)
      /\ HeldCopies(i) \subseteq Nat
  BY <1>h DEF HeldCopies, IsList
<1>2. IF found = 0 THEN HeldCopies(i) = {}
      ELSE /\ found \in HeldCopies(i)
           /\ kind = "provisionalCards" => IsFirst(found, HeldCopies(i))
           /\ kind = "provisionalCard" => IsLast(found, HeldCopies(i))
  <2>1. CASE kind = "provisionalCards" /\ found # 0
    BY <2>1 DEF ScanInv, IsFirst
  <2>2. CASE k > Len(Copies)
    <3>1. HeldCopies(i) \cap (1 .. k - 1) = HeldCopies(i)
      <4>1. 1 .. Len(Copies) \subseteq 1 .. k - 1
        BY <1>t, <1>h, <2>2 DEF IsList
      <4>2. QED  BY <1>1, <4>1
    <3>2. QED  BY <1>t, <3>1 DEF ScanInv, IsFirst, IsLast
  <2>3. QED  BY <2>1, <2>2 DEF UnsealFound, ScanOver
<1>3. \A m : Chosen(i, m) <=> m = found
  <2>1. \A m : IsFirst(m, HeldCopies(i)) => m \in HeldCopies(i)
    BY DEF IsFirst
  <2>2. \A m : IsLast(m, HeldCopies(i)) => m \in HeldCopies(i)
    BY DEF IsLast
  <2>3. ASSUME NEW m, NEW n, m \in HeldCopies(i), n \in HeldCopies(i),
               \/ IsFirst(m, HeldCopies(i)) /\ IsFirst(n, HeldCopies(i))
               \/ IsLast(m, HeldCopies(i)) /\ IsLast(n, HeldCopies(i))
        PROVE  m = n
    BY <1>1, <2>3 DEF IsFirst, IsLast
  <2>4. CASE found = 0
    BY <1>2, <2>1, <2>2, <2>4 DEF Chosen
  <2>5. CASE found # 0
    BY <1>t, <1>1, <1>2, <2>1, <2>2, <2>3, <2>5 DEF Chosen
  <2>6. QED  BY <2>4, <2>5
<1> DEFINE Good == IF found = 0 THEN Copies = <<>> ELSE Readable(Copies[found])
<1>4. \A m : ReportsAsRead(i, m) <=> m = found /\ Good
  <2>1. found # 0 => (found \in ReadableCopies(i) <=> Readable(Copies[found]))
    BY <1>h, <1>2 DEF ReadableCopies, HeldCopies
  <2>2. \A m : ReportsAsRead(i, m)
          <=> /\ Chosen(i, m)
              /\ IF m = 0 THEN items[i].copies = <<>> ELSE m \in ReadableCopies(i)
    BY <1>t DEF ReportsAsRead
  <2>3. QED  BY <1>h, <1>3, <2>1, <2>2
<1>5. \A m : ReportsAsFailed(i, m) <=> m = found /\ ~Good
  <2>1. \A m : ReportsAsFailed(i, m) <=> Chosen(i, m) /\ ~ReportsAsRead(i, m)
    BY <1>t DEF ReportsAsFailed
  <2>2. QED  BY <1>3, <1>4, <2>1
<1>6. found \in 0 .. Len(Copies)
  BY <1>t, <1>h, <1>1, <1>2 DEF IsList
<1>7. \/ success' = Append(success, <<i, found>>) /\ failed' = failed /\ Good
      \/ failed' = Append(failed, <<i, found>>) /\ success' = success /\ ~Good
  <2>1. CASE /\ IF found = 0 THEN Copies = <<>> ELSE Readable(Copies[found])
             /\ success' = Append(success, <<i, found>>)
             /\ NextItem /\ UNCHANGED <<failed, status>>
    BY <2>1
  <2>2. CASE /\ IF found = 0 THEN Copies # <<>> ELSE ~Readable(Copies[found])
             /\ Fail
    BY <2>2 DEF Fail
  <2>3. QED  BY <2>1, <2>2 DEF UnsealFound
<1>8. AccountInv'
  <2> HIDE DEF Good
  <2>1. kind # "virtualCards"
    BY <1>t
  <2>2. QED  BY <1>t, <1>4, <1>5, <1>6, <1>7, <2>1, AccountOne
<1>9. QED  BY <1>t, <1>8, FreshScan

LEMMA SteadyNext ==
  TypeInv /\ TypeInv' /\ ShapeInv /\ SteadyInv /\ [Next]_vars => SteadyInv'
<1> SUFFICES ASSUME TypeInv, TypeInv', ShapeInv, SteadyInv, [Next]_vars
             PROVE  SteadyInv'
  OBVIOUS
<1>p. ShapeInv' /\ StatusInv'
  BY NextShape, StatusNext DEF SteadyInv
<1> SUFFICES ASSUME changes' = 0 PROVE AccountInv' /\ ScanInv'
  BY <1>p DEF SteadyInv
<1>1. CASE changes = 0 /\ (TryTransaction \/ TryVirtualCard \/ KeyExists \/ UnsealFound)
  <2>1. Steady
    BY <1>1, <1>p DEF Steady, SteadyInv, TryTransaction, TryVirtualCard, KeyExists,
       UnsealFound, Provisional, Reading, request, keyVars
  <2>2. QED
    BY <1>1, <2>1, TransactionSteady, VirtualCardSteady, SearchSteady, UnsealSteady
<1>2. CASE changes = 0 /\ UNCHANGED <<kind, items, held, i, k, found, failedForId,
                                      success, failed>>
  <2>1. AccountInv' <=> AccountInv
    BY <1>2, SameReference DEF AccountInv, Passed
  <2>2. ScanInv => ScanInv'
    <3>1. /\ HeldCopies(i)' = HeldCopies(i)
          /\ \A m : Readable(items[i].copies[m])' <=> Readable(items[i].copies[m])
      BY <1>2, SameReference DEF Readable
    <3>2. QED  BY <1>2, <3>1 DEF ScanInv
  <2>3. QED  BY <1>2, <2>1, <2>2 DEF SteadyInv
<1>3. CASE \E keys \in SUBSET Keys : ChangeKeys(keys)
  <2>1. changes' = changes + 1 /\ changes \in Nat
    BY <1>3, ChangesAssumption DEF ChangeKeys, TypeInv, TypeOK
  <2>2. QED  BY <2>1
<1>4. QED
  BY <1>1, <1>2, <1>3
  DEF Next, vars, TryTransaction, TryVirtualCard, KeyExists, UnsealFound, Return,
      Done, request, keyVars

\* If the keys stay as they are, each operation reports exactly what the
\* reference says, for every page and list the service may return: every item
\* and copy that it names and none twice, and it throws or says "partial" exactly
\* when something failed.
THEOREM ResultAsReference == Spec => []StableResult
<1>1. Init => SteadyInv
  <2> SUFFICES ASSUME Init PROVE SteadyInv  OBVIOUS
  <2>1. /\ i = 1 /\ k = 1 /\ found = 0 /\ failedForId = <<>> /\ success = <<>>
        /\ failed = <<>> /\ status = "reading" /\ TypeInv /\ ShapeInv
    BY InitTypeInv, InitShape DEF Init
  <2>2. StatusInv
    BY <2>1 DEF StatusInv
  <2>3. AccountInv
    <3>1. \A p \in Places : ~Passed(p)
      <4>1. \A n \in DOMAIN items : n \in Nat /\ ~(n < 1)
        BY <2>1 DEF TypeInv, ItemsInv, IsList
      <4>2. \A p \in Places : p[1] \in DOMAIN items
        BY <2>1, PlaceIsPair
      <4>3. 1 .. k - 1 = {}
        BY <2>1
      <4>4. QED  BY <2>1, <4>1, <4>2, <4>3 DEF Passed
    <3>2. Entries(success) = {} /\ Entries(failed) = {}
      BY <2>1 DEF Entries
    <3>3. QED  BY <2>1, <3>1, <3>2 DEF AccountInv, NoRepeats
  <2>4. ScanInv
    <3>1. 1 .. k - 1 = {} /\ failedForId = [m \in 1 .. k - 1 |-> <<i, m>>]
      BY <2>1
    <3>2. i <= Len(items) /\ kind \in {"transactions", "virtualCards"}
            => k <= Len(items[i].copies)
      BY <2>1 DEF ShapeInv, TypeInv, ItemsInv, IsList
    <3>3. QED  BY <2>1, <3>1, <3>2 DEF ScanInv
  <2>5. QED  BY <2>2, <2>3, <2>4 DEF SteadyInv
<1>2. TypeInv /\ SteadyInv => StableResult
  <2> SUFFICES ASSUME TypeInv, SteadyInv, status # "reading", changes = 0
               PROVE  StableResult
    BY DEF StableResult
  <2>1. \A p \in Places : Passed(p)
    <3>1. i > Len(items)
      BY DEF SteadyInv, StatusInv
    <3>2. \A p \in Places : p[1] \in 1 .. Len(items)
      BY PlaceIsPair DEF TypeInv, ItemsInv, IsList
    <3>3. QED  BY <3>1, <3>2 DEF Passed, TypeInv, TypeOK, ItemsInv, IsList
  <2>2. /\ Entries(success) = {p \in Places : ReportsAsRead(p[1], p[2])}
        /\ Entries(failed) = {p \in Places : ReportsAsFailed(p[1], p[2])}
        /\ NoRepeats(success) /\ NoRepeats(failed)
    BY <2>1 DEF SteadyInv, AccountInv
  <2>3. status = IF failed = <<>> THEN "success"
                 ELSE IF kind = "provisionalCard" THEN "threw" ELSE "partial"
    BY DEF SteadyInv, StatusInv, TypeInv, TypeOK
  <2>4. QED  BY <2>2, <2>3 DEF StableResult, Places, NoRepeats
<1>3. QED
  BY <1>1, <1>2, InitTypeInv, NextTypeInv, InitShape, NextShape, SteadyNext, PTL
  DEF Spec

=============================================================================
