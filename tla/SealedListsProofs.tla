-------------------------- MODULE SealedListsProofs --------------------------
(* Theorems about SealedLists, for pages and lists of any length and any   *)
(* number of changes of the keys while they are read.                      *)
EXTENDS SealedLists, TLAPS, FiniteSetTheorems

\* The items are a sequence, and so are the copies of each.
IsList(s) == Len(s) \in Nat /\ DOMAIN s = 1 .. Len(s)
ItemsInv == IsList(items) /\ \A n \in DOMAIN items : IsList(items[n].copies)

\* The loop variables, by conjunct of TypeOK.
TypeInv == ItemsInv /\ TypeOK

-----------------------------------------------------------------------------
(* Sequences of results.                                                   *)

LEMMA InOrderIsList ==
  ASSUME NEW S, IsFiniteSet(S) PROVE IsList(InOrder(S))
<1>1. Cardinality(S) \in Nat
  BY FS_CardinalityType
<1>2. QED  BY <1>1 DEF InOrder, IsList

LEMMA AppendedItem ==
  ASSUME NEW S, NEW s \in Seq(S), NEW x, NEW y, <<x, y>> \in S
  PROVE  /\ Append(s, <<x, y>>) \in Seq(S)
         /\ DOMAIN Append(s, <<x, y>>) = DOMAIN s \cup {Len(s) + 1}
         /\ \A n \in DOMAIN s : Append(s, <<x, y>>)[n] = s[n]
         /\ Append(s, <<x, y>>)[Len(s) + 1] = <<x, y>>
         /\ Entries(Append(s, <<x, y>>)) = Entries(s) \cup {<<x, y>>}
         /\ ItemsIn(Append(s, <<x, y>>)) = ItemsIn(s) \cup {x}
<1> DEFINE t == Append(s, <<x, y>>)
<1>1. t \in Seq(S) /\ Len(t) = Len(s) + 1 /\ t[Len(s) + 1] = <<x, y>>
      /\ \A n \in 1 .. Len(s) : t[n] = s[n]
  OBVIOUS
<1>2. DOMAIN t = DOMAIN s \cup {Len(s) + 1} /\ DOMAIN s = 1 .. Len(s)
  BY <1>1
<1>3. Entries(t) = Entries(s) \cup {<<x, y>>}
  BY <1>1, <1>2 DEF Entries
<1>4. ItemsIn(t) = ItemsIn(s) \cup {x}
  BY <1>3, <<x, y>>[1] = x DEF ItemsIn
<1>5. QED  BY <1>1, <1>3, <1>4

LEMMA JoinedItems ==
  ASSUME NEW S, NEW s \in Seq(S), NEW t \in Seq(S)
  PROVE  /\ s \o t \in Seq(S)
         /\ Entries(s \o t) = Entries(s) \cup Entries(t)
         /\ ItemsIn(s \o t) = ItemsIn(s) \cup ItemsIn(t)
<1> DEFINE u == s \o t
<1>1. /\ u \in Seq(S) /\ Len(u) = Len(s) + Len(t)
      /\ \A n \in 1 .. Len(s) : u[n] = s[n]
      /\ \A n \in 1 .. Len(t) : u[Len(s) + n] = t[n]
  OBVIOUS
<1>2. DOMAIN s = 1 .. Len(s) /\ DOMAIN t = 1 .. Len(t) /\ DOMAIN u = 1 .. Len(u)
  BY <1>1
<1>3. ASSUME NEW n \in DOMAIN u PROVE u[n] \in Entries(s) \cup Entries(t)
  <2>1. CASE n <= Len(s)
    <3>1. n \in DOMAIN s /\ u[n] = s[n]
      BY <1>1, <1>2, <1>3, <2>1
    <3>2. QED  BY <3>1 DEF Entries
  <2>2. CASE n > Len(s)
    <3>1. n - Len(s) \in 1 .. Len(t) /\ Len(s) + (n - Len(s)) = n
      BY <1>1, <1>2, <1>3, <2>2
    <3>2. n - Len(s) \in DOMAIN t /\ u[n] = t[n - Len(s)]
      BY <1>1, <1>2, <3>1
    <3>3. QED  BY <3>2 DEF Entries
  <2>3. QED  BY <1>2, <1>3, <1>1, <2>1, <2>2
<1>4. Entries(u) \subseteq Entries(s) \cup Entries(t)
  BY <1>3 DEF Entries
<1>5. Entries(s) \subseteq Entries(u)
  BY <1>1, <1>2 DEF Entries
<1>6. Entries(t) \subseteq Entries(u)
  <2>1. \A n \in DOMAIN t : Len(s) + n \in DOMAIN u /\ u[Len(s) + n] = t[n]
    BY <1>1, <1>2
  <2>2. QED  BY <2>1 DEF Entries
<1>7. Entries(u) = Entries(s) \cup Entries(t)
  BY <1>4, <1>5, <1>6
<1>8. QED  BY <1>1, <1>7 DEF ItemsIn

-----------------------------------------------------------------------------
(* Types.                                                                  *)

LEMMA PlacesFinite ==
  ASSUME NEW T, NEW p \in Seq(T), NEW S \in SUBSET DOMAIN p
  PROVE  IsFiniteSet(S)
<1>1. DOMAIN p = 1 .. Len(p) /\ Len(p) \in Int /\ 1 \in Int
  OBVIOUS
<1>2. IsFiniteSet(1 .. Len(p))
  BY <1>1, FS_Interval
<1>3. QED  BY <1>1, <1>2, FS_Subset

LEMMA ItemOfIsList ==
  ASSUME NEW p \in Seq(Copy), NEW first
  PROVE  IsList(ItemOf(p, first).copies)
<1> DEFINE S == {m \in DOMAIN p : p[m].id = p[first].id}
<1>2. IsFiniteSet(S)
  BY PlacesFinite
<1>3. IsList(InOrder(S))
  BY <1>2, InOrderIsList
<1>4. ItemOf(p, first).copies = [m \in DOMAIN InOrder(S) |-> p[InOrder(S)[m]]]
  BY DEF ItemOf
<1>5. QED  BY <1>3, <1>4 DEF IsList

LEMMA InitItems == Init => ItemsInv
<1> SUFFICES ASSUME Init PROVE ItemsInv  OBVIOUS
<1>1. CASE page \in Pages /\ items = GroupById(page)
  <2> DEFINE S == {n \in DOMAIN page : \A m \in DOMAIN page :
                                         m < n => page[m].id # page[n].id}
  <2>1. page \in Seq(Copy)
    BY <1>1, PagesAssumption
  <2>2. IsFiniteSet(S)
    BY <2>1, PlacesFinite
  <2>3. IsList(InOrder(S))
    BY <2>2, InOrderIsList
  <2>4. items = [n \in DOMAIN InOrder(S) |-> ItemOf(page, InOrder(S)[n])]
    BY <1>1 DEF GroupById
  <2>5. QED  BY <2>1, <2>3, <2>4, ItemOfIsList DEF ItemsInv, IsList
<1>2. CASE page \in ItemLists /\ items = page
  <2>1. items \in Seq(Item)
    BY <1>2, ItemsAssumption
  <2>2. \A n \in DOMAIN items : items[n].copies \in Seq(Copy)
    <3>1. ASSUME NEW x \in Item PROVE x.copies \in Seq(Copy)
      BY DEF Item
    <3>2. \A n \in DOMAIN items : items[n] \in Item
      BY <2>1
    <3>3. QED  BY <3>1, <3>2
  <2>3. QED  BY <2>1, <2>2 DEF ItemsInv, IsList
<1>3. QED  BY <1>1, <1>2 DEF Init, Request

LEMMA InitTypeInv == Init => TypeInv
<1> SUFFICES ASSUME Init PROVE TypeInv  OBVIOUS
<1>1. ItemsInv
  BY InitItems
<1>2. kind \in Kinds
  BY DEF Init, Request, Kinds
<1>3. QED
  BY <1>1, <1>2, ChangesAssumption DEF Init, TypeInv, TypeOK, ItemsInv, IsList

\* The step of the loop to the next item, or to the next copy, keeps the loop
\* variables in range.
LEMMA NextItemTyped ==
  ASSUME TypeInv, i <= Len(items), NextItem, UNCHANGED items
  PROVE  /\ i' \in 1 .. Len(items') + 1 /\ k' \in Nat \ {0} /\ found' \in 0 .. k' - 1
         /\ failedForId' \in Seq({i'} \X (1 .. k' - 1))
BY DEF TypeInv, TypeOK, NextItem, ItemsInv, IsList

LEMMA NextCopyTyped ==
  ASSUME TypeInv, k' = k + 1, UNCHANGED <<i, items>>, found' \in {k, found}
  PROVE  /\ i' \in 1 .. Len(items') + 1 /\ k' \in Nat \ {0} /\ found' \in 0 .. k' - 1
         /\ UNCHANGED failedForId => failedForId' \in Seq({i'} \X (1 .. k' - 1))
         /\ failedForId' = Append(failedForId, <<i, k>>)
              => failedForId' \in Seq({i'} \X (1 .. k' - 1))
<1>1. i' \in 1 .. Len(items') + 1 /\ k' \in Nat \ {0} /\ found' \in 0 .. k' - 1
  BY DEF TypeInv, TypeOK
<1>2. failedForId \in Seq({i} \X (1 .. k' - 1)) /\ k \in 1 .. k' - 1
  <2>1. failedForId \in Seq({i} \X (1 .. k - 1)) /\ k \in Nat \ {0}
    BY DEF TypeInv, TypeOK
  <2>2. {i} \X (1 .. k - 1) \subseteq {i} \X (1 .. k' - 1)
    BY <2>1
  <2>3. QED  BY <2>1, <2>2
<1>t. <<i, k>> \in {i} \X (1 .. k' - 1)
  BY <1>2
<1>3. Append(failedForId, <<i, k>>) \in Seq({i} \X (1 .. k' - 1))
  BY <1>2, <1>t, AppendedItem
<1>4. QED  BY <1>1, <1>2, <1>3

\* What a step appends to the results is a position.
LEMMA ResultTyped ==
  ASSUME TypeInv, i <= Len(items), NEW m \in Nat, NEW s \in Seq(Positions)
  PROVE  Append(s, <<i, m>>) \in Seq(Positions)
<1>1. <<i, m>> \in Positions
  BY DEF TypeInv, TypeOK, ItemsInv, IsList, Positions
<1>2. QED  BY <1>1, AppendedItem

LEMMA FailuresTyped ==
  ASSUME TypeInv, i <= Len(items)
  PROVE  failed \o Append(failedForId, <<i, k>>) \in Seq(Positions)
<1>1. failedForId \in Seq(Positions)
  <2>1. {i} \X (1 .. k - 1) \subseteq Positions
    BY DEF TypeInv, TypeOK, Positions, ItemsInv, IsList
  <2>2. failedForId \in Seq({i} \X (1 .. k - 1))
    BY DEF TypeInv, TypeOK
  <2>3. QED  BY <2>1, <2>2
<1>2. Append(failedForId, <<i, k>>) \in Seq(Positions)
  BY <1>1, ResultTyped DEF TypeInv, TypeOK
<1>3. QED  BY <1>2, JoinedItems DEF TypeInv, TypeOK

LEMMA NextTypeInv == TypeInv /\ [Next]_vars => TypeInv'
<1> SUFFICES ASSUME TypeInv, [Next]_vars PROVE TypeInv'  OBVIOUS
<1>1. ItemsInv'
  BY DEF TypeInv, ItemsInv, Next, vars, TryTransaction, TryVirtualCard,
         KeyExists, UnsealFound, Return, Done, ChangeKeys, request
<1>2. CASE TryTransaction
  <2>1. i <= Len(items) /\ k \in Nat
    BY <1>2 DEF TryTransaction, Reading, TypeInv, TypeOK
  <2>2. UNCHANGED <<kind, items, status, held, ever, always, changes>>
    BY <1>2 DEF TryTransaction, request, keyVars
  <2>3. success' \in Seq(Positions') /\ failed' \in Seq(Positions')
    BY <1>2, <2>1, <2>2, ResultTyped, FailuresTyped
    DEF TryTransaction, TypeInv, TypeOK, Positions
  <2>4. /\ i' \in 1 .. Len(items') + 1 /\ k' \in Nat \ {0} /\ found' \in 0 .. k' - 1
        /\ failedForId' \in Seq({i'} \X (1 .. k' - 1))
    <3>1. CASE NextItem  BY <3>1, <2>1, <2>2, NextItemTyped
    <3>2. CASE NextCopy /\ failedForId' = Append(failedForId, <<i, k>>)
      BY <3>2, <2>2, NextCopyTyped DEF NextCopy
    <3>3. QED  BY <1>2, <3>1, <3>2 DEF TryTransaction
  <2>5. QED  BY <1>1, <2>2, <2>3, <2>4 DEF TypeInv, TypeOK
<1>3. CASE TryVirtualCard
  <2>1. i <= Len(items) /\ k \in Nat
    BY <1>3 DEF TryVirtualCard, Reading, TypeInv, TypeOK
  <2>2. UNCHANGED <<kind, items, status, held, ever, always, changes>>
    BY <1>3 DEF TryVirtualCard, request, keyVars
  <2>3. success' \in Seq(Positions') /\ failed' \in Seq(Positions')
    BY <1>3, <2>1, <2>2, ResultTyped DEF TryVirtualCard, TypeInv, TypeOK, Positions
  <2>4. /\ i' \in 1 .. Len(items') + 1 /\ k' \in Nat \ {0} /\ found' \in 0 .. k' - 1
        /\ failedForId' \in Seq({i'} \X (1 .. k' - 1))
    <3>1. CASE NextItem  BY <3>1, <2>1, <2>2, NextItemTyped
    <3>2. CASE NextCopy /\ UNCHANGED failedForId
      BY <3>2, <2>2, NextCopyTyped DEF NextCopy
    <3>3. QED  BY <1>3, <3>1, <3>2 DEF TryVirtualCard
  <2>5. QED  BY <1>1, <2>2, <2>3, <2>4 DEF TypeInv, TypeOK
<1>4. CASE KeyExists
  <2>1. UNCHANGED <<kind, items, failedForId, success, failed, status, held,
                    ever, always, changes>>
    BY <1>4 DEF KeyExists, request, keyVars
  <2>2. /\ i' \in 1 .. Len(items') + 1 /\ k' \in Nat \ {0} /\ found' \in 0 .. k' - 1
        /\ failedForId' \in Seq({i'} \X (1 .. k' - 1))
    BY <1>4, NextCopyTyped DEF KeyExists, request
  <2>3. QED  BY <1>1, <2>1, <2>2 DEF TypeInv, TypeOK, Positions
<1>5. CASE UnsealFound
  <2>1. i <= Len(items) /\ found \in Nat
    BY <1>5 DEF UnsealFound, Provisional, Reading, TypeInv, TypeOK
  <2>2. UNCHANGED <<kind, items, held, ever, always, changes>> /\ NextItem
        /\ status' \in {status, "threw"}
    BY <1>5 DEF UnsealFound, Fail, request, keyVars
  <2>3. success' \in Seq(Positions') /\ failed' \in Seq(Positions')
    BY <1>5, <2>1, <2>2, ResultTyped
    DEF UnsealFound, Fail, TypeInv, TypeOK, Positions
  <2>4. /\ i' \in 1 .. Len(items') + 1 /\ k' \in Nat \ {0} /\ found' \in 0 .. k' - 1
        /\ failedForId' \in Seq({i'} \X (1 .. k' - 1))
    BY <2>1, <2>2, NextItemTyped
  <2>5. QED  BY <1>1, <2>2, <2>3, <2>4 DEF TypeInv, TypeOK
<1>6. CASE Return
  BY <1>1, <1>6 DEF Return, TypeInv, TypeOK, Positions, request, keyVars
<1>7. CASE \E keys \in SUBSET Keys : ChangeKeys(keys)
  BY <1>1, <1>7, ChangesAssumption
  DEF ChangeKeys, TypeInv, TypeOK, Positions, request
<1>8. CASE UNCHANGED vars
  BY <1>1, <1>8 DEF TypeInv, TypeOK, Positions, vars
<1>9. QED
  BY <1>2, <1>3, <1>4, <1>5, <1>6, <1>7, <1>8 DEF Next, Done

\* The loop variables keep their types: a copy chosen is one looked at, and
\* the failures kept for an item are of copies of that item, behind the loop.
THEOREM TypeCorrect == Spec => []TypeOK
<1>1. TypeInv => TypeOK
  BY DEF TypeInv
<1>2. QED  BY <1>1, InitTypeInv, NextTypeInv, PTL DEF Spec

-----------------------------------------------------------------------------
(* Every item is reported once.                                            *)

\* Turns that leave item i with one outcome: read as one entry, or failed.
LEMMA OnceStep ==
  ASSUME TypeInv, EachReportedOnce, i <= Len(items),
         UNCHANGED <<kind, items>>, i' = i + 1, NEW m \in Nat,
         \/ success' = Append(success, <<i, m>>) /\ failed' = failed
         \/ success' = success /\ ItemsIn(failed') = ItemsIn(failed) \cup {i}
  PROVE  EachReportedOnce'
<1>1. i \in 1 .. Len(items) /\ i \in Nat /\ 1 .. i' - 1 = (1 .. i - 1) \cup {i}
      /\ i \notin 1 .. i - 1
  BY DEF TypeInv, TypeOK, ItemsInv, IsList
<1>2. CASE success' = Append(success, <<i, m>>) /\ failed' = failed
  <2>1. success \in Seq(Positions) /\ <<i, m>> \in Positions
    BY <1>1 DEF TypeInv, TypeOK, Positions
  <2>2. /\ ItemsIn(success') = ItemsIn(success) \cup {i}
        /\ DOMAIN success' = DOMAIN success \cup {Len(success) + 1}
        /\ success'[Len(success) + 1] = <<i, m>>
        /\ \A n \in DOMAIN success : success'[n] = success[n]
    BY <1>1, <1>2, <2>1, AppendedItem
  <2>3. \A n \in DOMAIN success : success[n][1] \in ItemsIn(success)
    BY DEF ItemsIn, Entries
  <2>4. kind # "virtualCards" =>
          \A m1, m2 \in DOMAIN success' :
            success'[m1][1] = success'[m2][1] => m1 = m2
    <3>1. kind # "virtualCards" => i \notin ItemsIn(success)
      BY <1>1 DEF EachReportedOnce
    <3>2. success'[Len(success) + 1][1] = i
      BY <2>2
    <3>3. QED  BY <2>2, <2>3, <3>1, <3>2 DEF EachReportedOnce
  <2>5. QED  BY <1>1, <1>2, <2>2, <2>4 DEF EachReportedOnce
<1>3. CASE success' = success /\ ItemsIn(failed') = ItemsIn(failed) \cup {i}
  BY <1>1, <1>3 DEF EachReportedOnce
<1>4. QED  BY <1>2, <1>3

\* The items of the failures that unsealTransactions reports together.
LEMMA FailedTogether ==
  ASSUME TypeInv, i <= Len(items)
  PROVE  /\ ItemsIn(failed \o Append(failedForId, <<i, k>>)) = ItemsIn(failed) \cup {i}
         /\ Entries(failed \o Append(failedForId, <<i, k>>))
              = Entries(failed) \cup Entries(failedForId) \cup {<<i, k>>}
<1> DEFINE T == {i} \X Nat
<1>1. failedForId \in Seq(T) /\ k \in Nat /\ i \in 1 .. Len(items)
  <2>1. {i} \X (1 .. k - 1) \subseteq T
    BY DEF TypeInv, TypeOK
  <2>2. failedForId \in Seq({i} \X (1 .. k - 1))
    BY DEF TypeInv, TypeOK
  <2>3. QED  BY <2>1, <2>2 DEF TypeInv, TypeOK, ItemsInv, IsList
<1>2. /\ Append(failedForId, <<i, k>>) \in Seq(T)
      /\ ItemsIn(Append(failedForId, <<i, k>>)) = ItemsIn(failedForId) \cup {i}
      /\ Entries(Append(failedForId, <<i, k>>)) = Entries(failedForId) \cup {<<i, k>>}
  <2>1. <<i, k>> \in T
    BY <1>1
  <2>2. QED  BY <1>1, <2>1, AppendedItem
<1>3. ItemsIn(failedForId) \subseteq {i}
  BY <1>1 DEF ItemsIn, Entries
<1>4. T \subseteq Positions
  BY <1>1 DEF Positions
<1>5. Append(failedForId, <<i, k>>) \in Seq(Positions) /\ failed \in Seq(Positions)
  BY <1>2, <1>4 DEF TypeInv, TypeOK
<1> DEFINE t == Append(failedForId, <<i, k>>)
<1>6. /\ ItemsIn(failed \o t) = ItemsIn(failed) \cup ItemsIn(t)
      /\ Entries(failed \o t) = Entries(failed) \cup Entries(t)
  <2> HIDE DEF t
  <2>1. t \in Seq(Positions) /\ failed \in Seq(Positions)
    BY <1>5 DEF t
  <2>2. QED  BY <2>1, JoinedItems
<1>7. QED  BY <1>2, <1>3, <1>6

\* What one entry appended to the results adds to them.
LEMMA OneMore ==
  ASSUME TypeInv, i <= Len(items), NEW m \in Nat, NEW s \in Seq(Positions)
  PROVE  /\ ItemsIn(Append(s, <<i, m>>)) = ItemsIn(s) \cup {i}
         /\ Entries(Append(s, <<i, m>>)) = Entries(s) \cup {<<i, m>>}
<1>1. <<i, m>> \in Positions
  BY DEF TypeInv, TypeOK, ItemsInv, IsList, Positions
<1>2. QED  BY <1>1, AppendedItem

LEMMA OnceNext == TypeInv /\ EachReportedOnce /\ [Next]_vars => EachReportedOnce'
<1> SUFFICES ASSUME TypeInv, EachReportedOnce, [Next]_vars PROVE EachReportedOnce'
  OBVIOUS
<1>t. /\ i \in Nat /\ k \in Nat /\ found \in Nat
      /\ success \in Seq(Positions) /\ failed \in Seq(Positions)
  BY DEF TypeInv, TypeOK, ItemsInv, IsList
<1>1. CASE TryTransaction
  <2>1. i <= Len(items) /\ UNCHANGED <<kind, items>>
    BY <1>1 DEF TryTransaction, Reading, request
  <2>2. CASE success' = Append(success, <<i, k>>) /\ NextItem /\ failed' = failed
    BY <1>t, <2>1, <2>2, OnceStep DEF NextItem
  <2>3. CASE /\ failed' = failed \o Append(failedForId, <<i, k>>)
             /\ NextItem /\ success' = success
    <3>1. ItemsIn(failed') = ItemsIn(failed) \cup {i}
      BY <2>1, <2>3, FailedTogether
    <3>2. QED  BY <1>t, <2>1, <2>3, <3>1, OnceStep DEF NextItem
  <2>4. CASE NextCopy /\ UNCHANGED <<success, failed>>
    BY <2>1, <2>4 DEF NextCopy, EachReportedOnce
  <2>5. QED  BY <1>1, <2>2, <2>3, <2>4 DEF TryTransaction
<1>2. CASE TryVirtualCard
  <2>1. i <= Len(items) /\ kind = "virtualCards" /\ kind' = kind
    BY <1>2 DEF TryVirtualCard, Reading, request
  <2>2. ItemsIn(success') \cup ItemsIn(failed')
          = ItemsIn(success) \cup ItemsIn(failed) \cup {i}
    <3>1. CASE success' = Append(success, <<i, k>>) /\ failed' = failed
      BY <1>t, <2>1, <3>1, OneMore
    <3>2. CASE failed' = Append(failed, <<i, k>>) /\ success' = success
      BY <1>t, <2>1, <3>2, OneMore
    <3>3. QED  BY <1>2, <3>1, <3>2 DEF TryVirtualCard
  <2>3. i' = i \/ i' = i + 1
    BY <1>2 DEF TryVirtualCard, NextItem, NextCopy
  <2>4. 1 .. i' - 1 \subseteq (1 .. i - 1) \cup {i}
    BY <1>t, <2>3
  <2>5. QED  BY <2>1, <2>2, <2>4 DEF EachReportedOnce
<1>3. CASE UnsealFound
  <2>1. i <= Len(items) /\ i' = i + 1 /\ UNCHANGED <<kind, items>>
    BY <1>3 DEF UnsealFound, Provisional, Reading, request, NextItem, Fail
  <2>2. CASE success' = Append(success, <<i, found>>) /\ failed' = failed
    BY <1>t, <2>1, <2>2, OnceStep
  <2>3. CASE failed' = Append(failed, <<i, found>>) /\ success' = success
    <3>1. ItemsIn(failed') = ItemsIn(failed) \cup {i}
      BY <1>t, <2>1, <2>3, OneMore
    <3>2. QED  BY <1>t, <2>1, <2>3, <3>1, OnceStep
  <2>4. QED  BY <1>3, <2>2, <2>3 DEF UnsealFound, Fail
<1>4. CASE UNCHANGED <<kind, i, success, failed>>
  BY <1>4 DEF EachReportedOnce
<1>5. QED
  BY <1>1, <1>2, <1>3, <1>4
  DEF Next, vars, KeyExists, Return, Done, ChangeKeys, request

\* A transaction, and a provisional card, is reported once, as read or as
\* failed, however many copies the service sent.
THEOREM ReportedOnce == Spec => []EachReportedOnce
<1>1. Init => EachReportedOnce
  <2> SUFFICES ASSUME Init PROVE EachReportedOnce  OBVIOUS
  <2>1. ItemsIn(success) = {} /\ ItemsIn(failed) = {} /\ DOMAIN success = {}
    BY DEF Init, ItemsIn, Entries
  <2>2. 1 .. i - 1 = {}
    BY DEF Init
  <2>3. QED  BY <2>1, <2>2 DEF EachReportedOnce
<1>2. QED  BY <1>1, InitTypeInv, NextTypeInv, OnceNext, PTL DEF Spec

-----------------------------------------------------------------------------
(* Outcomes are justified by the keys there were.                          *)

\* The failures kept back for a transaction are justified like those reported,
\* and a provisional card for which no copy was chosen yet had no key for the
\* copies looked at.
PendingInv ==
  /\ \A p \in Entries(failedForId) : FailedRightly(p)
  /\ found = 0 /\ kind \in {"provisionalCards", "provisionalCard"} /\ i <= Len(items)
       => \A m \in 1 .. k - 1 : items[i].copies[m].key \notin always

JustifiedInv == OutcomeJustified /\ PendingInv

\* Keys seen are never forgotten, and a key missed once is missed for good:
\* a judgement stands.
LEMMA JudgementStands ==
  ASSUME TypeInv, [Next]_vars
  PROVE  /\ UNCHANGED items /\ always' \subseteq always /\ ever \subseteq ever'
         /\ \A p : ReadRightly(p) => ReadRightly(p)'
         /\ \A p : FailedRightly(p) => FailedRightly(p)'
<1>1. UNCHANGED items /\ always' \subseteq always /\ ever \subseteq ever'
  BY DEF Next, vars, TryTransaction, TryVirtualCard, KeyExists, UnsealFound,
         Return, Done, ChangeKeys, request, keyVars
<1>2. QED
  BY <1>1 DEF ReadRightly, FailedRightly, ReadableThroughout, CopyAt

\* A copy is judged by what is on the device now.
LEMMA JudgedNow ==
  ASSUME TypeInv, NEW m \in Nat \ {0}
  PROVE  /\ Readable(Copies[m]) => ReadRightly(<<i, m>>)
         /\ ~Readable(Copies[m]) => FailedRightly(<<i, m>>)
<1>1. always \subseteq held /\ held \subseteq ever
  BY DEF TypeInv, TypeOK
<1>2. <<i, m>>[1] = i /\ <<i, m>>[2] = m /\ m # 0
  OBVIOUS
<1>3. QED
  BY <1>1, <1>2
  DEF Readable, ReadRightly, FailedRightly, ReadableThroughout, CopyAt, Copies

\* A step that adds to the results only what is justified.
LEMMA JustifiedStep ==
  ASSUME TypeInv, OutcomeJustified, [Next]_vars,
         \A p \in Entries(success') : p \in Entries(success) \/ ReadRightly(p),
         \A p \in Entries(failed') : p \in Entries(failed) \/ FailedRightly(p)
  PROVE  OutcomeJustified'
BY JudgementStands DEF OutcomeJustified

LEMMA EmptyPending ==
  ASSUME failedForId' = <<>>, k' = 1 PROVE PendingInv'
<1>1. Entries(failedForId') = {} /\ 1 .. k' - 1 = {}
  BY DEF Entries
<1>2. QED  BY <1>1 DEF PendingInv

LEMMA JustifiedNext == TypeInv /\ JustifiedInv /\ [Next]_vars => JustifiedInv'
<1> SUFFICES ASSUME TypeInv, JustifiedInv, [Next]_vars PROVE JustifiedInv'
  OBVIOUS
<1>t. /\ i \in Nat /\ k \in Nat \ {0} /\ found \in Nat
      /\ success \in Seq(Positions) /\ failed \in Seq(Positions)
      /\ failedForId \in Seq({i} \X (1 .. k - 1))
      /\ always \subseteq held
  BY DEF TypeInv, TypeOK, ItemsInv, IsList
<1>s. UNCHANGED items /\ always' \subseteq always
      /\ \A p : FailedRightly(p) => FailedRightly(p)'
  BY JudgementStands
<1>1. CASE TryTransaction
  <2>1. i <= Len(items) /\ kind = "transactions" /\ kind' = kind
    BY <1>1 DEF TryTransaction, Reading, request
  <2>2. CASE /\ Readable(Copies[k]) /\ success' = Append(success, <<i, k>>)
             /\ NextItem /\ failed' = failed
    <3>1. Entries(success') = Entries(success) \cup {<<i, k>>}
      BY <1>t, <2>1, <2>2, OneMore
    <3>2. QED
      BY <1>t, <2>2, <3>1, JudgedNow, JustifiedStep, EmptyPending
      DEF JustifiedInv, NextItem
  <2>3. CASE /\ ~Readable(Copies[k]) /\ NextItem /\ success' = success
             /\ failed' = failed \o Append(failedForId, <<i, k>>)
    <3>1. Entries(failed')
            = Entries(failed) \cup Entries(failedForId) \cup {<<i, k>>}
      BY <2>1, <2>3, FailedTogether
    <3>2. \A p \in Entries(failed') : p \in Entries(failed) \/ FailedRightly(p)
      BY <1>t, <2>3, <3>1, JudgedNow DEF JustifiedInv, PendingInv
    <3>3. QED
      BY <2>3, <3>2, JustifiedStep, EmptyPending DEF JustifiedInv, NextItem
  <2>4. CASE /\ ~Readable(Copies[k]) /\ NextCopy /\ UNCHANGED <<success, failed>>
             /\ failedForId' = Append(failedForId, <<i, k>>)
    <3>1. OutcomeJustified'
      BY <2>4, JustifiedStep DEF JustifiedInv
    <3>2. Entries(failedForId') = Entries(failedForId) \cup {<<i, k>>}
      <4>1. failedForId \in Seq({i} \X Nat) /\ <<i, k>> \in {i} \X Nat
        <5>1. {i} \X (1 .. k - 1) \subseteq {i} \X Nat
          OBVIOUS
        <5>2. QED  BY <1>t, <5>1
      <4>2. QED  BY <2>4, <4>1, AppendedItem
    <3>3. \A p \in Entries(failedForId') : FailedRightly(p)
      BY <1>t, <2>4, <3>2, JudgedNow DEF JustifiedInv, PendingInv
    <3>4. PendingInv'
      BY <1>s, <2>1, <3>3 DEF PendingInv
    <3>5. QED  BY <3>1, <3>4 DEF JustifiedInv
  <2>5. QED  BY <1>1, <2>2, <2>3, <2>4 DEF TryTransaction
<1>2. CASE TryVirtualCard
  <2>1. i <= Len(items) /\ kind = "virtualCards" /\ kind' = kind
    BY <1>2 DEF TryVirtualCard, Reading, request
  <2>2. OutcomeJustified'
    <3>1. CASE /\ Readable(Copies[k]) /\ success' = Append(success, <<i, k>>)
               /\ failed' = failed
      BY <1>t, <2>1, <3>1, OneMore, JudgedNow, JustifiedStep DEF JustifiedInv
    <3>2. CASE /\ ~Readable(Copies[k]) /\ failed' = Append(failed, <<i, k>>)
               /\ success' = success
      BY <1>t, <2>1, <3>2, OneMore, JudgedNow, JustifiedStep DEF JustifiedInv
    <3>3. QED  BY <1>2, <3>1, <3>2 DEF TryVirtualCard
  <2>3. PendingInv'
    <3>1. CASE NextItem  BY <3>1, EmptyPending DEF NextItem
    <3>2. CASE UNCHANGED failedForId
      BY <1>s, <2>1, <3>2 DEF JustifiedInv, PendingInv
    <3>3. QED  BY <1>2, <3>1, <3>2 DEF TryVirtualCard
  <2>4. QED  BY <2>2, <2>3 DEF JustifiedInv
<1>3. CASE KeyExists
  <2>1. UNCHANGED <<kind, i, failedForId, success, failed>> /\ k' = k + 1
        /\ found' = IF Copies[k].key \in held THEN k ELSE found
    BY <1>3 DEF KeyExists, request
  <2>2. OutcomeJustified'
    BY <2>1, JustifiedStep DEF JustifiedInv
  <2>3. found' = 0 => found = 0 /\ items[i].copies[k].key \notin always
    BY <1>t, <2>1 DEF Copies
  <2>4. 1 .. k' - 1 = (1 .. k - 1) \cup {k}
    BY <1>t, <2>1
  <2>5. PendingInv'
    BY <1>s, <2>1, <2>3, <2>4 DEF JustifiedInv, PendingInv
  <2>6. QED  BY <2>2, <2>5 DEF JustifiedInv
<1>4. CASE UnsealFound
  <2>1. i <= Len(items) /\ NextItem
        /\ kind \in {"provisionalCards", "provisionalCard"}
    BY <1>4 DEF UnsealFound, Provisional, Reading, Fail
  <2>2. found = 0 /\ Copies = <<>> => ReadRightly(<<i, found>>)
    BY DEF ReadRightly, Copies
  <2>3. found = 0 => FailedRightly(<<i, found>>)
    <3>1. found = 0 => k > Len(Copies)
      BY <1>4 DEF UnsealFound, ScanOver
    <3>2. IsList(Copies)
      BY <1>t, <2>1 DEF TypeInv, TypeOK, ItemsInv, IsList, Copies
    <3>3. found = 0 => DOMAIN Copies \subseteq 1 .. k - 1
      BY <1>t, <3>1, <3>2 DEF IsList
    <3>4. QED  BY <2>1, <3>3 DEF JustifiedInv, PendingInv, FailedRightly, Copies
  <2>4. found # 0 => /\ Readable(Copies[found]) => ReadRightly(<<i, found>>)
                     /\ ~Readable(Copies[found]) => FailedRightly(<<i, found>>)
    BY <1>t, JudgedNow
  <2>5. OutcomeJustified'
    <3>1. CASE /\ success' = Append(success, <<i, found>>) /\ failed' = failed
               /\ IF found = 0 THEN Copies = <<>> ELSE Readable(Copies[found])
      <4>1. Entries(success') = Entries(success) \cup {<<i, found>>}
        BY <1>t, <2>1, <3>1, OneMore
      <4>2. ReadRightly(<<i, found>>)
        BY <2>2, <2>4, <3>1
      <4>3. QED  BY <3>1, <4>1, <4>2, JustifiedStep DEF JustifiedInv
    <3>2. CASE /\ failed' = Append(failed, <<i, found>>) /\ success' = success
               /\ IF found = 0 THEN Copies # <<>> ELSE ~Readable(Copies[found])
      <4>1. Entries(failed') = Entries(failed) \cup {<<i, found>>}
        BY <1>t, <2>1, <3>2, OneMore
      <4>2. FailedRightly(<<i, found>>)
        BY <2>3, <2>4, <3>2
      <4>3. QED  BY <3>2, <4>1, <4>2, JustifiedStep DEF JustifiedInv
    <3>3. QED  BY <1>4, <3>1, <3>2 DEF UnsealFound, Fail
  <2>6. QED  BY <2>1, <2>5, EmptyPending DEF JustifiedInv, NextItem
<1>5. CASE UNCHANGED <<kind, i, k, found, failedForId, success, failed>>
  <2>1. OutcomeJustified'
    BY <1>5, JustifiedStep DEF JustifiedInv
  <2>2. PendingInv'
    BY <1>5, <1>s DEF JustifiedInv, PendingInv
  <2>3. QED  BY <2>1, <2>2 DEF JustifiedInv
<1>6. QED
  BY <1>1, <1>2, <1>3, <1>4, <1>5
  DEF Next, vars, Return, Done, ChangeKeys, request

\* Whatever happens to the keys meanwhile, what is reported as read could be
\* read, and what is reported as failed was out of reach at some moment.
THEOREM JustifiedAlways == Spec => []OutcomeJustified
<1>1. Init => JustifiedInv
  <2> SUFFICES ASSUME Init PROVE JustifiedInv  OBVIOUS
  <2>1. /\ Entries(success) = {} /\ Entries(failed) = {}
        /\ Entries(failedForId) = {} /\ 1 .. k - 1 = {}
    BY DEF Init, Entries
  <2>2. QED  BY <2>1 DEF JustifiedInv, OutcomeJustified, PendingInv
<1>2. JustifiedInv => OutcomeJustified
  BY DEF JustifiedInv
<1>3. QED
  BY <1>1, <1>2, InitTypeInv, NextTypeInv, JustifiedNext, PTL DEF Spec

-----------------------------------------------------------------------------
(* What can be read is reported.                                           *)

\* The copies behind the loop: if one of an item's copies could be read all
\* the time, the item is among the results.
ReadInv ==
  kind \in {"transactions", "virtualCards"} =>
    \A n \in 1 .. Len(items) : \A m \in DOMAIN items[n].copies :
      /\ n < i \/ (n = i /\ m < k)
      /\ ReadableThroughout(items[n].copies[m])
      => n \in ItemsIn(success)

LEMMA ReadNext == TypeInv /\ ReadInv /\ [Next]_vars => ReadInv'
<1> SUFFICES ASSUME TypeInv, ReadInv, [Next]_vars,
                    kind' \in {"transactions", "virtualCards"},
                    NEW n \in 1 .. Len(items'), NEW m \in DOMAIN items'[n].copies,
                    n < i' \/ (n = i' /\ m < k'),
                    ReadableThroughout(items[n].copies[m])'
             PROVE  n \in ItemsIn(success')
  BY DEF ReadInv
<1>v. UNCHANGED items /\ always' \subseteq always
  BY JudgementStands
<1>t. /\ i \in Nat /\ k \in Nat \ {0} /\ n \in Nat /\ m \in Nat
      /\ success \in Seq(Positions) /\ always \subseteq held
      /\ n \in 1 .. Len(items)
      /\ m \in 1 .. Len(items[n].copies) /\ Len(items[n].copies) \in Nat
  BY <1>v DEF TypeInv, TypeOK, ItemsInv, IsList
<1>s. ReadableThroughout(items[n].copies[m])
  BY <1>v DEF ReadableThroughout
<1>u. kind' = kind
  BY DEF Next, vars, TryTransaction, TryVirtualCard, KeyExists, UnsealFound,
         Return, Done, ChangeKeys, request
<1>b. n < i \/ (n = i /\ m < k) => n \in ItemsIn(success)
  BY <1>t, <1>s, <1>u DEF ReadInv
<1>1. ASSUME Reading({"transactions", "virtualCards"}),
             \/ success' = Append(success, <<i, k>>)
             \/ success' = success /\ ~Readable(Copies[k]),
             \/ NextItem /\ (k >= Len(Copies) \/ success' # success)
             \/ NextCopy
      PROVE  n \in ItemsIn(success')
  <2>1. i <= Len(items)
    BY <1>1 DEF Reading
  <2>2. success' # success \/ success' = Append(success, <<i, k>>)
          => ItemsIn(success') = ItemsIn(success) \cup {i}
    BY <1>1, <1>t, <2>1, OneMore
  <2>3. ItemsIn(success) \subseteq ItemsIn(success')
    BY <1>1, <2>2
  <2>4. CASE n < i \/ (n = i /\ m < k)  BY <1>b, <2>3, <2>4
  <2>5. CASE n = i /\ m = k
    <3>1. Readable(Copies[k])
      BY <1>s, <1>t, <2>5 DEF ReadableThroughout, Readable, Copies
    <3>2. QED  BY <1>1, <2>2, <2>5, <3>1
  <2>6. CASE n = i /\ m > k
    <3>1. NextItem /\ success' # success
      BY <1>1, <1>t, <2>6 DEF NextCopy, Copies
    <3>2. QED  BY <2>2, <2>6, <3>1
  <2>7. QED  BY <1>1, <1>t, <2>4, <2>5, <2>6 DEF NextItem, NextCopy
<1>2. CASE TryTransaction
  <2>1. success' = Append(success, <<i, k>>) => success' # success
    BY <1>t
  <2>2. QED  BY <1>1, <1>2, <2>1 DEF TryTransaction, Reading
<1>3. CASE TryVirtualCard
  <2>1. IsList(Copies)
    BY <1>3, <1>t DEF TryVirtualCard, Reading, TypeInv, TypeOK, ItemsInv, IsList, Copies
  <2>2. k < Len(Copies) \/ k >= Len(Copies)
    BY <1>t, <2>1 DEF IsList
  <2>3. QED  BY <1>1, <1>3, <2>2 DEF TryVirtualCard, Reading
<1>4. CASE UNCHANGED <<i, k, success>>
  BY <1>4, <1>b
<1>5. CASE KeyExists \/ UnsealFound
  BY <1>5, <1>u DEF KeyExists, UnsealFound, Provisional, Reading
<1>6. QED
  BY <1>2, <1>3, <1>4, <1>5 DEF Next, vars, Return, Done, ChangeKeys

\* A transaction or card with one copy within reach all the time is reported
\* as read, whatever happened to its other copies and to other keys.
THEOREM ReadableAlwaysReported == Spec => []ReadableIsReported
<1>1. Init => ReadInv
  <2> SUFFICES ASSUME Init PROVE ReadInv  OBVIOUS
  <2>1. i = 1 /\ k = 1 /\ ItemsInv
    BY InitItems DEF Init
  <2>2. QED  BY <2>1 DEF ReadInv, ItemsInv, IsList
<1>2. TypeInv /\ ReadInv => ReadableIsReported
  <2> SUFFICES ASSUME TypeInv, ReadInv, kind \in {"transactions", "virtualCards"},
                      NEW n \in 1 .. i - 1, NEW m \in DOMAIN items[n].copies,
                      ReadableThroughout(items[n].copies[m])
               PROVE  n \in ItemsIn(success)
    BY DEF ReadableIsReported
  <2>1. n \in 1 .. Len(items) /\ n < i
    BY DEF TypeInv, TypeOK, ItemsInv, IsList
  <2>2. QED  BY <2>1 DEF ReadInv
<1>3. QED
  BY <1>1, <1>2, InitTypeInv, NextTypeInv, ReadNext, PTL DEF Spec

=============================================================================
