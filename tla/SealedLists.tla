----------------------------- MODULE SealedLists -----------------------------
(***************************************************************************)
(* Reading what the service keeps sealed: listTransactions (and its two    *)
(* variants by card), listVirtualCards, listProvisionalCards and           *)
(* getProvisionalCard, from the page the service returned to the result.   *)
(*                                                                         *)
(* The service holds one copy of an item for every key of its owner; the   *)
(* device can unseal a copy if it holds the private key.  Each operation   *)
(* loops over the copies and awaits the key manager in every turn.  It has *)
(* the client's mutex meanwhile, but reset and importKeys do not wait for  *)
(* that: they may change the keys on the device between two turns, and     *)
(* each turn is an action.                                                 *)
(*                                                                         *)
(* Unsealing one copy is one action although it awaits once per field: it  *)
(* fails at the first field that cannot be unsealed, and so gives what it  *)
(* would give if all were read at that moment.                             *)
(***************************************************************************)
EXTENDS Naturals, Sequences, FiniteSets

CONSTANTS
  Ids,        \* transactions and cards
  Keys,       \* key pairs of the owner
  Pages,      \* pages of sealed copies the service may return
  ItemLists,  \* lists of provisional cards, each with its copies
  MaxChanges  \* bound on resets and imports while one operation runs

Kinds == {"transactions", "virtualCards", "provisionalCards", "provisionalCard"}

\* What else unsealing a copy needs (an algorithm that is known, fields that
\* decode, the keys of its metadata and last transaction) is `sound`.
Copy == [id : Ids, key : Keys, sound : BOOLEAN]
Item == [id : Ids, copies : Seq(Copy)]

ASSUME PagesAssumption == Pages \subseteq Seq(Copy)
ASSUME ItemsAssumption == ItemLists \subseteq Seq(Item)
ASSUME ChangesAssumption == MaxChanges \in Nat

VARIABLES
  kind, page,  \* the operation, and what the service returned
  items,       \* the copies to read, grouped by item
  i, k,        \* the item and the copy the loop is at
  found,       \* cardToUnseal: a copy whose key is on the device, or 0
  failedForId, \* copies of this transaction that could not be unsealed
  success, failed, \* results, as <<item, copy>>; copy 0 if there is none
  status,      \* "reading" or the way the operation ended
  held,        \* private keys on the device
  ever, always, \* keys held at some time, and at all times, since the start
  changes

request == <<kind, page, items>>
keyVars == <<held, ever, always, changes>>
vars == <<kind, page, items, i, k, found, failedForId, success, failed, status,
          held, ever, always, changes>>

-----------------------------------------------------------------------------
(* Grouping.                                                               *)

\* A finite set of numbers in increasing order.
InOrder(S) ==
  [m \in 1 .. Cardinality(S) |->
     CHOOSE x \in S : Cardinality({y \in S : y <= x}) = m]

\* The copies of the item that the copy at place `first` belongs to.
ItemOf(p, first) ==
  LET places == InOrder({m \in DOMAIN p : p[m].id = p[first].id})
  IN [id |-> p[first].id, copies |-> [m \in DOMAIN places |-> p[places[m]]]]

\* Variant: items in the order of their last copy.
GroupByIdLast(p) ==
  LET lasts == InOrder({n \in DOMAIN p : \A m \in DOMAIN p :
                                           m > n => p[m].id # p[n].id})
  IN [n \in DOMAIN lasts |-> ItemOf(p, lasts[n])]

\* _.groupBy and Object.values: items in the order of their first copy (ids
\* are UUIDs; only ids that look like integers would be moved to the front).
GroupById(p) ==
  LET firsts == InOrder({n \in DOMAIN p : \A m \in DOMAIN p :
                                            m < n => p[m].id # p[n].id})
  IN [n \in DOMAIN firsts |-> ItemOf(p, firsts[n])]

Request ==
  \/ /\ kind \in {"transactions", "virtualCards"}
     /\ page \in Pages /\ items = GroupById(page)
  \/ /\ kind = "provisionalCards"
     /\ page \in ItemLists /\ items = page
  \/ /\ kind = "provisionalCard"
     /\ page \in {l \in ItemLists : Len(l) <= 1} /\ items = page

Init ==
  /\ Request
  /\ i = 1 /\ k = 1 /\ found = 0
  /\ failedForId = <<>> /\ success = <<>> /\ failed = <<>>
  /\ status = "reading"
  /\ held \in SUBSET Keys /\ ever = held /\ always = held
  /\ changes = 0

Copies == items[i].copies
Reading(kinds) == status = "reading" /\ kind \in kinds /\ i <= Len(items)

\* unsealTransaction, unsealVirtualCard: what the device makes of a copy now.
Readable(copy) == copy.key \in held /\ copy.sound

NextItem == i' = i + 1 /\ k' = 1 /\ found' = 0 /\ failedForId' = <<>>
NextCopy == k' = k + 1 /\ UNCHANGED <<i, found>>

-----------------------------------------------------------------------------
(* unsealTransactions: the first copy that can be unsealed will do, and the *)
(* failures count only if there is none.                                    *)

\* Variant: only the first copy is tried.
TryTransactionOnce ==
  /\ Reading({"transactions"})
  /\ \/ Readable(Copies[k]) /\ success' = Append(success, <<i, k>>)
        /\ UNCHANGED failed
     \/ ~Readable(Copies[k]) /\ failed' = Append(failed, <<i, k>>)
        /\ UNCHANGED success
  /\ NextItem
  /\ UNCHANGED <<request, status, keyVars>>

\* Variant: the failures of an item that was read are carried to the next.
TryTransactionCarrying ==
  /\ Reading({"transactions"})
  /\ \/ /\ Readable(Copies[k])
        /\ success' = Append(success, <<i, k>>)
        /\ i' = i + 1 /\ k' = 1 /\ UNCHANGED <<found, failedForId, failed>>
     \/ /\ ~Readable(Copies[k]) /\ k < Len(Copies)
        /\ failedForId' = Append(failedForId, <<i, k>>)
        /\ NextCopy /\ UNCHANGED <<success, failed>>
     \/ /\ ~Readable(Copies[k]) /\ k = Len(Copies)
        /\ failed' = failed \o Append(failedForId, <<i, k>>)
        /\ NextItem /\ UNCHANGED success
  /\ UNCHANGED <<request, status, keyVars>>

\* Variant: failures are reported at once, as listVirtualCards does.
TryTransactionReporting ==
  /\ Reading({"transactions"})
  /\ \/ /\ Readable(Copies[k])
        /\ success' = Append(success, <<i, k>>)
        /\ NextItem /\ UNCHANGED failed
     \/ /\ ~Readable(Copies[k])
        /\ failed' = Append(failed, <<i, k>>)
        /\ IF k < Len(Copies) THEN NextCopy /\ UNCHANGED failedForId ELSE NextItem
        /\ UNCHANGED success
  /\ UNCHANGED <<request, status, keyVars>>

TryTransaction ==
  /\ Reading({"transactions"})
  /\ \/ /\ Readable(Copies[k])
        /\ success' = Append(success, <<i, k>>)
        /\ NextItem /\ UNCHANGED failed
     \/ /\ ~Readable(Copies[k]) /\ k < Len(Copies)
        /\ failedForId' = Append(failedForId, <<i, k>>)
        /\ NextCopy /\ UNCHANGED <<success, failed>>
     \/ /\ ~Readable(Copies[k]) /\ k = Len(Copies)
        /\ failed' = failed \o Append(failedForId, <<i, k>>)
        /\ NextItem /\ UNCHANGED success
  /\ UNCHANGED <<request, status, keyVars>>

-----------------------------------------------------------------------------
(* listVirtualCards: every copy is reported, read or not.                  *)

TryVirtualCard ==
  /\ Reading({"virtualCards"})
  /\ \/ Readable(Copies[k]) /\ success' = Append(success, <<i, k>>)
        /\ UNCHANGED failed
     \/ ~Readable(Copies[k]) /\ failed' = Append(failed, <<i, k>>)
        /\ UNCHANGED success
  /\ IF k < Len(Copies) THEN NextCopy /\ UNCHANGED failedForId ELSE NextItem
  /\ UNCHANGED <<request, status, keyVars>>

-----------------------------------------------------------------------------
(* listProvisionalCards and getProvisionalCard: a copy whose key is on the *)
(* device is looked for first, then that copy is unsealed.                 *)

Provisional == Reading({"provisionalCards", "provisionalCard"})

\* Variant: the list, too, takes the last copy that fits.
ScanOverAtEnd == k > Len(Copies)

\* The list breaks off at the first copy that fits, the get does not.
ScanOver == k > Len(Copies) \/ (kind = "provisionalCards" /\ found # 0)

\* Variant: only the first copy is looked at.
KeyExistsOnce ==
  /\ Provisional /\ ~ScanOver
  /\ found' = IF Copies[k].key \in held THEN k ELSE found
  /\ k' = Len(Copies) + 1
  /\ UNCHANGED <<request, i, failedForId, success, failed, status, keyVars>>

KeyExists ==
  /\ Provisional /\ ~ScanOver
  /\ found' = IF Copies[k].key \in held THEN k ELSE found
  /\ k' = k + 1
  /\ UNCHANGED <<request, i, failedForId, success, failed, status, keyVars>>

\* The list goes on to the next item; the get throws.
Fail ==
  /\ failed' = Append(failed, <<i, found>>)
  /\ status' = IF kind = "provisionalCards" THEN status ELSE "threw"
  /\ NextItem
  /\ UNCHANGED success

\* There is no card yet, or there is one and it is unsealed.
UnsealFound ==
  /\ Provisional /\ ScanOver
  /\ \/ /\ IF found = 0 THEN Copies = <<>> ELSE Readable(Copies[found])
        /\ success' = Append(success, <<i, found>>)
        /\ NextItem /\ UNCHANGED <<failed, status>>
     \/ /\ IF found = 0 THEN Copies # <<>> ELSE ~Readable(Copies[found])
        /\ Fail
  /\ UNCHANGED <<request, keyVars>>

-----------------------------------------------------------------------------
Return ==
  /\ status = "reading" /\ i > Len(items)
  /\ status' = IF failed = <<>> THEN "success" ELSE "partial"
  /\ UNCHANGED <<request, i, k, found, failedForId, success, failed, keyVars>>

\* reset removes all keys; importKeys adds to them or replaces them.
ChangeKeys(keys) ==
  /\ status = "reading" /\ changes < MaxChanges
  /\ keys # held
  /\ held' = keys
  /\ ever' = ever \cup keys /\ always' = always \cap keys
  /\ changes' = changes + 1
  /\ UNCHANGED <<request, i, k, found, failedForId, success, failed, status>>

Done == status # "reading" /\ UNCHANGED vars

Next ==
  \/ TryTransaction \/ TryVirtualCard
  \/ KeyExists \/ UnsealFound
  \/ Return \/ Done
  \/ \E keys \in SUBSET Keys : ChangeKeys(keys)

Spec == Init /\ [][Next]_vars

-----------------------------------------------------------------------------
(* Properties.                                                             *)

Positions == (1 .. Len(items)) \X Nat
Entries(results) == {results[n] : n \in DOMAIN results}
ItemsIn(results) == {p[1] : p \in Entries(results)}

TypeOK ==
  /\ kind \in Kinds
  /\ i \in 1 .. Len(items) + 1 /\ k \in Nat \ {0} /\ found \in 0 .. k - 1
  /\ failedForId \in Seq({i} \X (1 .. k - 1))
  /\ success \in Seq(Positions) /\ failed \in Seq(Positions)
  /\ status \in {"reading", "success", "partial", "threw"}
  /\ held \subseteq ever /\ ever \subseteq Keys /\ always \subseteq held
  /\ changes \in 0 .. MaxChanges

\* Every item read so far is accounted for; and a transaction or provisional
\* card is reported either once, as read, or as failed, however many copies
\* of it there are ("returns only a single instance of a transaction sealed
\* with multiple keys").  listVirtualCards makes no such promise.
EachReportedOnce ==
  /\ 1 .. i - 1 \subseteq ItemsIn(success) \cup ItemsIn(failed)
  /\ kind # "virtualCards" =>
       /\ ItemsIn(success) \cup ItemsIn(failed) \subseteq 1 .. i - 1
       /\ ItemsIn(success) \cap ItemsIn(failed) = {}
       /\ \A m, n \in DOMAIN success : success[m][1] = success[n][1] => m = n

CopyAt(p) == items[p[1]].copies[p[2]]
ReadableThroughout(copy) == copy.key \in always /\ copy.sound

\* Judgement of one entry of the results, read or failed.
ReadRightly(p) ==
  IF p[2] = 0 THEN items[p[1]].copies = <<>>
  ELSE CopyAt(p).key \in ever /\ CopyAt(p).sound

FailedRightly(p) ==
  IF p[2] = 0
    THEN \A m \in DOMAIN items[p[1]].copies : items[p[1]].copies[m].key \notin always
    ELSE ~ReadableThroughout(CopyAt(p))

\* Nothing is reported as read whose key was never there, and nothing as
\* failed that could have been read all the time; a provisional card has
\* failed for want of a key only if no key of its copies was there throughout.
OutcomeJustified ==
  /\ \A p \in Entries(success) : ReadRightly(p)
  /\ \A p \in Entries(failed) : FailedRightly(p)

\* A transaction or card with a copy that could be read all the time is
\* among the results, whatever became of its other copies and keys.
ReadableIsReported ==
  kind \in {"transactions", "virtualCards"} =>
    \A n \in 1 .. i - 1 :
      (\E m \in DOMAIN items[n].copies : ReadableThroughout(items[n].copies[m]))
        => n \in ItemsIn(success)

\* Results come in the order of the service's page.
OrderKept ==
  \A m, n \in DOMAIN success :
    m < n => \E p \in DOMAIN page :
               /\ page[p].id = items[success[m][1]].id
               /\ \A q \in 1 .. p - 1 : page[q].id # items[success[n][1]].id

\* The reference: what each operation reports when the keys stay as they are.
ReadableCopies(n) ==
  {m \in DOMAIN items[n].copies : Readable(items[n].copies[m])}
HeldCopies(n) == {m \in DOMAIN items[n].copies : items[n].copies[m].key \in held}
IsFirst(m, S) == m \in S /\ \A l \in S : m <= l
IsLast(m, S) == m \in S /\ \A l \in S : l <= m

\* The copy that stands for a provisional card.
Chosen(n, m) ==
  \/ m = 0 /\ HeldCopies(n) = {}
  \/ kind = "provisionalCards" /\ IsFirst(m, HeldCopies(n))
  \/ kind = "provisionalCard" /\ IsLast(m, HeldCopies(n))

ReportsAsRead(n, m) ==
  CASE kind = "transactions" -> IsFirst(m, ReadableCopies(n))
    [] kind = "virtualCards" -> m \in ReadableCopies(n)
    [] OTHER -> /\ Chosen(n, m)
                /\ IF m = 0 THEN items[n].copies = <<>> ELSE m \in ReadableCopies(n)

ReportsAsFailed(n, m) ==
  CASE kind = "transactions" ->
         m \in DOMAIN items[n].copies /\ ReadableCopies(n) = {}
    [] kind = "virtualCards" -> m \in DOMAIN items[n].copies \ ReadableCopies(n)
    [] OTHER -> Chosen(n, m) /\ ~ReportsAsRead(n, m)

\* If the keys did not change while it ran, the operation reports what the
\* reference says, nothing else and nothing twice, and throws or says
\* "partial" exactly when something failed.
StableResult ==
  LET places == UNION {{n} \X (0 .. Len(items[n].copies)) : n \in DOMAIN items}
      Reports(results, P(_, _)) ==
        /\ \A m, n \in DOMAIN results : results[m] = results[n] => m = n
        /\ Entries(results) = {p \in places : P(p[1], p[2])}
  IN  status # "reading" /\ changes = 0 =>
        /\ Reports(success, ReportsAsRead) /\ Reports(failed, ReportsAsFailed)
        /\ status = IF failed = <<>> THEN "success"
                    ELSE IF kind = "provisionalCard" THEN "threw" ELSE "partial"

=============================================================================
