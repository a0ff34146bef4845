------------------------ MODULE CalendarStoreProofs ------------------------
(***************************************************************************)
(* Proofs about CalendarStore, for every set of names, identifiers and     *)
(* contents, every owner assignment and every bound.                       *)
(*                                                                         *)
(* The invariant is a conjunction over the calendars, so the work is in    *)
(* three lemmas about one calendar record (Stored, Removed, pruned) and    *)
(* the actions only have to say which record they put where.               *)
(***************************************************************************)
EXTENDS CalendarStore, WellFoundedInduction, TLAPS

(* No item and no log entry carries a revision the calendar has not        *)
(* reached: the next bump is new to all of them.                           *)
RevsBounded(cal) ==
  /\ \A n \in Names : cal.items[n] # Nil => cal.items[n].revision <= cal.rev
  /\ \A ch \in cal.log : ch.rev <= cal.rev

CalendarInv(cal) ==
  /\ cal \in Calendar
  /\ IndexExact(cal)
  /\ HistoryExplains(cal)
  /\ RevsBounded(cal)

IInv ==
  /\ TypeOK
  /\ \A c \in Calendars : Live(c) => CalendarInv(cals[c])
  /\ IncarnationsDistinct

---------------------------------------------------------------------------

(* What Stored and Removed leave in each field. *)
StoredShape(cal, n, u, content, new) ==
  LET item == [contentID |-> u, content |-> content, revision |-> cal.rev + 1] IN
  /\ new \in Calendar
  /\ new.id = cal.id
  /\ new.rev = cal.rev + 1
  /\ new.pruned = cal.pruned
  /\ item \in Item
  /\ new.items = [cal.items EXCEPT ![n] = item]
  /\ new.byID = [Retired(cal, n) EXCEPT ![u] = n]
  /\ new.log = cal.log \cup {[rev |-> cal.rev + 1, item |-> n, deleted |-> FALSE]}

RemovedShape(cal, n, new) ==
  /\ new \in Calendar
  /\ new.id = cal.id
  /\ new.rev = cal.rev + 1
  /\ new.pruned = cal.pruned
  /\ new.items = [cal.items EXCEPT ![n] = Nil]
  /\ new.byID = Retired(cal, n)
  /\ new.log = cal.log \cup {[rev |-> cal.rev + 1, item |-> n, deleted |-> TRUE]}

LEMMA StoredFields ==
  ASSUME NEW cal \in Calendar, NEW n \in Names, NEW u \in ContentIDs,
         NEW content \in Contents
  PROVE  StoredShape(cal, n, u, content, Stored(cal, n, u, content))
<1> DEFINE item == [contentID |-> u, content |-> content, revision |-> cal.rev + 1]
           entry == [rev |-> cal.rev + 1, item |-> n, deleted |-> FALSE]
           items == [cal.items EXCEPT ![n] = item]
           byID == [Retired(cal, n) EXCEPT ![u] = n]
<1>1. /\ cal.rev \in Nat /\ cal.log \in SUBSET Change
      /\ cal.items \in [Names -> Item \cup {Nil}]
      /\ cal.byID \in [ContentIDs -> Names \cup {Nil}]
  BY DEF Calendar
<1>2. item \in Item /\ entry \in Change
  BY <1>1 DEF Item, Change
<1>3. items \in [Names -> Item \cup {Nil}]
  BY <1>1, <1>2
<1>4. Retired(cal, n) \in [ContentIDs -> Names \cup {Nil}]
  BY <1>1 DEF Retired
<1>5. byID \in [ContentIDs -> Names \cup {Nil}]
  BY <1>4
<1>6. Logged(cal, n, FALSE) = cal.log \cup {entry}
  BY DEF Logged
<1>7. Stored(cal, n, u, content) =
        [cal EXCEPT !.rev = cal.rev + 1, !.items = items, !.byID = byID,
                    !.log = cal.log \cup {entry}]
  BY <1>6 DEF Stored
<1>8. cal.rev + 1 \in Nat
  BY <1>1
<1> HIDE DEF item, entry, items, byID
<1>9. cal.log \cup {entry} \in SUBSET Change
  BY <1>1, <1>2
<1>10. LET new == Stored(cal, n, u, content) IN
      /\ new \in Calendar
      /\ new.id = cal.id
      /\ new.rev = cal.rev + 1
      /\ new.pruned = cal.pruned
      /\ new.items = items
      /\ new.byID = byID
      /\ new.log = cal.log \cup {entry}
  BY <1>3, <1>5, <1>7, <1>8, <1>9 DEF Calendar
<1> QED
  BY <1>2, <1>10 DEF StoredShape, item, entry, items, byID

LEMMA RemovedFields ==
  ASSUME NEW cal \in Calendar, NEW n \in Names
  PROVE  RemovedShape(cal, n, Removed(cal, n))
<1> DEFINE entry == [rev |-> cal.rev + 1, item |-> n, deleted |-> TRUE]
           items == [cal.items EXCEPT ![n] = Nil]
<1>1. /\ cal.rev \in Nat /\ cal.log \in SUBSET Change
      /\ cal.items \in [Names -> Item \cup {Nil}]
      /\ cal.byID \in [ContentIDs -> Names \cup {Nil}]
  BY DEF Calendar
<1>2. entry \in Change
  BY <1>1 DEF Change
<1>3. items \in [Names -> Item \cup {Nil}]
  BY <1>1
<1>4. Retired(cal, n) \in [ContentIDs -> Names \cup {Nil}]
  BY <1>1 DEF Retired
<1>5. Removed(cal, n) =
        [cal EXCEPT !.rev = cal.rev + 1, !.items = items,
                    !.byID = Retired(cal, n), !.log = cal.log \cup {entry}]
  BY DEF Removed, Logged
<1>6. cal.rev + 1 \in Nat
  BY <1>1
<1> HIDE DEF entry, items
<1>7. cal.log \cup {entry} \in SUBSET Change
  BY <1>1, <1>2
<1>8. LET new == Removed(cal, n) IN
      /\ new \in Calendar
      /\ new.id = cal.id
      /\ new.rev = cal.rev + 1
      /\ new.pruned = cal.pruned
      /\ new.items = items
      /\ new.byID = Retired(cal, n)
      /\ new.log = cal.log \cup {entry}
  BY <1>3, <1>4, <1>5, <1>6, <1>7 DEF Calendar
<1> QED
  BY <1>8 DEF RemovedShape, entry, items

---------------------------------------------------------------------------
(* The index.                                                              *)

(* Retiring the ContentID at n leaves the exact index of the other items.  *)
LEMMA RetiredExact ==
  ASSUME NEW cal \in Calendar, NEW n \in Names, IndexExact(cal)
  PROVE  \A u \in ContentIDs, m \in Names :
           Retired(cal, n)[u] = m
             <=> m # n /\ cal.items[m] # Nil /\ cal.items[m].contentID = u
<1> SUFFICES ASSUME NEW u \in ContentIDs, NEW m \in Names
             PROVE Retired(cal, n)[u] = m
                     <=> m # n /\ cal.items[m] # Nil /\ cal.items[m].contentID = u
  OBVIOUS
<1>1. /\ cal.items \in [Names -> Item \cup {Nil}]
      /\ cal.byID \in [ContentIDs -> Names \cup {Nil}]
  BY DEF Calendar
<1>2. cal.byID[u] = m <=> cal.items[m] # Nil /\ cal.items[m].contentID = u
  BY DEF IndexExact
<1>3. CASE cal.items[n] = Nil
  BY <1>2, <1>3 DEF Retired
<1>4. CASE cal.items[n] # Nil
  <2> DEFINE old == cal.items[n].contentID
  <2>1. old \in ContentIDs
    BY <1>1, <1>4 DEF Item
  <2>2. cal.byID[old] = n
    BY <1>4, <2>1 DEF IndexExact
  <2>3. Retired(cal, n) = [cal.byID EXCEPT ![old] = Nil]
    BY <1>4 DEF Retired
  <2>4. CASE u = old
    BY <1>1, <1>2, <1>4, <2>1, <2>2, <2>3, <2>4, NilAssumption
  <2>5. CASE u # old
    BY <1>1, <1>2, <1>4, <2>1, <2>3, <2>5
  <2> QED
    BY <2>4, <2>5
<1> QED
  BY <1>3, <1>4

LEMMA StoredIndex ==
  ASSUME NEW cal \in Calendar, NEW n \in Names, NEW u \in ContentIDs,
         NEW content \in Contents, IndexExact(cal), ~Taken(cal, u, n)
  PROVE  IndexExact(Stored(cal, n, u, content))
<1> DEFINE new == Stored(cal, n, u, content)
           item == [contentID |-> u, content |-> content, revision |-> cal.rev + 1]
<1>a. StoredShape(cal, n, u, content, new)
  BY StoredFields
<1>1. /\ item \in Item
      /\ new.items = [cal.items EXCEPT ![n] = item]
      /\ new.byID = [Retired(cal, n) EXCEPT ![u] = n]
  BY <1>a DEF StoredShape
<1>2. /\ cal.items \in [Names -> Item \cup {Nil}]
      /\ cal.byID \in [ContentIDs -> Names \cup {Nil}]
  BY DEF Calendar
<1>3. Retired(cal, n) \in [ContentIDs -> Names \cup {Nil}]
  BY <1>2 DEF Retired
<1>4. item # Nil /\ item.contentID = u
  BY <1>1, NilAssumption
<1> HIDE DEF item, new
<1> SUFFICES ASSUME NEW v \in ContentIDs, NEW m \in Names
             PROVE new.byID[v] = m
                     <=> new.items[m] # Nil /\ new.items[m].contentID = v
  BY DEF IndexExact, new
<1>5. Retired(cal, n)[v] = m
        <=> m # n /\ cal.items[m] # Nil /\ cal.items[m].contentID = v
  BY RetiredExact
<1>6. cal.byID[u] = m => m = n
  BY NilAssumption DEF Taken
<1>7. cal.byID[u] = m <=> cal.items[m] # Nil /\ cal.items[m].contentID = u
  BY DEF IndexExact
<1>8. CASE m = n
  BY <1>1, <1>2, <1>3, <1>4, <1>5, <1>8
<1>9. CASE m # n
  BY <1>1, <1>2, <1>3, <1>5, <1>6, <1>7, <1>9
<1> QED
  BY <1>8, <1>9

LEMMA RemovedIndex ==
  ASSUME NEW cal \in Calendar, NEW n \in Names, IndexExact(cal)
  PROVE  IndexExact(Removed(cal, n))
<1> DEFINE new == Removed(cal, n)
<1>a. RemovedShape(cal, n, new)
  BY RemovedFields
<1>1. /\ new.items = [cal.items EXCEPT ![n] = Nil]
      /\ new.byID = Retired(cal, n)
  BY <1>a DEF RemovedShape
<1>2. cal.items \in [Names -> Item \cup {Nil}]
  BY DEF Calendar
<1> HIDE DEF new
<1>3. \A u \in ContentIDs, m \in Names :
        Retired(cal, n)[u] = m
          <=> m # n /\ cal.items[m] # Nil /\ cal.items[m].contentID = u
  BY RetiredExact
<1>4. \A u \in ContentIDs, m \in Names :
        new.byID[u] = m <=> new.items[m] # Nil /\ new.items[m].contentID = u
  BY <1>1, <1>2, <1>3
<1> QED
  BY <1>4 DEF IndexExact, new

---------------------------------------------------------------------------
(* The history.                                                            *)

LEMMA StoredHistory ==
  ASSUME NEW cal \in Calendar, NEW n \in Names, NEW u \in ContentIDs,
         NEW content \in Contents, RevsBounded(cal), HistoryExplains(cal)
  PROVE  /\ HistoryExplains(Stored(cal, n, u, content))
         /\ RevsBounded(Stored(cal, n, u, content))
<1> DEFINE new == Stored(cal, n, u, content)
           item == [contentID |-> u, content |-> content, revision |-> cal.rev + 1]
           entry == [rev |-> cal.rev + 1, item |-> n, deleted |-> FALSE]
<1>a. StoredShape(cal, n, u, content, new)
  BY StoredFields
<1>1. /\ new.rev = cal.rev + 1
      /\ new.pruned = cal.pruned
      /\ item \in Item
      /\ new.items = [cal.items EXCEPT ![n] = item]
      /\ new.log = cal.log \cup {entry}
  BY <1>a DEF StoredShape
<1>2. /\ cal.rev \in Nat /\ cal.pruned \in Nat
      /\ cal.log \in SUBSET Change
      /\ cal.items \in [Names -> Item \cup {Nil}]
  BY DEF Calendar
<1>3. /\ entry.rev = cal.rev + 1 /\ entry.item = n /\ entry.deleted = FALSE
      /\ item.revision = cal.rev + 1 /\ item # Nil
  BY <1>1, NilAssumption
<1>4. \A ch \in cal.log : ch.rev \in Nat /\ ch.rev <= cal.rev
  BY <1>2 DEF RevsBounded, Change
<1>5. \A m \in Names : cal.items[m] # Nil =>
         cal.items[m].revision \in Nat /\ cal.items[m].revision <= cal.rev
  BY <1>2 DEF RevsBounded, Item
<1> HIDE DEF item, entry, new
<1>6. RevsBounded(new)
  <2>1. \A m \in Names : new.items[m] # Nil => new.items[m].revision <= new.rev
    BY <1>1, <1>2, <1>3, <1>5
  <2>2. \A ch \in new.log : ch.rev <= new.rev
    BY <1>1, <1>2, <1>3, <1>4
  <2> QED
    BY <2>1, <2>2 DEF RevsBounded
<1>7. HistoryExplains(new)
  <2> SUFFICES ASSUME NEW m \in Names
               PROVE
      /\ \A ch \in new.log :
           LastChange(new, m, ch) =>
             IF ch.deleted THEN new.items[m] = Nil
             ELSE new.items[m] # Nil /\ new.items[m].revision = ch.rev
      /\ (new.items[m] # Nil /\ new.items[m].revision >= new.pruned)
           => \E ch \in new.log : LastChange(new, m, ch)
    BY DEF HistoryExplains
  <2>1. CASE m = n
    <3>1. new.items[m] = item
      BY <1>1, <1>2, <2>1
    <3>2. LastChange(new, m, entry)
      BY <1>1, <1>2, <1>3, <1>4, <2>1 DEF LastChange
    <3>3. ASSUME NEW ch \in new.log, LastChange(new, m, ch)
          PROVE  ch = entry
      BY <1>1, <1>2, <1>3, <1>4, <2>1, <3>3 DEF LastChange
    <3> QED
      BY <1>1, <1>3, <3>1, <3>2, <3>3
  <2>2. CASE m # n
    <3>1. new.items[m] = cal.items[m]
      BY <1>1, <1>2, <2>2
    <3>2. \A ch \in new.log : LastChange(new, m, ch) => ch \in cal.log /\ LastChange(cal, m, ch)
      BY <1>1, <1>3, <2>2 DEF LastChange
    <3>3. \A ch \in cal.log : LastChange(cal, m, ch) => ch \in new.log /\ LastChange(new, m, ch)
      BY <1>1, <1>3, <2>2 DEF LastChange
    <3> QED
      BY <1>1, <3>1, <3>2, <3>3 DEF HistoryExplains
  <2> QED
    BY <2>1, <2>2
<1> QED
  BY <1>6, <1>7 DEF new

LEMMA RemovedHistory ==
  ASSUME NEW cal \in Calendar, NEW n \in Names,
         RevsBounded(cal), HistoryExplains(cal)
  PROVE  /\ HistoryExplains(Removed(cal, n))
         /\ RevsBounded(Removed(cal, n))
<1> DEFINE new == Removed(cal, n)
           entry == [rev |-> cal.rev + 1, item |-> n, deleted |-> TRUE]
<1>a. RemovedShape(cal, n, new)
  BY RemovedFields
<1>1. /\ new.rev = cal.rev + 1
      /\ new.pruned = cal.pruned
      /\ new.items = [cal.items EXCEPT ![n] = Nil]
      /\ new.log = cal.log \cup {entry}
  BY <1>a DEF RemovedShape
<1>2. /\ cal.rev \in Nat /\ cal.pruned \in Nat
      /\ cal.log \in SUBSET Change
      /\ cal.items \in [Names -> Item \cup {Nil}]
  BY DEF Calendar
<1>3. entry.rev = cal.rev + 1 /\ entry.item = n /\ entry.deleted = TRUE
  OBVIOUS
<1>4. \A ch \in cal.log : ch.rev \in Nat /\ ch.rev <= cal.rev
  BY <1>2 DEF RevsBounded, Change
<1>5. \A m \in Names : cal.items[m] # Nil =>
         cal.items[m].revision \in Nat /\ cal.items[m].revision <= cal.rev
  BY <1>2 DEF RevsBounded, Item
<1> HIDE DEF entry, new
<1>6. RevsBounded(new)
  <2>1. \A m \in Names : new.items[m] # Nil => new.items[m].revision <= new.rev
    BY <1>1, <1>2, <1>5
  <2>2. \A ch \in new.log : ch.rev <= new.rev
    BY <1>1, <1>2, <1>3, <1>4
  <2> QED
    BY <2>1, <2>2 DEF RevsBounded
<1>7. HistoryExplains(new)
  <2> SUFFICES ASSUME NEW m \in Names
               PROVE
      /\ \A ch \in new.log :
           LastChange(new, m, ch) =>
             IF ch.deleted THEN new.items[m] = Nil
             ELSE new.items[m] # Nil /\ new.items[m].revision = ch.rev
      /\ (new.items[m] # Nil /\ new.items[m].revision >= new.pruned)
           => \E ch \in new.log : LastChange(new, m, ch)
    BY DEF HistoryExplains
  <2>1. CASE m = n
    <3>1. new.items[m] = Nil
      BY <1>1, <1>2, <2>1
    <3>2. ASSUME NEW ch \in new.log, LastChange(new, m, ch)
          PROVE  ch = entry
      BY <1>1, <1>2, <1>3, <1>4, <2>1, <3>2 DEF LastChange
    <3> QED
      BY <1>3, <3>1, <3>2
  <2>2. CASE m # n
    <3>1. new.items[m] = cal.items[m]
      BY <1>1, <1>2, <2>2
    <3>2. \A ch \in new.log : LastChange(new, m, ch) => ch \in cal.log /\ LastChange(cal, m, ch)
      BY <1>1, <1>3, <2>2 DEF LastChange
    <3>3. \A ch \in cal.log : LastChange(cal, m, ch) => ch \in new.log /\ LastChange(new, m, ch)
      BY <1>1, <1>3, <2>2 DEF LastChange
    <3> QED
      BY <1>1, <3>1, <3>2, <3>3 DEF HistoryExplains
  <2> QED
    BY <2>1, <2>2
<1> QED
  BY <1>6, <1>7 DEF new

(* Storing and removing keep the invariant of a calendar. *)
LEMMA StoredInv ==
  ASSUME NEW cal, CalendarInv(cal), NEW n \in Names, NEW u \in ContentIDs,
         NEW content \in Contents, ~Taken(cal, u, n)
  PROVE  /\ CalendarInv(Stored(cal, n, u, content))
         /\ Stored(cal, n, u, content).id = cal.id
<1>1. cal \in Calendar /\ IndexExact(cal) /\ HistoryExplains(cal) /\ RevsBounded(cal)
  BY DEF CalendarInv
<1>2. StoredShape(cal, n, u, content, Stored(cal, n, u, content))
  BY <1>1, StoredFields
<1>3. /\ Stored(cal, n, u, content) \in Calendar
      /\ Stored(cal, n, u, content).id = cal.id
  BY <1>2 DEF StoredShape
<1>4. IndexExact(Stored(cal, n, u, content))
  BY <1>1, StoredIndex
<1>5. /\ HistoryExplains(Stored(cal, n, u, content))
      /\ RevsBounded(Stored(cal, n, u, content))
  BY <1>1, StoredHistory
<1> QED
  BY <1>3, <1>4, <1>5 DEF CalendarInv

LEMMA RemovedInv ==
  ASSUME NEW cal, CalendarInv(cal), NEW n \in Names
  PROVE  /\ CalendarInv(Removed(cal, n))
         /\ Removed(cal, n).id = cal.id
<1>1. cal \in Calendar /\ IndexExact(cal) /\ HistoryExplains(cal) /\ RevsBounded(cal)
  BY DEF CalendarInv
<1>2. RemovedShape(cal, n, Removed(cal, n))
  BY <1>1, RemovedFields
<1>3. /\ Removed(cal, n) \in Calendar
      /\ Removed(cal, n).id = cal.id
  BY <1>2 DEF RemovedShape
<1>4. IndexExact(Removed(cal, n))
  BY <1>1, RemovedIndex
<1>5. /\ HistoryExplains(Removed(cal, n))
      /\ RevsBounded(Removed(cal, n))
  BY <1>1, RemovedHistory
<1> QED
  BY <1>3, <1>4, <1>5 DEF CalendarInv

---------------------------------------------------------------------------
(* The other changes of one calendar.                                      *)

LEMMA NewCalendarInv ==
  ASSUME NEW id \in Nat, NEW settings \in Settings
  PROVE  /\ CalendarInv(NewCalendar(id, settings))
         /\ NewCalendar(id, settings).id = id
<1> DEFINE new == NewCalendar(id, settings)
<1>1. /\ new \in Calendar /\ new.id = id
      /\ new.log = {}
      /\ new.items = [n \in Names |-> Nil]
      /\ new.byID = [u \in ContentIDs |-> Nil]
  BY DEF NewCalendar, Calendar
<1> HIDE DEF new
<1>2. IndexExact(new)
  BY <1>1, NilAssumption DEF IndexExact
<1>3. HistoryExplains(new)
  BY <1>1 DEF HistoryExplains
<1>4. RevsBounded(new)
  BY <1>1 DEF RevsBounded
<1> QED
  BY <1>1, <1>2, <1>3, <1>4 DEF CalendarInv, new

(* Changing the settings, or the viewers, leaves items, index and log. *)
LEMMA SameItemsInv ==
  ASSUME NEW cal, CalendarInv(cal), NEW new \in Calendar,
         new.items = cal.items, new.byID = cal.byID, new.log = cal.log,
         new.pruned = cal.pruned, new.rev >= cal.rev
  PROVE  CalendarInv(new)
<1>1. cal \in Calendar /\ IndexExact(cal) /\ HistoryExplains(cal) /\ RevsBounded(cal)
  BY DEF CalendarInv
<1>2. IndexExact(new)
  BY <1>1 DEF IndexExact
<1>3. HistoryExplains(new)
  BY <1>1 DEF HistoryExplains, LastChange
<1>4. /\ cal.rev \in Nat /\ new.rev \in Nat
      /\ \A n \in Names : cal.items[n] # Nil => cal.items[n].revision \in Nat
      /\ \A ch \in cal.log : ch.rev \in Nat
  BY <1>1 DEF Calendar, Item, Change
<1>5. RevsBounded(new)
  BY <1>1, <1>4 DEF RevsBounded
<1> QED
  BY <1>2, <1>3, <1>5 DEF CalendarInv

LEMMA UpdatedInv ==
  ASSUME NEW cal, CalendarInv(cal), NEW settings \in Settings
  PROVE  /\ CalendarInv(Updated(cal, settings))
         /\ Updated(cal, settings).id = cal.id
<1> DEFINE new == Updated(cal, settings)
<1>1. cal \in Calendar
  BY DEF CalendarInv
<1>2. cal.rev \in Nat /\ cal.rev + 1 \in Nat
  BY <1>1 DEF Calendar
<1>3. /\ new \in Calendar /\ new.id = cal.id
      /\ new.items = cal.items /\ new.byID = cal.byID /\ new.log = cal.log
      /\ new.pruned = cal.pruned /\ new.rev = cal.rev + 1
  BY <1>1, <1>2 DEF Updated, Calendar
<1> HIDE DEF new
<1>4. new.rev >= cal.rev
  BY <1>2, <1>3
<1> QED
  BY <1>3, <1>4, SameItemsInv DEF new

LEMMA SharedInv ==
  ASSUME NEW cal, CalendarInv(cal), NEW account \in Accounts
  PROVE  LET new == [cal EXCEPT !.viewers = cal.viewers \cup {account}] IN
         /\ CalendarInv(new)
         /\ new.id = cal.id /\ new.rev = cal.rev /\ new.pruned = cal.pruned
         /\ new.items = cal.items /\ new.log = cal.log
<1> DEFINE viewers == cal.viewers \cup {account}
           new == [cal EXCEPT !.viewers = viewers]
<1>1. cal \in Calendar
  BY DEF CalendarInv
<1>2. viewers \in SUBSET Accounts /\ cal.rev \in Nat
  BY <1>1 DEF Calendar
<1> HIDE DEF viewers
<1>3. /\ new \in Calendar /\ new.id = cal.id
      /\ new.items = cal.items /\ new.byID = cal.byID /\ new.log = cal.log
      /\ new.pruned = cal.pruned /\ new.rev = cal.rev
  BY <1>1, <1>2 DEF Calendar
<1> HIDE DEF new
<1>4. CalendarInv(new)
  BY <1>2, <1>3, SameItemsInv
<1> QED
  BY <1>3, <1>4 DEF new, viewers

(* Pruning forgets the old records: the last record of a name among those  *)
(* kept is its last record, and an item changed since then keeps its own.  *)
LEMMA PrunedInv ==
  ASSUME NEW cal, CalendarInv(cal), NEW before \in Nat
  PROVE  LET new == Pruned(cal, before) IN
         /\ CalendarInv(new)
         /\ new.id = cal.id /\ new.rev = cal.rev /\ new.pruned >= cal.pruned
         /\ new.items = cal.items
         /\ \A ch \in cal.log : ch \in new.log \/ ch.rev < new.pruned
<1> DEFINE new == Pruned(cal, before)
           log == {ch \in cal.log : ch.rev >= before}
           pruned == IF before > cal.pruned THEN before ELSE cal.pruned
<1>1. cal \in Calendar /\ IndexExact(cal) /\ HistoryExplains(cal) /\ RevsBounded(cal)
  BY DEF CalendarInv
<1>2. /\ cal.pruned \in Nat /\ cal.rev \in Nat
      /\ cal.log \in SUBSET Change
      /\ cal.items \in [Names -> Item \cup {Nil}]
  BY <1>1 DEF Calendar
<1>3. /\ log \in SUBSET Change
      /\ pruned \in Nat /\ pruned >= before /\ pruned >= cal.pruned
  BY <1>2
<1>4. Pruned(cal, before) = [cal EXCEPT !.log = log, !.pruned = pruned]
  BY DEF Pruned
<1>5. \A ch \in cal.log : ch \in log <=> ch.rev >= before
  OBVIOUS
<1>6. log \subseteq cal.log
  OBVIOUS
<1> HIDE DEF log, pruned
<1>7. /\ new \in Calendar /\ new.id = cal.id
      /\ new.items = cal.items /\ new.byID = cal.byID /\ new.log = log
      /\ new.pruned = pruned /\ new.rev = cal.rev
  BY <1>1, <1>3, <1>4 DEF Calendar
<1> HIDE DEF new
<1>8. \A ch \in cal.log : ch.rev \in Nat
  BY <1>2 DEF Change
<1>9. \A n \in Names : cal.items[n] # Nil => cal.items[n].revision \in Nat
  BY <1>2 DEF Item
<1>10. HistoryExplains(new)
  <2> SUFFICES ASSUME NEW n \in Names
               PROVE
      /\ \A ch \in new.log :
           LastChange(new, n, ch) =>
             IF ch.deleted THEN new.items[n] = Nil
             ELSE new.items[n] # Nil /\ new.items[n].revision = ch.rev
      /\ (new.items[n] # Nil /\ new.items[n].revision >= new.pruned)
           => \E ch \in new.log : LastChange(new, n, ch)
    BY DEF HistoryExplains
  <2>1. \A ch \in new.log : LastChange(new, n, ch) => ch \in cal.log /\ LastChange(cal, n, ch)
    BY <1>5, <1>6, <1>7, <1>8 DEF LastChange
  <2>2. ASSUME new.items[n] # Nil, new.items[n].revision >= new.pruned
        PROVE  \E ch \in new.log : LastChange(new, n, ch)
    <3>1. cal.items[n] # Nil /\ cal.items[n].revision >= cal.pruned
      BY <1>2, <1>3, <1>7, <1>9, <2>2
    <3>2. PICK ch \in cal.log : LastChange(cal, n, ch)
      BY <1>1, <3>1 DEF HistoryExplains
    <3>3. cal.items[n].revision = ch.rev
      BY <1>1, <3>1, <3>2 DEF HistoryExplains
    <3>4. ch.rev >= before
      BY <1>3, <1>7, <1>8, <2>2, <3>3
    <3>5. ch \in new.log
      BY <1>5, <1>7, <3>4
    <3>6. LastChange(new, n, ch)
      BY <1>6, <1>7, <3>2, <3>5 DEF LastChange
    <3> QED
      BY <3>5, <3>6
  <2> QED
    BY <1>1, <1>7, <2>1, <2>2 DEF HistoryExplains
<1>11. IndexExact(new)
  BY <1>1, <1>7 DEF IndexExact
<1>12. RevsBounded(new)
  BY <1>1, <1>6, <1>7 DEF RevsBounded
<1>13. \A ch \in cal.log : ch \in new.log \/ ch.rev < new.pruned
  BY <1>2, <1>3, <1>5, <1>7, <1>8
<1> QED
  BY <1>3, <1>7, <1>10, <1>11, <1>12, <1>13 DEF CalendarInv, new

---------------------------------------------------------------------------
(* What a step may do to one calendar that stays the same incarnation.     *)

(* What the log says of the step: only pruning forgets, and what happened  *)
(* to a name is logged after everything that was.                          *)
LogAdvances(cal, new) ==
  /\ \A ch \in cal.log : ch \in new.log \/ ch.rev < new.pruned
  /\ \A n \in Names :
       new.items[n] # cal.items[n]
         => \/ \E ch \in new.log : ch.item = n /\ ch.rev > cal.rev
            \/ cal.rev < new.pruned

Advances(cal, new) ==
  /\ LogAdvances(cal, new)
  /\ new.id = cal.id
  /\ new.rev >= cal.rev
  /\ new.pruned >= cal.pruned
  /\ \A n \in Names :
       new.items[n] # cal.items[n] /\ new.items[n] # Nil
         => /\ new.items[n].revision > cal.rev
            /\ new.items[n].revision <= new.rev

LEMMA StoredAdvances ==
  ASSUME NEW cal \in Calendar, NEW n \in Names, NEW u \in ContentIDs,
         NEW content \in Contents
  PROVE  Advances(cal, Stored(cal, n, u, content))
<1> DEFINE new == Stored(cal, n, u, content)
           item == [contentID |-> u, content |-> content, revision |-> cal.rev + 1]
           entry == [rev |-> cal.rev + 1, item |-> n, deleted |-> FALSE]
<1>1. StoredShape(cal, n, u, content, new)
  BY StoredFields
<1>2. /\ new.id = cal.id /\ new.rev = cal.rev + 1 /\ new.pruned = cal.pruned
      /\ new.items = [cal.items EXCEPT ![n] = item]
      /\ new.log = cal.log \cup {entry}
  BY <1>1 DEF StoredShape
<1>3. /\ cal.rev \in Nat /\ cal.pruned \in Nat
      /\ cal.items \in [Names -> Item \cup {Nil}]
  BY DEF Calendar
<1>4. item.revision = cal.rev + 1
  OBVIOUS
<1> HIDE DEF new, item
<1>5. entry.item = n /\ entry.rev > cal.rev
  BY <1>3
<1> HIDE DEF entry
<1>6. \A m \in Names : new.items[m] = IF m = n THEN item ELSE cal.items[m]
  BY <1>2, <1>3
<1>7. \A m \in Names :
        new.items[m] # cal.items[m]
          => new.items[m].revision > cal.rev /\ new.items[m].revision <= new.rev
  BY <1>2, <1>3, <1>4, <1>6
<1>8. LogAdvances(cal, new)
  BY <1>2, <1>6, <1>5 DEF LogAdvances
<1> QED
  BY <1>2, <1>3, <1>7, <1>8 DEF Advances, new

LEMMA RemovedAdvances ==
  ASSUME NEW cal \in Calendar, NEW n \in Names
  PROVE  Advances(cal, Removed(cal, n))
<1> DEFINE new == Removed(cal, n)
           entry == [rev |-> cal.rev + 1, item |-> n, deleted |-> TRUE]
<1>1. RemovedShape(cal, n, new)
  BY RemovedFields
<1>2. /\ new.id = cal.id /\ new.rev = cal.rev + 1 /\ new.pruned = cal.pruned
      /\ new.items = [cal.items EXCEPT ![n] = Nil]
      /\ new.log = cal.log \cup {entry}
  BY <1>1 DEF RemovedShape
<1>3. /\ cal.rev \in Nat /\ cal.pruned \in Nat
      /\ cal.items \in [Names -> Item \cup {Nil}]
  BY DEF Calendar
<1>4. entry.item = n /\ entry.rev > cal.rev
  BY <1>3
<1> HIDE DEF new, entry
<1>5. \A m \in Names : new.items[m] # cal.items[m] => m = n
  BY <1>2, <1>3
<1>6. LogAdvances(cal, new)
  BY <1>2, <1>4, <1>5 DEF LogAdvances
<1>7. \A m \in Names : new.items[m] # Nil => new.items[m] = cal.items[m]
  BY <1>2, <1>3
<1> QED
  BY <1>2, <1>3, <1>7, <1>6 DEF Advances, new

(* A rename advances its calendar twice. *)
LEMMA AdvancesTransitive ==
  ASSUME NEW a \in Calendar, NEW b \in Calendar, NEW c \in Calendar,
         Advances(a, b), Advances(b, c)
  PROVE  Advances(a, c)
<1>1. /\ a.rev \in Nat /\ b.rev \in Nat /\ c.rev \in Nat
      /\ a.pruned \in Nat /\ b.pruned \in Nat /\ c.pruned \in Nat
      /\ b.items \in [Names -> Item \cup {Nil}]
      /\ c.items \in [Names -> Item \cup {Nil}]
  BY DEF Calendar
<1>2. /\ \A n \in Names : b.items[n] # Nil => b.items[n].revision \in Nat
      /\ \A n \in Names : c.items[n] # Nil => c.items[n].revision \in Nat
  BY <1>1 DEF Item
<1>3. /\ a.rev <= b.rev /\ b.rev <= c.rev
      /\ a.pruned <= b.pruned /\ b.pruned <= c.pruned
      /\ a.id = c.id
  BY <1>1 DEF Advances
<1>4. ASSUME NEW n \in Names, c.items[n] # a.items[n], c.items[n] # Nil
      PROVE  c.items[n].revision > a.rev /\ c.items[n].revision <= c.rev
  <2>1. CASE c.items[n] = b.items[n]
    <3>1. b.items[n].revision > a.rev /\ b.items[n].revision <= b.rev
      BY <1>4, <2>1 DEF Advances
    <3> QED
      BY <1>1, <1>2, <1>3, <1>4, <2>1, <3>1
  <2>2. CASE c.items[n] # b.items[n]
    <3>1. c.items[n].revision > b.rev /\ c.items[n].revision <= c.rev
      BY <1>4, <2>2 DEF Advances
    <3> QED
      BY <1>1, <1>2, <1>3, <1>4, <3>1
  <2> QED
    BY <2>1, <2>2
<1>5. /\ \A ch \in a.log : ch.rev \in Nat
      /\ \A ch \in b.log : ch.rev \in Nat
  BY DEF Calendar, Change
<1>6. LogAdvances(a, b) /\ LogAdvances(b, c)
  BY DEF Advances
<1>7. \A ch \in a.log : ch \in c.log \/ ch.rev < c.pruned
  BY <1>1, <1>3, <1>5, <1>6 DEF LogAdvances
<1>8. ASSUME NEW n \in Names, c.items[n] # a.items[n]
      PROVE  \/ \E ch \in c.log : ch.item = n /\ ch.rev > a.rev
             \/ a.rev < c.pruned
  <2>1. CASE c.items[n] = b.items[n]
    <3>1. \/ \E ch \in b.log : ch.item = n /\ ch.rev > a.rev
          \/ a.rev < b.pruned
      BY <1>6, <1>8, <2>1 DEF LogAdvances
    <3> QED
      BY <1>1, <1>3, <1>5, <1>6, <3>1 DEF LogAdvances
  <2>2. CASE c.items[n] # b.items[n]
    <3>1. \/ \E ch \in c.log : ch.item = n /\ ch.rev > b.rev
          \/ b.rev < c.pruned
      BY <1>6, <2>2 DEF LogAdvances
    <3>2. \A ch \in c.log : ch.rev \in Nat
      BY DEF Calendar, Change
    <3> QED
      BY <1>1, <1>3, <3>1, <3>2
  <2> QED
    BY <2>1, <2>2
<1>9. LogAdvances(a, c)
  BY <1>7, <1>8 DEF LogAdvances
<1> QED
  BY <1>1, <1>3, <1>4, <1>9 DEF Advances

---------------------------------------------------------------------------
(* What a step may do to the store.                                        *)

Rewritten(c) ==
  /\ Live(c) /\ cals'[c] # Nil
  /\ CalendarInv(cals'[c])
  /\ Advances(cals[c], cals'[c])

Created(c) ==
  /\ ~Live(c) /\ cals'[c] # Nil
  /\ CalendarInv(cals'[c])
  /\ cals'[c].id = issued + 1
  /\ \A n \in Names : cals'[c].items[n] = Nil

(* No calendar is deleted. *)
AllKept == \A c \in Calendars : Live(c) => cals'[c] # Nil

StoreStep ==
  /\ cals' \in [Calendars -> Calendar \cup {Nil}]
  /\ \A c \in Calendars :
       cals'[c] = cals[c] \/ cals'[c] = Nil \/ Rewritten(c) \/ Created(c)
  /\ \/ issued' = issued /\ \A c \in Calendars : ~Created(c)
     \/ /\ issued' = issued + 1
        /\ \A c, d \in Calendars : Created(c) /\ Created(d) => c = d

(* An action that replaces one live calendar by a later state of it. *)
LEMMA RewriteStep ==
  ASSUME IInv, NEW c \in Calendars, Live(c), NEW new,
         CalendarInv(new), Advances(cals[c], new),
         cals' = [cals EXCEPT ![c] = new], issued' = issued
  PROVE  StoreStep /\ AllKept
<1>1. cals \in [Calendars -> Calendar \cup {Nil}]
  BY DEF IInv, TypeOK
<1>2. new \in Calendar /\ new # Nil
  BY NilAssumption DEF CalendarInv
<1>3. cals' \in [Calendars -> Calendar \cup {Nil}]
  BY <1>1, <1>2
<1>4. \A d \in Calendars : cals'[d] = IF d = c THEN new ELSE cals[d]
  BY <1>1
<1>5. Rewritten(c)
  BY <1>2, <1>4 DEF Rewritten
<1>6. \A d \in Calendars : ~Created(d)
  BY <1>4 DEF Created, Live
<1> QED
  BY <1>2, <1>3, <1>4, <1>5, <1>6 DEF StoreStep, AllKept, Live

(* A live calendar satisfies the invariant, and its items have the types   *)
(* a store or a transfer writes back.                                      *)
LEMMA LiveCalendar ==
  ASSUME IInv, NEW c \in Calendars, Live(c)
  PROVE  /\ CalendarInv(cals[c])
         /\ cals[c] \in Calendar
         /\ \A n \in Names : cals[c].items[n] # Nil =>
              /\ cals[c].items[n].contentID \in ContentIDs
              /\ cals[c].items[n].content \in Contents
<1>1. CalendarInv(cals[c]) /\ cals[c] \in Calendar
  BY DEF IInv, CalendarInv
<1> QED
  BY <1>1 DEF Calendar, Item

LEMMA StoreItemStep ==
  ASSUME IInv, NEW c \in Calendars, NEW n \in Names, NEW req,
         req.contentID \in ContentIDs, req.content \in Contents,
         CompareAndStoreItem(c, n, req)
  PROVE  StoreStep /\ AllKept
<1>1. Live(c) /\ ~Taken(cals[c], req.contentID, n)
  BY DEF CompareAndStoreItem, StoreItemError
<1>2. req.contentID \in ContentIDs /\ req.content \in Contents
  OBVIOUS
<1>3. CalendarInv(cals[c]) /\ cals[c] \in Calendar
  BY <1>1, LiveCalendar
<1> DEFINE new == Stored(cals[c], n, req.contentID, req.content)
<1>4. CalendarInv(new)
  BY <1>1, <1>2, <1>3, StoredInv
<1>5. Advances(cals[c], new)
  BY <1>2, <1>3, StoredAdvances
<1>6. cals' = [cals EXCEPT ![c] = new] /\ issued' = issued
  BY DEF CompareAndStoreItem
<1> QED
  BY <1>1, <1>4, <1>5, <1>6, RewriteStep

LEMMA DeleteItemStep ==
  ASSUME IInv, NEW c \in Calendars, NEW n \in Names, NEW pre,
         CompareAndDeleteItem(c, n, pre)
  PROVE  StoreStep /\ AllKept
<1>1. Live(c)
  BY DEF CompareAndDeleteItem, DeleteItemError
<1>2. CalendarInv(cals[c]) /\ cals[c] \in Calendar
  BY <1>1, LiveCalendar
<1> DEFINE new == Removed(cals[c], n)
<1>3. CalendarInv(new)
  BY <1>2, RemovedInv
<1>4. Advances(cals[c], new)
  BY <1>2, RemovedAdvances
<1>5. cals' = [cals EXCEPT ![c] = new] /\ issued' = issued
  BY DEF CompareAndDeleteItem
<1> QED
  BY <1>1, <1>3, <1>4, <1>5, RewriteStep

LEMMA CopyItemStep ==
  ASSUME IInv, NEW src \in Calendars, NEW s \in Names,
         NEW dst \in Calendars, NEW d \in Names, NEW req,
         CompareAndCopyItem(src, s, dst, d, req)
  PROVE  StoreStep /\ AllKept
<1> DEFINE item == cals[src].items[s]
           new == Stored(cals[dst], d, item.contentID, item.content)
<1>1. /\ Live(src) /\ Live(dst) /\ item # Nil
      /\ ~Taken(cals[dst], item.contentID, d)
  BY DEF CompareAndCopyItem, TransferError
<1>2. item.contentID \in ContentIDs /\ item.content \in Contents
  BY <1>1, LiveCalendar
<1>3. CalendarInv(cals[dst]) /\ cals[dst] \in Calendar
  BY <1>1, LiveCalendar
<1>4. CalendarInv(new)
  BY <1>1, <1>2, <1>3, StoredInv
<1>5. Advances(cals[dst], new)
  BY <1>2, <1>3, StoredAdvances
<1>6. cals' = [cals EXCEPT ![dst] = new] /\ issued' = issued
  BY DEF CompareAndCopyItem
<1> QED
  BY <1>1, <1>4, <1>5, <1>6, RewriteStep

(* A rename removes before it stores, so the identifier is free again. *)
LEMMA RenameStep ==
  ASSUME IInv, NEW c \in Calendars, NEW s \in Names, NEW d \in Names, NEW req,
         CompareAndMoveItem(c, s, c, d, req)
  PROVE  StoreStep /\ AllKept
<1> DEFINE cal == cals[c]
           item == cal.items[s]
           mid == Removed(cal, s)
           new == Stored(mid, d, item.contentID, item.content)
           without == [cals EXCEPT ![c] = mid]
<1>1. Live(c) /\ item # Nil
  BY DEF CompareAndMoveItem, TransferError
<1>2. \/ ~Taken(cal, item.contentID, d)
      \/ cal.byID[item.contentID] = s
  BY DEF CompareAndMoveItem, TransferError
<1>3. /\ CalendarInv(cal) /\ cal \in Calendar
      /\ item.contentID \in ContentIDs /\ item.content \in Contents
  BY <1>1, LiveCalendar
<1>4. /\ CalendarInv(mid) /\ mid \in Calendar
  BY <1>3, RemovedInv DEF CalendarInv
<1>5. ~Taken(mid, item.contentID, d)
  <2>1. RemovedShape(cal, s, mid)
    BY <1>3, RemovedFields
  <2>2. mid.byID = [cal.byID EXCEPT ![item.contentID] = Nil]
    BY <1>1, <2>1 DEF RemovedShape, Retired
  <2>3. mid.byID[item.contentID] = Nil
    BY <1>3, <2>2 DEF Calendar
  <2> QED
    BY <2>3 DEF Taken
<1>6. CalendarInv(new) /\ new \in Calendar
  BY <1>3, <1>4, <1>5, StoredInv DEF CalendarInv
<1>7. Advances(cal, mid)
  BY <1>3, RemovedAdvances
<1>8. Advances(mid, new)
  BY <1>3, <1>4, StoredAdvances
<1>9. Advances(cal, new)
  BY <1>3, <1>4, <1>6, <1>7, <1>8, AdvancesTransitive
<1>10. cals' = [cals EXCEPT ![c] = new] /\ issued' = issued
  <2>1. cals \in [Calendars -> Calendar \cup {Nil}]
    BY DEF IInv, TypeOK
  <2>2. without[c] = mid
    BY <2>1
  <2>3. cals' = [without EXCEPT ![c] = Stored(without[c], d, item.contentID, item.content)]
    BY DEF CompareAndMoveItem
  <2>4. cals' = [without EXCEPT ![c] = new]
    BY <2>2, <2>3
  <2> HIDE DEF new, mid
  <2>5. [without EXCEPT ![c] = new] = [cals EXCEPT ![c] = new]
    BY <2>1
  <2> QED
    BY <2>4, <2>5 DEF CompareAndMoveItem
<1> QED
  BY <1>1, <1>6, <1>9, <1>10, RewriteStep

(* A move between calendars rewrites both. *)
LEMMA MoveAcrossStep ==
  ASSUME IInv, NEW src \in Calendars, NEW s \in Names,
         NEW dst \in Calendars, NEW d \in Names, NEW req, src # dst,
         CompareAndMoveItem(src, s, dst, d, req)
  PROVE  StoreStep /\ AllKept
<1> DEFINE item == cals[src].items[s]
           left == Removed(cals[src], s)
           new == Stored(cals[dst], d, item.contentID, item.content)
           without == [cals EXCEPT ![src] = left]
<1>1. /\ Live(src) /\ Live(dst) /\ item # Nil
      /\ ~Taken(cals[dst], item.contentID, d)
  BY DEF CompareAndMoveItem, TransferError
<1>2. /\ CalendarInv(cals[src]) /\ cals[src] \in Calendar
      /\ item.contentID \in ContentIDs /\ item.content \in Contents
  BY <1>1, LiveCalendar
<1>3. CalendarInv(cals[dst]) /\ cals[dst] \in Calendar
  BY <1>1, LiveCalendar
<1>4. CalendarInv(left) /\ left \in Calendar /\ Advances(cals[src], left)
  BY <1>2, RemovedInv, RemovedAdvances DEF CalendarInv
<1>5. CalendarInv(new) /\ new \in Calendar
  BY <1>1, <1>2, <1>3, StoredInv DEF CalendarInv
<1>6. Advances(cals[dst], new)
  BY <1>2, <1>3, StoredAdvances
<1>7. cals \in [Calendars -> Calendar \cup {Nil}]
  BY DEF IInv, TypeOK
<1>8. cals' = [without EXCEPT ![dst] = new] /\ issued' = issued
  <2>1. without[dst] = cals[dst]
    BY <1>7
  <2>2. /\ cals' = [without EXCEPT ![dst] = Stored(without[dst], d, item.contentID, item.content)]
        /\ issued' = issued
    BY DEF CompareAndMoveItem
  <2> QED
    BY <2>1, <2>2
<1> HIDE DEF left, new, item
<1>9. \A c \in Calendars :
        cals'[c] = IF c = dst THEN new ELSE IF c = src THEN left ELSE cals[c]
  BY <1>7, <1>8
<1>10. cals' \in [Calendars -> Calendar \cup {Nil}]
  BY <1>4, <1>5, <1>7, <1>8
<1>11. left # Nil /\ new # Nil
  BY <1>4, <1>5, NilAssumption
<1>12. Rewritten(src) /\ Rewritten(dst)
  BY <1>1, <1>4, <1>5, <1>6, <1>9, <1>11 DEF Rewritten
<1>13. \A c \in Calendars : ~Created(c)
  BY <1>1, <1>9 DEF Created, Live
<1> QED
  BY <1>8, <1>9, <1>10, <1>11, <1>12, <1>13 DEF StoreStep, AllKept, Live

LEMMA CreateCalendarStep ==
  ASSUME IInv, NEW c \in Calendars, NEW settings \in Settings, NEW pre,
         CompareAndCreateCalendar(c, settings, pre)
  PROVE  StoreStep /\ AllKept
<1> DEFINE new == NewCalendar(issued + 1, settings)
<1>1. /\ cals \in [Calendars -> Calendar \cup {Nil}] /\ issued \in Nat
  BY DEF IInv, TypeOK
<1>2. /\ ~Live(c) /\ issued' = issued + 1
      /\ cals' = [cals EXCEPT ![c] = new]
  BY DEF CompareAndCreateCalendar
<1>3. /\ CalendarInv(new) /\ new.id = issued + 1
      /\ \A n \in Names : new.items[n] = Nil
  <2>1. issued + 1 \in Nat
    BY <1>1
  <2>2. new.items = [n \in Names |-> Nil]
    BY DEF NewCalendar
  <2> HIDE DEF new
  <2>3. CalendarInv(new) /\ new.id = issued + 1
    BY <2>1, NewCalendarInv DEF new
  <2> QED
    BY <2>2, <2>3
<1>4. new \in Calendar /\ new # Nil
  BY <1>3, NilAssumption DEF CalendarInv
<1> HIDE DEF new
<1>5. \A d \in Calendars : cals'[d] = IF d = c THEN new ELSE cals[d]
  BY <1>1, <1>2
<1>6. cals' \in [Calendars -> Calendar \cup {Nil}]
  BY <1>1, <1>2, <1>4
<1>7. Created(c)
  BY <1>2, <1>3, <1>4, <1>5 DEF Created
<1>8. \A d \in Calendars : Created(d) => d = c
  BY <1>5 DEF Created, Live
<1> QED
  BY <1>2, <1>4, <1>5, <1>6, <1>7, <1>8 DEF StoreStep, AllKept, Live

LEMMA UpdateCalendarStep ==
  ASSUME IInv, NEW c \in Calendars, NEW settings \in Settings, NEW pre,
         CompareAndUpdateCalendar(c, settings, pre)
  PROVE  StoreStep /\ AllKept
<1> DEFINE cal == cals[c]
           new == Updated(cal, settings)
<1>1. /\ Live(c) /\ issued' = issued
      /\ cals' = [cals EXCEPT ![c] = new]
  BY DEF CompareAndUpdateCalendar
<1>2. CalendarInv(cal) /\ cal \in Calendar
  BY <1>1, LiveCalendar
<1>3. CalendarInv(new)
  BY <1>2, UpdatedInv
<1>4. cal.rev \in Nat /\ cal.pruned \in Nat
  BY <1>2 DEF Calendar
<1>5. /\ new.id = cal.id /\ new.rev = cal.rev + 1
      /\ new.pruned = cal.pruned /\ new.items = cal.items /\ new.log = cal.log
  BY <1>2 DEF Updated, Calendar
<1>6. Advances(cal, new)
  BY <1>4, <1>5 DEF Advances, LogAdvances
<1> QED
  BY <1>1, <1>3, <1>6, RewriteStep

LEMMA DeleteCalendarStep ==
  ASSUME IInv, NEW c \in Calendars, NEW pre, CompareAndDeleteCalendar(c, pre)
  PROVE  StoreStep
<1>1. cals \in [Calendars -> Calendar \cup {Nil}]
  BY DEF IInv, TypeOK
<1>2. cals' = [cals EXCEPT ![c] = Nil] /\ issued' = issued
  BY DEF CompareAndDeleteCalendar
<1>3. \A d \in Calendars : cals'[d] = cals[d] \/ cals'[d] = Nil
  BY <1>1, <1>2
<1>4. \A d \in Calendars : ~Created(d)
  BY <1>3 DEF Created, Live
<1> QED
  BY <1>1, <1>2, <1>3, <1>4 DEF StoreStep

LEMMA ShareStep ==
  ASSUME IInv, NEW c \in Calendars, NEW account \in Accounts, Share(c, account)
  PROVE  StoreStep /\ AllKept
<1> DEFINE cal == cals[c]
           new == [cal EXCEPT !.viewers = cal.viewers \cup {account}]
<1>1. Live(c) /\ cals' = [cals EXCEPT ![c] = new] /\ issued' = issued
  BY DEF Share
<1>2. CalendarInv(cal) /\ cal \in Calendar
  BY <1>1, LiveCalendar
<1>3. /\ CalendarInv(new)
      /\ new.id = cal.id /\ new.rev = cal.rev /\ new.pruned = cal.pruned
      /\ new.items = cal.items /\ new.log = cal.log
  BY <1>2, SharedInv
<1>4. cal.rev \in Nat /\ cal.pruned \in Nat
  BY <1>2 DEF Calendar
<1> HIDE DEF new
<1>5. Advances(cal, new)
  BY <1>3, <1>4 DEF Advances, LogAdvances
<1> QED
  BY <1>1, <1>3, <1>5, RewriteStep

LEMMA PruneHistoryStep ==
  ASSUME IInv, NEW c \in Calendars, NEW before \in Nat, PruneHistory(c, before)
  PROVE  StoreStep /\ AllKept
<1> DEFINE cal == cals[c]
           new == Pruned(cal, before)
<1>1. Live(c) /\ cals' = [cals EXCEPT ![c] = new] /\ issued' = issued
  BY DEF PruneHistory
<1>2. CalendarInv(cal) /\ cal \in Calendar
  BY <1>1, LiveCalendar
<1>3. /\ CalendarInv(new)
      /\ new.id = cal.id /\ new.rev = cal.rev /\ new.pruned >= cal.pruned
      /\ new.items = cal.items
      /\ \A ch \in cal.log : ch \in new.log \/ ch.rev < new.pruned
  BY <1>2, PrunedInv
<1>4. cal.rev \in Nat
  BY <1>2 DEF Calendar
<1> HIDE DEF new
<1>5. Advances(cal, new)
  BY <1>3, <1>4 DEF Advances, LogAdvances
<1> QED
  BY <1>1, <1>3, <1>5, RewriteStep

LEMMA NextStep ==
  ASSUME IInv, Next
  PROVE  StoreStep
<1>1. CASE ItemNext
  <2>1. PICK c \in Calendars, n \in Names :
          \/ \E req \in StoreRequests : CompareAndStoreItem(c, n, req)
          \/ \E pre \in Preconditions : CompareAndDeleteItem(c, n, pre)
          \/ \E dst \in Calendars, d \in Names, req \in TransferRequests :
               \/ CompareAndCopyItem(c, n, dst, d, req)
               \/ CompareAndMoveItem(c, n, dst, d, req)
    BY <1>1 DEF ItemNext
  <2>2. ASSUME NEW req \in StoreRequests, CompareAndStoreItem(c, n, req)
        PROVE  StoreStep
    BY <2>2, StoreItemStep DEF StoreRequests
  <2>3. ASSUME NEW pre \in Preconditions, CompareAndDeleteItem(c, n, pre)
        PROVE  StoreStep
    BY <2>3, DeleteItemStep
  <2>4. ASSUME NEW dst \in Calendars, NEW d \in Names, NEW req \in TransferRequests,
               CompareAndCopyItem(c, n, dst, d, req)
        PROVE  StoreStep
    BY <2>4, CopyItemStep
  <2>5. ASSUME NEW dst \in Calendars, NEW d \in Names, NEW req \in TransferRequests,
               CompareAndMoveItem(c, n, dst, d, req)
        PROVE  StoreStep
    <3>1. CASE c = dst
      BY <2>5, <3>1, RenameStep
    <3>2. CASE c # dst
      BY <2>5, <3>2, MoveAcrossStep
    <3> QED
      BY <3>1, <3>2
  <2> QED
    BY <2>1, <2>2, <2>3, <2>4, <2>5
<1>2. CASE CalendarNext
  <2>1. PICK c \in Calendars :
          \/ \E settings \in Settings, pre \in Preconditions :
               \/ CompareAndCreateCalendar(c, settings, pre)
               \/ CompareAndUpdateCalendar(c, settings, pre)
          \/ \E pre \in Preconditions : CompareAndDeleteCalendar(c, pre)
          \/ \E before \in 0..MaxRev + 1 : PruneHistory(c, before)
    BY <1>2 DEF CalendarNext
  <2>2. ASSUME NEW settings \in Settings, NEW pre \in Preconditions,
               CompareAndCreateCalendar(c, settings, pre)
        PROVE  StoreStep
    BY <2>2, CreateCalendarStep
  <2>3. ASSUME NEW settings \in Settings, NEW pre \in Preconditions,
               CompareAndUpdateCalendar(c, settings, pre)
        PROVE  StoreStep
    BY <2>3, UpdateCalendarStep
  <2>4. ASSUME NEW pre \in Preconditions, CompareAndDeleteCalendar(c, pre)
        PROVE  StoreStep
    BY <2>4, DeleteCalendarStep
  <2>5. ASSUME NEW before \in 0..MaxRev + 1, PruneHistory(c, before)
        PROVE  StoreStep
    <3>1. before \in Nat
      BY BoundsAssumption
    <3> QED
      BY <2>5, <3>1, PruneHistoryStep
  <2> QED
    BY <2>1, <2>2, <2>3, <2>4, <2>5
<1>3. CASE SharingNext
  BY <1>3, ShareStep DEF SharingNext
<1> QED
  BY <1>1, <1>2, <1>3 DEF Next

---------------------------------------------------------------------------
(* The invariant.                                                          *)

LEMMA InitInv == Init => IInv
<1> SUFFICES ASSUME Init PROVE IInv
  OBVIOUS
<1>1. TypeOK
  BY DEF Init, TypeOK
<1>2. \A c \in Calendars : ~Live(c)
  BY DEF Init, Live
<1> QED
  BY <1>1, <1>2 DEF IInv, IncarnationsDistinct

LEMMA StepInv ==
  ASSUME IInv, StoreStep
  PROVE  IInv'
<1>1. /\ cals \in [Calendars -> Calendar \cup {Nil}] /\ issued \in Nat
      /\ \A c \in Calendars : Live(c) => CalendarInv(cals[c])
      /\ \A c, d \in Calendars :
           Live(c) => /\ cals[c].id \in 1..issued
                      /\ Live(d) /\ cals[d].id = cals[c].id => c = d
  BY DEF IInv, TypeOK, IncarnationsDistinct
<1>2. /\ cals' \in [Calendars -> Calendar \cup {Nil}]
      /\ issued' \in Nat /\ issued' >= issued
  BY <1>1 DEF StoreStep
<1>3. TypeOK'
  BY <1>2 DEF TypeOK
<1>4. \A c \in Calendars : cals'[c] # Nil => CalendarInv(cals'[c])
  BY <1>1 DEF StoreStep, Rewritten, Created, Live
<1>5. \A c \in Calendars : (Live(c) => CalendarInv(cals[c]))'
  BY <1>4 DEF Live, CalendarInv, IndexExact, HistoryExplains, LastChange, RevsBounded
<1>6. \A c \in Calendars : cals'[c] # Nil =>
        \/ Live(c) /\ cals'[c].id = cals[c].id
        \/ Created(c) /\ cals'[c].id = issued + 1 /\ issued' = issued + 1
  BY DEF StoreStep, Rewritten, Created, Live, Advances
<1>7. \A c \in Calendars : cals'[c] # Nil => cals'[c].id \in 1..issued'
  BY <1>1, <1>2, <1>6
<1>8. \A c, d \in Calendars : Created(c) /\ Created(d) => c = d
  BY DEF StoreStep
<1>9. \A c, d \in Calendars :
        cals'[c] # Nil /\ cals'[d] # Nil /\ cals'[d].id = cals'[c].id => c = d
  BY <1>1, <1>6, <1>8
<1>10. IncarnationsDistinct'
  BY <1>7, <1>9 DEF IncarnationsDistinct, Live
<1> QED
  BY <1>3, <1>5, <1>10 DEF IInv

(* A step that does not touch the store. *)
LEMMA StandingStep ==
  ASSUME IInv, UNCHANGED storeVars
  PROVE  StoreStep /\ AllKept
BY DEF storeVars, StoreStep, AllKept, IInv, TypeOK, Created, Live

LEMMA Invariance == Spec => []IInv
<1>1. IInv /\ [Next]_storeVars => IInv'
  <2> SUFFICES ASSUME IInv, [Next]_storeVars PROVE IInv'
    OBVIOUS
  <2>1. CASE Next
    BY <2>1, NextStep, StepInv
  <2>2. CASE UNCHANGED storeVars
    BY <2>2, StandingStep, StepInv
  <2> QED
    BY <2>1, <2>2
<1> QED
  BY <1>1, InitInv, PTL DEF Spec

(* The store only ever holds well-formed calendars. *)
THEOREM StoreTypeCorrect == Spec => []TypeOK
<1>1. IInv => TypeOK
  BY DEF IInv
<1> QED
  BY <1>1, Invariance, PTL

(* byID is the exact inverse of the items' ContentIDs, always. *)
THEOREM StoreIndexExact == Spec => []ContentIDIndexExact
<1>1. IInv => ContentIDIndexExact
  BY DEF IInv, CalendarInv, ContentIDIndexExact
<1> QED
  BY <1>1, Invariance, PTL

(* The change log explains the items, whatever was pruned. *)
THEOREM StoreHistoryExplains == Spec => []HistoryExplainsItems
<1>1. IInv => HistoryExplainsItems
  BY DEF IInv, CalendarInv, HistoryExplainsItems
<1> QED
  BY <1>1, Invariance, PTL

(* CalendarIDs are unique among live calendars and never run ahead. *)
THEOREM StoreIncarnationsDistinct == Spec => []IncarnationsDistinct
<1>1. IInv => IncarnationsDistinct
  BY DEF IInv
<1> QED
  BY <1>1, Invariance, PTL

(* Within an incarnation a revision is never reused for other bytes. *)
THEOREM StoreRevisionsNameBytes == Spec => RevisionsNameBytes
<1> DEFINE A == \A c \in Calendars : SameIncarnation(c) =>
       /\ cals'[c].rev >= cals[c].rev
       /\ cals'[c].pruned >= cals[c].pruned
       /\ \A n \in Names :
            cals'[c].items[n] # cals[c].items[n] /\ cals'[c].items[n] # Nil
              => /\ cals'[c].items[n].revision > cals[c].rev
                 /\ cals'[c].items[n].revision <= cals'[c].rev
<1>1. IInv /\ [Next]_storeVars => [A]_storeVars
  <2> SUFFICES ASSUME IInv, Next, NEW c \in Calendars, SameIncarnation(c)
               PROVE
       /\ cals'[c].rev >= cals[c].rev
       /\ cals'[c].pruned >= cals[c].pruned
       /\ \A n \in Names :
            cals'[c].items[n] # cals[c].items[n] /\ cals'[c].items[n] # Nil
              => /\ cals'[c].items[n].revision > cals[c].rev
                 /\ cals'[c].items[n].revision <= cals'[c].rev
    OBVIOUS
  <2>1. StoreStep
    BY NextStep
  <2>2. Live(c) /\ cals'[c] # Nil /\ cals[c].rev \in Nat /\ cals[c].pruned \in Nat
    BY DEF SameIncarnation, IInv, CalendarInv, Calendar, Live
  <2>3. CASE cals'[c] = cals[c]
    BY <2>2, <2>3
  <2>4. CASE Rewritten(c)
    BY <2>4 DEF Rewritten, Advances
  <2> QED
    BY <2>1, <2>2, <2>3, <2>4 DEF StoreStep, Created
<1> QED
  BY <1>1, Invariance, PTL DEF Spec, RevisionsNameBytes

(* A calendar that appears uses up a CalendarID above all earlier ones. *)
THEOREM StoreIncarnationsNeverReturn == Spec => IncarnationsNeverReturn
<1> DEFINE A == /\ issued' >= issued
                /\ \A c \in Calendars :
                     Live(c)' /\ ~SameIncarnation(c)
                       => issued < cals'[c].id /\ cals'[c].id <= issued'
<1>1. IInv /\ [Next]_storeVars => [A]_storeVars
  <2> SUFFICES ASSUME IInv, Next
               PROVE  A
    OBVIOUS
  <2>1. StoreStep
    BY NextStep
  <2>2. issued \in Nat
    BY DEF IInv, TypeOK
  <2>3. issued' >= issued
    BY <2>1, <2>2 DEF StoreStep
  <2>4. ASSUME NEW c \in Calendars, cals'[c] # Nil, ~SameIncarnation(c)
        PROVE  issued < cals'[c].id /\ cals'[c].id <= issued'
    <3>1. ~Live(c) \/ cals'[c].id # cals[c].id
      BY <2>4 DEF SameIncarnation, Live
    <3>2. Created(c)
      BY <2>1, <2>4, <3>1 DEF StoreStep, Rewritten, Advances, Live
    <3>3. issued' = issued + 1
      BY <2>1, <3>2 DEF StoreStep
    <3> QED
      BY <2>2, <3>2, <3>3 DEF Created
  <2> QED
    BY <2>3, <2>4 DEF Live
<1> QED
  BY <1>1, Invariance, PTL DEF Spec, IncarnationsNeverReturn

---------------------------------------------------------------------------
(***************************************************************************)
(* What ListChanges answers, for every calendar, every position a client   *)
(* may resume from and every limit.  The limit ends a batch at the first   *)
(* full revision, and an item is reported as its last record left it: both *)
(* are choices of an extreme element, so they begin with the lemmas that   *)
(* there is one.                                                           *)
(***************************************************************************)

(* A set of naturals has a least element. *)
LEMMA NatMin ==
  ASSUME NEW S \in SUBSET Nat, S # {}
  PROVE  \E m \in S : \A x \in S : m <= x
<1> DEFINE R == OpToRel(<, Nat)
<1>1. IsWellFoundedOn(R, Nat)
  BY NatLessThanWellFounded
<1>3. \A a, b \in Nat : a < b => <<a, b>> \in R
  BY DEF OpToRel
<1> HIDE DEF R
<1>2. PICK m \in S : \A x \in S : ~(<<x, m>> \in R)
  BY <1>1, WFMin
<1>4. S \subseteq Nat /\ m \in Nat
  OBVIOUS
<1>5. \A x \in S : ~(x < m)
  BY <1>2, <1>3, <1>4
<1> QED
  BY <1>4, <1>5

(* A bounded one has a greatest. *)
LEMMA BoundedMax ==
  ASSUME NEW S \in SUBSET Nat, S # {}, NEW b \in Nat, \A x \in S : x <= b
  PROVE  \E m \in S : \A x \in S : x <= m
<1> DEFINE above == {u \in Nat : \A x \in S : x <= u}
<1>1. above \in SUBSET Nat /\ b \in above
  OBVIOUS
<1>2. PICK m \in above : \A u \in above : m <= u
  <2> HIDE DEF above
  <2> QED
    BY <1>1, NatMin
<1>3. CASE m \in S
  BY <1>2, <1>3
<1>4. CASE m \notin S
  <2>1. \A x \in S : x <= m /\ x # m
    BY <1>2, <1>4
  <2>2. m # 0
    <3>1. PICK x \in S : x \in Nat
      OBVIOUS
    <3> QED
      BY <2>1, <3>1
  <2>3. m - 1 \in above
    BY <1>2, <2>1, <2>2
  <2> QED
    BY <1>2, <2>3
<1> QED
  BY <1>3, <1>4

---------------------------------------------------------------------------

(* The batch tells of every name changed after "after" and up to what it   *)
(* covers, and of each as the last of those changes left it.               *)
Tells(cal, after, batch) ==
  /\ \A ch \in cal.log :
       after < ch.rev /\ ch.rev <= batch.coveredThrough
         => \E x \in batch.changes : x.item = ch.item
  /\ \A x \in batch.changes :
       \E ch \in cal.log :
         /\ ch.item = x.item /\ ch.deleted = x.deleted
         /\ after < ch.rev /\ ch.rev <= batch.coveredThrough
         /\ \A y \in cal.log :
              y.item = x.item /\ y.rev <= batch.coveredThrough => y.rev <= ch.rev

Covers(cal, after, batch) ==
  /\ batch.coveredThrough \in Nat
  /\ after <= batch.coveredThrough /\ batch.coveredThrough <= cal.rev
  /\ batch.hasMore => after < batch.coveredThrough
  /\ ~batch.hasMore => batch.coveredThrough = cal.rev

LEMMA ListChangesFacts ==
  ASSUME NEW cal \in Calendar, RevsBounded(cal),
         NEW after \in Nat, after <= cal.rev, NEW maxChanges
  PROVE  LET batch == ListChanges(cal, after, maxChanges) IN
         /\ Covers(cal, after, batch)
         /\ Tells(cal, after, batch)
         /\ \A x, y \in batch.changes : x.item = y.item => x = y
<1> DEFINE later == Later(cal, after)
           full == {ch \in later : /\ maxChanges > 0
                                   /\ Cardinality(Through(later, ch.rev)) >= maxChanges
                                   /\ Through(later, ch.rev) # later}
           hasMore == full # {}
           end == CHOOSE ch \in full : \A x \in full : ch.rev <= x.rev
           covered == IF hasMore THEN end.rev ELSE cal.rev
           picked == Through(later, covered)
           Last(n, ch) == ch \in picked /\ ch.item = n
                            /\ \A x \in picked : x.item = n => x.rev <= ch.rev
           LastOf(n) == CHOOSE ch \in picked :
                          /\ ch.item = n
                          /\ \A x \in picked : x.item = n => x.rev <= ch.rev
           changes == {[item |-> n, deleted |-> LastOf(n).deleted] :
                         n \in {ch.item : ch \in picked}}
           batch == ListChanges(cal, after, maxChanges)
<1>1. /\ batch.changes = changes
      /\ batch.coveredThrough = covered
      /\ batch.hasMore = hasMore
  BY DEF ListChanges
<1>2. cal.rev \in Nat /\ \A ch \in cal.log : ch.rev \in Nat /\ ch.rev <= cal.rev
  BY DEF Calendar, Change, RevsBounded
<1>3. \A ch : ch \in later <=> ch \in cal.log /\ after < ch.rev
  BY <1>2 DEF Later
<1>4. hasMore => end \in full /\ \A x \in full : end.rev <= x.rev
  <2> SUFFICES ASSUME hasMore
               PROVE  \E ch \in full : \A x \in full : ch.rev <= x.rev
    OBVIOUS
  <2> DEFINE revs == {x.rev : x \in full}
  <2>1. full \subseteq later
    OBVIOUS
  <2> HIDE DEF full, later
  <2>2. revs \in SUBSET Nat /\ revs # {}
    BY <1>2, <1>3, <2>1
  <2>3. PICK m \in revs : \A r \in revs : m <= r
    <3> HIDE DEF revs
    <3> QED
      BY <2>2, NatMin
  <2> QED
    BY <2>3
<1>5. hasMore => end \in later
  BY <1>4
<1>6. /\ covered \in Nat /\ after <= covered /\ covered <= cal.rev
      /\ hasMore => after < covered
      /\ ~hasMore => covered = cal.rev
  <2> HIDE DEF later, full, end
  <2> QED
    BY <1>2, <1>3, <1>5
<1>7. Covers(cal, after, batch)
  BY <1>1, <1>6 DEF Covers
<1> HIDE DEF later, full, hasMore, end, covered, batch
<1>8. \A ch : ch \in picked <=> ch \in cal.log /\ after < ch.rev /\ ch.rev <= covered
  BY <1>3 DEF Through
<1>9. ASSUME NEW n, \E ch \in picked : ch.item = n
      PROVE  Last(n, LastOf(n))
  <2> DEFINE revs == {x.rev : x \in {ch \in picked : ch.item = n}}
  <2> HIDE DEF picked
  <2>1. revs \in SUBSET Nat /\ revs # {} /\ \A r \in revs : r <= cal.rev
    BY <1>2, <1>8, <1>9
  <2>2. PICK m \in revs : \A r \in revs : r <= m
    <3> HIDE DEF revs
    <3> QED
      BY <1>2, <2>1, BoundedMax
  <2>3. PICK ch \in picked : ch.item = n /\ ch.rev = m
    OBVIOUS
  <2>4. \A x \in picked : x.item = n => x.rev <= ch.rev
    BY <2>2, <2>3
  <2> QED
    BY <2>3, <2>4
<1> HIDE DEF LastOf
<1>10. \A x : x \in changes <=>
         \E n \in {ch.item : ch \in picked} : x = [item |-> n, deleted |-> LastOf(n).deleted]
  OBVIOUS
<1>11. Tells(cal, after, batch)
  <2>1. ASSUME NEW ch \in cal.log, after < ch.rev, ch.rev <= covered
        PROVE  \E x \in changes : x.item = ch.item
    <3>1. ch \in picked
      BY <1>8, <2>1
    <3>2. [item |-> ch.item, deleted |-> LastOf(ch.item).deleted] \in changes
      BY <3>1
    <3> QED
      BY <3>2
  <2>2. ASSUME NEW x \in changes
        PROVE  \E ch \in cal.log :
                 /\ ch.item = x.item /\ ch.deleted = x.deleted
                 /\ after < ch.rev /\ ch.rev <= covered
                 /\ \A y \in cal.log :
                      y.item = x.item /\ y.rev <= covered => y.rev <= ch.rev
    <3>1. PICK n \in {ch.item : ch \in picked} : x = [item |-> n, deleted |-> LastOf(n).deleted]
      BY <1>10
    <3>2. Last(n, LastOf(n))
      BY <1>9, <3>1
    <3>3. x.item = n /\ x.deleted = LastOf(n).deleted
      BY <3>1
    <3>4. LastOf(n) \in cal.log /\ after < LastOf(n).rev /\ LastOf(n).rev <= covered
      BY <1>8, <3>2
    <3> DEFINE ch == LastOf(n)
    <3>5. ASSUME NEW y \in cal.log, y.item = n, y.rev <= covered
          PROVE  y.rev <= ch.rev
      <4>1. CASE after < y.rev
        BY <1>8, <3>2, <3>5, <4>1
      <4>2. CASE ~(after < y.rev)
        BY <1>2, <3>4, <4>2
      <4> QED
        BY <4>1, <4>2
    <3>6. ch.item = n
      BY <3>2
    <3> HIDE DEF ch
    <3> QED
      BY <3>3, <3>4, <3>5, <3>6 DEF ch
  <2> HIDE DEF changes
  <2> QED
    BY <1>1, <2>1, <2>2 DEF Tells
<1>12. \A x, y \in changes : x.item = y.item => x = y
  BY <1>10
<1> QED
  BY <1>1, <1>7, <1>11, <1>12 DEF batch

(* Every batch of the store passes the handler's validateChangeBatch, is   *)
(* complete up to what it covers, and a client that drains batches reaches *)
(* the calendar's revision.                                                *)
THEOREM StoreBatchesHonest == Spec => []BatchesHonest
<1>1. IInv => BatchesHonest
  <2> SUFFICES ASSUME IInv, NEW c \in Calendars, Live(c),
                      NEW after \in 0..cals[c].rev, NEW maxChanges \in 0..2
               PROVE  LET batch == ListChanges(cals[c], after, maxChanges) IN
                      /\ BatchHonest(cals[c], after, batch)
                      /\ ~batch.hasMore => batch.coveredThrough = cals[c].rev
                      /\ \A n \in Names :
                           (\E ch \in batch.changes : ch.item = n)
                             <=> \E ch \in cals[c].log :
                                   /\ ch.item = n
                                   /\ after < ch.rev
                                   /\ ch.rev <= batch.coveredThrough
    BY DEF BatchesHonest
  <2> DEFINE batch == ListChanges(cals[c], after, maxChanges)
  <2>1. cals[c] \in Calendar /\ RevsBounded(cals[c])
    BY LiveCalendar DEF CalendarInv
  <2>2. after \in Nat /\ after <= cals[c].rev
    BY <2>1 DEF Calendar
  <2>3. /\ Covers(cals[c], after, batch) /\ Tells(cals[c], after, batch)
        /\ \A x, y \in batch.changes : x.item = y.item => x = y
    BY <2>1, <2>2, ListChangesFacts
  <2> HIDE DEF batch
  <2>4. BatchHonest(cals[c], after, batch)
    BY <2>2, <2>3 DEF Covers, BatchHonest
  <2>5. ~batch.hasMore => batch.coveredThrough = cals[c].rev
    BY <2>3 DEF Covers
  <2>6. \A n \in Names :
          (\E ch \in batch.changes : ch.item = n)
            <=> \E ch \in cals[c].log :
                  /\ ch.item = n
                  /\ after < ch.rev
                  /\ ch.rev <= batch.coveredThrough
    BY <2>3 DEF Tells
  <2> QED
    BY <2>4, <2>5, <2>6 DEF batch
<1> QED
  BY <1>1, Invariance, PTL
=============================================================================
