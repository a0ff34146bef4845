--------------------------- MODULE CalendarStore ---------------------------
(***************************************************************************)
(* The in-memory calendar backend, caldavmem.Store.  One RWMutex covers    *)
(* the store, so every method is one atomic step: each is an action here,  *)
(* and what a method computes on one calendar is an operator on a calendar *)
(* record, so that a move is literally a removal followed by a store.      *)
(*                                                                         *)
(* A Go map is a total function with Nil for "no entry".  The change log   *)
(* is a set: each entry is appended right after the bump that gave it its  *)
(* revision, so revisions order the entries as the slice does.  Settings   *)
(* are one value; settings.Revision always equals rev and is rev here.     *)
(*                                                                         *)
(* A definition whose comment begins with "Mutant" is no part of the       *)
(* model: it is the definition below it with a plausible bug, which the    *)
(* properties must tell from the code.                                     *)
(***************************************************************************)
EXTENDS Naturals, FiniteSets

CONSTANTS
  Calendars,     \* CalendarRefs a calendar can be created at
  Accounts,      \* accounts that can own or view calendars
  Owner,         \* the account in each CalendarRef
  Names,         \* item names (Segments)
  ContentIDs,    \* what contents call themselves (iCalendar UIDs)
  Contents,      \* item bytes
  Settings,      \* display name, colour, ... of a calendar, as one value
  Nil,           \* absence of a map entry
  MaxRev,        \* model bound: highest revision of one incarnation
  MaxIssued      \* model bound: calendars ever created

VARIABLES
  cals,          \* CalendarRef -> calendar or Nil
  issued         \* how many CalendarIDs were handed out

storeVars == <<cals, issued>>

Item == [contentID: ContentIDs, content: Contents, revision: Nat]

Change == [rev: Nat, item: Names, deleted: BOOLEAN]

Calendar == [id: Nat,
             settings: Settings,
             items: [Names -> Item \cup {Nil}],
             byID: [ContentIDs -> Names \cup {Nil}],
             viewers: SUBSET Accounts,
             rev: Nat,
             log: SUBSET Change,
             pruned: Nat]

(***************************************************************************)
(* Nil is none of the values a map entry can hold.                         *)
(***************************************************************************)
ASSUME NilAssumption ==
  /\ Nil \notin Names
  /\ Nil \notin Item
  /\ Nil \notin Calendar
  /\ Nil \notin Nat

ASSUME BoundsAssumption == MaxRev \in Nat /\ MaxIssued \in Nat

ASSUME OwnerAssumption == Owner \in [Calendars -> Accounts]

---------------------------------------------------------------------------
(* Preconditions: what the client expects before its write applies.        *)

Unconditional == [kind |-> "unconditional", revs |-> {}]
IfTargetExists == [kind |-> "targetExists", revs |-> {}]
IfTargetMissing == [kind |-> "targetMissing", revs |-> {}]
IfRevision(revs) == [kind |-> "atRevision", revs |-> revs]
IfNotRevision(revs) == [kind |-> "notAtRevision", revs |-> revs]

(* current is the target's revision, Nil when there is no target. *)
Check(pre, current) ==
  CASE pre.kind = "unconditional" -> TRUE
    [] pre.kind = "targetExists"  -> current # Nil
    [] pre.kind = "targetMissing" -> current = Nil
    [] pre.kind = "atRevision"    -> current # Nil /\ current \in pre.revs
    [] pre.kind = "notAtRevision" -> current = Nil \/ current \notin pre.revs

CurrentRevision(item) == IF item = Nil THEN Nil ELSE item.revision

---------------------------------------------------------------------------
(* What the methods compute on one calendar.                               *)

Live(c) == cals[c] # Nil

(* Mutant: a new calendar's index is left as a nil map. *)
NewCalendar_NilIndex(id, settings) ==
  [id |-> id, settings |-> settings,
   items |-> [n \in Names |-> Nil], byID |-> Nil,
   viewers |-> {}, rev |-> 1, log |-> {}, pruned |-> 0]

(* Mutant: the CalendarID says which calendar, not which incarnation. *)
NewCalendar_FixedID(id, settings) ==
  [id |-> 1, settings |-> settings,
   items |-> [n \in Names |-> Nil], byID |-> [u \in ContentIDs |-> Nil],
   viewers |-> {}, rev |-> 1, log |-> {}, pruned |-> 0]

NewCalendar(id, settings) ==
  [id |-> id, settings |-> settings,
   items |-> [n \in Names |-> Nil],
   byID |-> [u \in ContentIDs |-> Nil],
   viewers |-> {},
   rev |-> 1,
   log |-> {}, pruned |-> 0]

(* Mutant: a replaced item's ContentID stays in the index. *)
Retired_Nothing(cal, n) == cal.byID

(* byID with the ContentID of the item at n retired. *)
Retired(cal, n) ==
  IF cal.items[n] = Nil
  THEN cal.byID
  ELSE [cal.byID EXCEPT ![cal.items[n].contentID] = Nil]

(* Mutant: a removal is logged as one more change. *)
Logged_NoTombstone(cal, n, deleted) ==
  cal.log \cup {[rev |-> cal.rev + 1, item |-> n, deleted |-> FALSE]}

(* bump and log append together. *)
Logged(cal, n, deleted) ==
  cal.log \cup {[rev |-> cal.rev + 1, item |-> n, deleted |-> deleted]}

(* Mutant: the item is stamped before the bump. *)
Stored_StaleRevision(cal, n, u, content) ==
  [cal EXCEPT
     !.rev = cal.rev + 1,
     !.items = [cal.items EXCEPT ![n] =
                  [contentID |-> u, content |-> content, revision |-> cal.rev]],
     !.byID = [Retired(cal, n) EXCEPT ![u] = n],
     !.log = Logged(cal, n, FALSE)]

Stored(cal, n, u, content) ==
  [cal EXCEPT
     !.rev = cal.rev + 1,
     !.items = [cal.items EXCEPT ![n] =
                  [contentID |-> u, content |-> content,
                   revision |-> cal.rev + 1]],
     !.byID = [Retired(cal, n) EXCEPT ![u] = n],
     !.log = Logged(cal, n, FALSE)]

Removed(cal, n) ==
  [cal EXCEPT
     !.rev = cal.rev + 1,
     !.items = [cal.items EXCEPT ![n] = Nil],
     !.byID = Retired(cal, n),
     !.log = Logged(cal, n, TRUE)]

(* Bumps the revision and logs nothing: no item changed. *)
Updated(cal, settings) ==
  [cal EXCEPT !.settings = settings, !.rev = cal.rev + 1]

(* Mutant: the record of the revision pruned to goes too. *)
Pruned_OneTooMany(cal, before) ==
  [cal EXCEPT !.log = {ch \in cal.log : ch.rev > before},
              !.pruned = IF before > cal.pruned THEN before ELSE cal.pruned]

(* Mutant: the records go and the calendar does not remember it. *)
Pruned_Silently(cal, before) ==
  [cal EXCEPT !.log = {ch \in cal.log : ch.rev >= before}]

Pruned(cal, before) ==
  [cal EXCEPT !.log = {ch \in cal.log : ch.rev >= before},
              !.pruned = IF before > cal.pruned THEN before ELSE cal.pruned]

Taken(cal, u, n) == cal.byID[u] # Nil /\ cal.byID[u] # n

---------------------------------------------------------------------------
(* Reads.                                                                  *)

CalendarPermissions(actor, c) ==
  CASE ~Live(c)                  -> "none"
    [] Live(c) /\ actor = Owner[c] -> "owner"
    [] Live(c) /\ actor # Owner[c] ->
         IF actor \in cals[c].viewers THEN "viewer" ELSE "none"

(* Mutant: the client's own position is reported again. *)
Later_OffByOne(cal, after) == {ch \in cal.log : ch.rev >= after}

Later(cal, after) == {ch \in cal.log : ch.rev > after}

Through(changes, rev) == {ch \in changes : ch.rev <= rev}

(* What happened to a calendar after a revision, or ErrHistoryTooOld (see  *)
(* below).  maxChanges = 0 is no limit.  The limit never splits a          *)
(* revision: the batch ends at the first revision where it holds           *)
(* maxChanges entries and others follow.  An item is reported once, as the *)
(* last entry of the batch left it.                                        *)
ListChanges(cal, after, maxChanges) ==
  LET later == Later(cal, after)
      full == {ch \in later : /\ maxChanges > 0
                              /\ Cardinality(Through(later, ch.rev)) >= maxChanges
                              /\ Through(later, ch.rev) # later}
      hasMore == full # {}
      covered == IF hasMore
                 THEN (CHOOSE ch \in full : \A x \in full : ch.rev <= x.rev).rev
                 ELSE cal.rev
      picked == Through(later, covered)
      LastOf(n) == CHOOSE ch \in picked :
                     /\ ch.item = n
                     /\ \A x \in picked : x.item = n => x.rev <= ch.rev
  IN [changes |-> {[item |-> n, deleted |-> LastOf(n).deleted] :
                     n \in {ch.item : ch \in picked}},
      coveredThrough |-> covered,
      hasMore |-> hasMore]

HistoryTooOld(cal, after) == after < cal.pruned \/ after > cal.rev

---------------------------------------------------------------------------
(* The errors of the methods that change items, in the order they are      *)
(* looked for; "nil" is success.                                           *)

(* Mutant: the precondition is not checked in the transaction. *)
StoreItemError_Unchecked(c, n, req) ==
  IF ~Live(c) THEN "ErrParentNotFound"
  ELSE IF Taken(cals[c], req.contentID, n) THEN "DuplicateContentIDError"
  ELSE "nil"

StoreItemError(c, n, req) ==
  IF ~Live(c) THEN "ErrParentNotFound"
  ELSE LET existing == cals[c].items[n] IN
       IF ~(IF existing # Nil THEN req.mayReplace ELSE req.mayCreate)
         THEN "ErrForbidden"
       ELSE IF ~Check(req.pre, CurrentRevision(existing))
         THEN "ErrPreconditionFailed"
       ELSE IF Taken(cals[c], req.contentID, n)
         THEN "DuplicateContentIDError"
       ELSE "nil"

DeleteItemError(c, n, pre) ==
  IF ~Live(c) THEN "ErrParentNotFound"
  ELSE LET existing == cals[c].items[n] IN
       IF ~Check(pre, CurrentRevision(existing)) THEN "ErrPreconditionFailed"
       ELSE IF existing = Nil THEN "ErrNotFound"
       ELSE "nil"

(* A move gives the source's identifier up, so renaming inside one         *)
(* calendar is not a collision with itself.                                *)
TransferError(src, s, dst, d, req, move) ==
  IF ~Live(src) \/ ~Live(dst) THEN "ErrParentNotFound"
  ELSE LET item == cals[src].items[s]
           existing == cals[dst].items[d] IN
       IF ~Check(req.source, CurrentRevision(item))
         THEN "ErrPreconditionFailed"
       ELSE IF item = Nil THEN "ErrNotFound"
       ELSE IF ~(IF existing # Nil THEN req.mayReplace ELSE req.mayCreate)
         THEN "ErrForbidden"
       ELSE IF ~Check(req.destination, CurrentRevision(existing))
         THEN "ErrPreconditionFailed"
       ELSE IF /\ <<src, s>> # <<dst, d>>
               /\ Taken(cals[dst], item.contentID, d)
               /\ ~(move /\ src = dst /\ cals[dst].byID[item.contentID] = s)
         THEN "DuplicateContentIDError"
       ELSE "nil"

---------------------------------------------------------------------------
(* Actions: one per method that changes the store, taken when the method   *)
(* succeeds.  A method that returns an error changes nothing.              *)

Room(c, k) == cals[c].rev + k <= MaxRev

CompareAndStoreItem(c, n, req) ==
  /\ StoreItemError(c, n, req) = "nil"
  /\ Room(c, 1)
  /\ cals' = [cals EXCEPT ![c] = Stored(cals[c], n, req.contentID, req.content)]
  /\ UNCHANGED issued

CompareAndDeleteItem(c, n, pre) ==
  /\ DeleteItemError(c, n, pre) = "nil"
  /\ Room(c, 1)
  /\ cals' = [cals EXCEPT ![c] = Removed(cals[c], n)]
  /\ UNCHANGED issued

CompareAndCopyItem(src, s, dst, d, req) ==
  /\ TransferError(src, s, dst, d, req, FALSE) = "nil"
  /\ <<src, s>> # <<dst, d>>
  /\ Room(dst, 1)
  /\ LET item == cals[src].items[s] IN
     cals' = [cals EXCEPT ![dst] =
                Stored(cals[dst], d, item.contentID, item.content)]
  /\ UNCHANGED issued

CompareAndMoveItem(src, s, dst, d, req) ==
  /\ TransferError(src, s, dst, d, req, TRUE) = "nil"
  /\ <<src, s>> # <<dst, d>>
  /\ Room(src, 1)
  /\ Room(dst, IF src = dst THEN 2 ELSE 1)
  /\ LET item == cals[src].items[s]
         without == [cals EXCEPT ![src] = Removed(cals[src], s)] IN
     cals' = [without EXCEPT ![dst] =
                Stored(without[dst], d, item.contentID, item.content)]
  /\ UNCHANGED issued

(* Mutant: the number of the CalendarID is not used up. *)
CompareAndCreateCalendar_ReusesID(c, settings, pre) ==
  /\ ~Live(c)
  /\ Check(pre, Nil)
  /\ issued < MaxIssued
  /\ UNCHANGED issued
  /\ cals' = [cals EXCEPT ![c] = NewCalendar(issued + 1, settings)]

(* Nothing holds the name, so Check sees no revision. *)
CompareAndCreateCalendar(c, settings, pre) ==
  /\ ~Live(c)
  /\ Check(pre, Nil)
  /\ issued < MaxIssued
  /\ issued' = issued + 1
  /\ cals' = [cals EXCEPT ![c] = NewCalendar(issued + 1, settings)]

CompareAndUpdateCalendar(c, settings, pre) ==
  /\ Live(c)
  /\ Check(pre, cals[c].rev)
  /\ Room(c, 1)
  /\ cals' = [cals EXCEPT ![c] = Updated(cals[c], settings)]
  /\ UNCHANGED issued

CompareAndDeleteCalendar(c, pre) ==
  /\ Live(c)
  /\ Check(pre, cals[c].rev)
  /\ cals' = [cals EXCEPT ![c] = Nil]
  /\ UNCHANGED issued

Share(c, account) ==
  /\ Live(c)
  /\ cals' = [cals EXCEPT ![c] =
                [cals[c] EXCEPT !.viewers = cals[c].viewers \cup {account}]]
  /\ UNCHANGED issued

(* before is the application's choice, and may lie beyond rev. *)
PruneHistory(c, before) ==
  /\ Live(c)
  /\ cals' = [cals EXCEPT ![c] = Pruned(cals[c], before)]
  /\ UNCHANGED issued

---------------------------------------------------------------------------
(* The store driven by arbitrary requests.                                 *)

CONSTANT Preconditions   \* the preconditions requests carry

StoreRequests ==
  [contentID: ContentIDs, content: Contents, pre: Preconditions,
   mayCreate: BOOLEAN, mayReplace: BOOLEAN]

TransferRequests ==
  [source: Preconditions, destination: Preconditions,
   mayCreate: BOOLEAN, mayReplace: BOOLEAN]

Init ==
  /\ cals = [c \in Calendars |-> Nil]
  /\ issued = 0

ItemNext ==
  \E c \in Calendars, n \in Names :
    \/ \E req \in StoreRequests : CompareAndStoreItem(c, n, req)
    \/ \E pre \in Preconditions : CompareAndDeleteItem(c, n, pre)
    \/ \E dst \in Calendars, d \in Names, req \in TransferRequests :
         \/ CompareAndCopyItem(c, n, dst, d, req)
         \/ CompareAndMoveItem(c, n, dst, d, req)

CalendarNext ==
  \E c \in Calendars :
    \/ \E settings \in Settings, pre \in Preconditions :
         \/ CompareAndCreateCalendar(c, settings, pre)
         \/ CompareAndUpdateCalendar(c, settings, pre)
    \/ \E pre \in Preconditions : CompareAndDeleteCalendar(c, pre)
    \/ \E before \in 0..MaxRev + 1 : PruneHistory(c, before)

SharingNext ==
  \E c \in Calendars, account \in Accounts : Share(c, account)

Next == ItemNext \/ CalendarNext \/ SharingNext

Spec == Init /\ [][Next]_storeVars

---------------------------------------------------------------------------
(* Properties.                                                             *)

(* Type invariant: the store holds calendars and counts its CalendarIDs.   *)
TypeOK ==
  /\ cals \in [Calendars -> Calendar \cup {Nil}]
  /\ issued \in Nat

IndexExact(cal) ==
  \A u \in ContentIDs, n \in Names :
    cal.byID[u] = n <=> cal.items[n] # Nil /\ cal.items[n].contentID = u

(* In every calendar byID is the exact inverse of the items' ContentIDs,   *)
(* through replacements that change an item's UID, renames, moves and      *)
(* deletions: no two items share a ContentID, none is missing from the     *)
(* index, and no retired ContentID stays taken.  (Backend obligation 2.)   *)
ContentIDIndexExact ==
  \A c \in Calendars : Live(c) => IndexExact(cals[c])

LastChange(cal, n, ch) ==
  /\ ch \in cal.log
  /\ ch.item = n
  /\ \A x \in cal.log : x.item = n => x.rev <= ch.rev

HistoryExplains(cal) ==
  \A n \in Names :
    /\ \A ch \in cal.log :
         LastChange(cal, n, ch) =>
           IF ch.deleted THEN cal.items[n] = Nil
           ELSE cal.items[n] # Nil /\ cal.items[n].revision = ch.rev
    /\ (cal.items[n] # Nil /\ cal.items[n].revision >= cal.pruned)
         => \E ch \in cal.log : LastChange(cal, n, ch)

(* The change log explains the items: the last record of a name says       *)
(* whether an item is there and at which revision, and an item changed at  *)
(* or after the pruned point has such a record.  Pruning, a move across    *)
(* calendars, or a delete followed by a re-creation must not break it.     *)
(* (Backend obligation 4: nothing can rebuild a lost record.)              *)
HistoryExplainsItems ==
  \A c \in Calendars : Live(c) => HistoryExplains(cals[c])

(* validateChangeBatch's contract, for a batch that answers "after". *)
BatchHonest(cal, after, batch) ==
  /\ batch.coveredThrough >= after
  /\ batch.hasMore => batch.coveredThrough > after
  /\ \A x, y \in batch.changes : x.item = y.item => x = y

(* Whatever position a client resumes from and whatever limit it asks for, *)
(* the batch passes the handler's validateChangeBatch, is never cut short  *)
(* of a change it claims to cover, and one without HasMore reaches the     *)
(* calendar's revision, so that a client draining batches terminates.      *)
BatchesHonest ==
  \A c \in Calendars : Live(c) =>
    \A after \in 0..cals[c].rev, maxChanges \in 0..2 :
      ~HistoryTooOld(cals[c], after) =>
        LET batch == ListChanges(cals[c], after, maxChanges) IN
        /\ BatchHonest(cals[c], after, batch)
        /\ ~batch.hasMore => batch.coveredThrough = cals[c].rev
        /\ \A n \in Names :
             (\E ch \in batch.changes : ch.item = n)
               <=> \E ch \in cals[c].log :
                     /\ ch.item = n
                     /\ after < ch.rev
                     /\ ch.rev <= batch.coveredThrough

(* No two live calendars share a CalendarID, and every ID was issued.      *)
IncarnationsDistinct ==
  \A c, d \in Calendars :
    Live(c) =>
      /\ cals[c].id \in 1..issued
      /\ Live(d) /\ cals[d].id = cals[c].id => c = d

SameIncarnation(c) == Live(c) /\ Live(c)' /\ cals[c].id = cals'[c].id

(* Within one incarnation no step lowers a revision, and whatever a step   *)
(* writes under a name gets a revision above every revision the calendar   *)
(* ever had: a revision is never given to two different contents, which is *)
(* what lets etagFor use it as a validator.                                *)
RevisionsNameBytes ==
  [][\A c \in Calendars : SameIncarnation(c) =>
       /\ cals'[c].rev >= cals[c].rev
       /\ cals'[c].pruned >= cals[c].pruned
       /\ \A n \in Names :
            cals'[c].items[n] # cals[c].items[n] /\ cals'[c].items[n] # Nil
              => /\ cals'[c].items[n].revision > cals[c].rev
                 /\ cals'[c].items[n].revision <= cals'[c].rev]_storeVars

(* A CalendarID once gone never comes back: a calendar that appears in a   *)
(* step takes an ID above every ID handed out before, and uses it up.      *)
IncarnationsNeverReturn ==
  [][/\ issued' >= issued
     /\ \A c \in Calendars :
          Live(c)' /\ ~SameIncarnation(c)
            => issued < cals'[c].id /\ cals'[c].id <= issued']_storeVars

=============================================================================
