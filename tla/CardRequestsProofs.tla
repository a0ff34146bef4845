------------------------- MODULE CardRequestsProofs -------------------------
(***************************************************************************)
(* Who changes a card, and what a conditional header guards: proved of     *)
(* CardRequests for every number of accounts, books, names and clients.    *)
(*                                                                         *)
(* The store behind the handlers is CalendarStore's on a map of books, so  *)
(* its invariant and what a step of it may do are the lemmas of its proof  *)
(* module, instantiated (Log). What is left is what the handlers carry     *)
(* from the permissions they read to the transaction: a request that may   *)
(* change a book was opened by its owner (RequestAuthorised), and no later *)
(* step, of the application sharing books for example, adds to it.         *)
(***************************************************************************)
EXTENDS CardRequests, TLAPS

Log == INSTANCE CalendarStoreProofs WITH Calendars <- Books, cals <- books

Editor(k, b) == AccountOf[k] = Owner[b]

RequestAuthorised(k, q) ==
  /\ q.op \in {"GET", "PUT", "DELETE", "COPY", "MOVE"} => q.ref \in Refs
  /\ q.op \in {"COPY", "MOVE"} => q.dst \in Refs
  /\ q.op = "DELETE BOOK" => q.book \in Books
  /\ q.op = "PUT" =>
       /\ q.body \in Contents
       /\ q.mayCreate \/ q.mayReplace => Editor(k, q.ref[1])
  /\ q.op \in {"DELETE", "MOVE"} => Editor(k, q.ref[1])
  /\ q.op \in {"COPY", "MOVE"} /\ (q.mayCreate \/ q.mayReplace) => Editor(k, q.dst[1])

RequestsAuthorised ==
  /\ req = [k \in Clients |-> req[k]]
  /\ \A k \in Clients : req[k] # Nil => RequestAuthorised(k, req[k])

CardInv == Log!IInv /\ RequestsAuthorised

---------------------------------------------------------------------------
(* The two instances of the store are one.                                 *)

LEMMA LogAssumptions ==
  /\ Nil \notin Names
  /\ Nil \notin Log!Item
  /\ Nil \notin Log!Calendar
  /\ Nil \notin Nat
  /\ MaxRev \in Nat /\ MaxIssued \in Nat
  /\ Owner \in [Books -> Accounts]
BY BooksAssumption
   DEF Log!Item, Log!Calendar, Log!Change, Store!Item, Store!Calendar, Store!Change

LEMMA StoreItemIsLog ==
  ASSUME NEW b, NEW n, NEW q, CompareAndStoreItem(b, n, q)
  PROVE  Log!CompareAndStoreItem(b, n, q)
BY DEF CompareAndStoreItem, Store!CompareAndStoreItem, Log!CompareAndStoreItem,
       Store!StoreItemError, Log!StoreItemError, Store!Room, Log!Room,
       Store!Live, Log!Live, Store!Check, Log!Check, Store!CurrentRevision,
       Log!CurrentRevision, Store!Taken, Log!Taken, Store!Stored, Log!Stored,
       Store!Retired, Log!Retired, Store!Logged, Log!Logged

LEMMA DeleteItemIsLog ==
  ASSUME NEW b, NEW n, NEW pre, CompareAndDeleteItem(b, n, pre)
  PROVE  Log!CompareAndDeleteItem(b, n, pre)
BY DEF CompareAndDeleteItem, Store!CompareAndDeleteItem, Log!CompareAndDeleteItem,
       Store!DeleteItemError, Log!DeleteItemError, Store!Room, Log!Room,
       Store!Live, Log!Live, Store!Check, Log!Check, Store!CurrentRevision,
       Log!CurrentRevision, Store!Removed, Log!Removed, Store!Retired, Log!Retired,
       Store!Logged, Log!Logged

LEMMA TransferIsLog ==
  ASSUME NEW src, NEW s, NEW dst, NEW d, NEW q
  PROVE  /\ CompareAndCopyItem(src, s, dst, d, q) => Log!CompareAndCopyItem(src, s, dst, d, q)
         /\ CompareAndMoveItem(src, s, dst, d, q) => Log!CompareAndMoveItem(src, s, dst, d, q)
BY DEF CompareAndCopyItem, Store!CompareAndCopyItem, Log!CompareAndCopyItem,
       CompareAndMoveItem, Store!CompareAndMoveItem, Log!CompareAndMoveItem,
       Store!TransferError, Log!TransferError, Store!Room, Log!Room,
       Store!Live, Log!Live, Store!Check, Log!Check, Store!CurrentRevision,
       Log!CurrentRevision, Store!Taken, Log!Taken, Store!Stored, Log!Stored,
       Store!Removed, Log!Removed, Store!Retired, Log!Retired, Store!Logged, Log!Logged

LEMMA BooksAreLog ==
  ASSUME NEW b, NEW settings, NEW pre, NEW account
  PROVE  /\ CompareAndCreateAddressBook(b, settings, pre)
              => Log!CompareAndCreateCalendar(b, settings, pre)
         /\ CompareAndUpdateAddressBook(b, settings, pre)
              => Log!CompareAndUpdateCalendar(b, settings, pre)
         /\ CompareAndDeleteAddressBook(b, pre) => Log!CompareAndDeleteCalendar(b, pre)
         /\ Share(b, account) => Log!Share(b, account)
BY DEF CompareAndCreateAddressBook, Store!CompareAndCreateCalendar,
       Log!CompareAndCreateCalendar, CompareAndUpdateAddressBook,
       Store!CompareAndUpdateCalendar, Log!CompareAndUpdateCalendar,
       CompareAndDeleteAddressBook, Store!CompareAndDeleteCalendar,
       Log!CompareAndDeleteCalendar, Share, Store!Share, Log!Share,
       Store!Live, Log!Live, Store!Check, Log!Check, Store!Room, Log!Room,
       Store!NewCalendar, Log!NewCalendar, Store!Updated, Log!Updated

---------------------------------------------------------------------------
(* What a method does to the items of a book.                              *)

LEMMA LiveBook ==
  ASSUME Log!IInv, NEW b \in Books, books[b] # Nil
  PROVE  /\ books[b] \in Log!Calendar
         /\ \A n \in Names : books[b].items[n] # Nil =>
              /\ books[b].items[n].contentID \in ContentIDs
              /\ books[b].items[n].content \in Contents
              /\ books[b].items[n].revision \in Nat
<1>1. books[b] \in Log!Calendar
  BY DEF Log!IInv, Log!TypeOK
<1>2. \A n \in Names : books[b].items[n] \in Log!Item \cup {Nil}
  BY <1>1 DEF Log!Calendar
<1> QED
  BY <1>1, <1>2 DEF Log!Item

(* An item method writes where its error was looked for, and needs the     *)
(* permission for what it finds there.                                     *)
LEMMA StoreItemWrites ==
  ASSUME Log!IInv, NEW b \in Books, NEW n \in Names, NEW q,
         q.contentID \in ContentIDs, q.content \in Contents,
         CompareAndStoreItem(b, n, q)
  PROVE  /\ Log!StoreStep
         /\ q.mayCreate \/ q.mayReplace
         /\ \A c \in Books : books'[c] # books[c] => c = b
<1>1. Log!StoreStep
  BY StoreItemIsLog, Log!StoreItemStep, LogAssumptions
<1>2. q.mayCreate \/ q.mayReplace
  BY DEF CompareAndStoreItem, Store!CompareAndStoreItem, Store!StoreItemError
<1>3. \A c \in Books : books'[c] # books[c] => c = b
  BY DEF CompareAndStoreItem, Store!CompareAndStoreItem, Log!IInv, Log!TypeOK
<1> QED
  BY <1>1, <1>2, <1>3

LEMMA DeleteItemWrites ==
  ASSUME Log!IInv, NEW b \in Books, NEW n \in Names, NEW pre,
         CompareAndDeleteItem(b, n, pre)
  PROVE  /\ Log!StoreStep
         /\ \A c \in Books : books'[c] # books[c] => c = b
<1>1. Log!StoreStep
  BY DeleteItemIsLog, Log!DeleteItemStep, LogAssumptions
<1>2. \A c \in Books : books'[c] # books[c] => c = b
  BY DEF CompareAndDeleteItem, Store!CompareAndDeleteItem, Log!IInv, Log!TypeOK
<1> QED
  BY <1>1, <1>2

LEMMA CopyItemWrites ==
  ASSUME Log!IInv, NEW src \in Books, NEW s \in Names, NEW dst \in Books,
         NEW d \in Names, NEW q, CompareAndCopyItem(src, s, dst, d, q)
  PROVE  /\ Log!StoreStep
         /\ q.mayCreate \/ q.mayReplace
         /\ \A c \in Books : books'[c] # books[c] => c = dst
<1>1. Log!StoreStep
  BY TransferIsLog, Log!CopyItemStep, LogAssumptions
<1>2. q.mayCreate \/ q.mayReplace
  BY DEF CompareAndCopyItem, Store!CompareAndCopyItem, Store!TransferError
<1>3. \A c \in Books : books'[c] # books[c] => c = dst
  BY DEF CompareAndCopyItem, Store!CompareAndCopyItem, Log!IInv, Log!TypeOK
<1> QED
  BY <1>1, <1>2, <1>3

LEMMA MoveItemWrites ==
  ASSUME Log!IInv, NEW src \in Books, NEW s \in Names, NEW dst \in Books,
         NEW d \in Names, NEW q, CompareAndMoveItem(src, s, dst, d, q)
  PROVE  /\ Log!StoreStep
         /\ q.mayCreate \/ q.mayReplace
         /\ \A c \in Books : books'[c] # books[c] => c = src \/ c = dst
<1>1. Log!StoreStep
  <2>1. Log!CompareAndMoveItem(src, s, dst, d, q)
    BY TransferIsLog
  <2>2. CASE src = dst
    BY <2>1, <2>2, Log!RenameStep, LogAssumptions
  <2>3. CASE src # dst
    BY <2>1, <2>3, Log!MoveAcrossStep, LogAssumptions
  <2> QED
    BY <2>2, <2>3
<1>2. q.mayCreate \/ q.mayReplace
  BY DEF CompareAndMoveItem, Store!CompareAndMoveItem, Store!TransferError
<1>3. \A c \in Books : books'[c] # books[c] => c = src \/ c = dst
  BY DEF CompareAndMoveItem, Store!CompareAndMoveItem, Log!IInv, Log!TypeOK
<1> QED
  BY <1>1, <1>2, <1>3

(* A method on a book leaves the items of the incarnations that last.      *)
ItemsStay ==
  \A c \in Books : books[c] # Nil /\ books'[c] # Nil => books'[c].items = books[c].items

LEMMA CreateBookStays ==
  ASSUME Log!IInv, NEW b \in Books, NEW settings \in Settings, NEW pre,
         CompareAndCreateAddressBook(b, settings, pre)
  PROVE  Log!StoreStep /\ ItemsStay
<1>1. Log!StoreStep
  BY BooksAreLog, Log!CreateCalendarStep, LogAssumptions
<1>2. ItemsStay
  BY DEF CompareAndCreateAddressBook, Store!CompareAndCreateCalendar, Store!Live,
         ItemsStay, Log!IInv, Log!TypeOK
<1> QED
  BY <1>1, <1>2

LEMMA UpdateBookStays ==
  ASSUME Log!IInv, NEW b \in Books, NEW settings \in Settings, NEW pre,
         CompareAndUpdateAddressBook(b, settings, pre)
  PROVE  Log!StoreStep /\ ItemsStay
<1>1. Log!StoreStep
  BY BooksAreLog, Log!UpdateCalendarStep, LogAssumptions
<1>2. /\ books[b] # Nil
      /\ books' = [books EXCEPT ![b] = Store!Updated(books[b], settings)]
  BY DEF CompareAndUpdateAddressBook, Store!CompareAndUpdateCalendar, Store!Live
<1>3. Store!Updated(books[b], settings).items = books[b].items
  BY <1>2, LiveBook DEF Store!Updated, Log!Calendar
<1>4. ItemsStay
  BY <1>2, <1>3 DEF ItemsStay, Log!IInv, Log!TypeOK
<1> QED
  BY <1>1, <1>4

LEMMA DeleteBookStays ==
  ASSUME Log!IInv, NEW b \in Books, NEW pre, CompareAndDeleteAddressBook(b, pre)
  PROVE  Log!StoreStep /\ ItemsStay
<1>1. Log!StoreStep
  BY BooksAreLog, Log!DeleteCalendarStep, LogAssumptions
<1>2. ItemsStay
  BY DEF CompareAndDeleteAddressBook, Store!CompareAndDeleteCalendar, ItemsStay,
         Log!IInv, Log!TypeOK
<1> QED
  BY <1>1, <1>2

LEMMA ShareStays ==
  ASSUME Log!IInv, NEW b \in Books, NEW account \in Accounts, Share(b, account)
  PROVE  Log!StoreStep /\ ItemsStay
<1> DEFINE new == [books[b] EXCEPT !.viewers = books[b].viewers \cup {account}]
<1>1. Log!StoreStep
  BY BooksAreLog, Log!ShareStep, LogAssumptions
<1>2. books[b] # Nil /\ books' = [books EXCEPT ![b] = new]
  BY DEF Share, Store!Share, Store!Live
<1>3. new.items = books[b].items
  BY <1>2, LiveBook DEF Log!Calendar
<1>4. ItemsStay
  BY <1>2, <1>3 DEF ItemsStay, Log!IInv, Log!TypeOK
<1> QED
  BY <1>1, <1>4

---------------------------------------------------------------------------
(* The handlers.                                                           *)

(* A change of a book's cards is a request of its owner taking effect. *)
EditorsOnly ==
  \A b \in Books :
    SameIncarnation(b) /\ books'[b].items # books[b].items =>
      \E k \in Clients : Applied(k) /\ AccountOf[k] = Owner[b]

LEMMA PermissionsFacts ==
  ASSUME NEW k \in Clients, NEW b \in Books
  PROVE  LET perms == Perms(k, b) IN
         perms.create \/ perms.replace \/ perms.delete => Editor(k, b)
BY DEF Perms, AddressBookPermissions, OwnerPermissions, ViewOnlyPermissions,
       NoPermissions, Editor

LEMMA StandStep ==
  ASSUME CardInv, books' = books, issued' = issued
  PROVE  Log!StoreStep /\ EditorsOnly
<1>1. Log!StoreStep
  BY Log!StandingStep, LogAssumptions DEF CardInv, Log!storeVars
<1> QED
  BY <1>1 DEF EditorsOnly

LEMMA OpenStep ==
  ASSUME CardInv, NEW k \in Clients, NEW request, Open(k, request),
         RequestAuthorised(k, request)
  PROVE  Log!StoreStep /\ EditorsOnly /\ RequestsAuthorised'
<1>1. req' = [req EXCEPT ![k] = request] /\ books' = books /\ issued' = issued
  BY DEF Open
<1>2. req = [j \in Clients |-> req[j]]
  BY DEF CardInv, RequestsAuthorised
<1>3. /\ req' = [j \in Clients |-> req'[j]]
      /\ \A j \in Clients : req'[j] = IF j = k THEN request ELSE req[j]
  BY <1>1, <1>2
<1>4. RequestsAuthorised'
  BY <1>3 DEF CardInv, RequestsAuthorised
<1> QED
  BY <1>1, <1>4, StandStep

LEMMA DoneStep ==
  ASSUME RequestsAuthorised, NEW k \in Clients, Done(k)
  PROVE  /\ RequestsAuthorised'
         /\ req'[k] = Nil
         /\ \A j \in Clients \ {k} : req'[j] = req[j]
<1>1. req = [j \in Clients |-> req[j]] /\ req' = [req EXCEPT ![k] = Nil]
  BY DEF RequestsAuthorised, Done
<1>2. /\ req' = [j \in Clients |-> req'[j]]
      /\ \A j \in Clients : req'[j] = IF j = k THEN Nil ELSE req[j]
  BY <1>1
<1> QED
  BY <1>2 DEF RequestsAuthorised

LEMMA OpenNextStep ==
  ASSUME CardInv, NEW k \in Clients, OpenNext(k)
  PROVE  Log!StoreStep /\ EditorsOnly /\ RequestsAuthorised'
<1> PICK r \in Refs :
      \/ OpenGet(k, r)
      \/ \E h \in HeadersOf(k, r) :
           \/ \E body \in Contents : OpenPut(k, r, body, h)
           \/ OpenDelete(k, r, h)
           \/ \E op \in {"COPY", "MOVE"}, dst \in Refs \ {r}, overwrite \in BOOLEAN :
                OpenTransfer(k, op, r, dst, h, overwrite)
  BY DEF OpenNext
<1>0. r[1] \in Books /\ r[2] \in Names
  BY DEF Refs
<1>1. CASE OpenGet(k, r)
  <2> DEFINE request == [op |-> "GET", ref |-> r, rev |-> GetItem(r[1], r[2]).revision]
  <2>1. RequestAuthorised(k, request)
    BY DEF RequestAuthorised
  <2> QED
    BY <1>1, <2>1, OpenStep DEF OpenGet
<1>2. ASSUME NEW h \in HeadersOf(k, r), NEW body \in Contents, OpenPut(k, r, body, h)
      PROVE  Log!StoreStep /\ EditorsOnly /\ RequestsAuthorised'
  <2> DEFINE perms == Perms(k, r[1])
             request == [op |-> "PUT", ref |-> r, headers |-> h, body |-> body,
                         scope |-> books[r[1]].id,
                         mayCreate |-> perms.create, mayReplace |-> perms.replace]
  <2>1. perms.create \/ perms.replace => Editor(k, r[1])
    BY <1>0, PermissionsFacts
  <2>2. RequestAuthorised(k, request)
    BY <2>1 DEF RequestAuthorised
  <2> QED
    BY <1>2, <2>2, OpenStep DEF OpenPut
<1>3. ASSUME NEW h \in HeadersOf(k, r), OpenDelete(k, r, h)
      PROVE  Log!StoreStep /\ EditorsOnly /\ RequestsAuthorised'
  <2> DEFINE request == [op |-> "DELETE", ref |-> r, headers |-> h,
                         scope |-> books[r[1]].id]
  <2>1. Editor(k, r[1])
    BY <1>0, <1>3, PermissionsFacts DEF OpenDelete
  <2>2. RequestAuthorised(k, request)
    BY <2>1 DEF RequestAuthorised
  <2> QED
    BY <1>3, <2>2, OpenStep DEF OpenDelete
<1>4. ASSUME NEW h \in HeadersOf(k, r), NEW op \in {"COPY", "MOVE"},
             NEW dst \in Refs \ {r}, NEW overwrite \in BOOLEAN,
             OpenTransfer(k, op, r, dst, h, overwrite)
      PROVE  Log!StoreStep /\ EditorsOnly /\ RequestsAuthorised'
  <2> DEFINE perms == DestinationPerms(k, r[1], dst[1])
             request == [op |-> op, ref |-> r, dst |-> dst, headers |-> h,
                         overwrite |-> overwrite, scope |-> books[r[1]].id,
                         mayCreate |-> perms.create, mayReplace |-> perms.replace]
  <2>1. dst[1] \in Books
    BY DEF Refs
  <2>2. op = "MOVE" => Editor(k, r[1])
    BY <1>0, <1>4, PermissionsFacts DEF OpenTransfer, SourcePermits
  <2>3. perms = Perms(k, dst[1])
    BY <1>4 DEF OpenTransfer, DestinationPerms
  <2>4. perms.create \/ perms.replace => Editor(k, dst[1])
    BY <2>1, <2>3, PermissionsFacts
  <2>5. RequestAuthorised(k, request)
    BY <2>2, <2>4 DEF RequestAuthorised
  <2> QED
    BY <1>4, <2>5, OpenStep DEF OpenTransfer
<1> QED
  BY <1>1, <1>2, <1>3, <1>4

LEMMA ServeNextStep ==
  ASSUME CardInv, NEW k \in Clients, ServeNext(k)
  PROVE  Log!StoreStep /\ EditorsOnly /\ RequestsAuthorised'
<1> DEFINE q == req[k]
<1>1. Done(k) /\ q # Nil
  BY DEF ServeNext, HeadGet, Put, Delete, Transfer, DeleteBook, Refused, Serving, Idle
<1>2. RequestAuthorised(k, q) /\ RequestsAuthorised' /\ req'[k] = Nil
  BY <1>1, DoneStep DEF CardInv, RequestsAuthorised
<1>3. Log!IInv
  BY DEF CardInv
<1>4. CASE HeadGet(k) \/ Refused(k)
  BY <1>2, <1>4, StandStep DEF HeadGet, Refused, bookVars
<1>5. ASSUME Log!StoreStep,
             \A b \in Books : books'[b] # books[b] => Editor(k, b)
      PROVE  Log!StoreStep /\ EditorsOnly
  BY <1>1, <1>2, <1>5 DEF EditorsOnly, Applied, Editor
<1>6. CASE Put(k)
  <2>1. q.op = "PUT" /\ CompareAndStoreItem(q.ref[1], q.ref[2], PutRequest(q))
    BY <1>6 DEF Put, Serving
  <2>2. q.ref[1] \in Books /\ q.ref[2] \in Names /\ q.body \in Contents
    BY <1>2, <2>1 DEF RequestAuthorised, Refs
  <2>3. /\ PutRequest(q).contentID \in ContentIDs /\ PutRequest(q).content \in Contents
        /\ PutRequest(q).mayCreate = q.mayCreate /\ PutRequest(q).mayReplace = q.mayReplace
    BY <2>2, CardRequestsAssumption DEF PutRequest
  <2>4. /\ Log!StoreStep
        /\ PutRequest(q).mayCreate \/ PutRequest(q).mayReplace
        /\ \A b \in Books : books'[b] # books[b] => b = q.ref[1]
    BY <1>3, <2>1, <2>2, <2>3, StoreItemWrites
  <2>5. Editor(k, q.ref[1])
    BY <1>2, <2>1, <2>3, <2>4 DEF RequestAuthorised
  <2> QED
    BY <1>2, <1>5, <2>4, <2>5
<1>7. CASE Delete(k)
  <2>1. /\ q.op = "DELETE"
        /\ CompareAndDeleteItem(q.ref[1], q.ref[2], PreconditionsFrom(q.scope, q.headers))
    BY <1>7 DEF Delete, Serving
  <2>2. q.ref[1] \in Books /\ q.ref[2] \in Names /\ Editor(k, q.ref[1])
    BY <1>2, <2>1 DEF RequestAuthorised, Refs
  <2>3. Log!StoreStep /\ \A b \in Books : books'[b] # books[b] => b = q.ref[1]
    BY <1>3, <2>1, <2>2, DeleteItemWrites
  <2> QED
    BY <1>2, <1>5, <2>2, <2>3
<1>8. CASE Transfer(k)
  <2> DEFINE t == TransferRequest(q)
  <2>1. q.op \in {"COPY", "MOVE"}
    BY <1>8 DEF Transfer, Serving
  <2>2. /\ q.ref[1] \in Books /\ q.ref[2] \in Names
        /\ q.dst[1] \in Books /\ q.dst[2] \in Names
        /\ q.op = "MOVE" => Editor(k, q.ref[1])
        /\ q.mayCreate \/ q.mayReplace => Editor(k, q.dst[1])
    BY <1>2, <2>1 DEF RequestAuthorised, Refs
  <2>3. t.mayCreate = q.mayCreate /\ t.mayReplace = q.mayReplace
    BY DEF TransferRequest
  <2>4. CASE q.op = "MOVE"
    <3>1. CompareAndMoveItem(q.ref[1], q.ref[2], q.dst[1], q.dst[2], t)
      BY <1>8, <2>4 DEF Transfer
    <3>2. /\ Log!StoreStep
          /\ t.mayCreate \/ t.mayReplace
          /\ \A b \in Books : books'[b] # books[b] => b = q.ref[1] \/ b = q.dst[1]
      BY <1>3, <2>2, <3>1, MoveItemWrites
    <3> QED
      BY <1>2, <1>5, <2>2, <2>3, <2>4, <3>2
  <2>5. CASE q.op = "COPY"
    <3>1. CompareAndCopyItem(q.ref[1], q.ref[2], q.dst[1], q.dst[2], t)
      BY <1>8, <2>5 DEF Transfer
    <3>2. /\ Log!StoreStep
          /\ t.mayCreate \/ t.mayReplace
          /\ \A b \in Books : books'[b] # books[b] => b = q.dst[1]
      BY <1>3, <2>2, <3>1, CopyItemWrites
    <3> QED
      BY <1>2, <1>5, <2>2, <2>3, <3>2
  <2> QED
    BY <2>1, <2>4, <2>5
<1>9. CASE DeleteBook(k)
  <2>1. /\ q.op = "DELETE BOOK"
        /\ CompareAndDeleteAddressBook(q.book, PreconditionsFrom(q.scope, q.headers))
    BY <1>9 DEF DeleteBook, Serving
  <2>2. Log!StoreStep /\ ItemsStay
    BY <1>2, <1>3, <2>1, DeleteBookStays DEF RequestAuthorised
  <2> QED
    BY <1>2, <2>2 DEF EditorsOnly, ItemsStay, SameIncarnation, Store!SameIncarnation,
       Store!Live
<1> QED
  BY <1>4, <1>6, <1>7, <1>8, <1>9 DEF ServeNext

LEMMA BookNextStep ==
  ASSUME CardInv, NEW k \in Clients, BookNext(k)
  PROVE  Log!StoreStep /\ EditorsOnly /\ RequestsAuthorised'
<1> USE DEF CardInv
<1> PICK b \in Books :
      \/ \E settings \in Settings : Mkcol(k, b, settings) \/ PropPatch(k, b, settings)
      \/ OpenDeleteBook(k, b, [kind |-> "none", tags |-> {}])
  BY DEF BookNext
<1>1. ASSUME Log!StoreStep, ItemsStay, req' = req
      PROVE  Log!StoreStep /\ EditorsOnly /\ RequestsAuthorised'
  BY <1>1 DEF EditorsOnly, ItemsStay, SameIncarnation, Store!SameIncarnation,
     Store!Live, RequestsAuthorised
<1>2. ASSUME NEW settings \in Settings, Mkcol(k, b, settings)
      PROVE  Log!StoreStep /\ EditorsOnly /\ RequestsAuthorised'
  BY <1>1, <1>2, CreateBookStays DEF Mkcol
<1>3. ASSUME NEW settings \in Settings, PropPatch(k, b, settings)
      PROVE  Log!StoreStep /\ EditorsOnly /\ RequestsAuthorised'
  BY <1>1, <1>3, UpdateBookStays DEF PropPatch
<1>4. CASE OpenDeleteBook(k, b, [kind |-> "none", tags |-> {}])
  <2> DEFINE request == [op |-> "DELETE BOOK", book |-> b,
                         headers |-> [kind |-> "none", tags |-> {}],
                         scope |-> books[b].id]
  <2>1. RequestAuthorised(k, request)
    BY DEF RequestAuthorised
  <2> QED
    BY <1>4, <2>1, OpenStep DEF OpenDeleteBook
<1> QED
  BY <1>2, <1>3, <1>4

LEMMA CardStep ==
  ASSUME CardInv, [CardNext]_cardVars
  PROVE  Log!StoreStep /\ EditorsOnly /\ RequestsAuthorised'
<1>1. CASE \E k \in Clients : OpenNext(k) \/ ServeNext(k) \/ BookNext(k)
  BY <1>1, OpenNextStep, ServeNextStep, BookNextStep
<1>2. CASE Sharing
  <2>1. Log!StoreStep /\ ItemsStay /\ req' = req
    BY <1>2, ShareStays DEF Sharing, CardInv
  <2> QED
    BY <2>1 DEF EditorsOnly, ItemsStay, SameIncarnation, Store!SameIncarnation,
       Store!Live, CardInv, RequestsAuthorised
<1>3. CASE UNCHANGED cardVars
  <2>1. books' = books /\ issued' = issued /\ req' = req
    BY <1>3 DEF cardVars
  <2> QED
    BY <2>1, StandStep DEF CardInv, RequestsAuthorised
<1> QED
  BY <1>1, <1>2, <1>3 DEF CardNext

LEMMA CardInitInv == CardInit => CardInv
<1> SUFFICES ASSUME CardInit PROVE CardInv
  OBVIOUS
<1>1. Log!Init
  BY DEF CardInit, Init, Store!Init, Log!Init
<1>2. Log!IInv
  BY <1>1, Log!InitInv, LogAssumptions
<1> QED
  BY <1>2 DEF CardInit, CardInv, RequestsAuthorised

LEMMA CardStepInv ==
  ASSUME CardInv, [CardNext]_cardVars
  PROVE  CardInv'
<1>1. Log!StoreStep /\ RequestsAuthorised'
  BY CardStep
<1>2. Log!IInv'
  BY <1>1, Log!StepInv, LogAssumptions DEF CardInv
<1> QED
  BY <1>1, <1>2 DEF CardInv

LEMMA CardInvariance == CardSpec => []CardInv
BY CardInitInv, CardStepInv, PTL DEF CardSpec

(* Only an account that owns a book changes its cards.                     *)
THEOREM OnlyOwnersChangeCards == CardSpec => OnlyEditorsChangeItems
<1>1. CardInv /\ [CardNext]_cardVars => EditorsOnly
  BY CardStep
<1> QED
  BY <1>1, CardInvariance, PTL DEF CardSpec, OnlyEditorsChangeItems, EditorsOnly

---------------------------------------------------------------------------
(* Conditional headers.                                                    *)

Guarded(h, scope, item) ==
  /\ h.kind = "ifMatch" =>
       \E t \in h.tags : t.id = scope /\ item # Nil /\ item.revision = t.rev
  /\ h.kind = "ifMatchAny" => item # Nil
  /\ h.kind = "ifNoneMatchAny" => item = Nil
  /\ h.kind = "ifNoneMatch" =>
       \A t \in h.tags : t.id = scope => item = Nil \/ item.revision # t.rev

LEMMA MissingTarget ==
  ASSUME NEW item, item # Nil => item.revision # Nil,
         Store!Check(Store!IfTargetMissing, Store!CurrentRevision(item))
  PROVE  item = Nil
<1>1. Store!CurrentRevision(item) = Nil
  BY DEF Store!Check, Store!IfTargetMissing
<1> QED
  BY <1>1 DEF Store!CurrentRevision

(* What the transaction's check says of the item it finds. *)
LEMMA CheckGuards ==
  ASSUME NEW h, NEW scope, NEW item, item # Nil => item.revision # Nil,
         Store!Check(PreconditionsFrom(scope, h), Store!CurrentRevision(item))
  PROVE  Guarded(h, scope, item)
<1>1. CASE h.kind = "ifMatch"
  <2>1. PreconditionsFrom(scope, h) = Store!IfRevision(RevisionsIn(scope, h.tags))
    BY <1>1 DEF PreconditionsFrom
  <2>2. /\ Store!CurrentRevision(item) # Nil
        /\ Store!CurrentRevision(item) \in RevisionsIn(scope, h.tags)
    BY <2>1 DEF Store!Check, Store!IfRevision
  <2>3. item # Nil /\ item.revision \in RevisionsIn(scope, h.tags)
    BY <2>2 DEF Store!CurrentRevision
  <2> QED
    BY <1>1, <2>3 DEF Guarded, RevisionsIn
<1>2. CASE h.kind = "ifNoneMatchAny"
  <2>1. PreconditionsFrom(scope, h) = Store!IfTargetMissing
    BY <1>2 DEF PreconditionsFrom
  <2> QED
    BY <1>2, <2>1, MissingTarget DEF Guarded
<1>3. CASE h.kind = "ifMatchAny"
  <2>1. PreconditionsFrom(scope, h) = Store!IfTargetExists
    BY <1>3 DEF PreconditionsFrom
  <2>2. item # Nil
    BY <2>1 DEF Store!Check, Store!IfTargetExists, Store!CurrentRevision
  <2> QED
    BY <1>3, <2>2 DEF Guarded
<1>4. CASE h.kind = "ifNoneMatch"
  <2>1. PreconditionsFrom(scope, h) = Store!IfNotRevision(RevisionsIn(scope, h.tags))
    BY <1>4 DEF PreconditionsFrom
  <2>2. \/ Store!CurrentRevision(item) = Nil
        \/ Store!CurrentRevision(item) \notin RevisionsIn(scope, h.tags)
    BY <2>1 DEF Store!Check, Store!IfNotRevision
  <2>3. item = Nil \/ item.revision \notin RevisionsIn(scope, h.tags)
    BY <2>2 DEF Store!CurrentRevision
  <2> QED
    BY <1>4, <2>3 DEF Guarded, RevisionsIn
<1> QED
  BY <1>1, <1>2, <1>3, <1>4 DEF Guarded

LEMMA ItemFound ==
  ASSUME Log!IInv, NEW b \in Books, NEW n \in Names
  PROVE  /\ Store!Live(b) => GetItem(b, n) = books[b].items[n]
         /\ GetItem(b, n) # Nil => GetItem(b, n).revision # Nil
BY LiveBook, LogAssumptions DEF GetItem, Live, Store!Live

(* The step in which k's request takes effect is k's.                      *)
LEMMA AppliedIsServed ==
  ASSUME CardInv, CardNext, NEW k \in Clients, Applied(k)
  PROVE  Put(k) \/ Delete(k) \/ Transfer(k) \/ DeleteBook(k)
<1>1. req[k] # Nil /\ req'[k] = Nil /\ books' # books
  BY DEF Applied
<1>2. ASSUME NEW j \in Clients, OpenNext(j) \/ BookNext(j)
      PROVE  FALSE
  <2>1. books' = books \/ req' = req
    <3>1. CASE OpenNext(j)
      BY <3>1 DEF OpenNext, OpenGet, OpenPut, OpenDelete, OpenTransfer, Open
    <3>2. CASE BookNext(j)
      BY <3>2 DEF BookNext, Mkcol, PropPatch, OpenDeleteBook, Open
    <3> QED
      BY <1>2, <3>1, <3>2
  <2> QED
    BY <1>1, <2>1
<1>3. ~Sharing
  BY <1>1 DEF Sharing
<1>4. PICK j \in Clients : ServeNext(j)
  BY <1>2, <1>3 DEF CardNext
<1>5. Done(j)
  BY <1>4 DEF ServeNext, HeadGet, Put, Delete, Transfer, DeleteBook, Refused
<1>6. j = k
  BY <1>1, <1>5, DoneStep DEF CardInv
<1>7. ~HeadGet(k) /\ ~Refused(k)
  BY <1>1 DEF HeadGet, Refused, bookVars
<1> QED
  BY <1>4, <1>6, <1>7 DEF ServeNext

LEMMA AppliedIsGuarded ==
  ASSUME CardInv, CardNext, NEW k \in Clients, Applied(k),
         req[k].op \in {"PUT", "DELETE", "COPY", "MOVE"}
  PROVE  LET q == req[k] IN
         /\ Guarded(q.headers, q.scope, GetItem(q.ref[1], q.ref[2]))
         /\ q.op \in {"COPY", "MOVE"} /\ ~q.overwrite => GetItem(q.dst[1], q.dst[2]) = Nil
<1> DEFINE q == req[k]
           pre == PreconditionsFrom(q.scope, q.headers)
           item == GetItem(q.ref[1], q.ref[2])
<1>1. RequestAuthorised(k, q) /\ Log!IInv
  BY DEF Applied, CardInv, RequestsAuthorised
<1>2. q.ref[1] \in Books /\ q.ref[2] \in Names
  BY <1>1 DEF RequestAuthorised, Refs
<1>3. /\ Store!Live(q.ref[1]) => item = books[q.ref[1]].items[q.ref[2]]
      /\ item # Nil => item.revision # Nil
  BY <1>1, <1>2, ItemFound
<1>4. CASE q.op = "PUT"
  <2>1. /\ CompareAndStoreItem(q.ref[1], q.ref[2], PutRequest(q))
        /\ PutRequest(q).pre = pre
    BY <1>4, AppliedIsServed DEF Put, Delete, Transfer, DeleteBook, Serving, PutRequest
  <2>2. /\ Store!Live(q.ref[1])
        /\ Store!Check(pre, Store!CurrentRevision(books[q.ref[1]].items[q.ref[2]]))
    BY <2>1 DEF CompareAndStoreItem, Store!CompareAndStoreItem, Store!StoreItemError
  <2>3. Guarded(q.headers, q.scope, item)
    BY <1>3, <2>2, CheckGuards
  <2> QED
    BY <1>4, <2>3
<1>5. CASE q.op = "DELETE"
  <2>1. CompareAndDeleteItem(q.ref[1], q.ref[2], pre)
    BY <1>5, AppliedIsServed DEF Put, Delete, Transfer, DeleteBook, Serving
  <2>2. /\ Store!Live(q.ref[1])
        /\ Store!Check(pre, Store!CurrentRevision(books[q.ref[1]].items[q.ref[2]]))
    BY <2>1 DEF CompareAndDeleteItem, Store!CompareAndDeleteItem, Store!DeleteItemError
  <2>3. Guarded(q.headers, q.scope, item)
    BY <1>3, <2>2, CheckGuards
  <2> QED
    BY <1>5, <2>3
<1>6. CASE q.op \in {"COPY", "MOVE"}
  <2> DEFINE t == TransferRequest(q)
             there == GetItem(q.dst[1], q.dst[2])
             Judged(move) ==
               Store!TransferError(q.ref[1], q.ref[2], q.dst[1], q.dst[2], t, move) = "nil"
  <2>1. Judged(TRUE) \/ Judged(FALSE)
    BY <1>6, AppliedIsServed DEF Put, Delete, Transfer, DeleteBook, Serving,
       CompareAndMoveItem, CompareAndCopyItem, Store!CompareAndMoveItem,
       Store!CompareAndCopyItem
  <2>2. /\ Store!Live(q.ref[1]) /\ Store!Live(q.dst[1])
        /\ Store!Check(t.source, Store!CurrentRevision(books[q.ref[1]].items[q.ref[2]]))
        /\ Store!Check(t.destination,
                       Store!CurrentRevision(books[q.dst[1]].items[q.dst[2]]))
    BY <2>1 DEF Store!TransferError
  <2>3. /\ t.source = pre
        /\ ~q.overwrite => t.destination = Store!IfTargetMissing
    BY DEF TransferRequest
  <2>4. Guarded(q.headers, q.scope, item)
    BY <1>3, <2>2, <2>3, CheckGuards
  <2>5. /\ there = books[q.dst[1]].items[q.dst[2]]
        /\ there # Nil => there.revision # Nil
    <3>1. q.dst[1] \in Books /\ q.dst[2] \in Names
      BY <1>1, <1>6 DEF RequestAuthorised, Refs
    <3> QED
      BY <1>1, <2>2, <3>1, ItemFound
  <2>6. ASSUME ~q.overwrite
        PROVE  there = Nil
    <3>1. Store!Check(Store!IfTargetMissing, Store!CurrentRevision(there))
      BY <2>2, <2>3, <2>5, <2>6
    <3> QED
      BY <2>5, <3>1, MissingTarget
  <2> QED
    BY <2>4, <2>6
<1> QED
  BY <1>4, <1>5, <1>6

(* No update is lost in an incarnation, whichever books a transfer joins.  *)
THEOREM NoCardUpdateIsLost == CardSpec => CardNoLostUpdate
<1>1. CardInv /\ [CardNext]_cardVars =>
        (\A k \in Clients :
           /\ Applied(k)
           /\ req[k].op \in {"PUT", "DELETE", "COPY", "MOVE"}
           /\ books[req[k].ref[1]].id = req[k].scope
           => LET q == req[k] h == q.headers item == GetItem(q.ref[1], q.ref[2]) IN
              /\ h.kind = "ifMatch" =>
                   \E t \in h.tags : t.id = q.scope /\ item # Nil /\ item.revision = t.rev
              /\ h.kind = "ifMatchAny" => item # Nil
              /\ h.kind = "ifNoneMatchAny" => item = Nil
              /\ h.kind = "ifNoneMatch" =>
                   \A t \in h.tags : t.id = q.scope => item = Nil \/ item.revision # t.rev
              /\ q.op \in {"COPY", "MOVE"} /\ ~q.overwrite =>
                   GetItem(q.dst[1], q.dst[2]) = Nil)
  <2> SUFFICES ASSUME CardInv, [CardNext]_cardVars, NEW k \in Clients, Applied(k),
                      req[k].op \in {"PUT", "DELETE", "COPY", "MOVE"}
               PROVE  LET q == req[k] IN
                      /\ Guarded(q.headers, q.scope, GetItem(q.ref[1], q.ref[2]))
                      /\ q.op \in {"COPY", "MOVE"} /\ ~q.overwrite =>
                           GetItem(q.dst[1], q.dst[2]) = Nil
    BY DEF Guarded
  <2>1. CardNext
    BY DEF Applied, cardVars
  <2> QED
    BY <2>1, AppliedIsGuarded
<1> QED
  BY <1>1, CardInvariance, PTL DEF CardSpec, CardNoLostUpdate
=============================================================================
