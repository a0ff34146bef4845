----------------------------- MODULE CardStore -----------------------------
(***************************************************************************)
(* The in-memory address book backend, carddavmem.Store: "a faithful       *)
(* transcription of caldavmem", says its package comment, and read line by *)
(* line it is one.  Each method here is therefore the method of            *)
(* CalendarStore on a map of address books, and what a book computes       *)
(* (index, log, revisions) is what a calendar computes.  Its own are the   *)
(* permissions, which have no free-busy tier.                              *)
(***************************************************************************)
EXTENDS Naturals, FiniteSets

CONSTANTS
  Books,         \* AddressBookRefs an address book can be created at
  Accounts,      \* accounts that can own or view address books
  Owner,         \* the account in each AddressBookRef
  Names,         \* item names (Segments)
  ContentIDs,    \* the UIDs of vCards
  Contents,      \* vCard bytes
  Settings,      \* display name and description, as one value
  Nil,           \* absence of a map entry
  MaxRev,        \* model bound: highest revision of one incarnation
  MaxIssued,     \* model bound: address books ever created
  Preconditions  \* the preconditions requests carry

VARIABLES
  books,         \* AddressBookRef -> address book or Nil (Store.cals)
  issued         \* how many BookIDs were handed out

bookVars == <<books, issued>>

Store == INSTANCE CalendarStore WITH Calendars <- Books, cals <- books

(***************************************************************************)
(* What CalendarStore assumes of its constants, of this instance of it.    *)
(***************************************************************************)
ASSUME BooksAssumption ==
  /\ Nil \notin Names
  /\ Nil \notin Store!Item
  /\ Nil \notin Store!Calendar
  /\ Nil \notin Nat
  /\ MaxRev \in Nat /\ MaxIssued \in Nat
  /\ Owner \in [Books -> Accounts]

Init == Store!Init

Live(b) == Store!Live(b)

NoPermissions ==
  [view |-> FALSE, create |-> FALSE, replace |-> FALSE, delete |-> FALSE,
   update |-> FALSE, deleteBook |-> FALSE]

ViewOnlyPermissions == [NoPermissions EXCEPT !.view = TRUE]

OwnerPermissions ==
  [view |-> TRUE, create |-> TRUE, replace |-> TRUE, delete |-> TRUE,
   update |-> TRUE, deleteBook |-> TRUE]

AddressBookPermissions(actor, b) ==
  IF ~Live(b) THEN NoPermissions
  ELSE IF actor = Owner[b] THEN OwnerPermissions
  ELSE IF actor \in books[b].viewers THEN ViewOnlyPermissions
  ELSE NoPermissions

(* AccountPermissions: only on one's own account. *)
MayCreateBooks(actor, account) == actor = account

GetItem(b, n) == IF Live(b) THEN books[b].items[n] ELSE Nil

CompareAndStoreItem(b, n, req) == Store!CompareAndStoreItem(b, n, req)

CompareAndDeleteItem(b, n, pre) == Store!CompareAndDeleteItem(b, n, pre)

CompareAndCopyItem(src, s, dst, d, req) ==
  Store!CompareAndCopyItem(src, s, dst, d, req)

CompareAndMoveItem(src, s, dst, d, req) ==
  Store!CompareAndMoveItem(src, s, dst, d, req)

CompareAndCreateAddressBook(b, settings, pre) ==
  Store!CompareAndCreateCalendar(b, settings, pre)

CompareAndUpdateAddressBook(b, settings, pre) ==
  Store!CompareAndUpdateCalendar(b, settings, pre)

CompareAndDeleteAddressBook(b, pre) == Store!CompareAndDeleteCalendar(b, pre)

Share(b, account) == Store!Share(b, account)
=============================================================================
