---------------------------- MODULE CardRequests ----------------------------
(***************************************************************************)
(* The HTTP handlers of package carddav over carddavmem, for clients that  *)
(* act for different accounts: what a book's owner may do and what an      *)
(* account it is shared with may do meet in one request when a card is     *)
(* copied or moved from one book to another.                               *)
(*                                                                         *)
(* As in CalendarRequests a handler is two steps.  The first is every read *)
(* it makes before it writes: the permissions (resolve), the permissions   *)
(* on the destination, and the book whose ID scopes the conditional        *)
(* headers.  The second is the one compare-and-mutate.  Nothing holds in   *)
(* between: "a share revoked while a request is in flight does not cancel  *)
(* it" (carddav/backend.go).                                               *)
(***************************************************************************)
EXTENDS CardStore

CONSTANTS
  Clients,       \* concurrent clients, one request each at a time
  AccountOf,     \* the account each client acts for
  UIDOf,         \* the UID in each vCard body
  Methods,       \* client -> the methods it uses
  Conditions,    \* client -> the kinds of conditional headers it sends
  DeletesBooks   \* does the backend implement BookDeleter

ASSUME CardRequestsAssumption ==
  /\ AccountOf \in [Clients -> Accounts]
  /\ UIDOf \in [Contents -> ContentIDs]
  /\ Methods \in [Clients -> SUBSET {"GET", "PUT", "DELETE", "COPY", "MOVE", "DELETE BOOK"}]
  /\ Conditions \in [Clients -> SUBSET {"none", "ifMatchAny", "ifNoneMatchAny",
                                        "ifMatch", "ifNoneMatch"}]
  /\ DeletesBooks \in BOOLEAN

VARIABLES
  known,         \* client -> resource -> the ETag it was last given, or Nil
  req            \* client -> the request being handled, or Nil

cardVars == <<books, issued, known, req>>

Refs == Books \X Names

Perms(k, b) == AddressBookPermissions(AccountOf[k], b)

---------------------------------------------------------------------------
(* Conditional headers: an ETag is an incarnation and a revision.          *)

HeadersOf(k, r) ==
  {[kind |-> kind, tags |-> {}] :
     kind \in Conditions[k] \ {"ifMatch", "ifNoneMatch"}}
  \cup {[kind |-> kind, tags |-> {t}] :
           kind \in Conditions[k] \cap {"ifMatch", "ifNoneMatch"},
           t \in {known[k][r]} \ {Nil}}

RevisionsIn(scope, tags) == {t.rev : t \in {x \in tags : x.id = scope}}

PreconditionsFrom(scope, h) ==
  CASE h.kind = "none"           -> Store!Unconditional
    [] h.kind = "ifMatchAny"     -> Store!IfTargetExists
    [] h.kind = "ifNoneMatchAny" -> Store!IfTargetMissing
    [] h.kind = "ifMatch"        -> Store!IfRevision(RevisionsIn(scope, h.tags))
    [] h.kind = "ifNoneMatch"    -> Store!IfNotRevision(RevisionsIn(scope, h.tags))

---------------------------------------------------------------------------

Idle(k) == req[k] = Nil

Done(k) == req' = [req EXCEPT ![k] = Nil]

Learn(k, r, fact) == known' = [known EXCEPT ![k][r] = fact]

Open(k, request) ==
  /\ Idle(k)
  /\ request.op \in Methods[k]
  /\ req' = [req EXCEPT ![k] = request]
  /\ UNCHANGED <<books, issued, known>>

Serving(k, ops) == ~Idle(k) /\ req[k].op \in ops

---------------------------------------------------------------------------
(* GET: the item, then the book whose ID goes into its ETag.               *)

OpenGet(k, r) ==
  /\ Perms(k, r[1]).view
  /\ GetItem(r[1], r[2]) # Nil
  /\ Open(k, [op |-> "GET", ref |-> r, rev |-> GetItem(r[1], r[2]).revision])

HeadGet(k) ==
  /\ Serving(k, {"GET"})
  /\ LET q == req[k] b == q.ref[1] IN
     Learn(k, q.ref, IF Live(b) THEN [id |-> books[b].id, rev |-> q.rev] ELSE Nil)
  /\ Done(k)
  /\ UNCHANGED bookVars

---------------------------------------------------------------------------
(* PUT.  One of two permissions is enough to get to the store, which knows *)
(* whether the target exists and so which of them counts.                  *)

OpenPut(k, r, body, h) ==
  LET perms == Perms(k, r[1]) IN
  /\ perms.create \/ perms.replace
  /\ Open(k, [op |-> "PUT", ref |-> r, headers |-> h, body |-> body,
              scope |-> books[r[1]].id,
              mayCreate |-> perms.create, mayReplace |-> perms.replace])

PutRequest(q) ==
  [contentID |-> UIDOf[q.body], content |-> q.body,
   pre |-> PreconditionsFrom(q.scope, q.headers),
   mayCreate |-> q.mayCreate, mayReplace |-> q.mayReplace]

Put(k) ==
  /\ Serving(k, {"PUT"})
  /\ LET q == req[k] b == q.ref[1] IN
     /\ CompareAndStoreItem(b, q.ref[2], PutRequest(q))
     /\ Learn(k, q.ref, [id |-> q.scope, rev |-> books'[b].rev])
  /\ Done(k)

---------------------------------------------------------------------------

OpenDelete(k, r, h) ==
  /\ Perms(k, r[1]).delete
  /\ Open(k, [op |-> "DELETE", ref |-> r, headers |-> h, scope |-> books[r[1]].id])

Delete(k) ==
  /\ Serving(k, {"DELETE"})
  /\ LET q == req[k] IN
     CompareAndDeleteItem(q.ref[1], q.ref[2], PreconditionsFrom(q.scope, q.headers))
  /\ Done(k)
  /\ UNCHANGED known

---------------------------------------------------------------------------
(* COPY and MOVE: the source by the source book's permissions and headers, *)
(* the destination by its own book's permissions and Overwrite.            *)

(* Mutant: the source book's permissions serve for the destination too. *)
DestinationPerms_OfSource(k, src, dst) == Perms(k, src)

(* The source book's own when nothing leaves it.  Nil is an actor who may  *)
(* do nothing with the destination, answered as an unknown resource.       *)
DestinationPerms(k, src, dst) ==
  IF dst = src THEN Perms(k, src)
  ELSE IF Perms(k, dst) = NoPermissions THEN Nil
  ELSE Perms(k, dst)

(* Mutant: whoever may read a card may move it away. *)
SourcePermits_View(perms, move) == perms.view

SourcePermits(perms, move) == perms.view /\ (move => perms.delete)

OpenTransfer(k, op, r, dst, h, overwrite) ==
  LET perms == DestinationPerms(k, r[1], dst[1]) IN
  /\ SourcePermits(Perms(k, r[1]), op = "MOVE")
  /\ perms # Nil
  /\ Open(k, [op |-> op, ref |-> r, dst |-> dst, headers |-> h,
              overwrite |-> overwrite, scope |-> books[r[1]].id,
              mayCreate |-> perms.create, mayReplace |-> perms.replace])

(* Mutant: Overwrite: F is forgotten. *)
TransferRequest_Overwrites(q) ==
  [source |-> PreconditionsFrom(q.scope, q.headers),
   destination |-> Store!Unconditional,
   mayCreate |-> q.mayCreate, mayReplace |-> q.mayReplace]

TransferRequest(q) ==
  [source |-> PreconditionsFrom(q.scope, q.headers),
   destination |-> IF q.overwrite THEN Store!Unconditional ELSE Store!IfTargetMissing,
   mayCreate |-> q.mayCreate, mayReplace |-> q.mayReplace]

Transfer(k) ==
  /\ Serving(k, {"COPY", "MOVE"})
  /\ LET q == req[k] src == q.ref[1] s == q.ref[2] dst == q.dst[1] d == q.dst[2] IN
     IF q.op = "MOVE"
     THEN CompareAndMoveItem(src, s, dst, d, TransferRequest(q))
     ELSE CompareAndCopyItem(src, s, dst, d, TransferRequest(q))
  /\ Done(k)
  /\ UNCHANGED known

---------------------------------------------------------------------------
(* Address books.                                                          *)

(* Extended MKCOL; the target has no permissions of its own yet. *)
Mkcol(k, b, settings) ==
  /\ MayCreateBooks(AccountOf[k], Owner[b])
  /\ CompareAndCreateAddressBook(b, settings, Store!Unconditional)
  /\ UNCHANGED <<known, req>>

(* Its permission cannot go while its book is there: one step. *)
PropPatch(k, b, settings) ==
  /\ Perms(k, b).update
  /\ CompareAndUpdateAddressBook(b, settings, Store!Unconditional)
  /\ UNCHANGED <<known, req>>

OpenDeleteBook(k, b, h) ==
  /\ DeletesBooks
  /\ Perms(k, b).deleteBook
  /\ Open(k, [op |-> "DELETE BOOK", book |-> b, headers |-> h,
              scope |-> books[b].id])

DeleteBook(k) ==
  /\ Serving(k, {"DELETE BOOK"})
  /\ LET q == req[k] IN
     CompareAndDeleteAddressBook(q.book, PreconditionsFrom(q.scope, q.headers))
  /\ Done(k)
  /\ UNCHANGED known

(* backendError: the store refuses, or the body never comes whole or is no *)
(* card; nothing changes but the request's end.                            *)
Refused(k) ==
  /\ Serving(k, {"PUT", "DELETE", "COPY", "MOVE", "DELETE BOOK"})
  /\ Done(k)
  /\ UNCHANGED <<books, issued, known>>

---------------------------------------------------------------------------

CardInit ==
  /\ Init
  /\ known = [k \in Clients |-> [r \in Refs |-> Nil]]
  /\ req = [k \in Clients |-> Nil]

OpenNext(k) ==
  \E r \in Refs :
    \/ OpenGet(k, r)
    \/ \E h \in HeadersOf(k, r) :
         \/ \E body \in Contents : OpenPut(k, r, body, h)
         \/ OpenDelete(k, r, h)
         \/ \E op \in {"COPY", "MOVE"}, dst \in Refs \ {r}, overwrite \in BOOLEAN :
              OpenTransfer(k, op, r, dst, h, overwrite)

ServeNext(k) ==
  HeadGet(k) \/ Put(k) \/ Delete(k) \/ Transfer(k) \/ DeleteBook(k) \/ Refused(k)

BookNext(k) ==
  \E b \in Books :
    \/ \E settings \in Settings : Mkcol(k, b, settings) \/ PropPatch(k, b, settings)
    \/ OpenDeleteBook(k, b, [kind |-> "none", tags |-> {}])

(* The application shares books behind the handlers' back. *)
Sharing ==
  /\ \E b \in Books, account \in Accounts : Share(b, account)
  /\ UNCHANGED <<known, req>>

CardNext ==
  \/ \E k \in Clients : OpenNext(k) \/ ServeNext(k) \/ BookNext(k)
  \/ Sharing

CardSpec == CardInit /\ [][CardNext]_cardVars

---------------------------------------------------------------------------
(* Properties.                                                             *)

SameIncarnation(b) == Store!SameIncarnation(b)

(* The step in which k's request takes effect on the store. *)
Applied(k) == req[k] # Nil /\ req'[k] = Nil /\ books' # books

(* Only an account that owns a book changes its cards, whatever was shared *)
(* with whom and wherever a card is copied or moved from: an account with  *)
(* a view of two books cannot carry a card between them, and a permission  *)
(* on the source says nothing of the destination (carddav/transfer.go).    *)
OnlyEditorsChangeItems ==
  [][\A b \in Books :
       SameIncarnation(b) /\ books'[b].items # books[b].items =>
         \E k \in Clients : Applied(k) /\ AccountOf[k] = Owner[b]]_cardVars

(* No update is lost in an incarnation: with If-Match a request is applied *)
(* to the very revision the client holds, in the source book's numbering   *)
(* even when the destination's overlaps, with If-Match: * to some card;    *)
(* with If-None-Match to none of the revisions it names, or to nothing;    *)
(* without Overwrite a transfer replaces nothing.                          *)
CardNoLostUpdate ==
  [][\A k \in Clients :
       /\ Applied(k)
       /\ req[k].op \in {"PUT", "DELETE", "COPY", "MOVE"}
       /\ books[req[k].ref[1]].id = req[k].scope
       => LET q == req[k] h == q.headers item == GetItem(q.ref[1], q.ref[2]) IN
          /\ h.kind = "ifMatch" =>
               \E t \in h.tags : t.id = q.scope /\ item # Nil /\ item.revision = t.rev
          /\ h.kind = "ifMatchAny" => item # Nil
          /\ h.kind = "ifNoneMatchAny" => item = Nil
          /\ h.kind = "ifNoneMatch" =>
               \A t \in h.tags : t.id = q.scope => item = Nil \/ item.revision # t.rev
          /\ q.op \in {"COPY", "MOVE"} /\ ~q.overwrite =>
               GetItem(q.dst[1], q.dst[2]) = Nil]_cardVars
=============================================================================
