-------------------------- MODULE CalendarRequests --------------------------
(***************************************************************************)
(* The HTTP handlers of package caldav that read and write items, each a   *)
(* goroutine that runs several transactions on the calendar store.  What   *)
(* one transaction saw is used after the next one ran: HeadGet fetches the *)
(* item before the calendar whose ID goes into the ETag, the REPORTs fetch *)
(* them the other way round, and the writers turn the client's ETags into  *)
(* revision numbers before the store compares them.                        *)
(*                                                                         *)
(* Every client acts for the calendars' owner, who holds all permissions:  *)
(* for it resolve() only says whether the calendar exists, which the next  *)
(* transaction asks again, so resolve is part of a handler's first step.   *)
(*                                                                         *)
(* Clients are external: they remember what the last answers told them of  *)
(* each resource and put the ETags they know into conditional headers.     *)
(***************************************************************************)
EXTENDS CalendarStore

CONSTANTS
  Clients,           \* concurrent clients, one request each at a time
  Methods,           \* the HTTP methods the clients use on items
  UIDOf,             \* the UID in each iCalendar body
  DeletesCalendars   \* does the backend implement CalendarDeleter

ASSUME RequestsAssumption ==
  /\ Methods \subseteq {"GET", "REPORT", "PUT", "DELETE", "COPY", "MOVE"}
  /\ UIDOf \in [Contents -> ContentIDs]
  /\ DeletesCalendars \in BOOLEAN

VARIABLES
  known,             \* client -> resource -> what the client believes is there
  req                \* client -> the request being handled, or Nil

vars == <<cals, issued, known, req>>

Refs == Calendars \X Names

(* An ETag (id and rev; etagFor) with the bytes it came with, and the kind *)
(* of answer it came in.                                                   *)
Known == [via: {"GET", "REPORT", "PUT"}, id: Nat, rev: Nat \ {0}, content: Contents]

Kinds == {"none", "ifMatchAny", "ifNoneMatchAny", "ifMatch", "ifNoneMatch"}

(* The conditional headers of a request.  A request with both headers is   *)
(* answered 400 before it reaches the store and is left out.               *)
Headers == [kind: Kinds, tags: SUBSET Known]

Request ==
       [op: {"GET"}, ref: Refs, item: Item]
  \cup [op: {"REPORT"}, ref: Refs, scope: Nat]
  \cup [op: {"PUT"}, ref: Refs, scope: Nat, headers: Headers, body: Contents]
  \cup [op: {"DELETE"}, ref: Refs, scope: Nat, headers: Headers]
  \cup [op: {"COPY", "MOVE"}, ref: Refs, scope: Nat, headers: Headers,
        dst: Refs, overwrite: BOOLEAN]
  \cup [op: {"DELETE CALENDAR"}, cal: Calendars, scope: Nat, headers: Headers]

---------------------------------------------------------------------------
(* Conditional headers.                                                    *)

Tagless ==
  {[kind |-> kind, tags |-> {}] : kind \in {"none", "ifMatchAny", "ifNoneMatchAny"}}

HeadersOf(k, r) ==
  Tagless
  \cup IF known[k][r] = Nil THEN {}
       ELSE {[kind |-> kind, tags |-> {known[k][r]}] :
               kind \in {"ifMatch", "ifNoneMatch"}}

(* The revisions of the ETags that belong to this incarnation. *)
RevisionsIn(scope, tags) == {t.rev : t \in {x \in tags : x.id = scope}}

PreconditionsFrom(scope, h) ==
  CASE h.kind = "none"           -> Unconditional
    [] h.kind = "ifMatchAny"     -> IfTargetExists
    [] h.kind = "ifNoneMatchAny" -> IfTargetMissing
    [] h.kind = "ifMatch"        -> IfRevision(RevisionsIn(scope, h.tags))
    [] h.kind = "ifNoneMatch"    -> IfNotRevision(RevisionsIn(scope, h.tags))

---------------------------------------------------------------------------
(* What an answer does to the client.                                      *)

Idle(k) == req[k] = Nil

Done(k) == req' = [req EXCEPT ![k] = Nil]

Learn(k, r, fact) == known' = [known EXCEPT ![k][r] = fact]

Open(k, request) ==
  /\ Idle(k)
  /\ req' = [req EXCEPT ![k] = request]
  /\ UNCHANGED <<cals, issued, known>>

---------------------------------------------------------------------------
(* Reads.                                                                  *)

(* Store.GetItem; Nil is ErrNotFound. *)
ItemAt(r) == IF Live(r[1]) THEN cals[r[1]].items[r[2]] ELSE Nil

(* HeadGet and propFindItem: the item first. *)
GetItem(k, r) ==
  \/ /\ ItemAt(r) # Nil
     /\ Open(k, [op |-> "GET", ref |-> r, item |-> ItemAt(r)])
  \/ /\ ItemAt(r) = Nil
     /\ Idle(k)
     /\ Learn(k, r, Nil)
     /\ UNCHANGED <<cals, issued, req>>

(* Then the calendar, for the scope of the ETag. *)
AnswerGet(k) ==
  /\ ~Idle(k) /\ req[k].op = "GET"
  /\ LET c == req[k].ref[1] item == req[k].item IN
     Learn(k, req[k].ref,
           IF Live(c) THEN [via |-> "GET", id |-> cals[c].id,
                            rev |-> item.revision, content |-> item.content]
                      ELSE Nil)
  /\ Done(k)
  /\ UNCHANGED storeVars

(* calendar-multiget, calendar-query and sync-collection: the calendar     *)
(* first, then the items.                                                  *)
OpenReport(k, r) ==
  /\ Live(r[1])
  /\ Open(k, [op |-> "REPORT", ref |-> r, scope |-> cals[r[1]].id])

AnswerReport(k) ==
  /\ ~Idle(k) /\ req[k].op = "REPORT"
  /\ LET r == req[k].ref IN
     Learn(k, r,
           IF ItemAt(r) = Nil THEN Nil
           ELSE [via |-> "REPORT", id |-> req[k].scope,
                 rev |-> ItemAt(r).revision, content |-> ItemAt(r).content])
  /\ Done(k)
  /\ UNCHANGED storeVars

---------------------------------------------------------------------------
(* Writes: the calendar, then one compare-and-mutate.                      *)

OpenPut(k, r, body, h) ==
  /\ Live(r[1])
  /\ Open(k, [op |-> "PUT", ref |-> r, scope |-> cals[r[1]].id,
              headers |-> h, body |-> body])

PutRequest(q) ==
  [contentID |-> UIDOf[q.body], content |-> q.body,
   pre |-> PreconditionsFrom(q.scope, q.headers),
   mayCreate |-> TRUE, mayReplace |-> TRUE]

(* Mutant: the answer has no revision, so its ETag is a hash. *)
PutAnswer_ZeroRevision(q, cal) ==
  [via |-> "PUT", id |-> q.scope, rev |-> 0, content |-> q.body]

(* Mutant: the answer has the revision the next write will get. *)
PutAnswer_NextRevision(q, cal) ==
  [via |-> "PUT", id |-> q.scope, rev |-> cal.rev + 1, content |-> q.body]

(* cal is the calendar just after the write. *)
PutAnswer(q, cal) ==
  [via |-> "PUT", id |-> q.scope, rev |-> cal.rev, content |-> q.body]

(* Stored; the answer with the new ETag may be lost on its way. *)
Put(k) ==
  /\ ~Idle(k) /\ req[k].op = "PUT"
  /\ LET q == req[k] c == q.ref[1] IN
     /\ CompareAndStoreItem(c, q.ref[2], PutRequest(q))
     /\ \/ Learn(k, q.ref, PutAnswer(q, cals'[c]))
        \/ UNCHANGED known
  /\ Done(k)

(* The store refused, the body never arrived, or it is no calendar object. *)
PutFails(k) ==
  /\ ~Idle(k) /\ req[k].op = "PUT"
  /\ Done(k)
  /\ UNCHANGED <<cals, issued, known>>

OpenDelete(k, r, h) ==
  /\ Live(r[1])
  /\ Open(k, [op |-> "DELETE", ref |-> r, scope |-> cals[r[1]].id, headers |-> h])

Delete(k) ==
  /\ ~Idle(k) /\ req[k].op = "DELETE"
  /\ LET q == req[k] c == q.ref[1] n == q.ref[2]
         pre == PreconditionsFrom(q.scope, q.headers) IN
     IF DeleteItemError(c, n, pre) = "nil"
     THEN CompareAndDeleteItem(c, n, pre)
     ELSE UNCHANGED storeVars
  /\ Done(k)
  /\ UNCHANGED known

(* The scope is the source calendar's; Overwrite: F is a precondition.  A  *)
(* transfer of an item onto itself changes nothing and is left out.        *)
OpenTransfer(k, op, r, dst, h, overwrite) ==
  /\ Live(r[1])
  /\ Open(k, [op |-> op, ref |-> r, scope |-> cals[r[1]].id, headers |-> h,
              dst |-> dst, overwrite |-> overwrite])

(* Mutant: the conditional headers of a transfer are dropped. *)
TransferRequest_NoSource(q) ==
  [source |-> Unconditional,
   destination |-> IF q.overwrite THEN Unconditional ELSE IfTargetMissing,
   mayCreate |-> TRUE, mayReplace |-> TRUE]

TransferRequest(q) ==
  [source |-> PreconditionsFrom(q.scope, q.headers),
   destination |-> IF q.overwrite THEN Unconditional ELSE IfTargetMissing,
   mayCreate |-> TRUE, mayReplace |-> TRUE]

Transfer(k) ==
  /\ ~Idle(k) /\ req[k].op \in {"COPY", "MOVE"}
  /\ LET q == req[k] move == q.op = "MOVE"
         src == q.ref[1] s == q.ref[2] dst == q.dst[1] d == q.dst[2] IN
     IF TransferError(src, s, dst, d, TransferRequest(q), move) # "nil"
     THEN UNCHANGED storeVars
     ELSE IF move THEN CompareAndMoveItem(src, s, dst, d, TransferRequest(q))
     ELSE CompareAndCopyItem(src, s, dst, d, TransferRequest(q))
  /\ Done(k)
  /\ UNCHANGED known

---------------------------------------------------------------------------
(* Calendars: one transaction each, but DELETE reads the calendar first.   *)

Mkcalendar(c, settings) ==
  /\ CompareAndCreateCalendar(c, settings, Unconditional)
  /\ UNCHANGED <<known, req>>

PropPatch(c, settings) ==
  /\ CompareAndUpdateCalendar(c, settings, Unconditional)
  /\ UNCHANGED <<known, req>>

(* No answer shows a client an ETag of a calendar. *)
OpenDeleteCalendar(k, c, h) ==
  /\ DeletesCalendars
  /\ Live(c)
  /\ Open(k, [op |-> "DELETE CALENDAR", cal |-> c, scope |-> cals[c].id,
              headers |-> h])

DeleteCalendar(k) ==
  /\ ~Idle(k) /\ req[k].op = "DELETE CALENDAR"
  /\ LET q == req[k] pre == PreconditionsFrom(q.scope, q.headers) IN
     IF Live(q.cal) /\ Check(pre, cals[q.cal].rev)
     THEN CompareAndDeleteCalendar(q.cal, pre)
     ELSE UNCHANGED storeVars
  /\ Done(k)
  /\ UNCHANGED known

---------------------------------------------------------------------------

RequestsInit ==
  /\ Init
  /\ known = [k \in Clients |-> [r \in Refs |-> Nil]]
  /\ req = [k \in Clients |-> Nil]

ReadNext(k) ==
  \/ "GET" \in Methods /\ \E r \in Refs : GetItem(k, r)
  \/ "REPORT" \in Methods /\ \E r \in Refs : OpenReport(k, r)
  \/ AnswerGet(k)
  \/ AnswerReport(k)

WriteNext(k) ==
  \/ \E r \in Refs : \E h \in HeadersOf(k, r) :
       \/ "PUT" \in Methods /\ \E body \in Contents : OpenPut(k, r, body, h)
       \/ "DELETE" \in Methods /\ OpenDelete(k, r, h)
       \/ \E dst \in Refs \ {r}, op \in {"COPY", "MOVE"} \cap Methods,
             overwrite \in BOOLEAN :
            OpenTransfer(k, op, r, dst, h, overwrite)
  \/ Put(k)
  \/ PutFails(k)
  \/ Delete(k)
  \/ Transfer(k)

CollectionNext ==
  \/ \E c \in Calendars, settings \in Settings :
       Mkcalendar(c, settings) \/ PropPatch(c, settings)
  \/ \E k \in Clients, c \in Calendars, h \in Tagless : OpenDeleteCalendar(k, c, h)
  \/ \E k \in Clients : DeleteCalendar(k)

RequestsNext ==
  \/ \E k \in Clients : ReadNext(k) \/ WriteNext(k)
  \/ CollectionNext

RequestsSpec == RequestsInit /\ [][RequestsNext]_vars

---------------------------------------------------------------------------
(* Properties.                                                             *)

(* Type invariant of the handlers and the clients. *)
RequestsTypeOK ==
  /\ known \in [Clients -> [Refs -> Known \cup {Nil}]]
  /\ \A k \in Clients : req[k] # Nil => req[k] \in Request

(* The ETag matches what is at the resource now. *)
TagMatches(r, t) ==
  /\ ItemAt(r) # Nil
  /\ cals[r[1]].id = t.id
  /\ ItemAt(r).revision = t.rev

Honest(r, t) == TagMatches(r, t) => ItemAt(r).content = t.content

(* An ETag that matches a resource means the client holds its bytes.       *)
(* Otherwise the client is told 304 for stale bytes for ever, and its next *)
(* If-Match overwrites what it never saw.  (etagFor: "it changes when the  *)
(* bytes change".)  Of the answers of REPORT and PUT, which read the       *)
(* calendar before the item: a calendar re-created in between gives them   *)
(* an ETag of the incarnation that is gone, which matches nothing.  GET    *)
(* reads the item first, and has no such protection.                       *)
ReportedETagsNameBytes ==
  \A k \in Clients, r \in Refs :
    known[k][r] # Nil /\ known[k][r].via # "GET" => Honest(r, known[k][r])

(* The step in which k's conditional write is applied. *)
Applied(k) ==
  /\ req[k] # Nil /\ req'[k] = Nil
  /\ req[k].op \in {"PUT", "DELETE", "COPY", "MOVE"}
  /\ cals' # cals

(* A conditional write is applied to exactly what the client saw: with     *)
(* If-Match the resource has the ETag, incarnation and bytes of the        *)
(* client's copy; with If-None-Match: * there is nothing; a transfer       *)
(* without Overwrite replaces nothing.  No update is lost between two      *)
(* clients, whatever happened since the header was turned into revisions.  *)
NoLostUpdate ==
  [][\A k \in Clients : Applied(k) =>
       LET q == req[k] h == q.headers IN
       /\ h.kind = "ifMatch" =>
            \E t \in h.tags : /\ TagMatches(q.ref, t)
                             /\ ItemAt(q.ref).content = t.content
       /\ h.kind = "ifNoneMatchAny" => q.op = "PUT" /\ ItemAt(q.ref) = Nil
       /\ q.op \in {"COPY", "MOVE"} /\ ~q.overwrite => ItemAt(q.dst) = Nil]_vars

(* "a stale If-Match from before the deletion matches nothing": a write    *)
(* whose ETags are all of another incarnation is not applied.              *)
StaleIfMatchMatchesNothing ==
  [][\A k \in Clients : Applied(k) /\ req[k].headers.kind = "ifMatch" =>
       \E t \in req[k].headers.tags : t.id = cals[req[k].ref[1]].id]_vars

=============================================================================
