----------------------- MODULE CalendarRequestsProofs -----------------------
(***************************************************************************)
(* ETags name bytes and no update is lost: proved of CalendarRequests for  *)
(* every number of clients, calendars, names and bodies, and every bound.  *)
(*                                                                         *)
(* The heart is one fact about an ETag and a resource, Faithful: if the    *)
(* calendar there is the ETag's incarnation, the ETag's revision is not    *)
(* ahead of it, and an item of that very revision has the ETag's bytes.    *)
(* The store keeps it, since a revision is never given twice in an         *)
(* incarnation and a CalendarID never returns (StepFaithful).  An answer   *)
(* establishes it when the handler read the calendar before the item, as   *)
(* REPORT and PUT do, even if the calendar was replaced in between.        *)
(*                                                                         *)
(* That no update is lost needs more: that the scope a writer read is the  *)
(* incarnation its transaction meets.  That holds where the backend does   *)
(* not delete calendars, and only there (the run requests_stale).          *)
(***************************************************************************)
EXTENDS CalendarRequests, CalendarStoreProofs

Faithful(cal, n, t) ==
  cal # Nil /\ cal.id = t.id =>
    /\ t.rev <= cal.rev
    /\ cal.items[n] # Nil /\ cal.items[n].revision = t.rev
         => cal.items[n].content = t.content

FaithfulTag(r, t) == t.id <= issued /\ Faithful(cals[r[1]], r[2], t)

(* Revision 0 is no item's: it stands for none. *)
RevisionsPositive ==
  \A c \in Calendars, n \in Names :
    Live(c) /\ cals[c].items[n] # Nil => cals[c].items[n].revision > 0

TypesOK ==
  /\ known \in [Clients -> [Refs -> Known \cup {Nil}]]
  /\ req \in [Clients -> Request \cup {Nil}]

(* What the handlers hold between their steps. *)
RequestsSound ==
  \A k \in Clients : req[k] # Nil =>
    /\ req[k].op = "GET" => req[k].item.revision > 0
    /\ req[k].op # "GET" => req[k].scope <= issued

ReportedFaithful ==
  \A k \in Clients, r \in Refs :
    known[k][r] # Nil /\ known[k][r].via # "GET" => FaithfulTag(r, known[k][r])

RequestsInv ==
  /\ IInv
  /\ RevisionsPositive
  /\ TypesOK
  /\ RequestsSound
  /\ ReportedFaithful

---------------------------------------------------------------------------
(* What the store does to an ETag, and to its items' revisions.            *)

LEMMA StepFaithful ==
  ASSUME IInv, StoreStep, NEW c \in Calendars, NEW n \in Names, NEW t,
         t.id \in Nat, t.rev \in Nat, t.id <= issued, Faithful(cals[c], n, t)
  PROVE  Faithful(cals'[c], n, t) /\ t.id <= issued'
<1>1. issued \in Nat /\ issued' \in Nat /\ issued' >= issued
  BY DEF IInv, TypeOK, StoreStep
<1>2. CASE cals'[c] = cals[c] \/ cals'[c] = Nil
  BY <1>1, <1>2 DEF Faithful
<1>3. CASE Rewritten(c)
  <2>1. /\ cals[c] # Nil /\ cals[c] \in Calendar /\ cals'[c] \in Calendar
        /\ cals'[c].id = cals[c].id /\ cals'[c].rev >= cals[c].rev
        /\ cals'[c].items[n] # cals[c].items[n] /\ cals'[c].items[n] # Nil
             => cals'[c].items[n].revision > cals[c].rev
    BY <1>3, LiveCalendar DEF Rewritten, Live, Advances, CalendarInv
  <2>2. cals[c].rev \in Nat /\ cals'[c].rev \in Nat
    BY <2>1 DEF Calendar
  <2>3. cals'[c].items[n] # Nil => cals'[c].items[n].revision \in Nat
    BY <2>1 DEF Calendar, Item
  <2> QED
    BY <1>1, <2>1, <2>2, <2>3 DEF Faithful
<1>4. CASE Created(c)
  BY <1>1, <1>4 DEF Created, Faithful
<1> QED
  BY <1>2, <1>3, <1>4 DEF StoreStep

LEMMA StepPositive ==
  ASSUME IInv, StoreStep, RevisionsPositive
  PROVE  RevisionsPositive'
<1> SUFFICES ASSUME NEW c \in Calendars, NEW n \in Names,
                    cals'[c] # Nil, cals'[c].items[n] # Nil
             PROVE  cals'[c].items[n].revision > 0
  BY DEF RevisionsPositive, Live
<1>1. CASE cals'[c] = cals[c]
  BY <1>1 DEF RevisionsPositive, Live
<1>2. CASE Rewritten(c)
  <2>1. /\ Live(c) /\ cals[c] \in Calendar /\ cals'[c] \in Calendar
        /\ cals'[c].items[n] # cals[c].items[n]
             => cals'[c].items[n].revision > cals[c].rev
    BY <1>2, LiveCalendar DEF Rewritten, Advances, CalendarInv
  <2>2. cals[c].rev \in Nat /\ cals'[c].items[n].revision \in Nat
    BY <2>1 DEF Calendar, Item
  <2> QED
    BY <2>1, <2>2 DEF RevisionsPositive
<1> QED
  BY <1>1, <1>2 DEF StoreStep, Created

(* The reported ETags when the store steps and the clients learn nothing. *)
LEMMA StepReported ==
  ASSUME RequestsInv, StoreStep, known' = known
  PROVE  ReportedFaithful'
<1> SUFFICES ASSUME NEW k \in Clients, NEW r \in Refs,
                    known[k][r] # Nil, known[k][r].via # "GET"
             PROVE  /\ known[k][r].id <= issued'
                    /\ Faithful(cals'[r[1]], r[2], known[k][r])
  BY DEF ReportedFaithful, FaithfulTag
<1>1. known[k][r] \in Known
  BY DEF RequestsInv, TypesOK
<1>2. r[1] \in Calendars /\ r[2] \in Names
  BY DEF Refs
<1>3. FaithfulTag(r, known[k][r])
  BY DEF RequestsInv, ReportedFaithful
<1> QED
  BY <1>1, <1>2, <1>3, StepFaithful DEF RequestsInv, Known, FaithfulTag

(* The same when client k learns fact of resource q. *)
LEMMA LearnReported ==
  ASSUME RequestsInv, StoreStep, NEW k \in Clients, NEW q \in Refs, NEW fact,
         fact \in Known \cup {Nil}, Learn(k, q, fact),
         fact # Nil /\ fact.via # "GET" =>
           fact.id <= issued' /\ Faithful(cals'[q[1]], q[2], fact)
  PROVE  /\ ReportedFaithful'
         /\ known' \in [Clients -> [Refs -> Known \cup {Nil}]]
<1>1. known \in [Clients -> [Refs -> Known \cup {Nil}]]
  BY DEF RequestsInv, TypesOK
<1>2. known' = [known EXCEPT ![k] = [known[k] EXCEPT ![q] = fact]]
  BY DEF Learn
<1>3. known' \in [Clients -> [Refs -> Known \cup {Nil}]]
  BY <1>1, <1>2
<1>4. \A j \in Clients, r \in Refs :
        known'[j][r] = IF j = k /\ r = q THEN fact ELSE known[j][r]
  BY <1>1, <1>2
<1>5. ASSUME NEW j \in Clients, NEW r \in Refs,
             known'[j][r] # Nil, known'[j][r].via # "GET"
      PROVE  /\ known'[j][r].id <= issued'
             /\ Faithful(cals'[r[1]], r[2], known'[j][r])
  <2>1. CASE j = k /\ r = q
    BY <1>4, <1>5, <2>1
  <2>2. CASE ~(j = k /\ r = q)
    <3>1. known'[j][r] = known[j][r]
      BY <1>4, <2>2
    <3>2. known[j][r] \in Known /\ r[1] \in Calendars /\ r[2] \in Names
      BY <1>1, <1>5, <3>1 DEF Refs
    <3>3. FaithfulTag(r, known[j][r])
      BY <1>5, <3>1 DEF RequestsInv, ReportedFaithful
    <3> QED
      BY <3>1, <3>2, <3>3, StepFaithful DEF RequestsInv, Known, FaithfulTag
  <2> QED
    BY <2>1, <2>2
<1> QED
  BY <1>3, <1>5 DEF ReportedFaithful, FaithfulTag

---------------------------------------------------------------------------
(* What the handlers work with.                                            *)

LEMMA RequestFields ==
  ASSUME NEW q \in Request
  PROVE  /\ q.op = "GET" => q.ref \in Refs /\ q.item \in Item
         /\ q.op = "REPORT" => q.ref \in Refs /\ q.scope \in Nat
         /\ q.op = "PUT" => /\ q.ref \in Refs /\ q.scope \in Nat
                           /\ q.headers \in Headers /\ q.body \in Contents
         /\ q.op = "DELETE" => q.ref \in Refs /\ q.scope \in Nat /\ q.headers \in Headers
         /\ q.op \in {"COPY", "MOVE"} =>
              /\ q.ref \in Refs /\ q.scope \in Nat /\ q.headers \in Headers
              /\ q.dst \in Refs /\ q.overwrite \in BOOLEAN
         /\ q.op = "DELETE CALENDAR" => q.cal \in Calendars /\ q.scope \in Nat
BY DEF Request

LEMMA HeadersTyped ==
  ASSUME TypesOK, NEW k \in Clients, NEW r \in Refs
  PROVE  HeadersOf(k, r) \subseteq Headers /\ Tagless \subseteq Headers
<1>1. known[k][r] \in Known \cup {Nil}
  BY DEF TypesOK
<1>2. Tagless \subseteq Headers
  BY DEF Tagless, Headers, Kinds
<1>3. known[k][r] # Nil =>
        \A kind \in {"ifMatch", "ifNoneMatch"} : [kind |-> kind, tags |-> {known[k][r]}] \in Headers
  BY <1>1 DEF Headers, Kinds
<1> QED
  BY <1>2, <1>3 DEF HeadersOf

LEMMA ItemThere ==
  ASSUME IInv, RevisionsPositive, NEW r \in Refs
  PROVE  /\ r[1] \in Calendars /\ r[2] \in Names
         /\ Live(r[1]) => /\ cals[r[1]] \in Calendar
                          /\ cals[r[1]].id \in Nat /\ cals[r[1]].id <= issued
                          /\ cals[r[1]].rev \in Nat
         /\ ItemAt(r) # Nil =>
              /\ Live(r[1]) /\ ItemAt(r) \in Item /\ ItemAt(r) = cals[r[1]].items[r[2]]
              /\ ItemAt(r).revision > 0 /\ ItemAt(r).revision <= cals[r[1]].rev
<1>1. r[1] \in Calendars /\ r[2] \in Names
  BY DEF Refs
<1>2. Live(r[1]) => /\ CalendarInv(cals[r[1]]) /\ cals[r[1]] \in Calendar
                    /\ cals[r[1]].id \in 1..issued
  BY <1>1, LiveCalendar DEF IInv, IncarnationsDistinct
<1>3. issued \in Nat
  BY DEF IInv, TypeOK
<1> QED
  BY <1>1, <1>2, <1>3 DEF ItemAt, RevisionsPositive, Calendar, CalendarInv, RevsBounded

(* The handler's first step. *)
LEMMA OpenInv ==
  ASSUME RequestsInv, NEW k \in Clients, NEW request \in Request, Open(k, request),
         request.op = "GET" => request.item.revision > 0,
         request.op # "GET" => request.scope <= issued
  PROVE  RequestsInv'
<1>1. /\ req' = [req EXCEPT ![k] = request]
      /\ cals' = cals /\ issued' = issued /\ known' = known
  BY DEF Open
<1>2. IInv' /\ StoreStep
  BY <1>1, StandingStep, StepInv DEF RequestsInv, storeVars
<1>3. RevisionsPositive' /\ ReportedFaithful'
  BY <1>1, <1>2, StepPositive, StepReported DEF RequestsInv
<1>4. TypesOK'
  BY <1>1 DEF RequestsInv, TypesOK
<1>5. \A j \in Clients : req'[j] = IF j = k THEN request ELSE req[j]
  BY <1>1 DEF RequestsInv, TypesOK
<1>6. RequestsSound'
  BY <1>1, <1>5 DEF RequestsInv, RequestsSound
<1> QED
  BY <1>2, <1>3, <1>4, <1>6 DEF RequestsInv

(* Its last, or a step of nobody's request. *)
LEMMA DoneInv ==
  ASSUME RequestsInv, StoreStep,
         req' = req \/ \E k \in Clients : Done(k),
         known' \in [Clients -> [Refs -> Known \cup {Nil}]], ReportedFaithful'
  PROVE  RequestsInv'
<1>1. IInv' /\ RevisionsPositive'
  BY StepInv, StepPositive DEF RequestsInv
<1>2. issued \in Nat /\ issued' \in Nat /\ issued' >= issued
  BY DEF RequestsInv, IInv, TypeOK, StoreStep
<1>3. req' \in [Clients -> Request \cup {Nil}]
  BY DEF RequestsInv, TypesOK, Done
<1>4. \A j \in Clients : req'[j] = req[j] \/ req'[j] = Nil
  BY DEF RequestsInv, TypesOK, Done
<1>5. ASSUME NEW j \in Clients, req'[j] # Nil
      PROVE  /\ req'[j].op = "GET" => req'[j].item.revision > 0
             /\ req'[j].op # "GET" => req'[j].scope <= issued'
  <2>1. req'[j] = req[j] /\ req[j] # Nil /\ req[j] \in Request
    BY <1>4, <1>5 DEF RequestsInv, TypesOK
  <2>2. /\ req[j].op = "GET" => req[j].item.revision > 0
        /\ req[j].op # "GET" => req[j].scope <= issued
    BY <2>1 DEF RequestsInv, RequestsSound
  <2>3. req[j].op # "GET" => req[j].scope \in Nat
    BY <2>1 DEF Request
  <2> QED
    BY <1>2, <2>1, <2>2, <2>3
<1> QED
  BY <1>1, <1>3, <1>5 DEF RequestsInv, TypesOK, RequestsSound

(* Such a step when no client learns anything. *)
LEMMA SilentInv ==
  ASSUME RequestsInv, StoreStep, known' = known,
         req' = req \/ \E k \in Clients : Done(k)
  PROVE  RequestsInv'
BY StepReported, DoneInv DEF RequestsInv, TypesOK

---------------------------------------------------------------------------
(* The reads.                                                              *)

LEMMA GetItemInv ==
  ASSUME RequestsInv, NEW k \in Clients, NEW r \in Refs, GetItem(k, r)
  PROVE  RequestsInv'
<1>1. CASE /\ ItemAt(r) # Nil
           /\ Open(k, [op |-> "GET", ref |-> r, item |-> ItemAt(r)])
  <2>1. ItemAt(r) \in Item /\ ItemAt(r).revision > 0
    BY <1>1, ItemThere DEF RequestsInv
  <2>2. [op |-> "GET", ref |-> r, item |-> ItemAt(r)] \in Request
    BY <2>1 DEF Request
  <2> QED
    BY <1>1, <2>1, <2>2, OpenInv
<1>2. CASE Learn(k, r, Nil) /\ UNCHANGED <<cals, issued, req>>
  <2>1. StoreStep
    BY <1>2, StandingStep DEF RequestsInv, storeVars
  <2> QED
    BY <1>2, <2>1, LearnReported, DoneInv
<1> QED
  BY <1>1, <1>2 DEF GetItem

LEMMA AnswerGetInv ==
  ASSUME RequestsInv, NEW k \in Clients, AnswerGet(k)
  PROVE  RequestsInv'
<1> DEFINE q == req[k]
           c == q.ref[1]
           fact == IF Live(c) THEN [via |-> "GET", id |-> cals[c].id,
                                    rev |-> q.item.revision, content |-> q.item.content]
                   ELSE Nil
<1>1. q \in Request /\ q.op = "GET" /\ q.item.revision > 0
  BY DEF AnswerGet, Idle, RequestsInv, TypesOK, RequestsSound
<1>2. q.ref \in Refs /\ q.item \in Item
  BY <1>1, RequestFields
<1>3. q.item.revision \in Nat /\ q.item.content \in Contents
  BY <1>2 DEF Item
<1>4. Live(c) => cals[c].id \in Nat
  BY <1>2, ItemThere DEF RequestsInv
<1>5. fact \in Known \cup {Nil} /\ (fact # Nil => fact.via = "GET")
  BY <1>1, <1>3, <1>4 DEF Known
<1>6. Learn(k, q.ref, fact) /\ Done(k) /\ UNCHANGED storeVars
  BY DEF AnswerGet
<1>7. StoreStep
  BY <1>6, StandingStep DEF RequestsInv
<1> HIDE DEF fact, q
<1> QED
  BY <1>2, <1>5, <1>6, <1>7, LearnReported, DoneInv

LEMMA OpenReportInv ==
  ASSUME RequestsInv, NEW k \in Clients, NEW r \in Refs, OpenReport(k, r)
  PROVE  RequestsInv'
<1>1. cals[r[1]].id \in Nat /\ cals[r[1]].id <= issued
  BY ItemThere DEF OpenReport, RequestsInv
<1>2. [op |-> "REPORT", ref |-> r, scope |-> cals[r[1]].id] \in Request
  BY <1>1 DEF Request
<1> QED
  BY <1>1, <1>2, OpenInv DEF OpenReport

(* The item is read under a scope read before it: if the calendar was      *)
(* replaced in between, the ETag is of an incarnation that is gone.        *)
LEMMA AnswerReportInv ==
  ASSUME RequestsInv, NEW k \in Clients, AnswerReport(k)
  PROVE  RequestsInv'
<1> DEFINE q == req[k]
           r == q.ref
           fact == IF ItemAt(r) = Nil THEN Nil
                   ELSE [via |-> "REPORT", id |-> q.scope,
                         rev |-> ItemAt(r).revision, content |-> ItemAt(r).content]
<1>1. q \in Request /\ q.op = "REPORT" /\ q.scope <= issued
  BY DEF AnswerReport, Idle, RequestsInv, TypesOK, RequestsSound
<1>2. r \in Refs /\ q.scope \in Nat
  BY <1>1, RequestFields
<1>3. Learn(k, r, fact) /\ Done(k) /\ UNCHANGED storeVars
  BY DEF AnswerReport
<1>4. StoreStep /\ cals' = cals /\ issued' = issued
  BY <1>3, StandingStep DEF RequestsInv, storeVars
<1>5. ItemAt(r) # Nil =>
        /\ ItemAt(r) \in Item /\ ItemAt(r) = cals[r[1]].items[r[2]]
        /\ ItemAt(r).revision > 0 /\ ItemAt(r).revision <= cals[r[1]].rev
  BY <1>2, ItemThere DEF RequestsInv
<1>6. fact \in Known \cup {Nil}
  BY <1>2, <1>5 DEF Known, Item
<1>7. fact # Nil => fact.id <= issued' /\ Faithful(cals'[r[1]], r[2], fact)
  BY <1>1, <1>4, <1>5 DEF Faithful
<1> HIDE DEF fact, q
<1> QED
  BY <1>2, <1>3, <1>4, <1>6, <1>7, LearnReported, DoneInv

---------------------------------------------------------------------------
(* The writes.                                                             *)

LEMMA OpenWriteInv ==
  ASSUME RequestsInv, NEW k \in Clients, NEW r \in Refs, NEW h \in HeadersOf(k, r)
  PROVE  /\ \A body \in Contents : OpenPut(k, r, body, h) => RequestsInv'
         /\ OpenDelete(k, r, h) => RequestsInv'
         /\ \A op \in {"COPY", "MOVE"}, dst \in Refs, overwrite \in BOOLEAN :
              OpenTransfer(k, op, r, dst, h, overwrite) => RequestsInv'
<1> DEFINE scope == cals[r[1]].id
<1>1. Live(r[1]) => scope \in Nat /\ scope <= issued
  BY ItemThere DEF RequestsInv
<1>2. h \in Headers
  BY HeadersTyped DEF RequestsInv
<1>3. ASSUME NEW body \in Contents, OpenPut(k, r, body, h)
      PROVE  RequestsInv'
  <2>1. [op |-> "PUT", ref |-> r, scope |-> scope, headers |-> h, body |-> body] \in Request
    BY <1>1, <1>2, <1>3 DEF OpenPut, Request
  <2> QED
    BY <1>1, <1>3, <2>1, OpenInv DEF OpenPut
<1>4. ASSUME OpenDelete(k, r, h)
      PROVE  RequestsInv'
  <2>1. [op |-> "DELETE", ref |-> r, scope |-> scope, headers |-> h] \in Request
    BY <1>1, <1>2, <1>4 DEF OpenDelete, Request
  <2> QED
    BY <1>1, <1>4, <2>1, OpenInv DEF OpenDelete
<1>5. ASSUME NEW op \in {"COPY", "MOVE"}, NEW dst \in Refs, NEW overwrite \in BOOLEAN,
             OpenTransfer(k, op, r, dst, h, overwrite)
      PROVE  RequestsInv'
  <2>1. [op |-> op, ref |-> r, scope |-> scope, headers |-> h,
         dst |-> dst, overwrite |-> overwrite] \in Request
    BY <1>1, <1>2, <1>5 DEF OpenTransfer, Request
  <2> QED
    BY <1>1, <1>5, <2>1, OpenInv DEF OpenTransfer
<1> QED
  BY <1>3, <1>4, <1>5

(* What a successful write leaves at its resource. *)
LEMMA StoredAt ==
  ASSUME IInv, NEW c \in Calendars, NEW n \in Names, NEW request,
         request.contentID \in ContentIDs, request.content \in Contents,
         CompareAndStoreItem(c, n, request)
  PROVE  /\ Live(c) /\ cals'[c].rev \in Nat /\ cals'[c].rev > 0
         /\ cals'[c].items[n].content = request.content
<1> DEFINE new == Stored(cals[c], n, request.contentID, request.content)
<1>1. Live(c) /\ cals' = [cals EXCEPT ![c] = new]
  BY DEF CompareAndStoreItem, StoreItemError
<1>2. cals \in [Calendars -> Calendar \cup {Nil}] /\ cals[c] \in Calendar
  BY <1>1, LiveCalendar DEF IInv, TypeOK
<1>3. StoredShape(cals[c], n, request.contentID, request.content, new)
  BY <1>2, StoredFields
<1> HIDE DEF new
<1>4. cals'[c] = new
  BY <1>1, <1>2
<1>5. cals[c].rev \in Nat /\ cals[c].items \in [Names -> Item \cup {Nil}]
  BY <1>2 DEF Calendar
<1>6. new.rev = cals[c].rev + 1 /\ new.items[n].content = request.content
  BY <1>3, <1>5 DEF StoredShape
<1> QED
  BY <1>1, <1>4, <1>5, <1>6

LEMMA PutInv ==
  ASSUME RequestsInv, NEW k \in Clients, Put(k)
  PROVE  RequestsInv'
<1> DEFINE q == req[k]
           c == q.ref[1]
           n == q.ref[2]
           fact == PutAnswer(q, cals'[c])
<1>1. q \in Request /\ q.op = "PUT" /\ q.scope <= issued
  BY DEF Put, Idle, RequestsInv, TypesOK, RequestsSound
<1>2. /\ q.ref \in Refs /\ q.scope \in Nat /\ q.body \in Contents
      /\ c \in Calendars /\ n \in Names
  BY <1>1, RequestFields DEF Refs
<1>3. /\ CompareAndStoreItem(c, n, PutRequest(q))
      /\ Learn(k, q.ref, fact) \/ UNCHANGED known
      /\ Done(k)
  BY DEF Put
<1>4. /\ PutRequest(q).contentID \in ContentIDs
      /\ PutRequest(q).content = q.body
  BY <1>2, RequestsAssumption DEF PutRequest
<1>5. StoreStep
  BY <1>2, <1>3, <1>4, StoreItemStep DEF RequestsInv
<1>6. /\ cals'[c].rev \in Nat /\ cals'[c].rev > 0
      /\ cals'[c].items[n].content = q.body
  BY <1>2, <1>3, <1>4, StoredAt DEF RequestsInv
<1>7. fact \in Known
  BY <1>2, <1>6 DEF PutAnswer, Known
<1>8. fact.id <= issued' /\ Faithful(cals'[c], n, fact)
  <2>1. issued' = issued
    BY <1>3 DEF CompareAndStoreItem
  <2> QED
    BY <1>1, <1>6, <2>1 DEF PutAnswer, Faithful
<1> HIDE DEF fact, q
<1>9. CASE Learn(k, q.ref, fact)
  BY <1>2, <1>3, <1>5, <1>7, <1>8, <1>9, LearnReported, DoneInv
<1>10. CASE UNCHANGED known
  BY <1>3, <1>5, <1>10, SilentInv
<1> QED
  BY <1>3, <1>9, <1>10

(* The transactions of the other writers. *)
LEMMA WriteStep ==
  ASSUME IInv, TypesOK, NEW k \in Clients, Delete(k) \/ Transfer(k)
  PROVE  StoreStep /\ AllKept
<1> DEFINE q == req[k]
           pre == PreconditionsFrom(q.scope, q.headers)
<1>1. q \in Request
  BY DEF Delete, Transfer, Idle, TypesOK
<1>2. CASE UNCHANGED storeVars
  BY <1>2, StandingStep
<1>3. CASE q.op = "DELETE" /\ CompareAndDeleteItem(q.ref[1], q.ref[2], pre)
  <2>1. q.ref[1] \in Calendars /\ q.ref[2] \in Names
    BY <1>1, <1>3, RequestFields DEF Refs
  <2> QED
    BY <1>3, <2>1, DeleteItemStep
<1>4. CASE /\ q.op \in {"COPY", "MOVE"}
           /\ \/ CompareAndMoveItem(q.ref[1], q.ref[2], q.dst[1], q.dst[2], TransferRequest(q))
              \/ CompareAndCopyItem(q.ref[1], q.ref[2], q.dst[1], q.dst[2], TransferRequest(q))
  <2>1. /\ q.ref[1] \in Calendars /\ q.ref[2] \in Names
        /\ q.dst[1] \in Calendars /\ q.dst[2] \in Names
    BY <1>1, <1>4, RequestFields DEF Refs
  <2>2. q.ref[1] = q.dst[1] \/ q.ref[1] # q.dst[1]
    OBVIOUS
  <2> HIDE DEF q
  <2> QED
    BY <1>4, <2>1, <2>2, CopyItemStep, RenameStep, MoveAcrossStep
<1> QED
  BY <1>2, <1>3, <1>4 DEF Delete, Transfer

LEMMA WriteInv ==
  ASSUME RequestsInv, NEW k \in Clients, Delete(k) \/ Transfer(k) \/ PutFails(k)
  PROVE  RequestsInv'
<1>1. Done(k) /\ known' = known
  BY DEF Delete, Transfer, PutFails
<1>2. StoreStep
  <2>1. CASE Delete(k) \/ Transfer(k)
    BY <2>1, WriteStep DEF RequestsInv
  <2>2. CASE PutFails(k)
    BY <2>2, StandingStep DEF PutFails, RequestsInv, storeVars
  <2> QED
    BY <2>1, <2>2
<1> QED
  BY <1>1, <1>2, SilentInv

---------------------------------------------------------------------------
(* Calendars.                                                              *)

LEMMA CollectionStep ==
  ASSUME IInv, NEW c \in Calendars, NEW settings \in Settings,
         Mkcalendar(c, settings) \/ PropPatch(c, settings)
  PROVE  StoreStep /\ AllKept /\ known' = known /\ req' = req
BY CreateCalendarStep, UpdateCalendarStep DEF Mkcalendar, PropPatch

LEMMA CollectionInv ==
  ASSUME RequestsInv, CollectionNext
  PROVE  RequestsInv'
<1>1. ASSUME NEW c \in Calendars, NEW settings \in Settings,
             Mkcalendar(c, settings) \/ PropPatch(c, settings)
      PROVE  RequestsInv'
  BY <1>1, CollectionStep, SilentInv DEF RequestsInv
<1>2. ASSUME NEW k \in Clients, NEW c \in Calendars, NEW h \in Tagless,
             OpenDeleteCalendar(k, c, h)
      PROVE  RequestsInv'
  <2> DEFINE request == [op |-> "DELETE CALENDAR", cal |-> c, scope |-> cals[c].id,
                         headers |-> h]
  <2>1. Live(c) /\ Open(k, request)
    BY <1>2 DEF OpenDeleteCalendar
  <2>2. cals[c].id \in Nat /\ cals[c].id <= issued
    <3>1. cals[c].id \in 1..issued /\ issued \in Nat
      BY <2>1 DEF RequestsInv, IInv, IncarnationsDistinct, TypeOK
    <3> QED
      BY <3>1
  <2>3. h \in Headers
    BY DEF Tagless, Headers, Kinds
  <2>4. request \in Request
    BY <2>2, <2>3 DEF Request
  <2> QED
    BY <2>1, <2>2, <2>4, OpenInv
<1>3. ASSUME NEW k \in Clients, DeleteCalendar(k)
      PROVE  RequestsInv'
  <2> DEFINE q == req[k]
  <2>1. q \in Request /\ q.op = "DELETE CALENDAR"
    BY <1>3 DEF DeleteCalendar, Idle, RequestsInv, TypesOK
  <2>2. q.cal \in Calendars
    BY <2>1, RequestFields
  <2>3. StoreStep
    BY <1>3, <2>2, DeleteCalendarStep, StandingStep DEF DeleteCalendar, RequestsInv
  <2> QED
    BY <1>3, <2>3, SilentInv DEF DeleteCalendar
<1> QED
  BY <1>1, <1>2, <1>3 DEF CollectionNext

---------------------------------------------------------------------------

LEMMA RequestsInitInv == RequestsInit => RequestsInv
<1> SUFFICES ASSUME RequestsInit PROVE RequestsInv
  OBVIOUS
<1>1. IInv
  BY InitInv DEF RequestsInit
<1>2. RevisionsPositive
  BY DEF RequestsInit, Init, RevisionsPositive, Live
<1> QED
  BY <1>1, <1>2 DEF RequestsInit, RequestsInv, TypesOK, RequestsSound, ReportedFaithful

LEMMA RequestsStepInv ==
  ASSUME RequestsInv, [RequestsNext]_vars
  PROVE  RequestsInv'
<1>1. ASSUME NEW k \in Clients, ReadNext(k)
      PROVE  RequestsInv'
  BY <1>1, GetItemInv, OpenReportInv, AnswerGetInv, AnswerReportInv DEF ReadNext
<1>2. ASSUME NEW k \in Clients, WriteNext(k)
      PROVE  RequestsInv'
  <2>1. ASSUME NEW r \in Refs, NEW h \in HeadersOf(k, r),
               \/ \E body \in Contents : OpenPut(k, r, body, h)
               \/ OpenDelete(k, r, h)
               \/ \E dst \in Refs \ {r}, op \in {"COPY", "MOVE"} \cap Methods,
                     overwrite \in BOOLEAN :
                    OpenTransfer(k, op, r, dst, h, overwrite)
        PROVE  RequestsInv'
    BY <2>1, OpenWriteInv
  <2> QED
    BY <1>2, <2>1, PutInv, WriteInv DEF WriteNext
<1>3. CASE CollectionNext
  BY <1>3, CollectionInv
<1>4. CASE UNCHANGED vars
  <2>1. UNCHANGED storeVars /\ known' = known /\ req' = req
    BY <1>4 DEF vars, storeVars
  <2> QED
    BY <2>1, StandingStep, SilentInv DEF RequestsInv
<1> QED
  BY <1>1, <1>2, <1>3, <1>4 DEF RequestsNext

LEMMA RequestsInvariance == RequestsSpec => []RequestsInv
BY RequestsInitInv, RequestsStepInv, PTL DEF RequestsSpec

(* The handlers and the clients hold only what their types say; an ETag    *)
(* never carries revision 0.                                               *)
THEOREM RequestsTypeCorrect == RequestsSpec => []RequestsTypeOK
<1>1. RequestsInv => RequestsTypeOK
  BY DEF RequestsInv, TypesOK, RequestsTypeOK
<1> QED
  BY <1>1, RequestsInvariance, PTL

(* An ETag that a REPORT or a PUT answered with, and that matches, is of   *)
(* the bytes it came with, whatever was deleted and created meanwhile.     *)
THEOREM ReportedETagsHonest == RequestsSpec => []ReportedETagsNameBytes
<1>1. RequestsInv => ReportedETagsNameBytes
  <2> SUFFICES ASSUME RequestsInv, NEW k \in Clients, NEW r \in Refs,
                      known[k][r] # Nil, known[k][r].via # "GET",
                      TagMatches(r, known[k][r])
               PROVE  ItemAt(r).content = known[k][r].content
    BY DEF ReportedETagsNameBytes, Honest
  <2>1. FaithfulTag(r, known[k][r])
    BY DEF RequestsInv, ReportedFaithful
  <2> QED
    BY <2>1 DEF FaithfulTag, Faithful, TagMatches, ItemAt, Live
<1> QED
  BY <1>1, RequestsInvariance, PTL

---------------------------------------------------------------------------
(* Without deletions.                                                      *)

TagFaithful(store, ids, r, t) == t.id <= ids /\ Faithful(store[r[1]], r[2], t)

(* What GET will answer with, if its calendar stays. *)
ETagRead(store, q) ==
  [id |-> store[q.ref[1]].id, rev |-> q.item.revision, content |-> q.item.content]

(* The calendar a request found is there, and the ETags it carries are     *)
(* faithful to its resource.                                               *)
RequestFaithful(store, ids, q) ==
  /\ q.op # "DELETE CALENDAR"
  /\ store[q.ref[1]] # Nil
  /\ q.op = "GET" => Faithful(store[q.ref[1]], q.ref[2], ETagRead(store, q))
  /\ q.op # "GET" => store[q.ref[1]].id = q.scope
  /\ q.op \in {"PUT", "DELETE", "COPY", "MOVE"} /\ q.headers.kind = "ifMatch" =>
       \A t \in q.headers.tags : TagFaithful(store, ids, q.ref, t)

EditInv ==
  /\ RequestsInv
  /\ \A k \in Clients : req[k] # Nil => RequestFaithful(cals, issued, req[k])
  /\ \A k \in Clients, r \in Refs :
       known[k][r] # Nil => TagFaithful(cals, issued, r, known[k][r])

LEMMA StepTag ==
  ASSUME IInv, StoreStep, NEW r \in Refs, NEW t \in Known,
         TagFaithful(cals, issued, r, t)
  PROVE  TagFaithful(cals', issued', r, t)
<1>1. r[1] \in Calendars /\ r[2] \in Names /\ t.id \in Nat /\ t.rev \in Nat
  BY DEF Refs, Known
<1> QED
  BY <1>1, StepFaithful DEF TagFaithful

LEMMA StepRequest ==
  ASSUME IInv, StoreStep, AllKept, NEW q \in Request, RequestFaithful(cals, issued, q)
  PROVE  RequestFaithful(cals', issued', q)
<1> DEFINE c == q.ref[1]
           n == q.ref[2]
<1>1. q.op # "DELETE CALENDAR" /\ Live(c)
  BY DEF RequestFaithful, Live
<1>2. q.ref \in Refs /\ c \in Calendars /\ n \in Names
  BY <1>1 DEF Request, Refs
<1>3. cals'[c] # Nil /\ cals'[c].id = cals[c].id
  BY <1>1, <1>2 DEF AllKept, StoreStep, Rewritten, Created, Advances
<1>4. q.op = "GET" => Faithful(cals'[c], n, ETagRead(cals', q))
  <2> SUFFICES ASSUME q.op = "GET"
               PROVE  Faithful(cals'[c], n, ETagRead(cals, q))
    BY <1>3 DEF ETagRead
  <2> DEFINE t == ETagRead(cals, q)
  <2>1. q.item \in Item /\ q.item.revision \in Nat
    BY RequestFields DEF Item
  <2>2. cals[c].id \in 1..issued /\ issued \in Nat
    BY <1>1, <1>2 DEF IInv, TypeOK, IncarnationsDistinct
  <2>3. t.id \in Nat /\ t.rev \in Nat /\ t.id <= issued
    <3>1. t.id = cals[c].id /\ t.rev = q.item.revision
      BY DEF ETagRead
    <3> QED
      BY <2>1, <2>2, <3>1
  <2>4. Faithful(cals[c], n, t)
    BY DEF RequestFaithful
  <2> HIDE DEF t
  <2>5. Faithful(cals'[c], n, t)
    BY <1>2, <2>3, <2>4, StepFaithful
  <2> QED
    BY <2>5 DEF t
<1>5. ASSUME q.op \in {"PUT", "DELETE", "COPY", "MOVE"}, q.headers.kind = "ifMatch",
             NEW t \in q.headers.tags
      PROVE  TagFaithful(cals', issued', q.ref, t)
  <2>1. q.headers \in Headers
    BY <1>5, RequestFields
  <2>2. t \in Known /\ TagFaithful(cals, issued, q.ref, t)
    BY <1>5, <2>1 DEF Headers, RequestFaithful
  <2> QED
    BY <1>2, <2>2, StepTag
<1> QED
  BY <1>1, <1>3, <1>4, <1>5 DEF RequestFaithful

LEMMA EditStep ==
  ASSUME EditInv, RequestsInv', StoreStep, AllKept,
         \A k \in Clients :
           req'[k] \in {req[k], Nil} \/ RequestFaithful(cals', issued', req'[k]),
         \A k \in Clients, r \in Refs :
           known'[k][r] \in {known[k][r], Nil} \/ TagFaithful(cals', issued', r, known'[k][r])
  PROVE  EditInv'
<1>1. ASSUME NEW k \in Clients, req'[k] # Nil
      PROVE  RequestFaithful(cals', issued', req'[k])
  <2>1. CASE req'[k] = req[k]
    <3>1. req[k] \in Request /\ RequestFaithful(cals, issued, req[k])
      BY <1>1, <2>1 DEF EditInv, RequestsInv, TypesOK
    <3> QED
      BY <2>1, <3>1, StepRequest DEF EditInv, RequestsInv
  <2> QED
    BY <1>1, <2>1
<1>2. ASSUME NEW k \in Clients, NEW r \in Refs, known'[k][r] # Nil
      PROVE  TagFaithful(cals', issued', r, known'[k][r])
  <2>1. CASE known'[k][r] = known[k][r]
    <3>1. known[k][r] \in Known /\ TagFaithful(cals, issued, r, known[k][r])
      BY <1>2, <2>1 DEF EditInv, RequestsInv, TypesOK
    <3> QED
      BY <2>1, <3>1, StepTag DEF EditInv, RequestsInv
  <2> QED
    BY <1>2, <2>1
<1> QED
  BY <1>1, <1>2 DEF EditInv

LEMMA OpenEdit ==
  ASSUME EditInv, RequestsInv', NEW k \in Clients, NEW request, Open(k, request),
         RequestFaithful(cals, issued, request)
  PROVE  EditInv'
<1>1. /\ cals' = cals /\ issued' = issued /\ known' = known
      /\ req' = [req EXCEPT ![k] = request]
  BY DEF Open
<1>2. StoreStep /\ AllKept
  BY <1>1, StandingStep DEF EditInv, RequestsInv, storeVars
<1>3. \A j \in Clients : req'[j] = IF j = k THEN request ELSE req[j]
  BY <1>1 DEF EditInv, RequestsInv, TypesOK
<1> QED
  BY <1>1, <1>2, <1>3, EditStep

LEMMA LearnEdit ==
  ASSUME EditInv, RequestsInv', StoreStep, AllKept, NEW k \in Clients,
         NEW r \in Refs, NEW fact, Learn(k, r, fact), Done(k) \/ req' = req,
         fact = Nil \/ TagFaithful(cals', issued', r, fact)
  PROVE  EditInv'
<1>1. \A j \in Clients, q \in Refs :
        known'[j][q] = IF j = k /\ q = r THEN fact ELSE known[j][q]
  BY DEF EditInv, RequestsInv, TypesOK, Learn
<1>2. \A j \in Clients : req'[j] \in {req[j], Nil}
  BY DEF EditInv, RequestsInv, TypesOK, Done
<1> QED
  BY <1>1, <1>2, EditStep

LEMMA SilentEdit ==
  ASSUME EditInv, RequestsInv', StoreStep, AllKept, known' = known,
         req' = req \/ \E k \in Clients : Done(k)
  PROVE  EditInv'
<1>1. \A j \in Clients : req'[j] \in {req[j], Nil}
  BY DEF EditInv, RequestsInv, TypesOK, Done
<1> QED
  BY <1>1, EditStep

LEMMA ReadEdit ==
  ASSUME EditInv, RequestsInv', NEW k \in Clients, ReadNext(k)
  PROVE  EditInv'
<1> USE DEF EditInv
<1>1. ASSUME NEW r \in Refs, GetItem(k, r)
      PROVE  EditInv'
  <2>1. CASE /\ ItemAt(r) # Nil
             /\ Open(k, [op |-> "GET", ref |-> r, item |-> ItemAt(r)])
    <3> DEFINE request == [op |-> "GET", ref |-> r, item |-> ItemAt(r)]
    <3>1. /\ Live(r[1]) /\ ItemAt(r) = cals[r[1]].items[r[2]]
          /\ ItemAt(r).revision <= cals[r[1]].rev
      BY <2>1, ItemThere DEF RequestsInv
    <3>2. RequestFaithful(cals, issued, request)
      BY <3>1 DEF RequestFaithful, Faithful, ETagRead, Live
    <3> QED
      BY <2>1, <3>2, OpenEdit
  <2>2. CASE Learn(k, r, Nil) /\ UNCHANGED <<cals, issued, req>>
    BY <2>2, StandingStep, LearnEdit DEF RequestsInv, storeVars
  <2> QED
    BY <1>1, <2>1, <2>2 DEF GetItem
<1>2. ASSUME NEW r \in Refs, OpenReport(k, r)
      PROVE  EditInv'
  BY <1>2, OpenEdit DEF OpenReport, RequestFaithful, Live
<1>3. ASSUME AnswerGet(k)
      PROVE  EditInv'
  <2> DEFINE q == req[k]
             c == q.ref[1]
             fact == IF Live(c) THEN [via |-> "GET", id |-> cals[c].id,
                                      rev |-> q.item.revision, content |-> q.item.content]
                     ELSE Nil
  <2>1. /\ Learn(k, q.ref, fact) /\ Done(k) /\ UNCHANGED storeVars
        /\ q # Nil /\ q.op = "GET" /\ q \in Request
    BY <1>3 DEF AnswerGet, Idle, RequestsInv, TypesOK
  <2>2. q.ref \in Refs /\ c \in Calendars
    BY <2>1, RequestFields DEF Refs
  <2>3. Live(c) /\ Faithful(cals[c], q.ref[2], ETagRead(cals, q))
    BY <2>1 DEF RequestFaithful, Live
  <2>4. cals[c].id <= issued
    BY <2>2, <2>3, ItemThere DEF RequestsInv
  <2>5. TagFaithful(cals, issued, q.ref, fact)
    BY <2>3, <2>4 DEF TagFaithful, Faithful, ETagRead
  <2>6. StoreStep /\ AllKept /\ cals' = cals /\ issued' = issued
    BY <2>1, StandingStep DEF RequestsInv, storeVars
  <2> HIDE DEF fact, q
  <2> QED
    BY <2>1, <2>2, <2>5, <2>6, LearnEdit
<1>4. ASSUME AnswerReport(k)
      PROVE  EditInv'
  <2> DEFINE q == req[k]
             r == q.ref
             fact == IF ItemAt(r) = Nil THEN Nil
                     ELSE [via |-> "REPORT", id |-> q.scope,
                           rev |-> ItemAt(r).revision, content |-> ItemAt(r).content]
  <2>1. /\ Learn(k, r, fact) /\ Done(k) /\ UNCHANGED storeVars
        /\ q # Nil /\ q.op = "REPORT" /\ q \in Request
    BY <1>4 DEF AnswerReport, Idle, RequestsInv, TypesOK
  <2>2. r \in Refs
    BY <2>1, RequestFields
  <2>3. q.scope <= issued
    BY <2>1 DEF RequestsInv, RequestsSound
  <2>4. ItemAt(r) # Nil => /\ ItemAt(r) = cals[r[1]].items[r[2]]
                           /\ ItemAt(r).revision <= cals[r[1]].rev
    BY <2>2, ItemThere DEF RequestsInv
  <2>5. fact = Nil \/ TagFaithful(cals, issued, r, fact)
    BY <2>3, <2>4 DEF TagFaithful, Faithful
  <2>6. StoreStep /\ AllKept /\ cals' = cals /\ issued' = issued
    BY <2>1, StandingStep DEF RequestsInv, storeVars
  <2> HIDE DEF fact, q
  <2> QED
    BY <2>1, <2>2, <2>5, <2>6, LearnEdit
<1> QED
  BY <1>1, <1>2, <1>3, <1>4 DEF ReadNext

LEMMA OpenWriteEdit ==
  ASSUME EditInv, RequestsInv', NEW k \in Clients, NEW r \in Refs, NEW h \in HeadersOf(k, r)
  PROVE  /\ \A body : OpenPut(k, r, body, h) => EditInv'
         /\ OpenDelete(k, r, h) => EditInv'
         /\ \A dst, overwrite : \A op \in {"COPY", "MOVE"} :
              OpenTransfer(k, op, r, dst, h, overwrite) => EditInv'
<1>1. h.kind = "ifMatch" => \A t \in h.tags : TagFaithful(cals, issued, r, t)
  BY DEF HeadersOf, Tagless, EditInv
<1>2. ASSUME NEW body, OpenPut(k, r, body, h)
      PROVE  EditInv'
  BY <1>1, <1>2, OpenEdit DEF OpenPut, RequestFaithful, Live
<1>3. ASSUME OpenDelete(k, r, h)
      PROVE  EditInv'
  BY <1>1, <1>3, OpenEdit DEF OpenDelete, RequestFaithful, Live
<1>4. ASSUME NEW op \in {"COPY", "MOVE"}, NEW dst, NEW overwrite,
             OpenTransfer(k, op, r, dst, h, overwrite)
      PROVE  EditInv'
  BY <1>1, <1>4, OpenEdit DEF OpenTransfer, RequestFaithful, Live
<1> QED
  BY <1>2, <1>3, <1>4

LEMMA PutEdit ==
  ASSUME EditInv, RequestsInv', NEW k \in Clients, Put(k)
  PROVE  EditInv'
<1> DEFINE q == req[k]
           c == q.ref[1]
           n == q.ref[2]
           fact == PutAnswer(q, cals'[c])
<1>1. q \in Request /\ q # Nil /\ q.op = "PUT" /\ q.scope <= issued
  BY DEF Put, Idle, EditInv, RequestsInv, TypesOK, RequestsSound
<1>2. /\ q.ref \in Refs /\ q.body \in Contents /\ c \in Calendars /\ n \in Names
  BY <1>1, RequestFields DEF Refs
<1>3. /\ CompareAndStoreItem(c, n, PutRequest(q))
      /\ Learn(k, q.ref, fact) \/ UNCHANGED known
      /\ Done(k)
  BY DEF Put
<1>4. /\ PutRequest(q).contentID \in ContentIDs
      /\ PutRequest(q).content = q.body
  BY <1>2, RequestsAssumption DEF PutRequest
<1>5. StoreStep /\ AllKept /\ issued' = issued
  BY <1>2, <1>3, <1>4, StoreItemStep DEF EditInv, RequestsInv, CompareAndStoreItem
<1>6. cals'[c].rev \in Nat /\ cals'[c].items[n].content = q.body
  BY <1>2, <1>3, <1>4, StoredAt DEF EditInv, RequestsInv
<1>7. TagFaithful(cals', issued', q.ref, fact)
  BY <1>1, <1>5, <1>6 DEF TagFaithful, Faithful, PutAnswer
<1> HIDE DEF fact, q
<1>8. CASE Learn(k, q.ref, fact)
  BY <1>2, <1>3, <1>5, <1>7, <1>8, LearnEdit
<1>9. CASE UNCHANGED known
  BY <1>3, <1>5, <1>9, SilentEdit
<1> QED
  BY <1>3, <1>8, <1>9

LEMMA EditStepInv ==
  ASSUME ~DeletesCalendars, EditInv, [RequestsNext]_vars
  PROVE  EditInv'
<1>1. RequestsInv /\ RequestsInv' /\ IInv /\ TypesOK
  BY RequestsStepInv DEF EditInv, RequestsInv
<1>2. ASSUME NEW k \in Clients, ReadNext(k)
      PROVE  EditInv'
  BY <1>1, <1>2, ReadEdit
<1>3. ASSUME NEW k \in Clients, WriteNext(k)
      PROVE  EditInv'
  <2>1. ASSUME NEW r \in Refs, NEW h \in HeadersOf(k, r),
               \/ \E body \in Contents : OpenPut(k, r, body, h)
               \/ OpenDelete(k, r, h)
               \/ \E dst \in Refs \ {r}, op \in {"COPY", "MOVE"} \cap Methods,
                     overwrite \in BOOLEAN :
                    OpenTransfer(k, op, r, dst, h, overwrite)
        PROVE  EditInv'
    BY <1>1, <2>1, OpenWriteEdit
  <2>2. CASE Delete(k) \/ Transfer(k)
    BY <1>1, <2>2, WriteStep, SilentEdit DEF Delete, Transfer
  <2>3. CASE PutFails(k)
    BY <1>1, <2>3, StandingStep, SilentEdit DEF PutFails, storeVars
  <2> QED
    BY <1>1, <1>3, <2>1, <2>2, <2>3, PutEdit DEF WriteNext
<1>4. CASE CollectionNext
  <2>1. ASSUME NEW c \in Calendars, NEW settings \in Settings,
               Mkcalendar(c, settings) \/ PropPatch(c, settings)
        PROVE  EditInv'
    BY <1>1, <2>1, CollectionStep, SilentEdit
  <2>2. ASSUME NEW k \in Clients, DeleteCalendar(k)
        PROVE  FALSE
    BY <2>2 DEF DeleteCalendar, Idle, EditInv, RequestFaithful
  <2> QED
    BY <1>4, <2>1, <2>2 DEF CollectionNext, OpenDeleteCalendar
<1>5. CASE UNCHANGED vars
  <2>1. UNCHANGED storeVars /\ known' = known /\ req' = req
    BY <1>5 DEF vars, storeVars
  <2> QED
    BY <1>1, <2>1, StandingStep, SilentEdit
<1> QED
  BY <1>2, <1>3, <1>4, <1>5 DEF RequestsNext

(* The steps that apply a conditional write. *)
LEMMA AppliedBy ==
  ASSUME ~DeletesCalendars, EditInv, RequestsNext, NEW k \in Clients, Applied(k)
  PROVE  Put(k) \/ Delete(k) \/ Transfer(k)
<1>1. req \in [Clients -> Request \cup {Nil}]
  BY DEF EditInv, RequestsInv, TypesOK
<1>2. \A j \in Clients : Done(j) => j = k
  BY <1>1 DEF Done, Applied
<1>3. cals' # cals
  BY DEF Applied
<1>4. ASSUME NEW j \in Clients, ReadNext(j)
      PROVE  FALSE
  BY <1>3, <1>4 DEF ReadNext, GetItem, OpenReport, AnswerGet, AnswerReport, Open, storeVars
<1>5. ASSUME NEW j \in Clients, WriteNext(j)
      PROVE  Put(k) \/ Delete(k) \/ Transfer(k)
  <2>1. Put(j) \/ Delete(j) \/ Transfer(j)
    BY <1>3, <1>5 DEF WriteNext, PutFails, OpenPut, OpenDelete, OpenTransfer, Open
  <2>2. j = k
    BY <1>2, <2>1 DEF Put, Delete, Transfer
  <2> QED
    BY <2>1, <2>2
<1>6. CASE CollectionNext
  <2>1. req' # req
    BY DEF Applied
  <2>2. ASSUME NEW j \in Clients, DeleteCalendar(j)
        PROVE  FALSE
    BY <2>2 DEF DeleteCalendar, Idle, EditInv, RequestFaithful
  <2> QED
    BY <1>6, <2>1, <2>2 DEF CollectionNext, Mkcalendar, PropPatch, OpenDeleteCalendar
<1> QED
  BY <1>4, <1>5, <1>6 DEF RequestsNext

(* A precondition that the store accepted, in terms of what the client     *)
(* put into its headers.                                                   *)
LEMMA Accepted ==
  ASSUME EditInv, NEW k \in Clients, req[k] # Nil,
         req[k].op \in {"PUT", "DELETE", "COPY", "MOVE"},
         Check(PreconditionsFrom(req[k].scope, req[k].headers),
               CurrentRevision(cals[req[k].ref[1]].items[req[k].ref[2]]))
  PROVE  LET q == req[k] h == q.headers IN
         /\ h.kind = "ifMatch" =>
              \E t \in h.tags : TagMatches(q.ref, t) /\ ItemAt(q.ref).content = t.content
         /\ h.kind = "ifNoneMatchAny" => ItemAt(q.ref) = Nil
<1> DEFINE q == req[k]
           h == q.headers
           cal == cals[q.ref[1]]
           item == cal.items[q.ref[2]]
<1>1. q \in Request /\ RequestFaithful(cals, issued, q)
  BY DEF EditInv, RequestsInv, TypesOK
<1>2. q.ref \in Refs /\ q.ref[1] \in Calendars /\ q.ref[2] \in Names
  BY <1>1, RequestFields DEF Refs
<1>3. Live(q.ref[1]) /\ cal.id = q.scope
  BY <1>1 DEF RequestFaithful, Live
<1>4. ItemAt(q.ref) = item
  BY <1>3 DEF ItemAt
<1>5. item # Nil => item.revision \in Nat
  BY <1>2, <1>4, ItemThere DEF EditInv, RequestsInv, Item
<1>6. ASSUME h.kind = "ifMatch"
      PROVE  \E t \in h.tags : TagMatches(q.ref, t) /\ item.content = t.content
  <2>1. Check(IfRevision(RevisionsIn(q.scope, h.tags)), CurrentRevision(item))
    BY <1>6 DEF PreconditionsFrom
  <2>2. item # Nil /\ item.revision \in RevisionsIn(q.scope, h.tags)
    BY <2>1 DEF Check, IfRevision, CurrentRevision
  <2>3. PICK t \in h.tags : t.id = q.scope /\ t.rev = item.revision
    BY <2>2 DEF RevisionsIn
  <2>4. TagFaithful(cals, issued, q.ref, t)
    BY <1>1, <1>6 DEF RequestFaithful
  <2> QED
    BY <1>3, <1>4, <2>2, <2>3, <2>4 DEF TagFaithful, Faithful, TagMatches, Live
<1>7. ASSUME h.kind = "ifNoneMatchAny"
      PROVE  item = Nil
  <2>1. Check(IfTargetMissing, CurrentRevision(item))
    BY <1>7 DEF PreconditionsFrom
  <2>2. CurrentRevision(item) = Nil
    BY <2>1 DEF Check, IfTargetMissing
  <2> QED
    BY <1>5, <2>2, NilAssumption DEF CurrentRevision
<1> QED
  BY <1>4, <1>6, <1>7

(* Where calendars are not deleted, a conditional write is applied to      *)
(* exactly what the client saw, whoever wrote in between: incarnation,     *)
(* revision and bytes.                                                     *)
THEOREM NoUpdateIsLost ==
  ASSUME ~DeletesCalendars
  PROVE  RequestsSpec => NoLostUpdate
<1> DEFINE Kept(k) ==
             LET q == req[k] h == q.headers IN
             /\ h.kind = "ifMatch" =>
                  \E t \in h.tags : /\ TagMatches(q.ref, t)
                                   /\ ItemAt(q.ref).content = t.content
             /\ h.kind = "ifNoneMatchAny" => q.op = "PUT" /\ ItemAt(q.ref) = Nil
             /\ q.op \in {"COPY", "MOVE"} /\ ~q.overwrite => ItemAt(q.dst) = Nil
<1>1. RequestsInit => EditInv
  BY RequestsInitInv DEF RequestsInit, EditInv
<1>2. EditInv /\ [RequestsNext]_vars => EditInv'
  BY EditStepInv
<1>3. EditInv /\ [RequestsNext]_vars => [\A k \in Clients : Applied(k) => Kept(k)]_vars
  <2> SUFFICES ASSUME EditInv, RequestsNext, NEW k \in Clients, Applied(k)
               PROVE  Kept(k)
    OBVIOUS
  <2> DEFINE q == req[k]
             item == cals[q.ref[1]].items[q.ref[2]]
             pre == PreconditionsFrom(q.scope, q.headers)
  <2>1. /\ q # Nil /\ q \in Request /\ q.op \in {"PUT", "DELETE", "COPY", "MOVE"}
        /\ RequestFaithful(cals, issued, q) /\ cals' # cals
    BY DEF Applied, EditInv, RequestsInv, TypesOK
  <2>2. Live(q.ref[1]) /\ ItemAt(q.ref) = item
    BY <2>1 DEF RequestFaithful, Live, ItemAt
  <2>3. CASE Put(k)
    <3>1. q.op = "PUT" /\ StoreItemError(q.ref[1], q.ref[2], PutRequest(q)) = "nil"
      BY <2>3 DEF Put, CompareAndStoreItem
    <3>2. Check(pre, CurrentRevision(item))
      BY <3>1 DEF StoreItemError, PutRequest
    <3> QED
      BY <2>1, <3>1, <3>2, Accepted
  <2>4. CASE Delete(k)
    <3>1. q.op = "DELETE" /\ DeleteItemError(q.ref[1], q.ref[2], pre) = "nil"
      BY <2>1, <2>4 DEF Delete, storeVars
    <3>2. Check(pre, CurrentRevision(item)) /\ item # Nil
      BY <3>1 DEF DeleteItemError
    <3> QED
      BY <2>1, <2>2, <3>1, <3>2, Accepted
  <2>5. CASE Transfer(k)
    <3> DEFINE to == cals[q.dst[1]].items[q.dst[2]]
    <3>1. /\ q.op \in {"COPY", "MOVE"}
          /\ TransferError(q.ref[1], q.ref[2], q.dst[1], q.dst[2], TransferRequest(q),
                           q.op = "MOVE") = "nil"
      BY <2>1, <2>5 DEF Transfer, storeVars
    <3>2. /\ Check(pre, CurrentRevision(item)) /\ item # Nil /\ Live(q.dst[1])
          /\ Check(TransferRequest(q).destination, CurrentRevision(to))
      BY <3>1 DEF TransferError, TransferRequest
    <3>3. ~q.overwrite => CurrentRevision(to) = Nil
      BY <3>2 DEF TransferRequest, Check, IfTargetMissing
    <3>4. ItemAt(q.dst) = to /\ q.dst \in Refs
      BY <2>1, <3>1, <3>2, RequestFields DEF ItemAt
    <3>5. to # Nil => to.revision \in Nat
      BY <3>4, ItemThere DEF EditInv, RequestsInv, Item
    <3>6. ~q.overwrite => ItemAt(q.dst) = Nil
      BY <3>3, <3>4, <3>5, NilAssumption DEF CurrentRevision
    <3> QED
      BY <2>1, <2>2, <3>1, <3>2, <3>6, Accepted
  <2> QED
    BY <2>3, <2>4, <2>5, AppliedBy
<1> QED
  BY <1>1, <1>2, <1>3, PTL DEF RequestsSpec, NoLostUpdate

=============================================================================
