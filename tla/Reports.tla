------------------------------- MODULE Reports -------------------------------
(***************************************************************************)
(* The handlers of packages caldav and carddav that answer with a          *)
(* multi-status: addressbook-query, calendar-query, multiget,              *)
(* sync-collection, and PROPFIND with Depth: 1 of a collection and of an   *)
(* account.  A behaviour is one request: the backend yields what it holds, *)
(* the handler draws up the answer, and then writes row after row to a     *)
(* connection that may break.                                              *)
(*                                                                         *)
(* A member is what a row is about: an item of the collection, an href of  *)
(* the multiget, a change of the batch, a calendar of the account.  Its    *)
(* fate is what the handler will find out about it.                        *)
(***************************************************************************)
EXTENDS MultiStatus, FiniteSets, SequencesExt

CONSTANTS
  Names,
  Jobs,                  \* the requests, each with what the backend holds
  MaxCollectionScan, MaxCollectionBytes, MaxSearchResults,   \* Config
  MaxResponseBytes, MaxResponsePropBytes,                    \* Handler
  MaxHrefsPerMultiget

ASSUME BudgetsAssumption ==
  /\ {MaxCollectionScan, MaxCollectionBytes, MaxSearchResults,
      MaxHrefsPerMultiget} \subseteq Nat \ {0}
  /\ MaxResponseBytes \in Int
  /\ MaxResponsePropBytes \in Nat \ {0}

Queries == {"addressbook-query", "calendar-query"}
Listings == {"collection listing", "account listing"}
Syncs == {"initial sync", "sync"}
Kind == Queries \cup Listings \cup Syncs \cup {"multiget"}

(* "match" is served; "other" does not match the filter, is hidden from    *)
(* the actor, was deleted, or is refused: the row, if any, has no body.    *)
(* "garbled" bytes do not parse, "unrenderable" ones cannot be served as   *)
(* the client asked, "misnamed" breaks the backend's contract.             *)
Fates == {"match", "other", "garbled", "unrenderable", "misnamed"}

Member == [name: Names, bytes: Nat, fate: Fates]

(* Only addressbook-query and sync-collection read a limit, and only the   *)
(* changes since a token come in batches.                                  *)
Job ==
  {j \in [kind: Kind, stored: Seq(Member), limit: Nat \cup {Nil}, more: BOOLEAN,
           echo: Nat] :
     /\ j.limit # Nil => j.kind \in Syncs \cup {"addressbook-query"}
     /\ j.more => j.kind = "sync"}

ASSUME JobsAssumption == Jobs \subseteq Job

VARIABLES
  job,        \* the request
  pc,         \* "listing", "matching", "checking", "writing", "done"
  seen,       \* how many members were yielded or matched so far
  overrun,    \* the listing went over its budget
  matched,    \* the members to write, in order; 0 is the collection itself
  truncated,  \* the answer is known to be cut short
  cause,      \* why the request failed, or Nil
  w           \* the response

Causes == {"backend", "too much", "contract", "garbled", "row", "connection"}

ASSUME CausesAssumption == Nil \notin Causes

vars == <<job, pc, seen, overrun, matched, truncated, cause, w>>

Stored == job.stored
Count == Len(Stored)

Bytes(n) ==
  LET sum[k \in 0..Count] == IF k = 0 THEN 0 ELSE sum[k - 1] + Stored[k].bytes
  IN sum[n]

---------------------------------------------------------------------------
(* Ends of a handler.                                                      *)

(* return err: the deferred Abort, then ServeError. *)
Refuse(reason) ==
  /\ cause' = reason
  /\ w' = ServeError(Abort(w))
  /\ pc' = "done"
  /\ UNCHANGED <<job, seen, overrun, matched, truncated>>

(* Mutant: an error after the document was started is returned. *)
FailRow_Returned(reason) ==
  /\ cause' = reason
  /\ w' = ServeError(Abort(w))
  /\ pc' = "done"
  /\ UNCHANGED <<job, seen, overrun, matched, truncated>>

(* if !ms.Started() { return err }; return ms.Fail(err) *)
FailRow(reason) ==
  /\ cause' = reason
  /\ w' = IF w.started THEN Abort(Fail(w)) ELSE ServeError(Abort(w))
  /\ pc' = "done"
  /\ UNCHANGED <<job, seen, overrun, matched, truncated>>

---------------------------------------------------------------------------
(* listItems: drained before anything is answered, up to the scan budget.  *)

(* Mutant: a collection of exactly the budget is refused. *)
Overruns_OneEarly(n) == n >= MaxCollectionScan \/ Bytes(n) > MaxCollectionBytes

Overruns(n) == n > MaxCollectionScan \/ Bytes(n) > MaxCollectionBytes

(* ListCalendars and a delta have no budget: for a delta, syncDelta fetches *)
(* every member that the batch reports as changed.                         *)
Budgeted == job.kind \in Queries \cup {"collection listing", "initial sync"}

YieldItem ==
  /\ pc = "listing"
  /\ ~overrun /\ seen < Count
  /\ seen' = seen + 1
  /\ overrun' = (Budgeted /\ Overruns(seen + 1))
  /\ UNCHANGED <<job, pc, matched, truncated, cause, w>>

ListFails ==
  /\ pc = "listing"
  /\ Refuse("backend")

Listed == pc = "listing" /\ (overrun \/ seen = Count)

(* Mutant: what was listed before the budget ran out is served. *)
ListOverrun_Served ==
  /\ Listed /\ overrun
  /\ pc' = IF job.kind \in Queries THEN "matching" ELSE "writing"
  /\ matched' = IF job.kind \in Queries THEN <<>> ELSE [i \in 1..seen |-> i]
  /\ seen' = 0
  /\ UNCHANGED <<job, overrun, truncated, cause, w>>

ListOverrun ==
  /\ Listed /\ overrun
  /\ Refuse("too much")

(* Two members of one name, or none that a name could be. *)
Violation ==
  \/ \E i, j \in 1..Count : i # j /\ Stored[i].name = Stored[j].name
  \/ \E i \in 1..Count : Stored[i].fate = "misnamed"

ListViolation ==
  /\ Listed /\ ~overrun /\ Violation
  /\ Refuse("contract")

(* Of a delta, what changed comes before what was deleted, and each of     *)
(* them in the order of the batch.                                         *)
Precedes(i, j) ==
  LET deleted(k) == Stored[k].fate = "other" IN
  \/ ~deleted(i) /\ deleted(j)
  \/ (deleted(i) <=> deleted(j)) /\ i < j

(* The members in the order of their rows; there is one.                   *)
Members ==
  CASE job.kind \in Listings -> {[i \in 1..(Count + 1) |-> i - 1]}
    [] job.kind = "sync" ->
         {m \in Bijection(1..Count, 1..Count) :
            \A k, l \in 1..Count : k < l => Precedes(m[k], m[l])}
    [] OTHER -> {[i \in 1..Count |-> i]}

(* propFindAccount and propFindCalendar: membership before the collection's*)
(* own row.                                                                *)
EndListing ==
  /\ Listed /\ ~overrun /\ ~Violation
  /\ \/ /\ job.kind \in Queries
        /\ pc' = "matching"
        /\ matched' = <<>>
     \/ /\ job.kind \notin Queries
        /\ pc' = "checking"
        /\ matched' \in Members
  /\ seen' = 0
  /\ UNCHANGED <<job, overrun, truncated, cause, w>>

---------------------------------------------------------------------------
(* reportQuery: the filter, over everything that was listed.               *)

Current == Stored[seen + 1]

Matching == pc = "matching" /\ seen < Count /\ ~truncated

(* Bytes that do not parse cannot be matched: never an omission. *)
Unmatchable ==
  /\ Matching
  /\ Current.fate = "garbled"
  /\ Refuse("garbled")

NoMatch ==
  /\ Matching
  /\ Current.fate = "other"
  /\ seen' = seen + 1
  /\ UNCHANGED <<job, pc, overrun, matched, truncated, cause, w>>

IsMatch == Matching /\ Current.fate \in {"match", "unrenderable"}

(* Mutant: one match more than the client asked for. *)
LimitReached_OneLate == job.limit # Nil /\ Len(matched) > job.limit

LimitReached == job.limit # Nil /\ Len(matched) >= job.limit

(* addressbook-query alone has a limit: one match beyond it is enough to   *)
(* know.                                                                   *)
CutShort ==
  /\ IsMatch /\ LimitReached
  /\ truncated' = TRUE
  /\ UNCHANGED <<job, pc, seen, overrun, matched, cause, w>>

KeepMatch ==
  /\ IsMatch /\ ~LimitReached
  /\ Len(matched) < MaxSearchResults
  /\ matched' = Append(matched, seen + 1)
  /\ seen' = seen + 1
  /\ UNCHANGED <<job, pc, overrun, truncated, cause, w>>

TooManyMatches ==
  /\ IsMatch /\ ~LimitReached
  /\ Len(matched) >= MaxSearchResults
  /\ Refuse("too much")

(* Mutant: an answer of exactly the limit passes for a cut one. *)
EndMatching_CutAtLimit ==
  /\ pc = "matching" /\ (seen = Count \/ truncated)
  /\ pc' = "checking"
  /\ truncated' = LimitReached
  /\ UNCHANGED <<job, seen, overrun, matched, cause, w>>

EndMatching ==
  /\ pc = "matching" /\ (seen = Count \/ truncated)
  /\ pc' = "checking"
  /\ UNCHANGED <<job, seen, overrun, matched, truncated, cause, w>>

---------------------------------------------------------------------------
(* Before the first row.                                                   *)

(* BoundResponseWork: divided, as the product may overflow. *)
ResponseWork(n) == job.echo > 0 /\ n > 0 /\ job.echo > MaxResponsePropBytes \div n

OverLimit == job.kind \in Syncs /\ job.limit # Nil /\ Len(matched) > job.limit

(* PROPFIND does not know how many rows there will be and leaves the echo  *)
(* to the writer.                                                          *)
TooMuchWork ==
  \/ job.kind \notin Listings /\ ResponseWork(Len(matched))
  \/ job.kind = "multiget" /\ Count > MaxHrefsPerMultiget

BoundFails ==
  /\ pc = "checking" /\ (OverLimit \/ TooMuchWork)
  /\ Refuse("too much")

OpenDocument ==
  /\ pc = "checking" /\ ~OverLimit /\ ~TooMuchWork
  /\ w' = NewWriter(MaxResponseBytes, job.echo,
                    IF job.kind \in Listings THEN MaxResponsePropBytes ELSE 0)
  /\ pc' = "writing"
  /\ seen' = 0
  /\ UNCHANGED <<job, overrun, matched, truncated, cause>>

---------------------------------------------------------------------------
(* The rows.                                                               *)

Writing == pc = "writing" /\ seen < Len(matched)

Row == matched[seen + 1]

Fate == IF Row = 0 THEN "match" ELSE Stored[Row].fate

RowBytes == IF Row = 0 \/ Fate # "match" THEN NoteBytes ELSE Stored[Row].bytes

(* A member the actor may not see is left out of its account's listing. *)
Hidden == job.kind = "account listing" /\ Fate = "other"

(* What a multiget finds wrong with one href is that row's answer. *)
OwnRow ==
  \/ Fate \in {"match", "other"}
  \/ job.kind = "multiget" /\ Fate # "misnamed"

SkipHidden ==
  /\ Writing /\ Hidden
  /\ seen' = seen + 1
  /\ UNCHANGED <<job, pc, overrun, matched, truncated, cause, w>>

WriteRow ==
  /\ Writing /\ ~Hidden /\ OwnRow
  /\ ~WriteFails(w)
  /\ w' = Write(w, Row, RowBytes)
  /\ seen' = seen + 1
  /\ UNCHANGED <<job, pc, overrun, matched, truncated, cause>>

WriteBreaks ==
  /\ Writing /\ ~Hidden /\ OwnRow
  /\ WriteFails(w)
  /\ cause' = "connection"
  /\ w' = ServeError(Abort(Write(w, Row, RowBytes)))
  /\ pc' = "done"
  /\ UNCHANGED <<job, seen, overrun, matched, truncated>>

RowFails ==
  /\ Writing /\ ~Hidden /\ ~OwnRow
  /\ FailRow("row")

(* sync-collection truncates when the batch has more, the query when its   *)
(* limit cut it short; only then comes the token of what was written.      *)
Finished ==
  LET t == IF truncated THEN Truncate(w) ELSE w IN
  Close(IF job.kind \in Syncs THEN SetSyncToken(t, Count) ELSE t)

Finish ==
  /\ pc = "writing" /\ seen = Len(matched)
  /\ w' = Abort(Finished)
  /\ pc' = "done"
  /\ UNCHANGED <<job, seen, overrun, matched, truncated, cause>>

ConnectionBreaks ==
  /\ pc = "writing" /\ w.up
  /\ w' = Broken(w)
  /\ UNCHANGED <<job, pc, seen, overrun, matched, truncated, cause>>

---------------------------------------------------------------------------

ReportsInit ==
  /\ job \in Jobs
  /\ pc = IF job.kind = "multiget" THEN "checking" ELSE "listing"
  /\ seen = 0
  /\ overrun = FALSE
  /\ matched \in IF job.kind = "multiget" THEN Members ELSE {<<>>}
  /\ truncated = (job.kind = "sync" /\ job.more)
  /\ cause = Nil
  /\ w = NewWriter(MaxResponseBytes, 0, 0)

ReportsNext ==
  \/ YieldItem \/ ListFails \/ ListOverrun \/ ListViolation \/ EndListing
  \/ Unmatchable \/ NoMatch \/ CutShort \/ KeepMatch \/ TooManyMatches
  \/ EndMatching
  \/ BoundFails \/ OpenDocument
  \/ SkipHidden \/ WriteRow \/ WriteBreaks \/ RowFails \/ Finish
  \/ ConnectionBreaks

ReportsSpec == ReportsInit /\ [][ReportsNext]_vars

---------------------------------------------------------------------------
(* Properties.                                                             *)

(* Every prefix the client can have is the beginning of one well-formed    *)
(* document whose rows keep to the budget, however calls and failures mix. *)
DocumentWellFormed == WellFormed(w)

RowsKeepToBudget == RowsWithinLimit(w)

(* A request is answered once: by an HTTP error with nothing of a document,*)
(* or by a document that is closed if the connection lasts ("a client      *)
(* parses a complete document even when the server gave up part-way").     *)
AnsweredOnce ==
  /\ At(w, "error text") # {} => ~w.up
  /\ w.status = "error" => w.wire = <<>>
  /\ pc = "done" /\ w.up /\ w.status # "error" =>
       /\ w.wire # <<>>
       /\ Last(w.wire).kind = "close"

(* What a complete answer has a row for. *)
Owed ==
  CASE job.kind \in Queries ->
         {i \in 1..Count : Stored[i].fate \in {"match", "unrenderable"}}
    [] job.kind = "account listing" ->
         {0} \cup {i \in 1..Count : Stored[i].fate # "other"}
    [] job.kind = "collection listing" -> 0..Count
    [] OTHER -> 1..Count

Sent == {w.wire[i].of : i \in At(w, "row")}

Delivered == pc = "done" /\ w.up /\ w.status = "207"

(* An answer that misses a member says so: by the marker or by a failure.  *)
(* The scan budget, the limits, the response budget and members that       *)
(* cannot be parsed or rendered never shorten it in silence, and no row is *)
(* sent twice.                                                             *)
NoSilentOmission ==
  Delivered =>
    /\ Cardinality(At(w, "row")) = Cardinality(Sent)
    /\ Sent \subseteq Owed
    /\ Sent = Owed \/ At(w, "marker") # {} \/ At(w, "failure") # {}

(* The other way round: a report is marked as cut short only when          *)
(* something is missing from it.                                           *)
MarkerIsHonest ==
  Delivered /\ job.kind \notin Listings /\ At(w, "marker") # {} =>
    Sent # Owed \/ job.more

(* The server refuses a request as too much only when it is more than one  *)
(* of its budgets, or than the client's limit for a sync, allows.          *)
RefusedOnlyTooMuch ==
  cause = "too much" =>
    \/ Count > MaxCollectionScan \/ Bytes(Count) > MaxCollectionBytes
    \/ job.kind \in Queries /\ Cardinality(Owed) > MaxSearchResults
    \/ job.kind \in Syncs /\ job.limit # Nil /\ Count > job.limit
    \/ job.kind = "multiget" /\ Count > MaxHrefsPerMultiget
    \/ job.echo * Cardinality(Owed) > MaxResponsePropBytes

(* A token on the wire describes exactly what was sent: every member of    *)
(* the listing or of the batch is there.  A document cut by the response   *)
(* budget, or by a failure, has none.                                      *)
TokenDescribesRows ==
  At(w, "token") # {} => Sent = Owed /\ At(w, "failure") = {}

(* The client's limit is never exceeded. *)
LimitRespected ==
  w.status = "207" /\ job.limit # Nil => Cardinality(At(w, "row")) <= job.limit

=============================================================================
