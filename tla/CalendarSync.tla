---------------------------- MODULE CalendarSync ----------------------------
(***************************************************************************)
(* DAV:sync-collection over the calendar store (caldav: reportSync and     *)
(* syncDelta) and one client that keeps a copy of one calendar with it.    *)
(*                                                                         *)
(* A REPORT is answered in several transactions: it reads the calendar for *)
(* its ID, then the change list, then every changed item, one by one.  Any *)
(* method of the store may run between them.  The answer reaches the       *)
(* client whole or not at all.                                             *)
(*                                                                         *)
(* The client is external.  It does what RFC 6578 asks of it: a full sync  *)
(* without a token, then deltas from the token it was last given; after    *)
(* DAV:valid-sync-token it forgets its token and starts over, keeping its  *)
(* copy until the new listing is there; after any other error it retries.  *)
(***************************************************************************)
EXTENDS CalendarStore

CONSTANTS
  Home,          \* the calendar the client keeps a copy of
  Limit          \* the DAV:limit of its requests, 0 for none

ASSUME SyncAssumption == Home \in Calendars /\ Limit \in Nat

VARIABLES
  token,         \* the client's sync token, Nil before the initial sync
  view,          \* the client's copy: name -> Item or Nil
  poll           \* the REPORT being handled

syncVars == <<token, view, poll>>
vars == <<cals, issued, token, view, poll>>

Token == [id: Nat, rev: Nat]

Nothing == [n \in Names |-> Nil]

(* scope is the CalendarID the handler read first; todo are the changed    *)
(* names not fetched yet, updated the items fetched, gone the deleted.     *)
NoPoll == [phase |-> "idle", scope |-> 0, updated |-> Nothing,
           gone |-> {}, todo |-> {}, coveredThrough |-> 0]

Poll == [phase: {"idle", "opened", "fetching"},
         scope: Nat,
         updated: [Names -> Item \cup {Nil}],
         gone: SUBSET Names,
         todo: SUBSET Names,
         coveredThrough: Nat]

---------------------------------------------------------------------------
(* The handler.                                                            *)

(* 404, 500 or 507: the client keeps what it has. *)
Fail ==
  /\ poll' = NoPoll
  /\ UNCHANGED <<token, view>>

(* DAV:valid-sync-token. *)
RefuseToken ==
  /\ poll' = NoPoll
  /\ token' = Nil
  /\ UNCHANGED view

(* The client asks, the handler reads the calendar for its scope. *)
ReportSync ==
  /\ poll.phase = "idle"
  /\ \/ /\ ~Live(Home)
        /\ Fail
     \/ /\ Live(Home)
        /\ poll' = [NoPoll EXCEPT !.phase = "opened", !.scope = cals[Home].id]
        /\ UNCHANGED <<token, view>>

(* Without a token: one consistent listing and its revision. *)
InitialListing ==
  /\ poll.phase = "opened"
  /\ token = Nil
  /\ \/ /\ ~Live(Home)
        /\ Fail
     \/ /\ Live(Home)
        /\ poll' = [poll EXCEPT !.phase = "fetching",
                                !.updated = cals[Home].items,
                                !.coveredThrough = cals[Home].rev]
        /\ UNCHANGED <<token, view>>

(* With one: refuse what is not a position in this calendar, then ask the  *)
(* backend, which may by now hold another incarnation under the same ref.  *)
ListDelta ==
  /\ poll.phase = "opened"
  /\ token # Nil
  /\ IF token.id # poll.scope THEN RefuseToken
     ELSE IF ~Live(Home) THEN Fail
     ELSE IF HistoryTooOld(cals[Home], token.rev) THEN RefuseToken
     ELSE LET batch == ListChanges(cals[Home], token.rev, Limit) IN
          IF ~BatchHonest(cals[Home], token.rev, batch)
            THEN Fail
          ELSE /\ poll' = [poll EXCEPT
                    !.phase = "fetching",
                    !.gone = {ch.item : ch \in {x \in batch.changes : x.deleted}},
                    !.todo = {ch.item : ch \in {x \in batch.changes : ~x.deleted}},
                    !.coveredThrough = batch.coveredThrough]
               /\ UNCHANGED <<token, view>>

(* The code fetches in the order of the batch; any order is allowed here. *)
GetItem(n) ==
  /\ poll.phase = "fetching"
  /\ n \in poll.todo
  /\ IF ~Live(Home) THEN Fail
     ELSE IF cals[Home].items[n] = Nil THEN Fail
     ELSE /\ poll' = [poll EXCEPT !.todo = poll.todo \ {n},
                                  !.updated[n] = cals[Home].items[n]]
          /\ UNCHANGED <<token, view>>

Rows == Cardinality(poll.gone \cup {n \in Names : poll.updated[n] # Nil})

Fetched == poll.phase = "fetching" /\ poll.todo = {}

(* More members than the client's limit is a failure, never a cut answer. *)
OverLimit ==
  /\ Fetched
  /\ Limit > 0 /\ Rows > Limit
  /\ Fail

(* Mutant: the new token is where the calendar is by now. *)
NewToken_CurrentRevision ==
  [id |-> poll.scope,
   rev |-> IF Live(Home) THEN cals[Home].rev ELSE poll.coveredThrough]

(* Mutant: the new token names the calendar that is there by now. *)
NewToken_LateScope ==
  [id |-> IF Live(Home) THEN cals[Home].id ELSE poll.scope,
   rev |-> poll.coveredThrough]

NewToken == [id |-> poll.scope, rev |-> poll.coveredThrough]

Reply ==
  /\ Fetched
  /\ Limit = 0 \/ Rows <= Limit
  /\ view' = [n \in Names |->
                IF poll.updated[n] # Nil THEN poll.updated[n]
                ELSE IF n \in poll.gone \/ token = Nil THEN Nil
                ELSE view[n]]
  /\ token' = NewToken
  /\ poll' = NoPoll

(* The connection breaks: the client learns nothing and asks again. *)
LoseReply ==
  /\ Fetched
  /\ Fail

HandlerStep ==
  \/ ReportSync
  \/ InitialListing
  \/ ListDelta
  \/ \E n \in Names : GetItem(n)
  \/ OverLimit
  \/ Reply

HandlerNext == HandlerStep \/ LoseReply

SyncInit ==
  /\ Init
  /\ token = Nil
  /\ view = Nothing
  /\ poll = NoPoll

(* Sharing is left out: it changes nothing a sync reads. *)
SyncNext ==
  \/ HandlerNext /\ UNCHANGED storeVars
  \/ (ItemNext \/ CalendarNext) /\ UNCHANGED syncVars

SyncSpec == SyncInit /\ [][SyncNext]_vars

(* The client polls for ever, the handler's goroutine runs, and the        *)
(* connection does not break on every answer.  Nobody is obliged to write. *)
Fairness ==
  /\ WF_vars(HandlerStep /\ UNCHANGED storeVars)
  /\ SF_vars(Reply /\ UNCHANGED storeVars)

FairSpec == SyncSpec /\ Fairness

---------------------------------------------------------------------------
(* Properties.                                                             *)

Position == token # Nil /\ Live(Home) /\ token.id = cals[Home].id

(* While the client's token is a position the calendar still serves, every *)
(* name where the client's copy differs from the calendar has a change     *)
(* after that position, so the next delta repairs it.  syncDelta reads the *)
(* items after the change list and the scope before it, so items changed,  *)
(* deleted or pruned, or a whole calendar re-created, in between must not  *)
(* leave the client with a wrong copy and a token that hides it.           *)
TokenHidesNothing ==
  Position /\ ~HistoryTooOld(cals[Home], token.rev) =>
    \A n \in Names :
      view[n] # cals[Home].items[n] =>
        \E ch \in cals[Home].log : ch.item = n /\ ch.rev > token.rev

(* A client's position is never ahead of the calendar it names: a token    *)
(* of this incarnation is only refused because of pruning.                 *)
TokenNotAhead == Position => token.rev <= cals[Home].rev

(* When the writers rest, the client's copy becomes the calendar and stays *)
(* so: nothing strands it, not even pruning beyond the current revision.   *)
CopyConverges == <>[](Live(Home) => view = cals[Home].items)

(* A poll of a calendar that stays is not answered 404 for ever: again and *)
(* again the handler collects everything it has to send.                   *)
(* ChangeBatch.CoveredThrough "is what makes a truncated batch resumable". *)
PollsGetThrough == []<>(Fetched \/ ~Live(Home))

=============================================================================
