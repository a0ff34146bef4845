------------------------- MODULE CalendarSyncProofs -------------------------
(***************************************************************************)
(* A sync token hides nothing: proved of CalendarSync for every number of  *)
(* names, every limit and every bound, whatever the store's methods do     *)
(* between the transactions of a REPORT.                                   *)
(*                                                                         *)
(* The argument is about one name and one position.  A name is repaired    *)
(* from a position if the log has a change of it beyond that position, or  *)
(* if the position is pruned, in which case the token will be refused.     *)
(* While the calendar remains the same incarnation, a difference between   *)
(* it and a value somebody holds stays repaired (AdvanceRepairs).  The value*)
(* is the client's copy, or what the copy will be after the answer that is *)
(* being collected.  Once the incarnation changes, its CalendarID is never *)
(* issued again, so no old position is a position any more.                *)
(***************************************************************************)
EXTENDS CalendarSync, CalendarStoreProofs

Repaired(cal, n, rev) ==
  \/ rev < cal.pruned
  \/ \E ch \in cal.log : ch.item = n /\ ch.rev > rev

(* value is right for n, or a sync from rev will repair it. *)
Accounted(cal, n, value, rev) == value # cal.items[n] => Repaired(cal, n, rev)

(* What the client's copy of n becomes when the answer arrives. *)
Collected(n) ==
  IF poll.updated[n] # Nil THEN poll.updated[n]
  ELSE IF n \in poll.gone \/ token = Nil THEN Nil
  ELSE view[n]

(* The position is one of the calendar that is there. *)
Of(id) == Live(Home) /\ cals[Home].id = id

PollTypeOK ==
  /\ poll \in Poll
  /\ poll.scope <= issued
  /\ poll.phase = "opened" =>
       poll.updated = Nothing /\ poll.gone = {} /\ poll.todo = {}

TokenTypeOK == token # Nil => token \in Token /\ token.id <= issued

CopyAccounted ==
  Position =>
    /\ token.rev <= cals[Home].rev
    /\ \A n \in Names : Accounted(cals[Home], n, view[n], token.rev)

AnswerAccounted ==
  poll.phase = "fetching" /\ Of(poll.scope) =>
    /\ poll.coveredThrough <= cals[Home].rev
    /\ \A n \in Names \ poll.todo : Accounted(cals[Home], n, Collected(n), poll.coveredThrough)

SyncInv ==
  /\ IInv
  /\ PollTypeOK
  /\ TokenTypeOK
  /\ CopyAccounted
  /\ AnswerAccounted

---------------------------------------------------------------------------
(* The store goes on.                                                      *)

(* What is accounted for remains so while the calendar does. *)
LEMMA AdvanceRepairs ==
  ASSUME NEW cal \in Calendar, NEW new \in Calendar,
         new = cal \/ Advances(cal, new),
         NEW rev \in Nat, rev <= cal.rev
  PROVE  /\ rev <= new.rev
         /\ \A n \in Names : \A value :
              Accounted(cal, n, value, rev) => Accounted(new, n, value, rev)
<1>1. /\ cal.rev \in Nat /\ new.rev \in Nat
      /\ cal.pruned \in Nat /\ new.pruned \in Nat
      /\ \A ch \in cal.log : ch.rev \in Nat
      /\ \A ch \in new.log : ch.rev \in Nat
  BY DEF Calendar, Change
<1>2. CASE new = cal
  BY <1>2
<1>3. CASE Advances(cal, new)
  <2>1. LogAdvances(cal, new) /\ new.rev >= cal.rev /\ new.pruned >= cal.pruned
    BY <1>3 DEF Advances
  <2>2. rev <= new.rev
    BY <1>1, <2>1
  <2>3. ASSUME NEW n \in Names, NEW value,
               Accounted(cal, n, value, rev), value # new.items[n]
        PROVE  Repaired(new, n, rev)
    <3>1. CASE new.items[n] = cal.items[n]
      <4>1. Repaired(cal, n, rev)
        BY <2>3, <3>1 DEF Accounted
      <4> QED
        BY <1>1, <2>1, <4>1 DEF LogAdvances, Repaired
    <3>2. CASE new.items[n] # cal.items[n]
      <4>1. \/ \E ch \in new.log : ch.item = n /\ ch.rev > cal.rev
            \/ cal.rev < new.pruned
        BY <2>1, <3>2 DEF LogAdvances
      <4> QED
        BY <1>1, <4>1 DEF Repaired
    <3> QED
      BY <3>1, <3>2
  <2> QED
    BY <2>2, <2>3 DEF Accounted
<1> QED
  BY <1>2, <1>3

(* A position of the calendar that is there after a step is one of the     *)
(* calendar that was there before it, which the step rewrote or left.      *)
LEMMA StepPosition ==
  ASSUME IInv, StoreStep, NEW id \in Nat, id <= issued, Of(id)'
  PROVE  /\ Of(id)
         /\ cals[Home] \in Calendar /\ cals'[Home] \in Calendar
         /\ cals'[Home] = cals[Home] \/ Advances(cals[Home], cals'[Home])
<1>1. Home \in Calendars /\ issued \in Nat
  BY SyncAssumption DEF IInv, TypeOK
<1>2. cals'[Home] # Nil /\ cals'[Home].id = id
  BY DEF Of, Live
<1>3. ~Created(Home)
  BY <1>1, <1>2 DEF Created
<1>4. cals'[Home] = cals[Home] \/ Rewritten(Home)
  BY <1>1, <1>2, <1>3 DEF StoreStep
<1>5. Of(id) /\ Live(Home)
  BY <1>2, <1>4 DEF Of, Live, Rewritten, Advances
<1>6. cals[Home] \in Calendar
  BY <1>1, <1>5, LiveCalendar
<1> QED
  BY <1>4, <1>5, <1>6 DEF Rewritten, CalendarInv

LEMMA StoreKeepsSyncInv ==
  ASSUME SyncInv, StoreStep, UNCHANGED syncVars
  PROVE  SyncInv'
<1>1. /\ token' = token /\ view' = view /\ poll' = poll
  BY DEF syncVars
<1>2. IInv /\ IInv'
  BY StepInv DEF SyncInv
<1>3. issued \in Nat /\ issued' \in Nat /\ issued' >= issued
  BY <1>2 DEF IInv, TypeOK, StoreStep
<1>4. /\ poll \in Poll /\ poll.scope \in Nat /\ poll.coveredThrough \in Nat
      /\ poll.scope <= issued
  BY DEF SyncInv, PollTypeOK, Poll
<1>5. PollTypeOK'
  BY <1>1, <1>3, <1>4 DEF SyncInv, PollTypeOK
<1>6. TokenTypeOK'
  BY <1>1, <1>3 DEF SyncInv, TokenTypeOK, Token
<1>7. CopyAccounted'
  <2> SUFFICES ASSUME Position'
               PROVE  /\ token.rev <= cals'[Home].rev
                      /\ \A n \in Names : Accounted(cals'[Home], n, view[n], token.rev)
    BY <1>1 DEF CopyAccounted
  <2>1. token # Nil /\ token \in Token /\ token.id <= issued
    BY <1>1 DEF Position, SyncInv, TokenTypeOK
  <2>2. token.id \in Nat /\ token.rev \in Nat
    BY <2>1 DEF Token
  <2>3. Of(token.id)'
    BY <1>1 DEF Position, Of
  <2>4. /\ Of(token.id)
        /\ cals[Home] \in Calendar /\ cals'[Home] \in Calendar
        /\ cals'[Home] = cals[Home] \/ Advances(cals[Home], cals'[Home])
    BY <1>1, <1>2, <2>1, <2>2, <2>3, StepPosition
  <2>5. /\ token.rev <= cals[Home].rev
        /\ \A n \in Names : Accounted(cals[Home], n, view[n], token.rev)
    BY <2>1, <2>4 DEF SyncInv, CopyAccounted, Position, Of
  <2> QED
    BY <2>2, <2>4, <2>5, AdvanceRepairs
<1>8. AnswerAccounted'
  <2> SUFFICES ASSUME poll.phase = "fetching", Of(poll.scope)'
               PROVE  /\ poll.coveredThrough <= cals'[Home].rev
                      /\ \A n \in Names \ poll.todo :
                           Accounted(cals'[Home], n, Collected(n), poll.coveredThrough)
    BY <1>1 DEF AnswerAccounted, Collected
  <2>1. /\ Of(poll.scope)
        /\ cals[Home] \in Calendar /\ cals'[Home] \in Calendar
        /\ cals'[Home] = cals[Home] \/ Advances(cals[Home], cals'[Home])
    BY <1>1, <1>2, <1>4, StepPosition
  <2>2. /\ poll.coveredThrough <= cals[Home].rev
        /\ \A n \in Names \ poll.todo :
             Accounted(cals[Home], n, Collected(n), poll.coveredThrough)
    BY <2>1 DEF SyncInv, AnswerAccounted
  <2> QED
    BY <1>4, <2>1, <2>2, AdvanceRepairs
<1> QED
  BY <1>2, <1>5, <1>6, <1>7, <1>8 DEF SyncInv

---------------------------------------------------------------------------
(* The handler goes on: the store stands still.                            *)

(* With no answer being collected only the client's copy is at stake. *)
LEMMA QuietInv ==
  ASSUME SyncInv, UNCHANGED storeVars, PollTypeOK', poll'.phase # "fetching",
         token' = token \/ token' = Nil, view' = view
  PROVE  SyncInv'
<1>1. cals' = cals /\ issued' = issued
  BY DEF storeVars
<1>2. IInv'
  BY StandingStep, StepInv DEF SyncInv
<1>3. TokenTypeOK'
  BY <1>1 DEF SyncInv, TokenTypeOK
<1>4. CopyAccounted'
  BY <1>1 DEF SyncInv, CopyAccounted, Position, Live
<1> QED
  BY <1>2, <1>3, <1>4 DEF SyncInv, AnswerAccounted

LEMMA NoPollTyped ==
  ASSUME IInv
  PROVE  NoPoll \in Poll /\ NoPoll.scope = 0 /\ NoPoll.phase = "idle" /\ 0 <= issued
<1>1. Nothing \in [Names -> Item \cup {Nil}]
  BY DEF Nothing
<1> QED
  BY <1>1 DEF NoPoll, Poll, IInv, TypeOK

LEMMA FailInv ==
  ASSUME SyncInv, UNCHANGED storeVars, Fail \/ RefuseToken
  PROVE  SyncInv'
<1>1. poll' = NoPoll /\ issued' = issued
  BY DEF Fail, RefuseToken, storeVars
<1>2. PollTypeOK' /\ poll'.phase # "fetching"
  BY <1>1, NoPollTyped DEF SyncInv, PollTypeOK
<1> QED
  BY <1>2, QuietInv DEF Fail, RefuseToken

LEMMA HomeCalendar ==
  ASSUME IInv, Live(Home)
  PROVE  /\ CalendarInv(cals[Home]) /\ cals[Home] \in Calendar
         /\ cals[Home].id \in Nat /\ cals[Home].id <= issued
         /\ cals[Home].rev \in Nat
         /\ cals[Home].items \in [Names -> Item \cup {Nil}]
<1>1. CalendarInv(cals[Home]) /\ cals[Home] \in Calendar
  BY SyncAssumption, LiveCalendar
<1>2. cals[Home].id \in 1..issued /\ issued \in Nat
  BY SyncAssumption DEF IInv, IncarnationsDistinct, TypeOK
<1> QED
  BY <1>1, <1>2 DEF Calendar

LEMMA ReportSyncInv ==
  ASSUME SyncInv, UNCHANGED storeVars, ReportSync
  PROVE  SyncInv'
<1>1. CASE Fail
  BY <1>1, FailInv
<1>2. CASE /\ Live(Home)
           /\ poll' = [NoPoll EXCEPT !.phase = "opened", !.scope = cals[Home].id]
           /\ UNCHANGED <<token, view>>
  <2>1. /\ NoPoll \in Poll
        /\ NoPoll.updated = Nothing /\ NoPoll.gone = {} /\ NoPoll.todo = {}
    BY NoPollTyped DEF SyncInv, NoPoll
  <2>2. cals[Home].id \in Nat /\ cals[Home].id <= issued
    BY <1>2, HomeCalendar DEF SyncInv
  <2>3. /\ poll' \in Poll /\ poll'.phase = "opened" /\ poll'.scope = cals[Home].id
        /\ poll'.updated = Nothing /\ poll'.gone = {} /\ poll'.todo = {}
    BY <1>2, <2>1, <2>2 DEF Poll
  <2>4. PollTypeOK'
    BY <2>2, <2>3 DEF PollTypeOK, storeVars
  <2> QED
    BY <1>2, <2>3, <2>4, QuietInv
<1> QED
  BY <1>1, <1>2 DEF ReportSync

(* The listing is the calendar: nothing is left to account for. *)
LEMMA InitialListingInv ==
  ASSUME SyncInv, UNCHANGED storeVars, InitialListing
  PROVE  SyncInv'
<1>1. CASE Fail
  BY <1>1, FailInv
<1>2. CASE /\ Live(Home)
           /\ poll' = [poll EXCEPT !.phase = "fetching",
                                   !.updated = cals[Home].items,
                                   !.coveredThrough = cals[Home].rev]
           /\ UNCHANGED <<token, view>>
  <2>1. cals' = cals /\ issued' = issued /\ token = Nil
    BY DEF storeVars, InitialListing
  <2>2. /\ cals[Home].rev \in Nat
        /\ cals[Home].items \in [Names -> Item \cup {Nil}]
    BY <1>2, HomeCalendar DEF SyncInv
  <2>3. poll \in Poll /\ poll.scope <= issued
    BY DEF SyncInv, PollTypeOK
  <2>4. /\ poll' \in Poll /\ poll'.scope = poll.scope /\ poll'.phase = "fetching"
        /\ poll'.updated = cals[Home].items
        /\ poll'.coveredThrough = cals[Home].rev
    BY <1>2, <2>2, <2>3 DEF Poll
  <2>5. PollTypeOK'
    BY <2>1, <2>3, <2>4 DEF PollTypeOK
  <2>6. AnswerAccounted'
    BY <1>2, <2>1, <2>2, <2>4 DEF AnswerAccounted, Accounted, Collected
  <2>7. TokenTypeOK' /\ CopyAccounted'
    BY <1>2, <2>1 DEF TokenTypeOK, CopyAccounted, Position
  <2>8. IInv'
    BY StandingStep, StepInv DEF SyncInv
  <2> QED
    BY <2>5, <2>6, <2>7, <2>8 DEF SyncInv
<1> QED
  BY <1>1, <1>2 DEF InitialListing

(* A name the batch does not mention has no change up to what it covers; a *)
(* name it calls deleted is gone or has a later change.                    *)
LEMMA ListDeltaInv ==
  ASSUME SyncInv, UNCHANGED storeVars, ListDelta
  PROVE  SyncInv'
<1> DEFINE cal == cals[Home]
           batch == ListChanges(cal, token.rev, Limit)
           gone == {ch.item : ch \in {x \in batch.changes : x.deleted}}
           todo == {ch.item : ch \in {x \in batch.changes : ~x.deleted}}
           opened == [poll EXCEPT !.phase = "fetching", !.gone = gone, !.todo = todo,
                                  !.coveredThrough = batch.coveredThrough]
<1>1. CASE Fail \/ RefuseToken
  BY <1>1, FailInv
<1>2. CASE /\ token.id = poll.scope /\ Live(Home) /\ ~HistoryTooOld(cal, token.rev)
           /\ poll' = opened
           /\ UNCHANGED <<token, view>>
  <2>1. /\ cals' = cals /\ issued' = issued /\ token # Nil /\ token \in Token
        /\ poll.phase = "opened" /\ poll \in Poll /\ poll.scope <= issued
        /\ poll.updated = Nothing
    BY DEF storeVars, ListDelta, SyncInv, TokenTypeOK, PollTypeOK
  <2>2. CalendarInv(cal) /\ cal \in Calendar /\ cal.rev \in Nat /\ RevsBounded(cal)
    BY <1>2, HomeCalendar DEF SyncInv, CalendarInv
  <2>3. token.rev \in Nat /\ token.rev <= cal.rev /\ ~(token.rev < cal.pruned)
    BY <1>2, <2>1, <2>2 DEF HistoryTooOld, Token
  <2>4. Covers(cal, token.rev, batch) /\ Tells(cal, token.rev, batch)
    BY <2>2, <2>3, ListChangesFacts
  <2>5. \A x \in batch.changes : x.item \in Names
    <3>1. \A ch \in cal.log : ch.item \in Names
      BY <2>2 DEF Calendar, Change
    <3> QED
      BY <2>4, <3>1 DEF Tells
  <2> HIDE DEF batch
  <2>6. gone \in SUBSET Names /\ todo \in SUBSET Names /\ batch.coveredThrough \in Nat
    BY <2>4, <2>5 DEF Covers
  <2>7. \A n : n \in gone <=> \E x \in batch.changes : x.item = n /\ x.deleted
    OBVIOUS
  <2>8. \A n : n \in todo <=> \E x \in batch.changes : x.item = n /\ ~x.deleted
    OBVIOUS
  <2> HIDE DEF gone, todo
  <2>9. /\ poll' \in Poll /\ poll'.scope = poll.scope /\ poll'.phase = "fetching"
        /\ poll'.updated = Nothing /\ poll'.gone = gone /\ poll'.todo = todo
        /\ poll'.coveredThrough = batch.coveredThrough
    BY <1>2, <2>1, <2>6 DEF Poll
  <2>10. PollTypeOK'
    BY <2>1, <2>9 DEF PollTypeOK
  <2>11. AnswerAccounted'
    <3> SUFFICES ASSUME cal.id = token.id, NEW n \in Names \ todo
                 PROVE  Accounted(cal, n, IF n \in gone THEN Nil ELSE view[n],
                                  batch.coveredThrough)
      BY <1>2, <2>1, <2>4, <2>9 DEF AnswerAccounted, Of, Collected, Nothing, Covers
    <3>1. Accounted(cal, n, view[n], token.rev)
      BY <1>2, <2>1 DEF SyncInv, CopyAccounted, Position
    <3>2. CASE n \in gone
      <4>1. PICK x \in batch.changes : x.item = n /\ x.deleted
        BY <2>7, <3>2
      <4>2. PICK ch \in cal.log :
              /\ ch.item = n /\ ch.deleted = x.deleted
              /\ \A y \in cal.log :
                   y.item = n /\ y.rev <= batch.coveredThrough => y.rev <= ch.rev
        BY <2>4, <4>1 DEF Tells
      <4>3. CASE LastChange(cal, n, ch)
        BY <2>2, <3>2, <4>1, <4>2, <4>3 DEF CalendarInv, HistoryExplains, Accounted
      <4>4. CASE ~LastChange(cal, n, ch)
        <5>1. PICK y \in cal.log : y.item = n /\ ~(y.rev <= ch.rev)
          BY <4>2, <4>4 DEF LastChange
        <5>2. y.rev \in Nat
          BY <2>2 DEF Calendar, Change
        <5>3. y.rev > batch.coveredThrough
          BY <2>6, <4>2, <5>1, <5>2
        <5> QED
          BY <5>1, <5>3 DEF Accounted, Repaired
      <4> QED
        BY <4>3, <4>4
    <3>3. CASE n \notin gone
      <4>1. ASSUME view[n] # cal.items[n]
            PROVE  Repaired(cal, n, batch.coveredThrough)
        <5>1. PICK ch \in cal.log : ch.item = n /\ ch.rev > token.rev
          BY <2>3, <3>1, <4>1 DEF Accounted, Repaired
        <5>2. ~(ch.rev <= batch.coveredThrough)
          BY <2>4, <2>7, <2>8, <3>3, <5>1 DEF Tells
        <5>3. ch.rev \in Nat
          BY <2>2 DEF Calendar, Change
        <5> QED
          BY <2>6, <5>1, <5>2, <5>3 DEF Repaired
      <4> QED
        BY <3>3, <4>1 DEF Accounted
    <3> QED
      BY <3>2, <3>3
  <2>12. TokenTypeOK' /\ CopyAccounted'
    BY <1>2, <2>1 DEF SyncInv, TokenTypeOK, CopyAccounted, Position, Live
  <2>13. IInv'
    BY StandingStep, StepInv DEF SyncInv
  <2> QED
    BY <2>10, <2>11, <2>12, <2>13 DEF SyncInv
<1> QED
  BY <1>1, <1>2 DEF ListDelta

(* What is fetched is what is there. *)
LEMMA GetItemInv ==
  ASSUME SyncInv, UNCHANGED storeVars, NEW n \in Names, GetItem(n)
  PROVE  SyncInv'
<1>1. CASE Fail
  BY <1>1, FailInv
<1>2. CASE /\ Live(Home) /\ cals[Home].items[n] # Nil
           /\ poll' = [poll EXCEPT !.todo = poll.todo \ {n},
                                   !.updated[n] = cals[Home].items[n]]
           /\ UNCHANGED <<token, view>>
  <2>1. cals' = cals /\ issued' = issued
    BY DEF storeVars
  <2>2. poll \in Poll /\ poll.scope <= issued /\ poll.phase = "fetching"
    BY DEF SyncInv, PollTypeOK, GetItem
  <2>3. cals[Home].items[n] \in Item
    BY <1>2, HomeCalendar DEF SyncInv
  <2>4. poll.updated \in [Names -> Item \cup {Nil}]
    BY <2>2 DEF Poll
  <2> DEFINE updated == [poll.updated EXCEPT ![n] = cals[Home].items[n]]
  <2>5. updated \in [Names -> Item \cup {Nil}]
    BY <2>3, <2>4
  <2>6. \A m \in Names : updated[m] = IF m = n THEN cals[Home].items[n] ELSE poll.updated[m]
    BY <2>4
  <2>7. poll' = [poll EXCEPT !.todo = poll.todo \ {n}, !.updated = updated]
    BY <1>2
  <2> HIDE DEF updated
  <2>8. /\ poll' \in Poll /\ poll'.scope = poll.scope /\ poll'.phase = "fetching"
        /\ poll'.updated = updated /\ poll'.gone = poll.gone
        /\ poll'.todo = poll.todo \ {n}
        /\ poll'.coveredThrough = poll.coveredThrough
    BY <2>2, <2>5, <2>7 DEF Poll
  <2>9. PollTypeOK'
    BY <2>1, <2>2, <2>8 DEF PollTypeOK
  <2>10. AnswerAccounted'
    <3> SUFFICES ASSUME Of(poll.scope)
                 PROVE  /\ poll.coveredThrough <= cals[Home].rev
                        /\ \A m \in Names \ (poll.todo \ {n}) :
                             Accounted(cals[Home], m, Collected(m)', poll.coveredThrough)
      BY <2>1, <2>8 DEF AnswerAccounted, Of, Live
    <3>1. /\ poll.coveredThrough <= cals[Home].rev
          /\ \A m \in Names \ poll.todo :
               Accounted(cals[Home], m, Collected(m), poll.coveredThrough)
      BY <2>2 DEF SyncInv, AnswerAccounted
    <3>2. Collected(n)' = cals[Home].items[n]
      BY <1>2, <2>6, <2>8 DEF Collected
    <3>3. \A m \in Names \ {n} : Collected(m)' = Collected(m)
      BY <1>2, <2>6, <2>8 DEF Collected
    <3> QED
      BY <3>1, <3>2, <3>3 DEF Accounted
  <2>11. TokenTypeOK' /\ CopyAccounted'
    BY <1>2, <2>1 DEF SyncInv, TokenTypeOK, CopyAccounted, Position, Live
  <2>12. IInv'
    BY StandingStep, StepInv DEF SyncInv
  <2> QED
    BY <2>9, <2>10, <2>11, <2>12 DEF SyncInv
<1> QED
  BY <1>1, <1>2 DEF GetItem

(* The client's copy becomes what was collected, its token the position    *)
(* that was covered.                                                       *)
LEMMA ReplyInv ==
  ASSUME SyncInv, UNCHANGED storeVars, Reply
  PROVE  SyncInv'
<1>1. cals' = cals /\ issued' = issued
  BY DEF storeVars
<1>2. poll \in Poll /\ poll.scope <= issued /\ poll.phase = "fetching" /\ poll.todo = {}
  BY DEF SyncInv, PollTypeOK, Reply, Fetched
<1>3. poll.scope \in Nat /\ poll.coveredThrough \in Nat
  BY <1>2 DEF Poll
<1>4. /\ token' = [id |-> poll.scope, rev |-> poll.coveredThrough]
      /\ poll' = NoPoll
      /\ \A n \in Names : view'[n] = Collected(n)
  BY DEF Reply, NewToken, Collected
<1>5. PollTypeOK'
  BY <1>1, <1>4, NoPollTyped DEF SyncInv, PollTypeOK
<1>6. /\ token' \in Token /\ token'.id = poll.scope
      /\ token'.rev = poll.coveredThrough
  BY <1>3, <1>4 DEF Token
<1>7. TokenTypeOK'
  BY <1>1, <1>2, <1>6 DEF TokenTypeOK
<1>8. CopyAccounted'
  <2> SUFFICES ASSUME Of(poll.scope)
               PROVE  /\ poll.coveredThrough <= cals[Home].rev
                      /\ \A n \in Names :
                           Accounted(cals[Home], n, Collected(n), poll.coveredThrough)
    BY <1>1, <1>4, <1>6 DEF CopyAccounted, Position, Of, Live
  <2> QED
    BY <1>2 DEF SyncInv, AnswerAccounted
<1>9. AnswerAccounted'
  BY <1>4, NoPollTyped DEF SyncInv, AnswerAccounted
<1>10. IInv'
  BY StandingStep, StepInv DEF SyncInv
<1> QED
  BY <1>5, <1>7, <1>8, <1>9, <1>10 DEF SyncInv

---------------------------------------------------------------------------

LEMMA SyncInitInv == SyncInit => SyncInv
<1> SUFFICES ASSUME SyncInit PROVE SyncInv
  OBVIOUS
<1>1. IInv
  BY InitInv DEF SyncInit
<1>2. PollTypeOK
  BY <1>1, NoPollTyped DEF SyncInit, PollTypeOK
<1>3. AnswerAccounted
  BY <1>1, NoPollTyped DEF SyncInit, AnswerAccounted
<1> QED
  BY <1>1, <1>2, <1>3 DEF SyncInv, SyncInit, TokenTypeOK, CopyAccounted, Position

LEMMA SyncInvariance == SyncSpec => []SyncInv
<1>1. SyncInv /\ [SyncNext]_vars => SyncInv'
  <2> SUFFICES ASSUME SyncInv, [SyncNext]_vars PROVE SyncInv'
    OBVIOUS
  <2>1. CASE HandlerNext /\ UNCHANGED storeVars
    BY <2>1, FailInv, ReportSyncInv, InitialListingInv, ListDeltaInv, GetItemInv,
       ReplyInv DEF HandlerNext, HandlerStep, OverLimit, LoseReply
  <2>2. CASE (ItemNext \/ CalendarNext) /\ UNCHANGED syncVars
    BY <2>2, NextStep, StoreKeepsSyncInv DEF SyncInv, Next
  <2>3. CASE UNCHANGED vars
    <3>1. UNCHANGED storeVars /\ UNCHANGED syncVars
      BY <2>3 DEF vars, storeVars, syncVars
    <3>2. StoreStep
      BY <3>1, StandingStep DEF SyncInv
    <3> QED
      BY <3>1, <3>2, StoreKeepsSyncInv
  <2> QED
    BY <2>1, <2>2, <2>3 DEF SyncNext
<1> QED
  BY <1>1, SyncInitInv, PTL DEF SyncSpec

(* A client's position is never ahead of the calendar it names. *)
THEOREM SyncTokenNotAhead == SyncSpec => []TokenNotAhead
<1>1. SyncInv => TokenNotAhead
  BY DEF SyncInv, CopyAccounted, TokenNotAhead
<1> QED
  BY <1>1, SyncInvariance, PTL

(* Whatever happens between the transactions of a REPORT, a client whose   *)
(* token is still served has every difference from the calendar ahead of   *)
(* it: no update is missed for ever.                                       *)
THEOREM SyncTokenHidesNothing == SyncSpec => []TokenHidesNothing
<1>1. SyncInv => TokenHidesNothing
  <2> SUFFICES ASSUME SyncInv, Position, ~HistoryTooOld(cals[Home], token.rev),
                      NEW n \in Names, view[n] # cals[Home].items[n]
               PROVE  \E ch \in cals[Home].log : ch.item = n /\ ch.rev > token.rev
    BY DEF TokenHidesNothing
  <2>1. Repaired(cals[Home], n, token.rev)
    BY DEF SyncInv, CopyAccounted, Accounted
  <2> QED
    BY <2>1 DEF Repaired, HistoryTooOld
<1> QED
  BY <1>1, SyncInvariance, PTL

=============================================================================
