----------------------------- MODULE TimeRange -----------------------------
(***************************************************************************)
(* The CALDAV:time-range filter of RFC 4791 section 9.9, as package caldav *)
(* evaluates it on a component that does not recur: a table for each type  *)
(* of component, mixing inclusive and exclusive bounds.                    *)
(*                                                                         *)
(* Times are small integers, in UTC, and a day lasts Day.  A component is  *)
(* a record; a property it does not carry is Nil.  A window is a record    *)
(* with a start and an end, either Nil for unbounded.                      *)
(***************************************************************************)
EXTENDS Answering, Integers

CONSTANT MaxTime       \* bound: times are 0..MaxTime

ASSUME TimeRangeAssumption == MaxTime \in Nat /\ Nil \notin Int

Day == 2

Times == 0..MaxTime

Optional == Times \cup {Nil}

Window(s, e) == [start |-> s, end |-> e]

(* What the tables are about.  A span that is written out does not end     *)
(* before it starts (RFC 5545: a DTEND is later than its DTSTART); those   *)
(* of events are put right by CompInterval.                                *)
Period == {p \in [start: Times, end: Times] : p.start < p.end}

Component ==
  [kind: {"VEVENT"}, start: Times, end: Times]
  \cup [kind: {"VJOURNAL"}, start: Optional, date: BOOLEAN]
  \cup [kind: {"VTODO"}, start: Optional, duration: Optional, due: Optional,
        completed: Optional, created: Optional]
  \cup {c \in [kind: {"VFREEBUSY"}, start: Optional, end: Optional, periods: SUBSET Period] :
          c.start # Nil /\ c.end # Nil => c.start <= c.end}
  \cup [kind: {"property"}, start: Times]

(* The four comparisons of the tables; an unbounded side always holds. *)
StartAtOrBefore(w, t) == w.start = Nil \/ w.start <= t
StartBefore(w, t) == w.start = Nil \/ w.start < t
EndAfter(w, t) == w.end = Nil \/ w.end > t
EndAtOrAfter(w, t) == w.end = Nil \/ w.end >= t

---------------------------------------------------------------------------
(* The span of an event; one that would end before it starts has none. *)
CompInterval(c) == [start |-> c.start, end |-> IF c.end < c.start THEN c.start ELSE c.end]

(* Mutant: an instant on the lower bound of the window is outside it. *)
IntervalOverlaps_OpenStart(w, span) == EndAfter(w, span.start) /\ StartBefore(w, span.end)

(* [start, end) meets the window; an instant on its lower bound does too. *)
IntervalOverlaps(w, span) ==
  /\ EndAfter(w, span.start)
  /\ IF span.end > span.start THEN StartBefore(w, span.end) ELSE StartAtOrBefore(w, span.start)

(* A note is an instant, or a day when its start is a date. *)
JournalOverlaps(w, c) ==
  /\ c.start # Nil
  /\ IntervalOverlaps(w, [start |-> c.start, end |-> IF c.date THEN c.start + Day ELSE c.start])

(* The dates are inclusive of the end; the periods, read without dates,    *)
(* are not.                                                                *)
FreeBusyOverlaps(w, c) ==
  \/ /\ c.start # Nil /\ c.end # Nil
     /\ EndAfter(w, c.start) /\ StartAtOrBefore(w, c.end)
  \/ /\ c.start = Nil \/ c.end = Nil
     /\ \E p \in c.periods : EndAfter(w, p.start) /\ StartBefore(w, p.end)

(* Mutant: the row of a task with only a DUE excludes its end. *)
DueOverlaps_Exclusive(w, due) == StartBefore(w, due) /\ EndAfter(w, due)

(* The row of a task with neither start nor duration, but due. *)
DueOverlaps(w, due) == StartBefore(w, due) /\ EndAtOrAfter(w, due)

(* A row for each combination of the properties a task carries. *)
TodoOverlaps(w, c) ==
  CASE c.start # Nil /\ c.duration # Nil /\ c.due = Nil ->
         LET deadline == c.start + c.duration
         IN StartAtOrBefore(w, deadline) /\ (EndAfter(w, c.start) \/ EndAtOrAfter(w, deadline))
    [] c.start # Nil /\ c.duration = Nil /\ c.due # Nil ->
         /\ StartBefore(w, c.due) \/ StartAtOrBefore(w, c.start)
         /\ EndAfter(w, c.start) \/ EndAtOrAfter(w, c.due)
    [] c.start # Nil /\ c.duration = Nil /\ c.due = Nil ->
         StartAtOrBefore(w, c.start) /\ EndAfter(w, c.start)
    [] c.start = Nil /\ c.duration = Nil /\ c.due # Nil ->
         DueOverlaps(w, c.due)
    [] c.start = Nil /\ c.duration = Nil /\ c.due = Nil /\ c.completed # Nil /\ c.created # Nil ->
         /\ StartAtOrBefore(w, c.created) \/ StartAtOrBefore(w, c.completed)
         /\ EndAtOrAfter(w, c.created) \/ EndAtOrAfter(w, c.completed)
    [] c.start = Nil /\ c.duration = Nil /\ c.due = Nil /\ c.completed # Nil /\ c.created = Nil ->
         StartAtOrBefore(w, c.completed) /\ EndAtOrAfter(w, c.completed)
    [] c.start = Nil /\ c.duration = Nil /\ c.due = Nil /\ c.completed = Nil /\ c.created # Nil ->
         EndAfter(w, c.created)
    [] OTHER -> TRUE

(* A type no table covers never overlaps. *)
CompOverlaps(w, c) ==
  \/ c.kind = "VEVENT" /\ IntervalOverlaps(w, CompInterval(c))
  \/ c.kind = "VJOURNAL" /\ JournalOverlaps(w, c)
  \/ c.kind = "VTODO" /\ TodoOverlaps(w, c)
  \/ c.kind = "VFREEBUSY" /\ FreeBusyOverlaps(w, c)

(* The date of a property, under a prop-filter's time-range. *)
MatchPropTimeRange(w, t) == IntervalOverlaps(w, [start |-> t, end |-> t])

---------------------------------------------------------------------------
(* Every window a query can ask about: at least one bound, in order. *)
Windows ==
  {w \in [start: Optional, end: Optional] :
     /\ w.start # Nil \/ w.end # Nil
     /\ w.start # Nil /\ w.end # Nil => w.start < w.end}

Found(c) ==
  {w \in Windows : IF c.kind = "property" THEN MatchPropTimeRange(w, c.start)
                   ELSE CompOverlaps(w, c)}

Locate == Answers("timerange", Found(asked.comp))

(* Any component. *)
TimeRangeInit == answer = Nil /\ asked \in [about: {"timerange"}, comp: Component]

TimeRangeSpec == TimeRangeInit /\ [][Locate]_answering

(* A client that pages through a calendar by time misses nothing and sees  *)
(* nothing out of place: a component is found in a window exactly when it  *)
(* is found in one of the two windows any time inside splits it into.  The *)
(* rows of section 9.9 bound some instants inclusively and some not, and a *)
(* bound on the wrong side leaves an instant that no window holds.         *)
TimeRangesAdditive ==
  Answered("timerange") =>
    \A whole \in Windows : \A t \in Times :
      StartBefore(whole, t) /\ EndAfter(whole, t) =>
        (whole \in answer
           <=> Window(whole.start, t) \in answer \/ Window(t, whole.end) \in answer)
=============================================================================
