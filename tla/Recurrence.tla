----------------------------- MODULE Recurrence -----------------------------
(***************************************************************************)
(* Recurring events, and the four places of package caldav that read them: *)
(* the time-range filter of a query (match.go), expansion (expand.go),     *)
(* limit-recurrence-set and limit-freebusy-set, and the free-busy query.   *)
(* Each walks the rule or the overrides by itself, and their answers must  *)
(* agree.                                                                  *)
(*                                                                         *)
(* An object is one calendar object resource.  Its master is Nil (only     *)
(* detached instances are stored) or an event with a rule of count         *)
(* occurrences step apart (count is 0 without a rule), RDATE and EXDATE    *)
(* lists, and a status: "busy", "tentative", or "free" for an event that   *)
(* is transparent or cancelled.  Its overrides are a function of the       *)
(* recurrence identifiers whose instances they redefine; future marks      *)
(* RANGE=THISANDFUTURE.  Or the object is a VFREEBUSY, of periods with a   *)
(* type.  Everything is in UTC.                                            *)
(*                                                                         *)
(* The duration of an event is the one its DTEND or its DURATION gives, 0  *)
(* when it carries neither; date marks a DTSTART that is a DATE.           *)
(***************************************************************************)
EXTENDS TimeRange, FiniteSets, SequencesExt

CONSTANTS
  MaxIterations,         \* maxRecurrenceIterations
  MaxExpandedInstances   \* maxExpandedInstances

ASSUME RecurrenceAssumption == MaxIterations \in Nat \ {0} /\ MaxExpandedInstances \in Nat

(* One property may hold a list of dates. *)
SplitDateLists(lists) == UNION {ToSet(lists[i]) : i \in DOMAIN lists}

(* The set the library's rule iterator walks, in increasing order. *)
RecurrenceSet(m) ==
  ({m.start + k * m.step : k \in 0..(m.count - 1)} \cup SplitDateLists(m.rdates))
    \ SplitDateLists(m.exdates)

Recurs(m) == m # Nil /\ m.count > 0

Span(start, duration) == [start |-> start, end |-> start + duration]

(* An event that carries no end lasts the day of its date, or no time.     *)
Endless(c) == c.date /\ c.duration = 0

Length(c) == IF Endless(c) THEN Day ELSE c.duration

(* The occurrences before the end of a window, which the iterator meets    *)
(* from the earliest on.                                                   *)
Walk(m, w) == {t \in RecurrenceSet(m) : t < w.end}

(* A walk that used up its iterations has established nothing. *)
Exhausted(m, w) == Cardinality(Walk(m, w)) >= MaxIterations

Walked(m, w) == {t \in Walk(m, w) : Cardinality({u \in Walk(m, w) : u < t}) < MaxIterations}

---------------------------------------------------------------------------
(* The filter. *)

(* Mutant: an occurrence is found only where it starts. *)
MatchCompTimeRange_Starts(m, w) ==
  CASE ~Recurs(m) -> IF IntervalOverlaps(w, Span(m.start, Length(m))) THEN "in" ELSE "out"
    [] Recurs(m) /\ \E t \in Walked(m, w) : t >= w.start -> "in"
    [] OTHER -> IF Exhausted(m, w) THEN "507" ELSE "out"

(* A recurring component matches on the first occurrence that overlaps. *)
MatchCompTimeRange(m, w) ==
  CASE ~Recurs(m) -> IF IntervalOverlaps(w, Span(m.start, Length(m))) THEN "in" ELSE "out"
    [] Recurs(m) /\ \E t \in Walked(m, w) : IntervalOverlaps(w, Span(t, Length(m))) -> "in"
    [] OTHER -> IF Exhausted(m, w) THEN "507" ELSE "out"

(* Where an override has put its instance is in the window. *)
Moved(obj, rid, w) ==
  IntervalOverlaps(w, Span(obj.overrides[rid].start, Length(obj.overrides[rid])))

(* A filter for the events in a window: any component of the object, the   *)
(* master first.  An override does not recur.                              *)
MatchObject(obj, w) ==
  LET master == IF obj.master = Nil THEN "out" ELSE MatchCompTimeRange(obj.master, w)
  IN CASE obj.kind # "VEVENT" -> "out"
       [] obj.kind = "VEVENT" /\ master # "out" -> master
       [] OTHER -> IF \E rid \in DOMAIN obj.overrides : Moved(obj, rid, w) THEN "in" ELSE "out"

---------------------------------------------------------------------------
(* Expansion: what is emitted, by its recurrence identifier. *)

(* A component whose times are rewritten as instants.  An end it carries   *)
(* is rewritten with them; the day that only a date stood for is lost.     *)
Instance(start, duration, status) ==
  [start |-> start, end |-> start + duration, status |-> status]

OverrideInstance(ov) == Instance(ov.start, ov.duration, ov.status)

(* The master carried to an occurrence, with its duration if it has one.  *)
RecurrenceInstance(m, occ) == Instance(occ, m.duration, m.status)

(* The occurrences of the master that overlap, each replaced by its        *)
(* override wherever that has moved.                                       *)
ExpandMaster(obj, w) ==
  LET m == obj.master
  IN [occ \in {t \in Walked(m, w) : IntervalOverlaps(w, Span(t, Length(m)))} |->
        IF occ \in DOMAIN obj.overrides THEN OverrideInstance(obj.overrides[occ])
        ELSE RecurrenceInstance(m, occ)]

(* Mutant: an override is only reported in place of an occurrence. *)
LeftOver_None(obj, w, consumed) == << >>

(* Every other override that overlaps is reported on its own. *)
LeftOver(obj, w, consumed) ==
  [rid \in {rid \in DOMAIN obj.overrides \ consumed : Moved(obj, rid, w)} |->
     OverrideInstance(obj.overrides[rid])]

(* An event without a rule, if it overlaps; any other component as it is.  *)
(* Neither has a recurrence identifier.                                    *)
Plain(obj, w) ==
  [none \in IF obj.kind = "VEVENT" /\ (\/ obj.master = Nil \/ Recurs(obj.master)
                                       \/ MatchCompTimeRange(obj.master, w) # "in")
            THEN {} ELSE {Nil} |->
     IF obj.kind = "VEVENT"
     THEN Instance(obj.master.start, obj.master.duration, obj.master.status) ELSE obj]

(* Two functions joined; the first goes before the second. *)
Joined(f, g) == [x \in DOMAIN f \cup DOMAIN g |-> IF x \in DOMAIN f THEN f[x] ELSE g[x]]

(* What expansion makes of one object, and whether the walk gave up. *)
ExpandCalendar(obj, w) ==
  LET masters == IF Recurs(obj.master) THEN ExpandMaster(obj, w) ELSE << >>
  IN [emitted |-> Joined(Joined(masters, LeftOver(obj, w, DOMAIN masters)), Plain(obj, w)),
      exhausted |-> Recurs(obj.master) /\ Exhausted(obj.master, w)]

(* What would be emitted for all the objects of an answer. *)
Emitted(objs, w) ==
  UNION {{i} \X DOMAIN ExpandCalendar(objs[i], w).emitted : i \in DOMAIN objs}

(* One budget of instances for all of it. *)
ExpandAll(objs, w) ==
  LET refused == \/ \E i \in DOMAIN objs : ExpandCalendar(objs[i], w).exhausted
                 \/ Cardinality(Emitted(objs, w)) > MaxExpandedInstances
  IN [refused |-> refused,
      emitted |-> [e \in IF refused THEN {} ELSE Emitted(objs, w) |->
                     ExpandCalendar(objs[e[1]], w).emitted[e[2]]]]

---------------------------------------------------------------------------
(* The limits, which keep the rule and drop what cannot matter. *)

(* Mutant: an override that has moved away is dropped. *)
OverrideImpacts_Current(obj, rid, w) == Moved(obj, rid, w)

(* Where the override is, or where the instance it redefines was, as the   *)
(* expansion would write it; one that redefines the future reaches into    *)
(* every later window.                                                     *)
OverrideImpacts(obj, rid, w) ==
  \/ Moved(obj, rid, w)
  \/ obj.overrides[rid].future /\ rid < w.end
  \/ LET shape == IF obj.master = Nil THEN obj.overrides[rid] ELSE obj.master
     IN IntervalOverlaps(w, Span(rid, shape.duration))

LimitRecurrence(obj, w) ==
  [obj EXCEPT !.overrides =
     Restrict(obj.overrides, {rid \in DOMAIN obj.overrides : OverrideImpacts(obj, rid, w)})]

LimitFreeBusy(obj, w) ==
  [obj EXCEPT !.periods = {p \in obj.periods : IntervalOverlaps(w, Span(p.start, p.end - p.start))}]

(* A projection that asks for both limits. *)
Shape(obj, w) == LimitFreeBusy(LimitRecurrence(obj, w), w)

---------------------------------------------------------------------------
(* The free-busy query. *)

Latest(s, t) == IF s > t THEN s ELSE t
Earliest(s, t) == IF s < t THEN s ELSE t

Clip(p, w) ==
  LET clipped == [p EXCEPT !.start = Latest(p.start, w.start), !.end = Earliest(p.end, w.end)]
  IN IF clipped.start < clipped.end THEN {clipped} ELSE {}

(* What one expanded component contributes. *)
BusyPeriodsOf(c, w) ==
  IF "periods" \in DOMAIN c
  THEN UNION {Clip(p, w) : p \in {p \in c.periods : p.type # "free"}}
  ELSE IF c.status = "free" THEN {}
  ELSE Clip([start |-> c.start, end |-> c.end, type |-> c.status], w)

(* Mutant: the period met last ends the merged one, even if it ends sooner. *)
Merge_LastEnd(merged, p) ==
  IF merged # << >> /\ Last(merged).type = p.type /\ p.start <= Last(merged).end
  THEN [merged EXCEPT ![Len(merged)].end = p.end]
  ELSE Append(merged, p)

(* Periods that overlap or touch become one. *)
Merge(merged, p) ==
  IF merged # << >> /\ Last(merged).type = p.type /\ p.start <= Last(merged).end
  THEN [merged EXCEPT ![Len(merged)].end = Latest(@, p.end)]
  ELSE Append(merged, p)

(* The types in the order they are reported. *)
Rank == [type \in {"busy", "tentative", "unavailable"} |->
           CASE type = "busy" -> 1 [] type = "tentative" -> 2 [] type = "unavailable" -> 3]

Before(p, q) == Rank[p.type] < Rank[q.type] \/ (p.type = q.type /\ p.start < q.start)

(* Sorted by type and start, equal ones in any order. *)
Sorted(periods) ==
  CHOOSE s \in Bijection(1..Cardinality(periods), periods) :
    \A i, j \in 1..Cardinality(periods) : i < j => ~Before(s[j], s[i])

Coalesce(periods) == FoldLeft(Merge, << >>, Sorted(periods))

ReportFreeBusy(objs, w) ==
  LET expanded == ExpandAll(objs, w)
  IN [refused |-> expanded.refused,
      periods |-> Coalesce(UNION {BusyPeriodsOf(expanded.emitted[e], w) :
                                    e \in DOMAIN expanded.emitted})]

---------------------------------------------------------------------------
Consult ==
  LET objs == asked.objects
      w == asked.window
  IN Answers("agenda",
       [matches |-> [i \in DOMAIN objs |-> MatchObject(objs[i], w)],
        expanded |-> [i \in DOMAIN objs |-> ExpandAll(<<objs[i]>>, w)],
        busy |-> ReportFreeBusy(objs, w),
        limited |-> ReportFreeBusy([i \in DOMAIN objs |-> Shape(objs[i], w)], w)])

(* Any objects, a RECURRENCE-ID in each no more than once, and any window. *)
Finite(S) == {T \in SUBSET S : IsFiniteSet(T)}

Master ==
  [start: Int, duration: Nat, date: BOOLEAN, count: Nat, step: Nat \ {0}, rdates: Seq(Seq(Int)),
   exdates: Seq(Seq(Int)), status: {"busy", "tentative", "free"}]

Override ==
  [start: Int, duration: Nat, date: BOOLEAN, status: {"busy", "tentative", "free"}, future: BOOLEAN]

BusyPeriod == [start: Int, end: Int, type: DOMAIN Rank \cup {"free"}]

AgendaObject ==
  [kind: {"VEVENT"}, master: Master \cup {Nil}, periods: {{}},
   overrides: UNION {[rids -> Override] : rids \in Finite(Int)}]
  \cup [kind: {"VFREEBUSY"}, master: {Nil}, periods: Finite(BusyPeriod), overrides: [{} -> Override]]

RecurrenceInit ==
  /\ answer = Nil
  /\ asked \in [about: {"agenda"}, objects: Seq(AgendaObject),
                window: {w \in [start: Int, end: Int] : w.start < w.end}]

RecurrenceSpec == RecurrenceInit /\ [][Consult]_answering

---------------------------------------------------------------------------
(* The events an object stands for: one for each identifier of the rule or *)
(* of an override, the override where there is one.                        *)
Events(obj) ==
  LET m == obj.master
  IN {obj.overrides[rid] : rid \in DOMAIN obj.overrides}
       \cup (IF Recurs(m) THEN {[m EXCEPT !.start = t] : t \in RecurrenceSet(m) \ DOMAIN obj.overrides}
             ELSE IF m # Nil THEN {m} ELSE {})

(* Whether the object keeps the time from t to t + 1, under a type.  The   *)
(* day of an event without an end is not counted: see FreeBusyIsExact.     *)
KeepsBusy(obj, type, t) ==
  \/ \E p \in obj.periods : p.type = type /\ p.start <= t /\ t < p.end
  \/ \E c \in Events(obj) :
       ~Endless(c) /\ c.status = type /\ c.start <= t /\ t < c.start + Length(c)

RedefinesFuture(obj) == \E rid \in DOMAIN obj.overrides : obj.overrides[rid].future

(* A free-busy answer covers, under each type, exactly the time of the     *)
(* window that some event of some object keeps: an instance moved away     *)
(* frees its time, one moved in takes it, wherever its recurrence          *)
(* identifier is.  Two limits of the code are in the statement.  The day   *)
(* of an all-day event that carries neither DTEND nor DURATION is left     *)
(* out, since its expansion has no length; and nothing is said of an       *)
(* object with a THISANDFUTURE override, which expansion takes for one     *)
(* instance.  The periods of a type are in order and none touches the      *)
(* next.  A query is refused only for what it would cost.                  *)
FreeBusyIsExact ==
  Answered("agenda") =>
    IF answer.busy.refused
    THEN \/ \E i \in DOMAIN asked.objects :
              /\ Recurs(asked.objects[i].master)
              /\ Cardinality({t \in RecurrenceSet(asked.objects[i].master) : t < asked.window.end})
                   >= MaxIterations
         \/ Cardinality(Emitted(asked.objects, asked.window)) > MaxExpandedInstances
    ELSE /\ (\A i \in DOMAIN asked.objects : ~RedefinesFuture(asked.objects[i])) =>
              \A type \in DOMAIN Rank : \A t \in asked.window.start..(asked.window.end - 1) :
                (\E p \in ToSet(answer.busy.periods) : p.type = type /\ p.start <= t /\ t < p.end)
                  <=> \E i \in DOMAIN asked.objects : KeepsBusy(asked.objects[i], type, t)
         /\ \A i, j \in DOMAIN answer.busy.periods :
              i < j /\ answer.busy.periods[i].type = answer.busy.periods[j].type =>
                answer.busy.periods[i].end < answer.busy.periods[j].start
         /\ \A p \in ToSet(answer.busy.periods) :
              asked.window.start <= p.start /\ p.start < p.end /\ p.end <= asked.window.end

(* A query with a time-range and an expansion of the same window agree on  *)
(* every object of events, though each walks the rule on its own: what the *)
(* filter leaves out has no instance to expand, what it lets through has   *)
(* one, and a filter that gave up is never followed by an expansion that   *)
(* did not.                                                                *)
MatchIffExpands ==
  Answered("agenda") =>
    \A i \in DOMAIN asked.objects : asked.objects[i].kind = "VEVENT" =>
      CASE answer.matches[i] = "507" -> answer.expanded[i].refused
        [] answer.matches[i] = "out" ->
             ~answer.expanded[i].refused /\ DOMAIN answer.expanded[i].emitted = {}
        [] answer.matches[i] = "in" ->
             answer.expanded[i].refused \/ DOMAIN answer.expanded[i].emitted # {}

(* A client that asks for limited objects and expands them as the server   *)
(* does reaches the answer of the free-busy query.  An override dropped    *)
(* too eagerly would bring the instance it redefined back.                 *)
LimitsLoseNothing == Answered("agenda") => answer.limited = answer.busy
=============================================================================
