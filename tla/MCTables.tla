------------------------------ MODULE MCTables ------------------------------
(***************************************************************************)
(* The functions of the code that keep no state of their own, each over    *)
(* every input within the bounds named here.  A behaviour is one question  *)
(* and its answer.                                                         *)
(***************************************************************************)
EXTENDS Access, Settings, Recurrence, Filters, Bodies

---------------------------------------------------------------------------
(* A backend with every capability, with none, or with one missing. *)
AllowedCaps == {Capabilities, {}} \cup {Capabilities \ {c} : c \in Capabilities}

Accesses == [about: {"access"}, site: {s \in Sites : s.caps \in AllowedCaps}]

---------------------------------------------------------------------------
(* Bodies of up to three instructions on one property each, and of one     *)
(* instruction on two.  A DAV:remove carries no value.                     *)
Changed == {"displayname", "order", "components", "dead", "resourcetype"}

Props(remove) ==
  [name: Changed \ {"resourcetype"}, value: IF remove THEN {Nil} ELSE {"a", "b", Unusable}]
    \cup (IF remove THEN {} ELSE [name: {"resourcetype"}, value: {"addressbook", "b"}])

Instructions(n) ==
  UNION {[remove: {r}, props: [1..n -> Props(r)]] : r \in BOOLEAN}

Bodies ==
  (UNION {[1..n -> Instructions(1)] : n \in 0..2}) \cup [1..1 -> Instructions(2)]
    \cup {<<i, j, k>> : i \in Instructions(1), j \in Instructions(1),
                        k \in {i \in Instructions(1) : i.props[1].name = "displayname"}}

Held == [Unset EXCEPT !["displayname"] = "old", !["order"] = "old", !["components"] = "old"]

OnlySets(body) == \A i \in DOMAIN body : ~body[i].remove

Changes ==
  [about: {"settings"}, server: {"caldav", "carddav"}, method: {"PROPPATCH"}, body: Bodies,
   settings: {Held}]
  \cup [about: {"settings"}, server: {"caldav"}, method: {"MKCALENDAR"},
        body: {b \in Bodies : OnlySets(b)}, settings: {Held}]
  \cup [about: {"settings"}, server: {"carddav"}, method: {"MKCOL"},
        body: {b \in Bodies : OnlySets(b)}, settings: {Held}]

---------------------------------------------------------------------------
(* Every component of a table, over times 0..MaxTime.                      *)
Components ==
  [kind: {"VEVENT"}, start: Times, end: Times]
  \cup [kind: {"VJOURNAL"}, start: Optional, date: BOOLEAN]
  \cup [kind: {"VTODO"}, start: 0..3, duration: {0, 2, Nil}, due: {Nil}, completed: {Nil}, created: {Nil}]
  \cup [kind: {"VTODO"}, start: {1, 3, Nil}, duration: {2, Nil}, due: Optional,
        completed: Optional, created: Optional]
  \cup [kind: {"VFREEBUSY"}, start: {1, 3, Nil}, end: {3, 5, Nil},
        periods: {{}} \cup {{p} : p \in Period}]
  \cup [kind: {"property"}, start: Times]

Located == [about: {"timerange"}, comp: Components]

---------------------------------------------------------------------------
(* One object of a rule with at most one override, or two objects of       *)
(* which the second is a single event or a VFREEBUSY.  All-day events      *)
(* begin with a day.                                                       *)
Masters ==
  [start: {0, 1}, duration: 0..2, date: {FALSE}, count: {0, 2, 5}, step: {1, 2},
   rdates: {<< >>, <<<<4, 5>>>>}, exdates: {<< >>, <<<<1>>, <<2>>>>}, status: {"busy"}]
  \cup [start: {0, 4}, duration: {0, Day}, date: {TRUE}, count: {0, 2, 5}, step: {Day},
        rdates: {<< >>, <<<<4, 6>>>>}, exdates: {<< >>, <<<<2>>>>}, status: {"busy"}]

Moves ==
  [start: {1, 3, 6}, duration: {1, 2}, date: {FALSE}, status: {"busy", "tentative", "free"},
   future: BOOLEAN]
  \cup [start: {0, 4}, duration: {0, Day}, date: {TRUE}, status: {"busy"}, future: BOOLEAN]

Overrides == {<< >>} \cup UNION {[{rid} -> Moves] : rid \in {0, 2, 5}}

Event(master, overrides) == [kind |-> "VEVENT", master |-> master, overrides |-> overrides, periods |-> {}]

Single(start, duration, status) ==
  Event([start |-> start, duration |-> duration, date |-> FALSE, count |-> 0, step |-> 1,
         rdates |-> << >>, exdates |-> << >>, status |-> status], << >>)

Beside ==
  {<< >>, <<Single(2, 2, "busy")>>, <<Single(3, 1, "tentative")>>,
   <<[kind |-> "VFREEBUSY", master |-> Nil, overrides |-> << >>,
      periods |-> {[start |-> 0, end |-> 4, type |-> "busy"], [start |-> 4, end |-> 5, type |-> "free"],
                  [start |-> 2, end |-> 5, type |-> "unavailable"]}]>>}

AgendaWindows == {Window(1, 3), Window(1, 5), Window(2, 5), Window(5, 6)}

Agendas ==
  [about: {"agenda"}, objects: {<<Event(m, ovs)>> : m \in Masters \cup {Nil}, ovs \in Overrides},
   window: AgendaWindows]
  \cup [about: {"agenda"}, window: AgendaWindows,
        objects: {<<Event(m, ovs)>> \o b : m \in {m \in Masters : m.rdates = << >> /\ m.duration = 1},
                                         ovs \in {ovs \in Overrides : DOMAIN ovs \subseteq {2}},
                                         b \in Beside}]

---------------------------------------------------------------------------
(* Objects of one component with up to two properties, or of two with one  *)
(* each; filters of one property with a text and a parameter.              *)
Fields(groups) ==
  [name: {"P", "Q"}, group: groups, value: {<<"A">>, <<"b", "U">>},
   params: {<< >>, <<<< >>, <<"a">>>>, <<<<"b">>, <<"A">>>>}]

Lists(set) == {<< >>} \cup {<<f>> : f \in set}

Child(name, props) == [name |-> name, props |-> props]

Objects ==
  {<<Child("VEVENT", ps)>> : ps \in Lists(Fields({""})) \cup {<<f, g>> : f, g \in Fields({""})}}
  \cup {<<Child("VEVENT", ps), Child(n, qs)>> :
          n \in {"VEVENT", "VTODO"}, ps, qs \in Lists({f \in Fields({""}) : f.value = <<"A">>})}

Cards ==
  {<<Child("VCARD", ps)>> : ps \in Lists(Fields({"", "g"})) \cup
     {<<f, g>> : f, g \in {f \in Fields({"", "g"}) : f.name = "P" /\ f.params # << >>}}}

TextMatches(types, collations) ==
  [text: {<<"a">>}, collation: collations, negate: BOOLEAN, type: types]

Params(texts) ==
  Lists([isNotDefined: {FALSE}, text: {Nil} \cup texts] \cup [isNotDefined: {TRUE}, text: {Nil}])

CalendarFilters ==
  {[comps |-> <<[name |-> "VEVENT", isNotDefined |-> FALSE, props |-> <<f>>]>> \o besides] :
     besides \in {<< >>, <<[name |-> "VTODO", isNotDefined |-> TRUE, props |-> << >>]>>},
     f \in [name: {"P"}, isNotDefined: BOOLEAN,
            texts: Lists(TextMatches({Nil}, {"", "i;octet", "unknown"})),
            params: Params(TextMatches({Nil}, {""}))]}

CardFilters ==
  {[test |-> t, props |-> <<f>>] :
     t \in {"anyof", "allof"},
     f \in [name: {"P"}, group: {"", "g"}, isNotDefined: BOOLEAN, test: {"anyof", "allof"},
            texts: Lists(TextMatches({Nil, "equals", "contains", "starts-with", "ends-with"}, {""})) \cup
                   {<<a, b>> : a, b \in TextMatches({"contains"}, {"i;octet", "i;unicode-casemap"})},
            params: Params({})]}

Searches ==
  [about: {"filter"}, server: {"caldav"}, object: Objects, filter: CalendarFilters]
  \cup [about: {"filter"}, server: {"carddav"}, object: Cards, filter: CardFilters]

---------------------------------------------------------------------------
(* Calendar bodies of up to two objects, the first of up to three          *)
(* components; card bodies of a beginning, properties and up to four       *)
(* lines more, the last of them an END or not.                             *)
CalendarComps ==
  [name: {"VEVENT", "VTODO", "VTIMEZONE", "VALARM"}, uid: {"u"}, stamp: {TRUE}]
  \cup [name: {"VEVENT"}, uid: {"u", "v", Nil}, stamp: BOOLEAN]

Calendar(comps, versioned, method) == [comps |-> comps, versioned |-> versioned, method |-> method]

CalendarBodies ==
  {<<Calendar(cs, v, m)>> : cs \in UNION {[1..n -> CalendarComps] : n \in 0..3}, v \in BOOLEAN, m \in BOOLEAN}
  \cup {<<Calendar(<<c>>, TRUE, FALSE)>> \o more :
          c \in CalendarComps, more \in {<<Junk>>, <<Calendar(<< >>, TRUE, FALSE)>>}}
  \cup {<<Junk>>, << >>}

Raw(text) == [folded |-> FALSE, text |-> text]
Fold(text) == [folded |-> TRUE, text |-> text]

Begins ==
  {<<Raw("BEGIN")>>, <<Raw("UID:2")>>, <<Fold("a"), Raw("BEGIN")>>, <<Fold("BEGIN"), Raw("BEGIN")>>,
   <<Raw(""), Fold("BEGIN"), Raw("BEGIN")>>, <<Raw("BEGIN"), Fold("a")>>}

CardProperties ==
  {<<Raw("UID:1"), Raw("VERSION:4.0"), Raw("FN")>>, <<Raw("UID:1"), Raw("VERSION:2.1"), Raw("FN")>>,
   <<Raw("UID:1"), Raw("VERSION:4.0")>>, <<Raw("VERSION:4.0"), Raw("FN")>>}

CardLines ==
  {Raw(t) : t \in {"BEGIN", "END", "END+", "EN", "", "UID:2"}} \cup {Fold(t) : t \in {"D", "END", "a"}}

CardBodies ==
  {b \o ps \o ls \o e : b \in Begins, ps \in CardProperties,
                        ls \in UNION {[1..n -> CardLines] : n \in 0..3}, e \in {<<Raw("END")>>, << >>}}

Admissions ==
  [about: {"body"}, server: {"caldav"}, body: CalendarBodies]
  \cup [about: {"body"}, server: {"carddav"}, body: CardBodies]

---------------------------------------------------------------------------
Init ==
  /\ answer = Nil
  /\ asked \in Accesses \cup Changes \cup Located \cup Agendas \cup Searches \cup Admissions

Next == Describe \/ Change \/ Locate \/ Consult \/ Search \/ Admit

Spec == Init /\ [][Next]_answering
=============================================================================
