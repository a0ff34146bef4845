------------------------------ MODULE Filters ------------------------------
(***************************************************************************)
(* The filters of a calendar-query (package caldav) and of an              *)
(* addressbook-query (package carddav): which object has a component, a    *)
(* property, a parameter or a text the client asks for.                    *)
(*                                                                         *)
(* A text is a sequence of letters, so that what a collation folds and     *)
(* what a match looks for are as the code has them.  An object is a        *)
(* sequence of children (a card is one child), each with a name and its    *)
(* properties in order; a property has a name, a group ("" for none), a    *)
(* value, and the values of its one parameter.  A test that cannot be made *)
(* answers 403 for the whole query.  Time ranges are in module TimeRange.  *)
(***************************************************************************)
EXTENDS Answering, Naturals, SequencesExt

(* The result of a test: it holds, it does not, or the query is refused. *)
Result(holds) == IF holds THEN "yes" ELSE "no"

(* Tests by their place in a list, in order, up to the first that settles  *)
(* the outcome: a refusal, or the result asked for.                        *)
FirstSettles(results, settling, otherwise) ==
  LET settled == {i \in DOMAIN results : results[i] \in {settling, "403"}}
  IN IF settled = {} THEN otherwise ELSE results[Min(settled)]

AnyOf(results) == FirstSettles(results, "yes", "no")
AllOf(results) == FirstSettles(results, "no", "yes")

---------------------------------------------------------------------------
(* Collations. *)

Supported == {"i;octet", "i;ascii-casemap", "i;unicode-casemap"}

Lower(letter, unicode) ==
  CASE letter = "A" -> "a"
    [] letter = "U" /\ unicode -> "u"      \* a letter outside ASCII
    [] OTHER -> letter

FoldForCollation(collation, text) ==
  IF collation = "i;octet" THEN text
  ELSE [i \in DOMAIN text |-> Lower(text[i], collation = "i;unicode-casemap")]

HasPart(text, part) ==
  \E i \in 0..Len(text) : i + Len(part) <= Len(text) /\ SubSeq(text, i + 1, i + Len(part)) = part

CalendarCollation(txt) == IF txt.collation = "" THEN "i;ascii-casemap" ELSE txt.collation
CardCollation(txt) == IF txt.collation = "" THEN "i;unicode-casemap" ELSE txt.collation

(* package caldav: a text-match asks for a substring. *)
CalendarTextMatch(txt, value) ==
  LET collation == CalendarCollation(txt)
  IN IF collation \notin Supported THEN "403"
     ELSE Result(HasPart(FoldForCollation(collation, value), FoldForCollation(collation, txt.text))
                   # txt.negate)

(* package carddav: or, given a match-type, for the whole, the beginning   *)
(* or the end.                                                             *)
CardTextMatch(txt, value) ==
  LET collation == CardCollation(txt)
      needle == FoldForCollation(collation, txt.text)
      haystack == FoldForCollation(collation, value)
      found == \/ txt.type = "equals" /\ needle = haystack
               \/ txt.type \in {"contains", Nil} /\ HasPart(haystack, needle)
               \/ txt.type = "starts-with" /\ IsPrefix(needle, haystack)
               \/ txt.type = "ends-with" /\ IsSuffix(needle, haystack)
  IN IF collation \notin Supported THEN "403" ELSE Result(found # txt.negate)

---------------------------------------------------------------------------
(* Parameters: any value will do.  An empty first value still counts as an *)
(* absent parameter for a calendar, and as a present one for a card.       *)
CalendarParamFilter(pf, field) ==
  LET values == field.params
  IN CASE values = << >> \/ values[1] = << >> -> Result(pf.isNotDefined)
       [] OTHER ->
            IF pf.isNotDefined \/ pf.text = Nil THEN Result(~pf.isNotDefined)
            ELSE AnyOf([i \in DOMAIN values |-> CalendarTextMatch(pf.text, values[i])])

CardParamFilter(pf, field) ==
  LET values == field.params
  IN CASE values = << >> -> Result(pf.isNotDefined)
       [] OTHER ->
            IF pf.isNotDefined \/ pf.text = Nil THEN Result(~pf.isNotDefined)
            ELSE AnyOf([i \in DOMAIN values |-> CardTextMatch(pf.text, values[i])])

(* One occurrence of a property, for a calendar: every parameter, and the  *)
(* text.                                                                   *)
CalendarPropField(filter, field) ==
  LET params == [i \in DOMAIN filter.params |-> CalendarParamFilter(filter.params[i], field)]
      texts == [i \in DOMAIN filter.texts |-> CalendarTextMatch(filter.texts[i], field.value)]
  IN AllOf(params \o texts)

(* And for a card: any or all of the parameters and the texts together, as *)
(* the test asks; with none, the property is enough.                       *)
CardPropField(filter, field) ==
  LET params == [i \in DOMAIN filter.params |-> CardParamFilter(filter.params[i], field)]
      texts == [i \in DOMAIN filter.texts |-> CardTextMatch(filter.texts[i], field.value)]
      tests == params \o texts
  IN IF tests = << >> THEN "yes" ELSE IF filter.test = "allof" THEN AllOf(tests) ELSE AnyOf(tests)

---------------------------------------------------------------------------
(* Where the occurrences are that a property filter is about.              *)
CalendarFields(filter, comp) ==
  {i \in DOMAIN comp.props : comp.props[i].name = filter.name}

(* A name without a group means the property in any group. *)
CandidateFields(filter, card) ==
  {i \in DOMAIN card.props : card.props[i].name = filter.name
                               /\ filter.group \in {"", card.props[i].group}}

(* Mutant: every condition may find an occurrence of its own. *)
CalendarPropFilter_Gathered(filter, comp) ==
  LET fields == CalendarFields(filter, comp)
  IN IF fields = {} \/ filter.isNotDefined THEN Result((fields = {}) = filter.isNotDefined)
     ELSE AllOf(<<AnyOf([i \in fields |->
                     CalendarPropField([filter EXCEPT !.texts = << >>], comp.props[i])]),
                  AnyOf([i \in fields |->
                     CalendarPropField([filter EXCEPT !.params = << >>], comp.props[i])])>>)

(* One occurrence has to satisfy every condition; is-not-defined asks for  *)
(* none.                                                                   *)
CalendarPropFilter(filter, comp) ==
  LET fields == CalendarFields(filter, comp)
  IN IF fields = {} \/ filter.isNotDefined THEN Result((fields = {}) = filter.isNotDefined)
     ELSE AnyOf([i \in fields |-> CalendarPropField(filter, comp.props[i])])

CardPropFilter(filter, card) ==
  LET fields == CandidateFields(filter, card)
  IN IF fields = {} \/ filter.isNotDefined THEN Result((fields = {}) = filter.isNotDefined)
     ELSE AnyOf([i \in fields |-> CardPropField(filter, card.props[i])])

---------------------------------------------------------------------------
(* A component satisfies a filter of its name and all its properties'.     *)
Match(filter, comp) ==
  IF comp.name # filter.name THEN "no"
  ELSE AllOf([i \in DOMAIN filter.props |-> CalendarPropFilter(filter.props[i], comp)])

(* Some child satisfies the filter; is-not-defined is about all of them.   *)
MatchCompFilter(filter, children) ==
  IF filter.isNotDefined THEN Result(\A i \in DOMAIN children : children[i].name # filter.name)
  ELSE AnyOf([i \in DOMAIN children |-> Match(filter, children[i])])

(* The filter of a calendar-query: VCALENDAR, and filters of its children. *)
MatchObjectFilter(filter, children) ==
  AllOf([i \in DOMAIN filter.comps |-> MatchCompFilter(filter.comps[i], children)])

(* The filter of an addressbook-query; anyof unless the client says. *)
MatchCardFilter(filter, card) ==
  LET tests == [i \in DOMAIN filter.props |-> CardPropFilter(filter.props[i], card)]
  IN IF filter.test = "allof" THEN AllOf(tests) ELSE AnyOf(tests)

(* is-not-defined leaves nothing to put a condition on. *)
ValidateFilter(filter) ==
  \A p \in ToSet(filter.props) :
    /\ p.isNotDefined => p.texts = << >> /\ p.params = << >>
    /\ \A q \in ToSet(p.params) : q.isNotDefined => q.text = Nil

Search ==
  Answers("filter",
    IF asked.server = "caldav" THEN MatchObjectFilter(asked.filter, asked.object)
    ELSE IF ValidateFilter(asked.filter) THEN MatchCardFilter(asked.filter, asked.object[1]) ELSE "400")

(* Any query for one property of one component, or of a card, beside the   *)
(* absence of any components, over any object.                             *)
TextMatch ==
  [text: Seq(STRING), collation: STRING, negate: BOOLEAN,
   type: {Nil, "equals", "contains", "starts-with", "ends-with"}]

ParamFilter == [isNotDefined: BOOLEAN, text: TextMatch \cup {Nil}]

PropFilter ==
  [name: STRING, group: STRING, isNotDefined: BOOLEAN, test: {"anyof", "allof"},
   texts: Seq(TextMatch), params: Seq(ParamFilter)]

CompFilter == [name: STRING, isNotDefined: BOOLEAN, props: Seq(PropFilter)]

ObjectPart ==
  [name: STRING,
   props: Seq([name: STRING, group: STRING, value: Seq(STRING), params: Seq(Seq(STRING))])]

CalendarQuery ==
  [comps: {cs \in Seq(CompFilter) :
             /\ Len(cs) > 0 /\ ~cs[1].isNotDefined /\ Len(cs[1].props) = 1
             /\ \A i \in 2..Len(cs) : cs[i].isNotDefined}]

CardQuery == [test: {"anyof", "allof"}, props: [1..1 -> PropFilter]]

FiltersInit ==
  /\ answer = Nil
  /\ asked \in [about: {"filter"}, server: {"caldav"}, object: Seq(ObjectPart), filter: CalendarQuery]
              \cup [about: {"filter"}, server: {"carddav"}, object: [1..1 -> ObjectPart], filter: CardQuery]

FiltersSpec == FiltersInit /\ [][Search]_answering

---------------------------------------------------------------------------
(* The object with one of a child's properties alone of its name, and      *)
(* nothing else.                                                           *)
Alone(child, i) == [child EXCEPT !.props = <<child.props[i]>>]

(* What is found is found for one reason a reader can point at.  A query   *)
(* for one property of one component (or of a card) matches an object      *)
(* exactly when the object has that property so that this occurrence,      *)
(* with everything else taken away, matches too; an object that is         *)
(* matched, or kept out, by conditions met on different occurrences or     *)
(* different components would break it.  A query for the absence of the    *)
(* property matches when such a component, or the card, does not have it;  *)
(* one for the absence of a component besides, when no child has its name. *)
OneOccurrenceJustifies ==
  Answered("filter") /\ answer \in {"yes", "no"} =>
    LET absent == IF asked.server = "carddav" THEN {}
                  ELSE {f.name : f \in {f \in ToSet(asked.filter.comps) : f.isNotDefined}}
        excluded == \E c \in DOMAIN asked.object : asked.object[c].name \in absent
        prop == IF asked.server = "caldav" THEN asked.filter.comps[1].props[1] ELSE asked.filter.props[1]
        reasons == UNION {{c} \X DOMAIN asked.object[c].props : c \in DOMAIN asked.object}
        Justifies(r) ==
          LET alone == Alone(asked.object[r[1]], r[2])
          IN "yes" = (IF asked.server = "caldav" THEN MatchObjectFilter(asked.filter, <<alone>>)
                      ELSE MatchCardFilter(asked.filter, alone))
        Present(r) ==
          LET field == asked.object[r[1]].props[r[2]]
          IN /\ field.name = prop.name
             /\ asked.server = "carddav" => prop.group \in {"", field.group}
    IN IF prop.isNotDefined
       THEN answer = Result(~excluded /\ \E c \in DOMAIN asked.object :
                              /\ asked.server = "caldav" => asked.object[c].name = asked.filter.comps[1].name
                              /\ ~\E r \in reasons : r[1] = c /\ Present(r))
       ELSE answer = Result(~excluded /\ \E r \in reasons : Justifies(r))
=============================================================================
