------------------------------- MODULE Bodies -------------------------------
(***************************************************************************)
(* What a PUT may store: the bodies packages caldav and carddav accept.    *)
(* Stored bytes are served verbatim, while reports, UID uniqueness and     *)
(* filters only see what the parser decodes, so the two must be the same.  *)
(*                                                                         *)
(* A calendar body is a sequence of the objects its decoder meets: records *)
(* for VCALENDARs, with the components in order, or Junk where the bytes   *)
(* do not decode.                                                          *)
(*                                                                         *)
(* A card body is a sequence of raw lines, each ended by a line break.  A  *)
(* folded one begins with white space and continues the line before it.    *)
(* The text of a line is "BEGIN" for BEGIN:VCARD, "END" for END:VCARD,     *)
(* "END+" for the latter with a group or a parameter, "EN" and "D" for     *)
(* END:VCARD cut in two, a property of the card, "a" for characters with   *)
(* no colon among them, or "" for none.                                    *)
(***************************************************************************)
EXTENDS Answering, Naturals, SequencesExt

CONSTANT Junk

Preconditions ==
  {"valid-calendar-data", "valid-calendar-object-resource", "valid-address-data",
   "supported-address-data"}

ItemKinds == {"event", "task", "note", "availability"}

KindByComponent ==
  [c \in {"VEVENT", "VTODO", "VJOURNAL", "VFREEBUSY"} |->
     CASE c = "VEVENT" -> "event" [] c = "VTODO" -> "task"
       [] c = "VJOURNAL" -> "note" [] c = "VFREEBUSY" -> "availability"]

Rejection(precondition) == [rejected |-> precondition]
Item(uid, kind) == [rejected |-> Nil, uid |-> uid, kind |-> kind]

(* Nothing is neither a reason nor an item. *)
ASSUME BodiesAssumption ==
  Nil \notin Preconditions \cup [rejected: {Nil}, uid: STRING, kind: ItemKinds]

(* What is wrong with one component, given the item the first one named.   *)
ComponentError(comp, item) ==
  CASE comp.name \notin DOMAIN KindByComponent -> "valid-calendar-object-resource"
    [] comp.name \in DOMAIN KindByComponent /\ comp.uid = Nil -> "valid-calendar-object-resource"
    [] comp.name \in DOMAIN KindByComponent /\ comp.uid # Nil /\ ~comp.stamp -> "valid-calendar-data"
    [] OTHER ->
         IF item # Nil /\ (item.kind # KindByComponent[comp.name] \/ item.uid # comp.uid)
         THEN "valid-calendar-object-resource" ELSE Nil

(* The first component that is not a time zone names the item; the first   *)
(* of them that is wrong is why there is none.                             *)
ReadComponents(comps) ==
  LET read == {i \in DOMAIN comps : comps[i].name # "VTIMEZONE"}
      first == comps[Min(read)]
      item == Item(first.uid, KindByComponent[first.name])
      wrong == {i \in read : ComponentError(comps[i], item) # Nil}
  IN CASE read = {} -> Rejection("valid-calendar-object-resource")
       [] read # {} /\ ComponentError(first, Nil) # Nil -> Rejection(ComponentError(first, Nil))
       [] OTHER -> IF wrong = {} THEN item
                   ELSE Rejection(ComponentError(comps[Min(wrong)], item))

(* Mutant: what follows the first object is not looked at. *)
SingleObject_First(body) == body # << >> /\ body[1] # Junk

(* The decoder reads one object, and then the end of the body. *)
SingleObject(body) == Len(body) = 1 /\ body[1] # Junk

ParseItemBody(body) ==
  IF ~SingleObject(body) THEN Rejection("valid-calendar-data")
  ELSE LET cal == body[1]
       IN CASE ~cal.versioned -> Rejection("valid-calendar-data")
            [] cal.versioned /\ cal.method -> Rejection("valid-calendar-object-resource")
            [] OTHER -> ReadComponents(cal.comps)

---------------------------------------------------------------------------
(* The raw lines that may delimit a card: folded and blank ones never do. *)
Told(lines) == {i \in DOMAIN lines : ~lines[i].folded /\ lines[i].text # ""}

(* Mutant: a line after the END goes unnoticed. *)
IsSingleCard_AnyEnd(lines) ==
  LET told == Told(lines)
  IN told # {} /\ lines[Min(told)].text = "BEGIN" /\ \E i \in told : lines[i].text = "END"

(* A card and nothing around it: BEGIN comes first, the first END last. *)
IsSingleCard(lines) ==
  LET told == Told(lines)
      ends == {i \in told : lines[i].text = "END"}
  IN told # {} /\ lines[Min(told)].text = "BEGIN" /\ ends = {Max(told)}

(* The line the decoder reads where a raw line begins it: the texts of     *)
(* that and of the folded ones after it.  The very first is not unfolded.  *)
Unfolded(lines, i) ==
  LET later == {j \in DOMAIN lines : j > i /\ ~lines[j].folded}
      last == IF later = {} THEN Len(lines) ELSE Min(later) - 1
      texts == [j \in 1..(last - i + 1) |-> lines[i + j - 1].text]
  IN (IF lines[i].folded THEN <<" ">> ELSE << >>) \o SelectSeq(texts, LAMBDA t : t # "")

(* A line without a colon is passed over. *)
Read(lines) ==
  {i \in DOMAIN lines : /\ i = 1 \/ ~lines[i].folded
                        /\ ToSet(Unfolded(lines, i)) \ {" ", "a", "EN"} # {}}

(* How END:VCARD is spelled for the decoder. *)
Ends == {<<"END">>, <<"END+">>, <<"EN", "D">>}

(* The lines after the first that begin like an END; the card ends there. *)
Endings(lines) ==
  {i \in Read(lines) \ {Min(Read(lines))} : \E e \in Ends : IsPrefix(e, Unfolded(lines, i))}

CardEnd(lines) == Min(Endings(lines))

(* A line that goes on after BEGIN or END is an error, and so is a card    *)
(* that does not begin or does not end.                                    *)
Decodes(lines) ==
  /\ Read(lines) # {} /\ Unfolded(lines, Min(Read(lines))) = <<"BEGIN">>
  /\ Endings(lines) # {} /\ Unfolded(lines, CardEnd(lines)) \in Ends

(* The lines the decoder keeps. *)
Decoded(lines) == {i \in Read(lines) : Min(Read(lines)) < i /\ i < CardEnd(lines)}

Versions == {"VERSION:2.1", "VERSION:3.0", "VERSION:4.0"}
UIDs == {"UID:1", "UID:2"}

VCardVersions == {<<"VERSION:3.0">>, <<"VERSION:4.0">>}

(* The first line of a property. *)
ValueIn(lines, texts) ==
  LET found == {i \in Decoded(lines) : Unfolded(lines, i)[1] \in texts}
  IN IF found = {} THEN Nil ELSE Unfolded(lines, Min(found))

ParseCardBody(lines) ==
  IF ~IsSingleCard(lines) \/ ~Decodes(lines) THEN Rejection("valid-address-data")
  ELSE LET version == ValueIn(lines, Versions)
           uid == ValueIn(lines, UIDs)
       IN CASE version = Nil -> Rejection("valid-address-data")
            [] version # Nil /\ version \notin VCardVersions -> Rejection("supported-address-data")
            [] OTHER ->
                 IF ValueIn(lines, {"FN"}) = Nil \/ uid = Nil THEN Rejection("valid-address-data")
                 ELSE Item(uid, "card")

Admit ==
  Answers("body",
    IF asked.server = "caldav" THEN ParseItemBody(asked.body) ELSE ParseCardBody(asked.body))

(* Any body of either kind. *)
BodiesInit ==
  /\ answer = Nil
  /\ asked \in [about: {"body"}, server: {"caldav"},
                body: Seq([comps: Seq([name: STRING, uid: STRING \cup {Nil}, stamp: BOOLEAN]),
                           versioned: BOOLEAN, method: BOOLEAN] \cup {Junk})]
              \cup [about: {"body"}, server: {"carddav"}, body: Seq([folded: BOOLEAN, text: STRING])]

BodiesSpec == BodiesInit /\ [][Admit]_answering

---------------------------------------------------------------------------
(* The bytes of a resource are the item that the index, the filters and    *)
(* the reports know it by.  A calendar body is admitted exactly when it is *)
(* one complete object with no METHOD, whose components, time zones aside, *)
(* are at least one and all carry a DTSTAMP, the item's one UID and the    *)
(* item's one kind.                                                        *)
(*                                                                         *)
(* A card body is admitted only with the UID, a name and a version the     *)
(* server serves in the card that is decoded, and that card ends with the  *)
(* last line of the body, so that nothing of meaning is stored outside it. *)
(* The exception is a limit of the code: IsSingleCard reads raw lines, and *)
(* does not see an END that is folded, or has a group or a parameter.      *)
(* The decoder stops there, whatever follows.                              *)
StoredIsSeen ==
  Answered("body") =>
    LET items == {c \in ToSet(asked.body[1].comps) : c.name # "VTIMEZONE"}
        OneItem ==
          /\ Len(asked.body) = 1 /\ Junk \notin ToSet(asked.body)
          /\ asked.body[1].versioned /\ ~asked.body[1].method
          /\ items # {}
          /\ \E uid \in {c.uid : c \in items} \ {Nil} : \E k \in DOMAIN KindByComponent :
               \A c \in items : c.name = k /\ c.uid = uid /\ c.stamp
    IN IF asked.server = "caldav"
       THEN /\ (answer.rejected = Nil) = OneItem
            /\ answer.rejected = Nil =>
                 \A c \in items : answer.uid = c.uid /\ answer.kind = KindByComponent[c.name]
       ELSE answer.rejected = Nil =>
              LET lines == asked.body
                  end == CardEnd(lines)
                  last == Max(Told(lines))
              IN /\ lines[Min(Told(lines))].text = "BEGIN"
                 /\ end = last \/ lines[end].text # "END"
                 /\ end = last =>
                      Told(lines) \cap Read(lines) \subseteq Decoded(lines) \cup {Min(Read(lines)), end}
                 /\ \E i \in Decoded(lines) : Unfolded(lines, i) = answer.uid /\ answer.uid[1] \in UIDs
                 /\ \E i \in Decoded(lines) : Unfolded(lines, i)[1] = "FN"
                 /\ \E i \in Decoded(lines) : Unfolded(lines, i) \in VCardVersions
=============================================================================
