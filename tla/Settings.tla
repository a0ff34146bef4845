------------------------------ MODULE Settings ------------------------------
(***************************************************************************)
(* PROPPATCH, MKCALENDAR and extended MKCOL change several properties of   *)
(* a collection in one request, which RFC 4918 section 9.2 makes atomic    *)
(* and, for PROPPATCH alone, ordered.                                      *)
(*                                                                         *)
(* A body is a sequence of instructions, each a DAV:set or a DAV:remove    *)
(* of some properties.  A value is a short usable one, Unusable (one that  *)
(* does not decode, is too long, or is not a colour, a time zone, a known  *)
(* component), or for a resource type what the collection is to be.        *)
(***************************************************************************)
EXTENDS Answering, Naturals, SequencesExt

CONSTANT Unusable      \* a value no property can take

Settable == {"displayname", "description", "color", "timezone", "order", "components"}

(* The text properties: removing one leaves the empty text. *)
Texts(server) ==
  {"displayname", "description"} \cup (IF server = "caldav" THEN {"color", "timezone"} ELSE {})

Empty == ""

Instruction ==
  [remove: BOOLEAN, props: Seq([name: STRING, value: STRING \cup {Nil, Unusable}])]

---------------------------------------------------------------------------
(* Reading the body. *)

(* One update for each property of an instruction. *)
PropUpdates(instruction) ==
  [i \in 1..Len(instruction.props) |->
     [name |-> instruction.props[i].name, remove |-> instruction.remove,
      value |-> IF instruction.remove THEN Nil ELSE instruction.props[i].value]]

(* Mutant: every DAV:set, then every DAV:remove. *)
Updates_SetsFirst(body) ==
  LET Sets(i) == ~i.remove
      Removes(i) == i.remove
      sorted == SelectSeq(body, Sets) \o SelectSeq(body, Removes)
  IN FlattenSeq([i \in 1..Len(body) |-> PropUpdates(sorted[i])])

(* The instructions in document order, which Remove and Set lose. *)
Updates(body) == FlattenSeq([i \in 1..Len(body) |-> PropUpdates(body[i])])

DecodePropUpdate(update) == update.remove \/ update.value # Unusable

ApplyCalendarSetting(update, creating) ==
  CASE update.name \in Texts("caldav") \cup {"order"} ->
         IF DecodePropUpdate(update) THEN 200 ELSE 409
    [] update.name = "components" /\ creating ->
         IF DecodePropUpdate(update) /\ ~update.remove THEN 200 ELSE 409
    [] OTHER -> 403

ApplyBookSetting(update) ==
  IF update.name \notin Texts("carddav") THEN 403
  ELSE IF DecodePropUpdate(update) THEN 200 ELSE 409

ApplySetting(server, update, creating) ==
  IF server = "caldav" THEN ApplyCalendarSetting(update, creating) ELSE ApplyBookSetting(update)

(* What the patch does to the property: an order is cleared, a text emptied. *)
ValueOf(update) ==
  IF ~update.remove THEN update.value ELSE IF update.name = "order" THEN Nil ELSE Empty

(* The accepted changes so far, none of which is applied yet. *)
Accumulate(server, updates, creating) ==
  LET Add(patch, update) ==
        IF ApplySetting(server, update, creating) = 200
        THEN [n \in DOMAIN patch \cup {update.name} |->
                IF n = update.name THEN ValueOf(update) ELSE patch[n]]
        ELSE patch
  IN FoldLeft(Add, [n \in {} |-> Nil], updates)

(* The rejected names, each with its status. *)
Rejected(server, updates, creating) ==
  {[name |-> u.name, status |-> ApplySetting(server, u, creating)] :
     u \in {u \in ToSet(updates) : ApplySetting(server, u, creating) # 200}}

(* The backend's part: what the patch names, in one critical section. *)
Patched(settings, patch) ==
  [n \in Settable |-> IF n \in DOMAIN patch THEN patch[n] ELSE settings[n]]

---------------------------------------------------------------------------
(* The answers. *)

Outcome(status, rows, settings) == [status |-> status, rows |-> rows, settings |-> settings]

(* Mutant: the properties that did not fail are reported as set. *)
NewPropPatchResponse_OthersSet(updates, rejected) ==
  [i \in 1..Len(updates) |->
     [name |-> updates[i].name,
      status |-> IF \E r \in rejected : r.name = updates[i].name
                 THEN (CHOOSE r \in rejected : r.name = updates[i].name).status
                 ELSE 200]]

(* One row for each update: its own status, else 200, or 424 if another    *)
(* was rejected.                                                           *)
NewPropPatchResponse(updates, rejected) ==
  [i \in 1..Len(updates) |->
     [name |-> updates[i].name,
      status |-> IF \E r \in rejected : r.name = updates[i].name
                 THEN (CHOOSE r \in rejected : r.name = updates[i].name).status
                 ELSE IF rejected = {} THEN 200 ELSE 424]]

(* PROPPATCH in package caldav; carddav's follows the same steps. *)
ProppatchOutcome(server, body, settings) ==
  LET updates == Updates(body)
      rejected == Rejected(server, updates, FALSE)
  IN IF updates = << >> THEN Outcome(400, << >>, settings)
     ELSE Outcome(207, NewPropPatchResponse(updates, rejected),
                  IF rejected # {} THEN settings
                  ELSE Patched(settings, Accumulate(server, updates, FALSE)))

(* MKCALENDAR: a property that cannot be set leaves no calendar. *)
MkcalendarOutcome(body, settings) ==
  LET updates == Updates(body)
      rejected == Rejected("caldav", updates, TRUE)
  IN IF rejected # {} THEN Outcome(207, NewPropPatchResponse(updates, rejected), Nil)
     ELSE Outcome(201, << >>, Patched(settings, Accumulate("caldav", updates, TRUE)))

(* MKCOL: the resource type is what to make, and none of the settings.     *)
MkcolOutcome(body, settings) ==
  LET updates == Updates(body)
      types == {u \in ToSet(updates) : u.name = "resourcetype"}
      rejected == {r \in Rejected("carddav", updates, TRUE) : r.name # "resourcetype"}
  IN IF \E u \in types : u.value # "addressbook" THEN Outcome(400, << >>, Nil)
     ELSE IF rejected # {} THEN Outcome(403, << >>, Nil)
     ELSE Outcome(201, << >>, Patched(settings, Accumulate("carddav", updates, TRUE)))

(* The collection's settings before the request; a new one has none. *)
Unset == [n \in Settable |-> IF n \in {"order", "components"} THEN Nil ELSE Empty]

Change ==
  LET body == asked.body
  IN Answers("settings",
       CASE asked.method = "PROPPATCH" -> ProppatchOutcome(asked.server, body, asked.settings)
         [] asked.method = "MKCALENDAR" -> MkcalendarOutcome(body, Unset)
         [] asked.method = "MKCOL" -> MkcolOutcome(body, Unset))

(* Any body; what creates a collection sets properties and removes none.   *)
SettingsInit ==
  /\ answer = Nil
  /\ asked \in [about: {"settings"}, server: {"caldav", "carddav"},
                method: {"PROPPATCH", "MKCALENDAR", "MKCOL"}, body: Seq(Instruction),
                settings: [Settable -> STRING \cup {Nil}]]
  /\ asked.method # "PROPPATCH" => \A i \in DOMAIN asked.body : ~asked.body[i].remove

SettingsSpec == SettingsInit /\ [][Change]_answering

---------------------------------------------------------------------------
(* Every update of the body, by instruction and place in it. *)
Places == UNION {{i} \X (1..Len(asked.body[i].props)) : i \in 1..Len(asked.body)}

At(p) == asked.body[p[1]].props[p[2]]

After(p, q) == p[1] > q[1] \/ (p[1] = q[1] /\ p[2] > q[2])

(* What the last instruction of the document about a property makes of it; *)
(* what it was, when there is none.                                        *)
Foretold(name, before) ==
  LET about == {p \in Places : At(p).name = name}
      last == CHOOSE p \in about : \A q \in about \ {p} : After(p, q)
  IN CASE about = {} -> before
       [] about # {} /\ ~asked.body[last[1]].remove -> At(last).value
       [] about # {} /\ asked.body[last[1]].remove -> IF name = "order" THEN Nil ELSE Empty

(* A request that changes several properties takes effect as a whole or    *)
(* not at all, and says which: either every property named is what the     *)
(* last instruction of the document about it asks and the rest are as they *)
(* were, every row reporting success; or nothing changed, no row reports   *)
(* success, and where rows are sent one of them carries a reason of its    *)
(* own.  Every row is about an instruction and every instruction has one.  *)
SettingsAllOrNothing ==
  Answered("settings") =>
    LET before == IF asked.method = "PROPPATCH" THEN asked.settings ELSE Unset
        statuses == {r.status : r \in ToSet(answer.rows)}
        names == [i \in 1..Len(answer.rows) |-> answer.rows[i].name]
    IN /\ \/ /\ answer.settings = [n \in Settable |-> Foretold(n, before[n])]
             /\ statuses \subseteq {200}
             /\ answer.status \in {201, 207}
          \/ /\ answer.settings \in {Nil, asked.settings}
             /\ 200 \notin statuses
             /\ answer.rows # << >> => statuses \ {424} # {}
             /\ answer.rows = << >> => answer.status >= 400
       /\ answer.status = 207 =>
            /\ Len(names) = Len(FlattenSeq([i \in 1..Len(asked.body) |-> asked.body[i].props]))
            /\ ToSet(names) = {At(p).name : p \in Places}
=============================================================================
