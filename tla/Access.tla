------------------------------- MODULE Access -------------------------------
(***************************************************************************)
(* Who may do what, in packages caldav and carddav.  A handler consults    *)
(* the actor's permissions itself; beside that the server tells a client   *)
(* what it may do in three places: the Allow header, the privileges of     *)
(* DAV:current-user-privilege-set and DAV:supported-report-set.  These are *)
(* computed by other code than the handlers, and must agree with it.       *)
(*                                                                         *)
(* A site is a server with a backend's capabilities, and the permissions   *)
(* of one actor on one collection and on the account that owns it.  The    *)
(* status of a request is "admitted" when it reaches the backend's own     *)
(* part of the work, else the status code of the refusal.  Requests are    *)
(* well formed; what is wrong with a body or a header is another matter.   *)
(***************************************************************************)
EXTENDS Answering

ASSUME AccessAssumption == Nil \notin {"400", "501"}

Kinds == {"account", "collection", "item"}

Permissions ==
  {"viewDetails", "viewAvailability", "create", "replace", "delete",
   "update", "deleteCollection"}

Capabilities ==
  {"writesItems", "syncs", "createsCollections", "updatesCollections",
   "deletesCollections", "transfersItems"}

Site ==
  [server: {"caldav", "carddav"}, perms: SUBSET Permissions,
   account: SUBSET {"list", "create"}, caps: SUBSET Capabilities,
   conceals: BOOLEAN]

(* ViewDetails implies ViewAvailability.  A contact has no busy-time shadow. *)
Normalised(s) ==
  IF s.server = "caldav" /\ "viewDetails" \in s.perms
  THEN s.perms \cup {"viewAvailability"} ELSE s.perms

May(s, permission) == permission \in Normalised(s)

Can(s, capability) == capability \in s.caps

(* A contact has no busy-time shadow, and carddav no permission for it. *)
Sites == {s \in Site : s.server = "carddav" => "viewAvailability" \notin s.perms}

---------------------------------------------------------------------------
(* What the handlers do.                                                   *)

(* Any: with no permission at all the answer is that of a resource that is *)
(* not there, or 403 for all, without asking whether it exists.            *)
DenyUnknown(s) == IF s.conceals THEN "404" ELSE "403"

(* Mutant: existence is looked up before the permissions. *)
Resolve_LooksFirst(s, kind, exists) ==
  IF kind # "account" /\ ~exists THEN "404"
  ELSE IF (IF kind = "account" THEN s.account ELSE Normalised(s)) = {}
  THEN DenyUnknown(s)
  ELSE "resolved"

Resolve(s, kind, exists) ==
  IF (IF kind = "account" THEN s.account ELSE Normalised(s)) = {}
  THEN DenyUnknown(s)
  ELSE "resolved"

(* The handlers' common order: resolve, then whether the method is served  *)
(* here at all, then the permission.  The backend knows what exists.       *)
Guarded(s, kind, exists, served, permitted) ==
  LET resolved == Resolve(s, kind, exists) IN
  IF resolved # "resolved" THEN resolved
  ELSE IF ~served THEN "405"
  ELSE IF ~permitted THEN "403"
  ELSE IF kind # "account" /\ ~exists THEN "404"
  ELSE "admitted"

HeadGet(s, kind, exists) ==
  Guarded(s, kind, exists, kind = "item", May(s, "viewDetails"))

PropFind(s, kind, exists, deep) ==
  Guarded(s, kind, exists, TRUE,
          CASE kind = "account"    -> deep => "list" \in s.account
            [] kind = "collection" -> deep => May(s, "viewDetails")
            [] kind = "item"       -> May(s, "viewDetails"))

(* Mutant: an item can be replaced by whoever may create. *)
Put_AnyWrite(s, kind, exists) ==
  LET either == May(s, "create") \/ May(s, "replace") IN
  Guarded(s, kind, TRUE, kind = "item" /\ Can(s, "writesItems"), either)

(* One of the two permissions admits the request; the transaction picks    *)
(* the one that applies (CompareAndStoreItem).                             *)
Put(s, kind, exists) ==
  LET either == May(s, "create") \/ May(s, "replace")
      picked == May(s, IF exists THEN "replace" ELSE "create") IN
  Guarded(s, kind, TRUE, kind = "item" /\ Can(s, "writesItems"), either /\ picked)

Delete(s, kind, exists) ==
  Guarded(s, kind, exists,
          \/ kind = "item" /\ Can(s, "writesItems")
          \/ kind = "collection" /\ Can(s, "deletesCollections"),
          May(s, IF kind = "item" THEN "delete" ELSE "deleteCollection"))

(* Within one collection, where the destination's permissions are the      *)
(* source's; CardRequests has the transfers between two.                   *)
Transfer(s, kind, exists, move) ==
  Guarded(s, kind, exists, kind = "item" /\ Can(s, "transfersItems"),
          /\ May(s, "viewDetails")
          /\ move => May(s, "delete")
          /\ May(s, "create") \/ May(s, "replace"))

PropPatch(s, kind, exists) ==
  Guarded(s, kind, exists,
          kind = "collection" /\ Can(s, "updatesCollections"), May(s, "update"))

(* MKCALENDAR and extended MKCOL: the collection cannot carry permissions  *)
(* of its own yet, so the account's decide.                                *)
MakeCollection(s, kind, exists) ==
  IF kind # "collection" \/ ~Can(s, "createsCollections") THEN "405"
  ELSE IF s.account = {} THEN DenyUnknown(s)
  ELSE IF "create" \notin s.account THEN "403"
  ELSE IF exists THEN "403"            \* resource-must-be-null
  ELSE "admitted"

(* caldav.Mkcol: resolved first, then refused. *)
Mkcol(s, kind, exists) ==
  IF s.server = "carddav" THEN MakeCollection(s, kind, exists)
  ELSE Guarded(s, kind, exists, FALSE, TRUE)

Reports == {"query", "multiget", "free-busy", "sync"}

(* A report is dispatched before it asks for the collection: one that is   *)
(* not served here is refused whether or not there is one.                 *)
Dispatched(access, unserved, exists) ==
  IF access # "admitted" THEN access
  ELSE IF unserved # Nil THEN unserved
  ELSE IF ~exists THEN "404"
  ELSE "admitted"

(* caldav's handleReport: free-busy is for the availability tier. *)
CalendarReport(s, kind, exists, report) ==
  Dispatched(
    Guarded(s, kind, TRUE, kind = "collection",
            May(s, IF report = "free-busy" THEN "viewAvailability" ELSE "viewDetails")),
    IF report = "sync" /\ ~Can(s, "syncs") THEN "501" ELSE Nil,
    exists)

(* carddav's: every report reads the items. *)
BookReport(s, kind, exists, report) ==
  Dispatched(
    Guarded(s, kind, TRUE, kind = "collection", May(s, "viewDetails")),
    IF report = "free-busy" THEN "400"
    ELSE IF report = "sync" /\ ~Can(s, "syncs") THEN "501" ELSE Nil,
    exists)

Report(s, kind, exists, report) ==
  IF s.server = "caldav" THEN CalendarReport(s, kind, exists, report)
  ELSE BookReport(s, kind, exists, report)

Options(s, kind, exists) ==
  IF Resolve(s, kind, exists) = "resolved" THEN "admitted"
  ELSE Resolve(s, kind, exists)

Methods ==
  {"OPTIONS", "GET", "HEAD", "PUT", "DELETE", "PROPFIND", "PROPPATCH", "MKCOL",
   "COPY", "MOVE", "REPORT", "MKCALENDAR", "LOCK"}

(* Handler.ServeHTTP; any other method is refused before it is resolved. *)
ServeHTTP(s, method, kind, exists) ==
  CASE method = "OPTIONS"           -> Options(s, kind, exists)
    [] method \in {"GET", "HEAD"}   -> HeadGet(s, kind, exists)
    [] method = "PUT"               -> Put(s, kind, exists)
    [] method = "DELETE"            -> Delete(s, kind, exists)
    [] method = "PROPFIND"          -> PropFind(s, kind, exists, FALSE)
    [] method = "PROPPATCH"         -> PropPatch(s, kind, exists)
    [] method = "MKCOL"             -> Mkcol(s, kind, exists)
    [] method \in {"COPY", "MOVE"}  -> Transfer(s, kind, exists, method = "MOVE")
    [] method = "REPORT"            -> Report(s, kind, exists, "query")
    [] method = "MKCALENDAR" /\ s.server = "caldav" -> MakeCollection(s, kind, exists)
    [] OTHER                        -> "405"

---------------------------------------------------------------------------
(* What the server says.                                                   *)

When(condition, what) == IF condition THEN what ELSE {}

(* Mutant: the privileges of a backend that cannot write, too. *)
WritePrivileges_Uncapable(s) ==
  When(May(s, "replace"), {"write-content"})
  \cup When(May(s, "update"), {"write-properties"})
  \cup When(May(s, "create"), {"bind"})
  \cup When(May(s, "delete"), {"unbind"})

(* Each is intersected with the capability that would carry it out. *)
WritePrivileges(s) ==
  When(May(s, "replace") /\ Can(s, "writesItems"), {"write-content"})
  \cup When(May(s, "update") /\ Can(s, "updatesCollections"), {"write-properties"})
  \cup When(May(s, "create") /\ Can(s, "writesItems"), {"bind"})
  \cup When(May(s, "delete") /\ Can(s, "writesItems"), {"unbind"})

(* DAV:write aggregates the four. *)
Aggregated(privileges) ==
  privileges
  \cup When({"write-content", "write-properties", "bind", "unbind"} \subseteq privileges,
            {"write"})

CalendarPrivileges(s) ==
  {"read-current-user-privilege-set"}
  \cup When(May(s, "viewDetails"), {"read"})
  \cup When(May(s, "viewAvailability"), {"read-free-busy"})
  \cup Aggregated(WritePrivileges(s))

BookPrivileges(s) ==
  {"read-current-user-privilege-set"}
  \cup When(May(s, "viewDetails"), {"read"})
  \cup Aggregated(WritePrivileges(s))

PrivilegesFor(s) ==
  IF s.server = "caldav" THEN CalendarPrivileges(s) ELSE BookPrivileges(s)

(* Mutant: DELETE of a collection is always listed. *)
CollectionMethods_Delete(s, make) ==
  {"REPORT", "DELETE"} \cup When(Can(s, "updatesCollections"), {"PROPPATCH"})
  \cup When(Can(s, "createsCollections"), {make})

CollectionMethods(s, make) ==
  {"REPORT"} \cup When(Can(s, "updatesCollections"), {"PROPPATCH"})
  \cup When(Can(s, "deletesCollections"), {"DELETE"})
  \cup When(Can(s, "createsCollections"), {make})

ItemMethods(s) ==
  {"GET", "HEAD"} \cup When(Can(s, "writesItems"), {"PUT", "DELETE"})
  \cup When(Can(s, "transfersItems"), {"COPY", "MOVE"})

CalendarMethods(s, kind) ==
  {"OPTIONS", "PROPFIND"}
  \cup When(kind = "collection", CollectionMethods(s, "MKCALENDAR"))
  \cup When(kind = "item", ItemMethods(s))

BookMethods(s, kind) ==
  {"OPTIONS", "PROPFIND"}
  \cup When(kind = "collection", CollectionMethods(s, "MKCOL"))
  \cup When(kind = "item", ItemMethods(s))

AllowedMethods(s, kind) ==
  IF s.server = "caldav" THEN CalendarMethods(s, kind) ELSE BookMethods(s, kind)

SupportedReports(s) ==
  {"query", "multiget"} \cup When(s.server = "caldav", {"free-busy"})
  \cup When(Can(s, "syncs"), {"sync"})

(* PROPFIND of the collection and OPTIONS of each kind of resource. *)
Describe ==
  Answers("access",
          [privileges |-> PrivilegesFor(asked.site),
           reports    |-> SupportedReports(asked.site),
           allow      |-> [kind \in Kinds |-> AllowedMethods(asked.site, kind)]])

(* Any actor and any backend. *)
AccessInit == answer = Nil /\ asked \in [about: {"access"}, site: Sites]

AccessSpec == AccessInit /\ [][Describe]_answering

---------------------------------------------------------------------------
(* Properties.                                                             *)

(* "A privilege only ever appears because a permission the handler         *)
(* enforces put it there", and one that is held appears: what a client is  *)
(* told it may do is what the handlers admit, on every backend.  DAV:write *)
(* is told only when every edit it offers would be admitted, and every     *)
(* report listed is served to whoever may read.                            *)
PrivilegesAreEnforced ==
  Answered("access") =>
    LET s == asked.site held == answer.privileges
        Admits(status) == status = "admitted" IN
    /\ "read" \in held <=> Admits(HeadGet(s, "item", TRUE))
    /\ "read" \in held <=> Admits(PropFind(s, "collection", TRUE, TRUE))
    /\ "read-free-busy" \in held <=> Admits(Report(s, "collection", TRUE, "free-busy"))
    /\ "write-content" \in held <=> Admits(Put(s, "item", TRUE))
    /\ "bind" \in held <=> Admits(Put(s, "item", FALSE))
    /\ "unbind" \in held <=> Admits(Delete(s, "item", TRUE))
    /\ "write-properties" \in held <=> Admits(PropPatch(s, "collection", TRUE))
    /\ "write" \in held <=> {"write-content", "bind", "unbind", "write-properties"} \subseteq held
    /\ \A report \in Reports :
         /\ Admits(Report(s, "collection", TRUE, report)) => report \in answer.reports
         /\ report \in answer.reports /\ "read" \in held =>
              Admits(Report(s, "collection", TRUE, report))

(* Allow is "exactly the methods this handler answers with something other *)
(* than a 405", on every kind of resource and whatever the actor may do.   *)
AllowIsExact ==
  Answered("access") =>
    \A kind \in Kinds, method \in Methods :
      LET s == [asked.site EXCEPT !.perms = @ \cup {"update"}, !.account = @ \cup {"list"}] IN
      method \in answer.allow[kind]
        <=> \E exists \in BOOLEAN : ServeHTTP(s, method, kind, exists) # "405"

(* An actor with no permission on a collection nor on its account learns   *)
(* nothing of what exists: no method answers otherwise for a resource that *)
(* is there than for one that is not.                                      *)
DeniedLearnsNothing ==
  Answered("access") /\ Normalised(asked.site) = {} /\ asked.site.account = {} =>
    \A kind \in Kinds, method \in Methods :
      ServeHTTP(asked.site, method, kind, TRUE)
        = ServeHTTP(asked.site, method, kind, FALSE)
=============================================================================
