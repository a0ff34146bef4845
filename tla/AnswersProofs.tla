--------------------------- MODULE AnswersProofs ---------------------------
(***************************************************************************)
(* The functions without state, for inputs of any size: what the server    *)
(* tells an actor it may do against what the handlers do; the tables of    *)
(* the time-range filter; what a body of properties sets; what a query     *)
(* matches and a PUT admits; and what rules, overrides and limits make of  *)
(* the busy time of a window.                                              *)
(***************************************************************************)
EXTENDS Access, TimeRange, Settings, Recurrence, Filters, Bodies, FiniteSetTheorems,
        SequenceTheorems, WellFoundedInduction, TLAPS

---------------------------------------------------------------------------
(* Access: an answer is what Describe says of the site. *)

Description(s) ==
  [privileges |-> PrivilegesFor(s),
   reports    |-> SupportedReports(s),
   allow      |-> [kind \in Kinds |-> AllowedMethods(s, kind)]]

AccessInv ==
  /\ asked \in [about: {"access"}, site: Sites]
  /\ answer # Nil => answer = Description(asked.site)

(* Every answer about access is the description of the site asked about. *)
THEOREM Describing == AccessSpec => []AccessInv
<1>1. AccessInit => AccessInv
  BY DEF AccessInit, AccessInv
<1>2. AccessInv /\ [Describe]_answering => AccessInv'
  BY DEF AccessInv, Describe, Answers, Description, answering
<1> QED
  BY <1>1, <1>2, PTL DEF AccessSpec

(* An actor with a permission on the collection is not turned away, and a  *)
(* guarded request for what exists is admitted when it is served and       *)
(* permitted.                                                              *)
LEMMA AdmittedWhen ==
  ASSUME NEW s, NEW kind \in {"collection", "item"}, NEW served \in BOOLEAN,
         NEW permission, NEW permitted \in BOOLEAN, permitted => May(s, permission)
  PROVE  Guarded(s, kind, TRUE, served, permitted) = "admitted" <=> served /\ permitted
<1>1. Resolve(s, kind, TRUE) \in {"resolved", "404", "403"}
  BY DEF Resolve, DenyUnknown
<1>2. permitted => Resolve(s, kind, TRUE) = "resolved"
  BY DEF Resolve, May
<1> QED
  BY <1>1, <1>2 DEF Guarded

(* One who is asked for the permission itself is admitted when it is       *)
(* served and held.                                                        *)
LEMMA AdmittedBy ==
  ASSUME NEW s, NEW kind \in {"collection", "item"}, NEW served \in BOOLEAN, NEW permission
  PROVE  Guarded(s, kind, TRUE, served, May(s, permission)) = "admitted"
           <=> served /\ May(s, permission)
<1>1. May(s, permission) \in BOOLEAN
  BY DEF May
<1> QED
  BY <1>1, AdmittedWhen

(* DAV:read is held by whoever may see the details. *)
LEMMA ReadIsHeld ==
  ASSUME NEW s \in Sites
  PROVE  "read" \in PrivilegesFor(s) <=> May(s, "viewDetails")
BY DEF PrivilegesFor, CalendarPrivileges, BookPrivileges, Aggregated, WritePrivileges, When

(* CALDAV:read-free-busy is held on a calendar by whoever may see          *)
(* availability.                                                           *)
LEMMA FreeBusyIsHeld ==
  ASSUME NEW s \in Sites
  PROVE  "read-free-busy" \in PrivilegesFor(s)
           <=> s.server = "caldav" /\ May(s, "viewAvailability")
BY DEF PrivilegesFor, CalendarPrivileges, BookPrivileges, Aggregated, WritePrivileges, When,
       Sites, Site

(* DAV:write-content is held by whoever may replace items the backend can  *)
(* write.                                                                  *)
LEMMA ContentIsHeld ==
  ASSUME NEW s \in Sites
  PROVE  "write-content" \in PrivilegesFor(s) <=> May(s, "replace") /\ Can(s, "writesItems")
BY DEF PrivilegesFor, CalendarPrivileges, BookPrivileges, Aggregated, WritePrivileges, When

(* DAV:bind is held by whoever may create items the backend can write. *)
LEMMA BindIsHeld ==
  ASSUME NEW s \in Sites
  PROVE  "bind" \in PrivilegesFor(s) <=> May(s, "create") /\ Can(s, "writesItems")
BY DEF PrivilegesFor, CalendarPrivileges, BookPrivileges, Aggregated, WritePrivileges, When

(* DAV:unbind is held by whoever may delete items the backend can write. *)
LEMMA UnbindIsHeld ==
  ASSUME NEW s \in Sites
  PROVE  "unbind" \in PrivilegesFor(s) <=> May(s, "delete") /\ Can(s, "writesItems")
BY DEF PrivilegesFor, CalendarPrivileges, BookPrivileges, Aggregated, WritePrivileges, When

(* DAV:write-properties is held by whoever may update a collection the     *)
(* backend can.                                                            *)
LEMMA PropertiesAreHeld ==
  ASSUME NEW s \in Sites
  PROVE  "write-properties" \in PrivilegesFor(s)
           <=> May(s, "update") /\ Can(s, "updatesCollections")
BY DEF PrivilegesFor, CalendarPrivileges, BookPrivileges, Aggregated, WritePrivileges, When

(* DAV:write is held exactly with the four privileges it stands for. *)
LEMMA WriteIsHeld ==
  ASSUME NEW s \in Sites
  PROVE  "write" \in PrivilegesFor(s)
           <=> {"write-content", "bind", "unbind", "write-properties"} \subseteq PrivilegesFor(s)
<1>1. "write" \in PrivilegesFor(s)
        <=> {"write-content", "write-properties", "bind", "unbind"} \subseteq WritePrivileges(s)
  BY DEF PrivilegesFor, CalendarPrivileges, BookPrivileges, Aggregated, WritePrivileges, When
<1>2. \A p \in {"write-content", "write-properties", "bind", "unbind"} :
        p \in PrivilegesFor(s) <=> p \in WritePrivileges(s)
  BY DEF PrivilegesFor, CalendarPrivileges, BookPrivileges, Aggregated, When
<1> QED
  BY <1>1, <1>2

(* A report is admitted by its permission and the capability it needs. *)
LEMMA ReportWhen ==
  ASSUME NEW s \in Sites, NEW report \in Reports
  PROVE  Report(s, "collection", TRUE, report) = "admitted"
           <=> /\ May(s, IF s.server = "caldav" /\ report = "free-busy"
                         THEN "viewAvailability" ELSE "viewDetails")
               /\ report = "free-busy" => s.server = "caldav"
               /\ report = "sync" => Can(s, "syncs")
<1>1. Nil # "501" /\ Nil # "400"
  BY AccessAssumption
<1>2. CASE s.server = "caldav"
  <2> DEFINE permission == IF report = "free-busy" THEN "viewAvailability" ELSE "viewDetails"
             access == Guarded(s, "collection", TRUE, TRUE, May(s, permission))
  <2>1. access = "admitted" <=> May(s, permission)
    BY AdmittedBy
  <2>2. Report(s, "collection", TRUE, report)
          = Dispatched(access, IF report = "sync" /\ ~Can(s, "syncs") THEN "501" ELSE Nil, TRUE)
    BY <1>2 DEF Report, CalendarReport
  <2> HIDE DEF access
  <2> QED
    BY <1>1, <1>2, <2>1, <2>2 DEF Dispatched
<1>3. CASE s.server # "caldav"
  <2> DEFINE access == Guarded(s, "collection", TRUE, TRUE, May(s, "viewDetails"))
  <2>1. access = "admitted" <=> May(s, "viewDetails")
    BY AdmittedBy
  <2>2. Report(s, "collection", TRUE, report)
          = Dispatched(access, IF report = "free-busy" THEN "400"
                               ELSE IF report = "sync" /\ ~Can(s, "syncs") THEN "501" ELSE Nil,
                       TRUE)
    BY <1>3 DEF Report, BookReport
  <2> HIDE DEF access
  <2> QED
    BY <1>1, <1>3, <2>1, <2>2 DEF Dispatched
<1> QED
  BY <1>2, <1>3

(* What an actor is told it may do is what the handlers admit. *)
THEOREM PrivilegesEnforced == AccessSpec => []PrivilegesAreEnforced
<1>1. AccessInv => PrivilegesAreEnforced
  <2> SUFFICES ASSUME AccessInv, Answered("access")
               PROVE  PrivilegesAreEnforced
    BY DEF PrivilegesAreEnforced
  <2> DEFINE s == asked.site
             held == answer.privileges
  <2>1. s \in Sites
    BY DEF AccessInv
  <2>2. held = PrivilegesFor(s) /\ answer.reports = SupportedReports(s)
    BY DEF AccessInv, Answered, Description
  <2> HIDE DEF s, held
  <2>3. May(s, "viewDetails") => "read" \in held
    BY <2>1, <2>2, ReadIsHeld
  <2>4. "read" \in held <=> HeadGet(s, "item", TRUE) = "admitted"
    <3>1. HeadGet(s, "item", TRUE) = Guarded(s, "item", TRUE, TRUE, May(s, "viewDetails"))
      BY DEF HeadGet
    <3> QED
      BY <2>1, <2>2, <3>1, ReadIsHeld, AdmittedBy
  <2>5. "read" \in held <=> PropFind(s, "collection", TRUE, TRUE) = "admitted"
    <3>1. PropFind(s, "collection", TRUE, TRUE)
            = Guarded(s, "collection", TRUE, TRUE, May(s, "viewDetails"))
      BY DEF PropFind, May
    <3> QED
      BY <2>1, <2>2, <3>1, ReadIsHeld, AdmittedBy
  <2>6. "read-free-busy" \in held <=> Report(s, "collection", TRUE, "free-busy") = "admitted"
    <3>1. "free-busy" \in Reports
      BY DEF Reports
    <3>2. Report(s, "collection", TRUE, "free-busy") = "admitted"
            <=> s.server = "caldav" /\ May(s, "viewAvailability")
      <4>1. CASE s.server = "caldav"
        BY <2>1, <3>1, <4>1, ReportWhen
      <4>2. CASE s.server # "caldav"
        BY <2>1, <3>1, <4>2, ReportWhen
      <4> QED
        BY <4>1, <4>2
    <3> QED
      BY <2>1, <2>2, <3>2, FreeBusyIsHeld
  <2>7. "write-content" \in held <=> Put(s, "item", TRUE) = "admitted"
    <3> DEFINE permitted == (May(s, "create") \/ May(s, "replace")) /\ May(s, "replace")
    <3>1. Put(s, "item", TRUE) = Guarded(s, "item", TRUE, Can(s, "writesItems"), permitted)
      BY DEF Put, May, Can
    <3>2. permitted \in BOOLEAN /\ Can(s, "writesItems") \in BOOLEAN
      BY DEF May, Can
    <3>3. permitted <=> May(s, "replace")
      OBVIOUS
    <3> HIDE DEF permitted
    <3> QED
      BY <2>1, <2>2, <3>1, <3>2, <3>3, ContentIsHeld, AdmittedWhen
  <2>8. "bind" \in held <=> Put(s, "item", FALSE) = "admitted"
    <3> DEFINE permitted == (May(s, "create") \/ May(s, "replace")) /\ May(s, "create")
    <3>1. Put(s, "item", FALSE) = Guarded(s, "item", TRUE, Can(s, "writesItems"), permitted)
      BY DEF Put, May, Can
    <3>2. permitted \in BOOLEAN /\ Can(s, "writesItems") \in BOOLEAN
      BY DEF May, Can
    <3>3. permitted <=> May(s, "create")
      OBVIOUS
    <3> HIDE DEF permitted
    <3> QED
      BY <2>1, <2>2, <3>1, <3>2, <3>3, BindIsHeld, AdmittedWhen
  <2>9. "unbind" \in held <=> Delete(s, "item", TRUE) = "admitted"
    <3> DEFINE served == \/ "item" = "item" /\ Can(s, "writesItems")
                         \/ "item" = "collection" /\ Can(s, "deletesCollections")
               permission == IF "item" = "item" THEN "delete" ELSE "deleteCollection"
    <3>1. Delete(s, "item", TRUE) = Guarded(s, "item", TRUE, served, May(s, permission))
      BY Zenon DEF Delete
    <3>2. served \in BOOLEAN /\ (served <=> Can(s, "writesItems")) /\ permission = "delete"
      BY DEF Can
    <3> HIDE DEF served, permission
    <3> QED
      BY <2>1, <2>2, <3>1, <3>2, UnbindIsHeld, AdmittedBy
  <2>10. "write-properties" \in held <=> PropPatch(s, "collection", TRUE) = "admitted"
    <3>1. /\ PropPatch(s, "collection", TRUE)
               = Guarded(s, "collection", TRUE, Can(s, "updatesCollections"), May(s, "update"))
          /\ Can(s, "updatesCollections") \in BOOLEAN
      BY DEF PropPatch, Can
    <3> QED
      BY <2>1, <2>2, <3>1, PropertiesAreHeld, AdmittedBy
  <2>11. "write" \in held
           <=> {"write-content", "bind", "unbind", "write-properties"} \subseteq held
    BY <2>1, <2>2, WriteIsHeld
  <2>12. ASSUME NEW report \in Reports
         PROVE  /\ Report(s, "collection", TRUE, report) = "admitted" => report \in answer.reports
                /\ report \in answer.reports /\ "read" \in held =>
                     Report(s, "collection", TRUE, report) = "admitted"
    <3>1. report \in answer.reports
            <=> /\ report = "free-busy" => s.server = "caldav"
                /\ report = "sync" => Can(s, "syncs")
      BY <2>2 DEF SupportedReports, When, Reports
    <3>2. "read" \in held => May(s, "viewDetails")
      BY <2>1, <2>2, ReadIsHeld
    <3>3. s.server = "caldav" /\ May(s, "viewDetails") => May(s, "viewAvailability")
      BY DEF May, Normalised
    <3> QED
      BY <2>1, <3>1, <3>2, <3>3, ReportWhen
  <2> QED
    BY <2>4, <2>5, <2>6, <2>7, <2>8, <2>9, <2>10, <2>11, <2>12
    DEF PrivilegesAreEnforced, s, held
<1> QED
  BY <1>1, Describing, PTL

(* Whoever may do nothing is told the same of what is there and of what is *)
(* not.                                                                    *)
THEOREM DeniedLearnNothing == AccessSpec => []DeniedLearnsNothing
<1>1. DeniedLearnsNothing
  <2> SUFFICES ASSUME Normalised(asked.site) = {}, asked.site.account = {},
                      NEW kind \in Kinds, NEW method \in Methods
               PROVE  ServeHTTP(asked.site, method, kind, TRUE)
                        = ServeHTTP(asked.site, method, kind, FALSE)
    BY DEF DeniedLearnsNothing
  <2> DEFINE s == asked.site
  <2>1. ASSUME NEW exists, NEW served, NEW permitted
        PROVE  Guarded(s, kind, exists, served, permitted) = DenyUnknown(s)
    BY DEF Guarded, Resolve, DenyUnknown
  <2>2. DenyUnknown(s) \notin {"admitted", "resolved"}
    BY DEF DenyUnknown
  <2>3. ASSUME NEW exists \in BOOLEAN
        PROVE  /\ Options(s, kind, exists) = DenyUnknown(s)
               /\ HeadGet(s, kind, exists) = DenyUnknown(s)
               /\ Put(s, kind, exists) = DenyUnknown(s)
               /\ Delete(s, kind, exists) = DenyUnknown(s)
               /\ PropPatch(s, kind, exists) = DenyUnknown(s)
               /\ PropFind(s, kind, exists, FALSE) = DenyUnknown(s)
               /\ Transfer(s, kind, exists, method = "MOVE") = DenyUnknown(s)
               /\ Report(s, kind, exists, "query") = DenyUnknown(s)
    <3>1. Options(s, kind, exists) = DenyUnknown(s)
      BY DEF Options, Resolve, DenyUnknown
    <3>2. CalendarReport(s, kind, exists, "query") = DenyUnknown(s)
      BY <2>2 DEF CalendarReport, Dispatched, Guarded, Resolve
    <3>3. BookReport(s, kind, exists, "query") = DenyUnknown(s)
      BY <2>2 DEF BookReport, Dispatched, Guarded, Resolve
    <3>4. /\ HeadGet(s, kind, exists) = DenyUnknown(s)
          /\ Put(s, kind, exists) = DenyUnknown(s)
          /\ Delete(s, kind, exists) = DenyUnknown(s)
      BY <2>2 DEF HeadGet, Put, Delete, Guarded, Resolve
    <3>5. /\ PropPatch(s, kind, exists) = DenyUnknown(s)
          /\ PropFind(s, kind, exists, FALSE) = DenyUnknown(s)
          /\ Transfer(s, kind, exists, method = "MOVE") = DenyUnknown(s)
      BY <2>2 DEF PropPatch, PropFind, Transfer, Guarded, Resolve
    <3> QED
      BY <3>1, <3>2, <3>3, <3>4, <3>5 DEF Report
  <2>4. /\ MakeCollection(s, kind, TRUE) = MakeCollection(s, kind, FALSE)
        /\ Mkcol(s, kind, TRUE) = Mkcol(s, kind, FALSE)
    BY <2>1 DEF MakeCollection, Mkcol
  <2> HIDE DEF s
  <2> QED
    BY <2>3, <2>4 DEF ServeHTTP, Reports, s
<1> QED
  BY <1>1, PTL DEF AccessSpec

(* Which methods are served where, by the backend's capabilities alone. *)
Served(s, method, kind) ==
  \/ method \in {"OPTIONS", "PROPFIND"}
  \/ kind = "item" /\ method \in {"GET", "HEAD"}
  \/ kind = "item" /\ method \in {"PUT", "DELETE"} /\ Can(s, "writesItems")
  \/ kind = "item" /\ method \in {"COPY", "MOVE"} /\ Can(s, "transfersItems")
  \/ kind = "collection" /\ method = "REPORT"
  \/ kind = "collection" /\ method = "DELETE" /\ Can(s, "deletesCollections")
  \/ kind = "collection" /\ method = "PROPPATCH" /\ Can(s, "updatesCollections")
  \/ /\ kind = "collection" /\ Can(s, "createsCollections")
     /\ method = IF s.server = "caldav" THEN "MKCALENDAR" ELSE "MKCOL"

(* The methods told of are the methods served. *)
LEMMA AllowedIsServed ==
  ASSUME NEW s, NEW kind \in Kinds, NEW method \in Methods
  PROVE  method \in AllowedMethods(s, kind) <=> Served(s, method, kind)
<1>1. CASE s.server = "caldav"
  BY <1>1 DEF AllowedMethods, CalendarMethods, CollectionMethods, ItemMethods, When, Served, Can
<1>2. CASE s.server # "caldav"
  BY <1>2 DEF AllowedMethods, BookMethods, CollectionMethods, ItemMethods, When, Served, Can
<1> QED
  BY <1>1, <1>2

(* Whoever may do something everywhere is answered 405 only where the      *)
(* method is not served.                                                   *)
LEMMA AnsweredIsServed ==
  ASSUME NEW s, Normalised(s) # {}, s.account # {}, s.server \in {"caldav", "carddav"},
         NEW kind \in Kinds, NEW method \in Methods, NEW exists \in BOOLEAN
  PROVE  ServeHTTP(s, method, kind, exists) # "405" <=> Served(s, method, kind)
<1>1. Resolve(s, kind, exists) = "resolved" /\ Resolve(s, kind, TRUE) = "resolved"
  BY DEF Resolve
<1>2. CASE method = "OPTIONS"
  BY <1>1, <1>2 DEF ServeHTTP, Options, Served
<1>3. CASE method \in {"GET", "HEAD"}
  BY <1>1, <1>3 DEF ServeHTTP, HeadGet, Guarded, Served
<1>4. CASE method = "PUT"
  BY <1>1, <1>4 DEF ServeHTTP, Put, Guarded, Served, Can
<1>5. CASE method = "DELETE"
  BY <1>1, <1>5 DEF ServeHTTP, Delete, Guarded, Served, Can
<1>6. CASE method = "PROPFIND"
  BY <1>1, <1>6 DEF ServeHTTP, PropFind, Guarded, Served
<1>7. CASE method = "PROPPATCH"
  BY <1>1, <1>7 DEF ServeHTTP, PropPatch, Guarded, Served, Can
<1>8. CASE method = "MKCOL"
  <2>1. MakeCollection(s, kind, exists) # "405"
          <=> kind = "collection" /\ Can(s, "createsCollections")
    BY DEF MakeCollection, DenyUnknown, Can
  <2> QED
    BY <1>1, <1>8, <2>1 DEF ServeHTTP, Mkcol, Guarded, Served, Can
<1>9. CASE method \in {"COPY", "MOVE"}
  <2>1. ServeHTTP(s, method, kind, exists) = Transfer(s, kind, exists, method = "MOVE")
    BY <1>9 DEF ServeHTTP
  <2>2. Transfer(s, kind, exists, method = "MOVE") # "405"
          <=> kind = "item" /\ Can(s, "transfersItems")
    BY <1>1 DEF Transfer, Guarded, Can
  <2> QED
    BY <1>9, <2>1, <2>2 DEF Served, Can
<1>10. CASE method = "REPORT"
  <2>1. ServeHTTP(s, method, kind, exists) = Report(s, kind, exists, "query")
    BY <1>10 DEF ServeHTTP
  <2>2. Report(s, kind, exists, "query") # "405" <=> kind = "collection"
    BY <1>1 DEF Report, CalendarReport, BookReport, Dispatched, Guarded
  <2> QED
    BY <1>10, <2>1, <2>2 DEF Served
<1>11. CASE method = "MKCALENDAR"
  <2>1. MakeCollection(s, kind, exists) # "405"
          <=> kind = "collection" /\ Can(s, "createsCollections")
    BY DEF MakeCollection, DenyUnknown, Can
  <2> QED
    BY <1>11, <2>1 DEF ServeHTTP, Served, Can
<1>12. CASE method = "LOCK"
  BY <1>12 DEF ServeHTTP, Served
<1> QED
  BY <1>2, <1>3, <1>4, <1>5, <1>6, <1>7, <1>8, <1>9, <1>10, <1>11, <1>12 DEF Methods

(* Allow lists exactly what is not answered 405. *)
THEOREM AllowExact == AccessSpec => []AllowIsExact
<1>1. AccessInv => AllowIsExact
  <2> SUFFICES ASSUME AccessInv, Answered("access"), NEW kind \in Kinds, NEW method \in Methods
               PROVE  LET s == [asked.site EXCEPT !.perms = @ \cup {"update"},
                                                  !.account = @ \cup {"list"}] IN
                      method \in answer.allow[kind]
                        <=> \E exists \in BOOLEAN : ServeHTTP(s, method, kind, exists) # "405"
    BY DEF AllowIsExact
  <2> DEFINE s == [asked.site EXCEPT !.perms = @ \cup {"update"}, !.account = @ \cup {"list"}]
  <2>1. asked.site \in Site
    BY DEF AccessInv, Sites
  <2>2. /\ s.server = asked.site.server /\ s.caps = asked.site.caps
        /\ s.server \in {"caldav", "carddav"}
        /\ s.perms # {} /\ s.account # {}
    BY <2>1 DEF Site
  <2>3. Normalised(s) # {}
    BY <2>2 DEF Normalised
  <2>4. answer.allow[kind] = AllowedMethods(asked.site, kind)
    BY DEF AccessInv, Answered, Description
  <2>5. Served(asked.site, method, kind) <=> Served(s, method, kind)
    BY <2>2 DEF Served, Can
  <2> HIDE DEF s
  <2>6. \A exists \in BOOLEAN :
          ServeHTTP(s, method, kind, exists) # "405" <=> Served(s, method, kind)
    BY <2>2, <2>3, AnsweredIsServed
  <2>7. method \in answer.allow[kind] <=> Served(asked.site, method, kind)
    BY <2>4, AllowedIsServed
  <2>8. method \in answer.allow[kind]
          <=> \E exists \in BOOLEAN : ServeHTTP(s, method, kind, exists) # "405"
    BY <2>5, <2>6, <2>7
  <2> QED
    BY <2>8 DEF s
<1> QED
  BY <1>1, Describing, PTL

---------------------------------------------------------------------------
(* Time ranges: an answer is the windows the component is found in. *)

TimeRangeInv ==
  /\ asked \in [about: {"timerange"}, comp: Component]
  /\ answer # Nil => answer = Found(asked.comp)

(* Every answer about a time range is that of its table. *)
THEOREM Locating == TimeRangeSpec => []TimeRangeInv
<1>1. TimeRangeInit => TimeRangeInv
  BY DEF TimeRangeInit, TimeRangeInv
<1>2. TimeRangeInv /\ [Locate]_answering => TimeRangeInv'
  BY DEF TimeRangeInv, Locate, Answers, answering
<1> QED
  BY <1>1, <1>2, PTL DEF TimeRangeSpec

(* A window that reaches to both sides of a time, and its halves. *)
Splits(w, t) ==
  /\ w \in Windows /\ t \in Times
  /\ StartBefore(w, t) /\ EndAfter(w, t)

(* What splitting a window at a time makes of its ends. *)
LEMMA Halves ==
  ASSUME NEW w, NEW t, Splits(w, t)
  PROVE  /\ t \in Int /\ t # Nil
         /\ w.start = Nil \/ (w.start # Nil /\ w.start \in Int /\ w.start < t)
         /\ w.end = Nil \/ (w.end # Nil /\ w.end \in Int /\ t < w.end)
         /\ Window(w.start, t).start = w.start /\ Window(w.start, t).end = t
         /\ Window(t, w.end).start = t /\ Window(t, w.end).end = w.end
<1>1. /\ w \in [start: Optional, end: Optional] /\ t \in Times
      /\ w.start = Nil \/ w.start < t
      /\ w.end = Nil \/ w.end > t
  BY DEF Splits, Windows, StartBefore, EndAfter
<1>2. Times \subseteq Int /\ Nil \notin Times
  BY TimeRangeAssumption DEF Times
<1> QED
  BY <1>1, <1>2 DEF Optional, Window

(* Both parts of a split window are windows. *)
LEMMA HalvesAreWindows ==
  ASSUME NEW w, NEW t, Splits(w, t)
  PROVE  Window(w.start, t) \in Windows /\ Window(t, w.end) \in Windows
<1>1. w \in [start: Optional, end: Optional] /\ t \in Optional
  BY DEF Splits, Windows, Optional
<1>2. Window(w.start, t) \in [start: Optional, end: Optional]
  BY <1>1 DEF Window
<1>3. Window(t, w.end) \in [start: Optional, end: Optional]
  BY <1>1 DEF Window
<1> QED
  BY <1>2, <1>3, Halves DEF Windows

(* A span overlaps a window exactly when it overlaps one of its parts. *)
LEMMA SpanSplits ==
  ASSUME NEW w, NEW t, Splits(w, t), NEW s \in Int, NEW e \in Int, s <= e
  PROVE  IntervalOverlaps(w, [start |-> s, end |-> e])
           <=> \/ IntervalOverlaps(Window(w.start, t), [start |-> s, end |-> e])
               \/ IntervalOverlaps(Window(t, w.end), [start |-> s, end |-> e])
<1> DEFINE span == [start |-> s, end |-> e]
<1>1. span.start = s /\ span.end = e
  OBVIOUS
<1> HIDE DEF span
<1>2. CASE e > s
  BY <1>1, <1>2, Halves DEF IntervalOverlaps, EndAfter, StartBefore
<1>3. CASE e = s
  BY <1>1, <1>3, Halves DEF IntervalOverlaps, EndAfter, StartAtOrBefore
<1> QED
  BY <1>2, <1>3 DEF span

(* So does a VFREEBUSY, by its own span or by a period of it. *)
LEMMA FreeBusySplits ==
  ASSUME NEW w, NEW t, Splits(w, t),
         NEW c \in [kind: {"VFREEBUSY"}, start: Optional, end: Optional, periods: SUBSET Period],
         c.start # Nil /\ c.end # Nil => c.start <= c.end
  PROVE  FreeBusyOverlaps(w, c)
           <=> \/ FreeBusyOverlaps(Window(w.start, t), c)
               \/ FreeBusyOverlaps(Window(t, w.end), c)
<1>1. c.start \in Int \cup {Nil} /\ c.end \in Int \cup {Nil} /\ c.periods \subseteq Period
  BY DEF Optional, Times
<1>2. CASE c.start # Nil /\ c.end # Nil
  BY <1>1, <1>2, Halves
  DEF FreeBusyOverlaps, EndAfter, StartAtOrBefore
<1>3. CASE c.start = Nil \/ c.end = Nil
  <2> DEFINE Meets(v, p) == EndAfter(v, p.start) /\ StartBefore(v, p.end)
  <2>1. ASSUME NEW v
        PROVE  FreeBusyOverlaps(v, c) <=> \E p \in c.periods : Meets(v, p)
    BY <1>3 DEF FreeBusyOverlaps
  <2>2. ASSUME NEW p \in c.periods
        PROVE  Meets(w, p) <=> Meets(Window(w.start, t), p) \/ Meets(Window(t, w.end), p)
    <3>1. p.start \in Int /\ p.end \in Int /\ p.start < p.end
      BY <1>1 DEF Period, Times
    <3> QED
      BY <3>1, Halves DEF EndAfter, StartBefore
  <2> HIDE DEF Meets
  <2> QED
    BY <2>1, <2>2
<1> QED
  BY <1>2, <1>3

(* So does a VTODO, in each of the eight rows of its table. *)
LEMMA TodoSplits ==
  ASSUME NEW w, NEW t, Splits(w, t),
         NEW c \in [kind: {"VTODO"}, start: Optional, duration: Optional, due: Optional,
                    completed: Optional, created: Optional]
  PROVE  TodoOverlaps(w, c)
           <=> TodoOverlaps(Window(w.start, t), c) \/ TodoOverlaps(Window(t, w.end), c)
<1>1. /\ c.start \in Int \cup {Nil} /\ c.duration \in Nat \cup {Nil} /\ c.due \in Int \cup {Nil}
      /\ c.completed \in Int \cup {Nil} /\ c.created \in Int \cup {Nil}
  BY TimeRangeAssumption DEF Optional, Times
<1>2. CASE c.start # Nil /\ c.duration # Nil /\ c.due = Nil
  BY <1>1, <1>2, Halves
  DEF TodoOverlaps, StartAtOrBefore, EndAfter, EndAtOrAfter
<1>3. CASE c.start # Nil /\ c.duration = Nil /\ c.due # Nil
  BY <1>1, <1>3, Halves
  DEF TodoOverlaps, StartBefore, StartAtOrBefore, EndAfter, EndAtOrAfter
<1>4. CASE c.start # Nil /\ c.duration = Nil /\ c.due = Nil
  BY <1>1, <1>4, Halves
  DEF TodoOverlaps, StartAtOrBefore, EndAfter
<1>5. CASE c.start = Nil /\ c.duration = Nil /\ c.due # Nil
  BY <1>1, <1>5, Halves
  DEF TodoOverlaps, DueOverlaps, StartBefore, EndAtOrAfter
<1>6. CASE /\ c.start = Nil /\ c.duration = Nil /\ c.due = Nil
           /\ c.completed # Nil /\ c.created # Nil
  BY <1>1, <1>6, Halves
  DEF TodoOverlaps, StartAtOrBefore, EndAtOrAfter
<1>7. CASE /\ c.start = Nil /\ c.duration = Nil /\ c.due = Nil
           /\ c.completed # Nil /\ c.created = Nil
  BY <1>1, <1>7, Halves
  DEF TodoOverlaps, StartAtOrBefore, EndAtOrAfter
<1>8. CASE /\ c.start = Nil /\ c.duration = Nil /\ c.due = Nil
           /\ c.completed = Nil /\ c.created # Nil
  BY <1>1, <1>8, Halves DEF TodoOverlaps, EndAfter
<1>9. CASE \/ /\ c.start = Nil /\ c.duration = Nil /\ c.due = Nil
              /\ c.completed = Nil /\ c.created = Nil
           \/ c.start = Nil /\ c.duration # Nil
           \/ c.start # Nil /\ c.duration # Nil /\ c.due # Nil
  BY <1>9 DEF TodoOverlaps
<1> QED
  BY <1>2, <1>3, <1>4, <1>5, <1>6, <1>7, <1>8, <1>9

(* A client that pages by time misses nothing and sees nothing out of      *)
(* place, on a line of any length.                                         *)
THEOREM TimeRangesSplit == TimeRangeSpec => []TimeRangesAdditive
<1>1. TimeRangeInv => TimeRangesAdditive
  <2> SUFFICES ASSUME TimeRangeInv, Answered("timerange"), NEW w \in Windows, NEW t \in Times,
                      StartBefore(w, t), EndAfter(w, t)
               PROVE  w \in answer
                        <=> Window(w.start, t) \in answer \/ Window(t, w.end) \in answer
    BY DEF TimeRangesAdditive
  <2> DEFINE c == asked.comp
             In(v) == IF c.kind = "property" THEN MatchPropTimeRange(v, c.start) ELSE CompOverlaps(v, c)
  <2>1. Splits(w, t)
    BY DEF Splits
  <2>2. answer = Found(c) /\ c \in Component
    BY DEF TimeRangeInv, Answered
  <2>3. ASSUME NEW v \in Windows
        PROVE  v \in answer <=> In(v)
    BY <2>2 DEF Found
  <2>4. Times \subseteq Int /\ Nil \notin Times
    BY TimeRangeAssumption DEF Times
  <2> HIDE DEF c
  <2>5. In(w) <=> In(Window(w.start, t)) \/ In(Window(t, w.end))
    <3>1. CASE c \in [kind: {"VEVENT"}, start: Times, end: Times]
      <4> DEFINE e == IF c.end < c.start THEN c.start ELSE c.end
      <4>1. c.kind = "VEVENT" /\ c.start \in Int /\ c.end \in Int
        BY <2>4, <3>1
      <4>2. e \in Int /\ c.start <= e
        BY <4>1
      <4>3. \A v : In(v) <=> IntervalOverlaps(v, [start |-> c.start, end |-> e])
        BY <4>1 DEF CompOverlaps, CompInterval
      <4> HIDE DEF In, e
      <4> QED
        BY <2>1, <4>1, <4>2, <4>3, SpanSplits
    <3>2. CASE c \in [kind: {"VJOURNAL"}, start: Optional, date: BOOLEAN]
      <4> DEFINE e == IF c.date THEN c.start + Day ELSE c.start
      <4>1. c.kind = "VJOURNAL" /\ (c.start = Nil \/ c.start \in Int)
        BY <2>4, <3>2 DEF Optional
      <4>2. \A v : In(v) <=> c.start # Nil /\ IntervalOverlaps(v, [start |-> c.start, end |-> e])
        BY <4>1 DEF CompOverlaps, JournalOverlaps
      <4>3. c.start # Nil => e \in Int /\ c.start <= e
        BY <4>1 DEF Day
      <4> HIDE DEF In, e
      <4> QED
        BY <2>1, <4>1, <4>2, <4>3, SpanSplits
    <3>3. CASE c \in [kind: {"VTODO"}, start: Optional, duration: Optional, due: Optional,
                      completed: Optional, created: Optional]
      <4>1. \A v : In(v) <=> TodoOverlaps(v, c)
        BY <3>3 DEF CompOverlaps
      <4> HIDE DEF In
      <4> QED
        BY <2>1, <3>3, <4>1, TodoSplits
    <3>4. CASE c \in {x \in [kind: {"VFREEBUSY"}, start: Optional, end: Optional,
                             periods: SUBSET Period] :
                     x.start # Nil /\ x.end # Nil => x.start <= x.end}
      <4>1. \A v : In(v) <=> FreeBusyOverlaps(v, c)
        BY <3>4 DEF CompOverlaps
      <4> HIDE DEF In
      <4> QED
        BY <2>1, <3>4, <4>1, FreeBusySplits
    <3>5. CASE c \in [kind: {"property"}, start: Times]
      <4>1. \A v : In(v) <=> IntervalOverlaps(v, [start |-> c.start, end |-> c.start])
        BY <3>5 DEF MatchPropTimeRange
      <4>2. c.start \in Int
        BY <2>4, <3>5
      <4> HIDE DEF In
      <4> QED
        BY <2>1, <4>1, <4>2, SpanSplits
    <3> QED
      BY <2>2, <3>1, <3>2, <3>3, <3>4, <3>5 DEF Component
  <2> HIDE DEF In
  <2> QED
    BY <2>1, <2>3, <2>5, HalvesAreWindows
<1> QED
  BY <1>1, Locating, PTL

---------------------------------------------------------------------------
(* Numbers and places: the least and the greatest of a set of them. *)

(* A set of naturals with a member has a least. *)
LEMMA NatMin ==
  ASSUME NEW S \in SUBSET Nat, S # {}
  PROVE  \E m \in S : \A x \in S : m <= x
<1> DEFINE R == OpToRel(<, Nat)
<1>1. IsWellFoundedOn(R, Nat)
  BY NatLessThanWellFounded
<1>2. \A a, b \in Nat : a < b => <<a, b>> \in R
  BY DEF OpToRel
<1> HIDE DEF R
<1>3. PICK m \in S : \A x \in S : ~(<<x, m>> \in R)
  BY <1>1, WFMin
<1>4. \A x \in S : ~(x < m) /\ x \in Nat /\ m \in Nat
  BY <1>2, <1>3
<1> QED
  BY <1>4

(* The least of a set of naturals is in it. *)
LEMMA MinIn ==
  ASSUME NEW S \in SUBSET Nat, S # {}
  PROVE  Min(S) \in S /\ \A x \in S : Min(S) <= x
BY NatMin DEF Min

(* The greatest of a set of naturals with a bound is in it. *)
LEMMA MaxIn ==
  ASSUME NEW n \in Nat, NEW S \in SUBSET (1..n), S # {}
  PROVE  Max(S) \in S /\ \A x \in S : x <= Max(S)
<1> DEFINE above == {n - x : x \in S}
<1>1. above \in SUBSET Nat /\ above # {}
  <2>1. \A x \in S : n - x \in Nat
    OBVIOUS
  <2> QED
    BY <2>1
<1>2. PICK m \in above : \A x \in above : m <= x
  <2> HIDE DEF above
  <2> QED
    BY <1>1, NatMin
<1>3. PICK x \in S : m = n - x
  OBVIOUS
<1>4. \A y \in S : n - x <= n - y
  BY <1>2, <1>3
<1>5. \A y \in S : x >= y
  BY <1>4
<1>6. Max(S) \in S /\ \A y \in S : Max(S) >= y
  BY <1>5 DEF Max
<1> QED
  BY <1>6

---------------------------------------------------------------------------
(* Settings: what a body of instructions is read as, and what is done of it. *)

(* A set of naturals that is not empty has a least element. *)

(* One step of the loop of calendarSettings. *)
AddTo(server, creating, patch, update) ==
  IF ApplySetting(server, update, creating) = 200
  THEN [n \in DOMAIN patch \cup {update.name} |->
          IF n = update.name THEN ValueOf(update) ELSE patch[n]]
  ELSE patch

(* Accumulating updates is a walk over them, one patch after another. *)
LEMMA Accumulating ==
  ASSUME NEW server, NEW S, NEW updates \in Seq(S), NEW creating
  PROVE  \E f : /\ f[0] = [n \in {} |-> Nil]
                /\ \A k \in 1..Len(updates) : f[k] = AddTo(server, creating, f[k - 1], updates[k])
                /\ Accumulate(server, updates, creating) = f[Len(updates)]
<1> DEFINE N == Len(updates)
           IsFold(g, n) == g = [s \in SUBSET (1..n) |->
             IF s = {} THEN [x \in {} |-> Nil]
             ELSE AddTo(server, creating, g[s \ {Max(s)}], updates[Max(s)])]
           bad == {n \in 0..N : ~ \E g : IsFold(g, n)}
<1>0. N \in Nat
  BY LenProperties
<1>1. Accumulate(server, updates, creating) = (CHOOSE g : IsFold(g, N))[1..N]
  <2>1. DOMAIN updates = 1..N
    OBVIOUS
  <2> QED
    BY <2>1 DEF Accumulate, FoldLeft, MapThenFoldSet, AddTo
<1>2. ASSUME bad # {} PROVE FALSE
  <2>1. PICK n \in bad : \A x \in bad : n <= x
    <3>1. bad \in SUBSET Nat
      OBVIOUS
    <3> HIDE DEF bad
    <3> QED
      BY <1>2, <3>1, NatMin
  <2>2. CASE n = 0
    <3>1. IsFold([s \in SUBSET (1..0) |-> [x \in {} |-> Nil]], 0)
      <4>1. \A s \in SUBSET (1..0) : s = {}
        OBVIOUS
      <4> QED
        BY <4>1
    <3> QED
      BY <2>1, <2>2, <3>1
  <2>3. CASE n # 0
    <3>1. n - 1 \in 0..N /\ n - 1 \notin bad /\ n \in Nat
      <4>1. n \in 0..N
        OBVIOUS
      <4>2. ~(n <= n - 1) /\ n - 1 \in 0..N
        BY <1>0, <2>3, <4>1
      <4> HIDE DEF bad
      <4> QED
        BY <1>0, <2>1, <4>1, <4>2
    <3>2. PICK g : IsFold(g, n - 1)
      BY <3>1
    <3> DEFINE h == [s \in SUBSET (1..n) |->
                 IF n \in s THEN AddTo(server, creating, g[s \ {n}], updates[n]) ELSE g[s]]
    <3>3. ASSUME NEW s \in SUBSET (1..n), n \in s
          PROVE  Max(s) = n /\ s \ {n} \in SUBSET (1..n-1) /\ h[s \ {n}] = g[s \ {n}]
      <4>1. \A y \in s : n >= y
        BY <3>1
      <4>2. \A x \in s : (\A y \in s : x >= y) => x = n
        BY <3>1, <3>3, <4>1
      <4>3. Max(s) = n
        BY <3>3, <4>1, <4>2 DEF Max
      <4> QED
        BY <3>1, <4>3
    <3>4. ASSUME NEW s \in SUBSET (1..n), n \notin s, s # {}
          PROVE  /\ s \in SUBSET (1..n-1) /\ h[s] = g[s]
                 /\ s \ {Max(s)} \in SUBSET (1..n-1)
                 /\ h[s \ {Max(s)}] = g[s \ {Max(s)}]
      <4>1. s \in SUBSET (1..n-1)
        BY <3>1, <3>4
      <4>2. s \ {Max(s)} \in SUBSET (1..n-1) /\ n \notin s \ {Max(s)}
        BY <3>4, <4>1
      <4>3. s \ {Max(s)} \in SUBSET (1..n)
        BY <3>4
      <4> QED
        BY <3>4, <4>1, <4>2, <4>3
    <3>5. ASSUME NEW s \in SUBSET (1..n)
          PROVE  h[s] = IF s = {} THEN [x \in {} |-> Nil]
                        ELSE AddTo(server, creating, h[s \ {Max(s)}], updates[Max(s)])
      <4>1. CASE n \in s
        <5>1. h[s] = AddTo(server, creating, g[s \ {n}], updates[n])
          BY <4>1
        <5> HIDE DEF h
        <5> QED
          BY <3>3, <4>1, <5>1
      <4>2. CASE s = {}
        <5>1. h[s] = g[s] /\ s \in SUBSET (1..n-1)
          BY <4>2
        <5> HIDE DEF h
        <5> QED
          BY <3>2, <4>2, <5>1
      <4>3. CASE n \notin s /\ s # {}
        <5>1. g[s] = AddTo(server, creating, g[s \ {Max(s)}], updates[Max(s)])
          BY <3>2, <3>4, <4>3
        <5> HIDE DEF h
        <5> QED
          BY <3>4, <4>3, <5>1
      <4> QED
        BY <4>1, <4>2, <4>3
    <3>6. IsFold(h, n)
      <4> HIDE DEF h
      <4>1. h = [s \in SUBSET (1..n) |-> h[s]]
        BY DEF h
      <4> QED
        BY <3>5, <4>1
    <3> QED
      BY <2>1, <3>6
  <2> QED
    BY <2>2, <2>3
<1>3. \E g : IsFold(g, N)
  <2>1. N \in 0..N
    BY <1>0
  <2> QED
    BY <1>2, <2>1
<1> DEFINE fold == CHOOSE g : IsFold(g, N)
<1>4. IsFold(fold, N)
  BY <1>3
<1> HIDE DEF fold
<1>5. fold[{}] = [x \in {} |-> Nil]
  BY <1>4
<1>6. ASSUME NEW k \in 1..N
      PROVE  fold[1..k] = AddTo(server, creating, fold[1..k-1], updates[k])
  <2>1. 1..k \in SUBSET (1..N) /\ 1..k # {}
    <3>1. k \in 1..k /\ \A x \in 1..k : x \in 1..N
      BY <1>0
    <3> QED
      BY <3>1
  <2>2. Max(1..k) = k
    <3>1. k \in Nat /\ k \in 1..k /\ \A y \in 1..k : k >= y
      BY <1>0
    <3>2. \A x \in 1..k : (\A y \in 1..k : x >= y) => x = k
      BY <3>1
    <3> QED
      BY <3>1, <3>2 DEF Max
  <2>3. (1..k) \ {Max(1..k)} = 1..k-1
    BY <2>2
  <2> QED
    BY <1>4, <2>1, <2>2, <2>3
<1> DEFINE f == [k \in 0..N |-> fold[1..k]]
<1>7. f[0] = [x \in {} |-> Nil]
  <2>1. 1..0 = {} /\ 0 \in 0..N
    OBVIOUS
  <2> QED
    BY <1>5, <2>1
<1>8. \A k \in 1..N : f[k] = AddTo(server, creating, f[k - 1], updates[k])
  <2>1. \A k \in 1..N : k \in 0..N /\ k - 1 \in 0..N
    OBVIOUS
  <2> QED
    BY <1>6, <2>1
<1>9. Accumulate(server, updates, creating) = f[N]
  BY <1>1 DEF fold
<1> HIDE DEF f
<1> QED
  BY <1>7, <1>8, <1>9

(* Where each sequence begins in the flattened one. *)
Offsets(s, off) ==
  /\ off \in [0..Len(s) -> Nat]
  /\ off[0] = 0
  /\ \A i \in 1..Len(s) : off[i] = off[i - 1] + Len(s[i])

(* Where each part of a sequence of sequences ends once they are joined. *)
LEMMA OffsetsExist ==
  ASSUME NEW S, NEW s \in Seq(Seq(S))
  PROVE  \E off : Offsets(s, off)
<1> DEFINE N == Len(s)
           UpTo(n, f) == /\ f \in [0..n -> Nat] /\ f[0] = 0
                         /\ \A i \in 1..n : f[i] = f[i - 1] + Len(s[i])
           bad == {n \in 0..N : ~ \E f : UpTo(n, f)}
<1>1. N \in Nat /\ \A i \in 1..N : Len(s[i]) \in Nat
  <2>1. N \in Nat /\ \A i \in 1..N : s[i] \in Seq(S)
    BY LenProperties
  <2> QED
    BY <2>1, LenProperties
<1>2. ASSUME bad # {} PROVE FALSE
  <2>1. PICK n \in bad : \A x \in bad : n <= x
    <3>1. bad \in SUBSET Nat
      OBVIOUS
    <3> HIDE DEF bad
    <3> QED
      BY <1>2, <3>1, NatMin
  <2>2. n \in 0..N
    OBVIOUS
  <2>3. CASE n = 0
    <3>1. UpTo(0, [i \in 0..0 |-> 0])
      OBVIOUS
    <3> QED
      BY <2>1, <2>3, <3>1
  <2>4. CASE n # 0
    <3>1. n - 1 \in 0..N /\ n - 1 \notin bad /\ n \in 1..N
      <4>1. ~(n <= n - 1) /\ n - 1 \in 0..N /\ n \in 1..N
        BY <1>1, <2>2, <2>4
      <4> HIDE DEF bad
      <4> QED
        BY <2>1, <4>1
    <3>2. PICK f : UpTo(n - 1, f)
      BY <3>1
    <3> DEFINE g == [i \in 0..n |-> IF i < n THEN f[i] ELSE f[n - 1] + Len(s[n])]
    <3>3. n - 1 \in 0..n-1 /\ f[n - 1] \in Nat /\ Len(s[n]) \in Nat
      BY <1>1, <3>1, <3>2
    <3>4. g \in [0..n -> Nat]
      BY <3>1, <3>2, <3>3
    <3>5. g[0] = 0
      BY <3>1, <3>2
    <3>6. \A i \in 1..n : g[i] = g[i - 1] + Len(s[i])
      BY <3>1, <3>2
    <3> HIDE DEF g
    <3>7. UpTo(n, g)
      BY <3>4, <3>5, <3>6
    <3> QED
      BY <2>1, <3>7
  <2> QED
    BY <2>3, <2>4
<1>3. N \in 0..N
  BY <1>1
<1> QED
  BY <1>2, <1>3 DEF Offsets

(* An end is the end before it and the length of the part. *)
LEMMA OffsetsFacts ==
  ASSUME NEW S, NEW s \in Seq(Seq(S)), NEW off, Offsets(s, off)
  PROVE  /\ Len(s) \in Nat
         /\ off[0] = 0
         /\ \A i \in 0..Len(s) : off[i] \in Nat
         /\ \A i \in 1..Len(s) : /\ s[i] \in Seq(S) /\ Len(s[i]) \in Nat
                                 /\ i - 1 \in 0..Len(s) /\ i \in 0..Len(s)
                                 /\ off[i] = off[i - 1] + Len(s[i])
<1>1. Len(s) \in Nat /\ \A i \in 1..Len(s) : s[i] \in Seq(S)
  BY LenProperties
<1>2. \A i \in 1..Len(s) : Len(s[i]) \in Nat
  BY <1>1, LenProperties
<1>3. \A i \in 1..Len(s) : i - 1 \in 0..Len(s) /\ i \in 0..Len(s)
  BY <1>1
<1>4. off \in [0..Len(s) -> Nat] /\ off[0] = 0 /\ \A i \in 1..Len(s) : off[i] = off[i - 1] + Len(s[i])
  BY DEF Offsets
<1> QED
  BY <1>1, <1>2, <1>3, <1>4

(* Ends never go back. *)
LEMMA OffsetsGrow ==
  ASSUME NEW S, NEW s \in Seq(Seq(S)), NEW off, Offsets(s, off),
         NEW i \in 0..Len(s), NEW k \in 0..Len(s), i <= k
  PROVE  off[i] <= off[k]
<1> DEFINE bad == {n \in i..Len(s) : ~(off[i] <= off[n])}
<1>0. Len(s) \in Nat
  BY OffsetsFacts
<1> USE OffsetsFacts
<1>1. ASSUME bad # {} PROVE FALSE
  <2>1. PICK n \in bad : \A x \in bad : n <= x
    <3>1. bad \in SUBSET Nat
      OBVIOUS
    <3> HIDE DEF bad
    <3> QED
      BY <1>1, <3>1, NatMin
  <2>2. n \in i..Len(s) /\ ~(off[i] <= off[n])
    OBVIOUS
  <2>3. n # i /\ n \in 1..Len(s) /\ n - 1 \in i..Len(s) /\ n - 1 \in 0..Len(s) /\ ~(n <= n - 1)
    BY <2>2
  <2>4. n - 1 \notin bad
    <3> HIDE DEF bad
    <3> QED
      BY <2>1, <2>3
  <2>5. off[i] <= off[n - 1]
    BY <2>3, <2>4
  <2>6. off[n] = off[n - 1] + Len(s[n]) /\ Len(s[n]) \in Nat /\ off[n - 1] \in Nat /\ off[i] \in Nat
    BY <2>3
  <2> QED
    BY <2>2, <2>5, <2>6
<1>2. k \in i..Len(s)
  BY <1>0
<1> QED
  BY <1>1, <1>2

(* Every place of the flattened sequence is a place of one of them. *)
LEMMA OffsetsCover ==
  ASSUME NEW S, NEW s \in Seq(Seq(S)), NEW off, Offsets(s, off),
         NEW k \in 1..off[Len(s)]
  PROVE  \E i \in 1..Len(s) : k - off[i - 1] \in 1..Len(s[i])
<1> DEFINE past == {i \in 0..Len(s) : k <= off[i]}
<1> USE OffsetsFacts
<1>1. Len(s) \in past
  OBVIOUS
<1>2. PICK i \in past : \A x \in past : i <= x
  <2>1. past \in SUBSET Nat
    OBVIOUS
  <2> HIDE DEF past
  <2> QED
    BY <1>1, <2>1, NatMin
<1>3. i \in 0..Len(s) /\ k <= off[i]
  OBVIOUS
<1>4. i # 0
  BY <1>3 DEF Offsets
<1>5. i \in 1..Len(s) /\ i - 1 \in 0..Len(s) /\ ~(i <= i - 1)
  BY <1>3, <1>4
<1>6. i - 1 \notin past
  <2> HIDE DEF past
  <2> QED
    BY <1>2, <1>5
<1>7. ~(k <= off[i - 1])
  BY <1>5, <1>6
<1>8. off[i] = off[i - 1] + Len(s[i]) /\ Len(s[i]) \in Nat /\ off[i - 1] \in Nat /\ off[i] \in Nat
  BY <1>5
<1>9. k \in Nat
  BY <1>8
<1>10. k - off[i - 1] \in 1..Len(s[i])
  BY <1>3, <1>7, <1>8, <1>9
<1> QED
  BY <1>5, <1>10

(* A place in one part lies within the whole and before the parts that     *)
(* follow.                                                                 *)
LEMMA Between ==
  ASSUME NEW a \in Nat, NEW l \in Nat, NEW b \in Nat, NEW c \in Nat, NEW j \in Nat,
         1 <= j, j <= l, a + l <= b, b <= c
  PROVE  a + j \in 1..c /\ a + j <= b
OBVIOUS

(* What is flattened up to the n-th sequence. *)
Holds(s, off, t, n) ==
  /\ Len(t) = off[n]
  /\ \A i \in 1..n : \A j \in 1..Len(s[i]) : t[off[i - 1] + j] = s[i][j]

(* Joining one more part leaves the earlier ones where they were. *)
LEMMA FlattenNext ==
  ASSUME NEW S, NEW s \in Seq(Seq(S)), NEW off, Offsets(s, off),
         NEW n \in 1..Len(s), NEW t \in Seq(S), Holds(s, off, t, n - 1)
  PROVE  t \o s[n] \in Seq(S) /\ Holds(s, off, t \o s[n], n)
<1> DEFINE u == t \o s[n]
<1>1. /\ s[n] \in Seq(S) /\ Len(s[n]) \in Nat /\ Len(s) \in Nat
      /\ off[n] = off[n - 1] + Len(s[n]) /\ off[n - 1] \in Nat
      /\ n - 1 \in 0..Len(s) /\ n \in 0..Len(s)
  BY OffsetsFacts
<1>2. Len(t) = off[n - 1]
  BY DEF Holds
<1>3. /\ u \in Seq(S) /\ Len(u) = off[n]
      /\ \A k \in 1..off[n] : u[k] = IF k <= off[n - 1] THEN t[k] ELSE s[n][k - off[n - 1]]
  <2>1. off[n] = Len(t) + Len(s[n])
    BY <1>1, <1>2
  <2>2. /\ u \in Seq(S) /\ Len(u) = Len(t) + Len(s[n])
        /\ \A k \in 1..(Len(t) + Len(s[n])) : u[k] = IF k <= Len(t) THEN t[k] ELSE s[n][k - Len(t)]
    BY <1>1, ConcatProperties
  <2> HIDE DEF u
  <2> QED
    BY <1>2, <2>1, <2>2
<1> HIDE DEF u
<1>4. ASSUME NEW i \in 1..n, NEW j \in 1..Len(s[i])
      PROVE  u[off[i - 1] + j] = s[i][j]
  <2>1. i \in 1..Len(s)
    BY <1>1
  <2>2. /\ Len(s[i]) \in Nat /\ off[i] = off[i - 1] + Len(s[i]) /\ off[i - 1] \in Nat
        /\ i - 1 \in 0..Len(s) /\ i \in 0..Len(s) /\ off[i] \in Nat
    BY <2>1, OffsetsFacts
  <2>3. CASE i = n
    <3>1. off[n - 1] + j \in 1..off[n] /\ ~(off[n - 1] + j <= off[n - 1])
      BY <1>1, <2>3
    <3>2. u[off[n - 1] + j] = s[n][j]
      <4> DEFINE k == off[n - 1] + j
      <4>1. k \in 1..off[n] /\ ~(k <= off[n - 1])
        BY <3>1
      <4>2. \A m \in 1..off[n] : u[m] = IF m <= off[n - 1] THEN t[m] ELSE s[n][m - off[n - 1]]
        BY <1>3
      <4>3. k - off[n - 1] = j
        <5>1. j \in Nat /\ off[n - 1] \in Nat
          BY <1>1, <2>2
        <5> QED
          BY <5>1
      <4> HIDE DEF k
      <4>4. u[k] = s[n][k - off[n - 1]]
        BY <4>1, <4>2, Zenon
      <4>5. u[k] = s[n][j]
        BY <4>3, <4>4, Zenon
      <4> QED
        BY <4>5, Zenon DEF k
    <3> QED
      BY <2>3, <3>2, Zenon
  <2>4. CASE i # n
    <3>1. i \in 1..n-1 /\ i <= n - 1
      BY <1>1, <2>2, <2>4
    <3>2. off[i] <= off[n - 1]
      BY <1>1, <2>2, <3>1, OffsetsGrow
    <3>3. off[i - 1] + j \in 1..off[n] /\ off[i - 1] + j <= off[n - 1]
      <4>1. j \in Nat /\ 1 <= j /\ j <= Len(s[i])
        BY <2>2
      <4>2. off[n] \in Nat /\ off[n - 1] <= off[n]
        BY <1>1
      <4>3. off[i - 1] + Len(s[i]) <= off[n - 1]
        BY <2>2, <3>2
      <4> QED
        BY <1>1, <2>2, <4>1, <4>2, <4>3, Between
    <3>4. t[off[i - 1] + j] = s[i][j]
      BY <3>1 DEF Holds
    <3> QED
      BY <1>3, <3>3, <3>4
  <2> QED
    BY <2>3, <2>4
<1>5. Holds(s, off, u, n)
  BY <1>3, <1>4 DEF Holds
<1> QED
  BY <1>3, <1>5 DEF u

(* The joined sequence holds every part at its offset. *)
LEMMA Flattened ==
  ASSUME NEW S, NEW s \in Seq(Seq(S)), NEW off, Offsets(s, off)
  PROVE  /\ FlattenSeq(s) \in Seq(S)
         /\ Len(FlattenSeq(s)) = off[Len(s)]
         /\ \A i \in 1..Len(s) : \A j \in 1..Len(s[i]) :
              FlattenSeq(s)[off[i - 1] + j] = s[i][j]
<1> DEFINE N == Len(s)
           IsFlat(f, n) == f = [i \in 1..n |-> IF i = 1 THEN s[i] ELSE f[i - 1] \o s[i]]
           bad == {n \in 0..N : ~ \E f : IsFlat(f, n)}
<1>0. N \in Nat
  BY OffsetsFacts
<1>1. CASE N = 0
  <2>1. s = << >> /\ FlattenSeq(s) = s
    BY <1>1, EmptySeq DEF FlattenSeq
  <2> QED
    BY <1>1, <2>1 DEF Offsets
<1>2. CASE N # 0
  <2>1. FlattenSeq(s) = (CHOOSE f : IsFlat(f, N))[N]
    BY <1>2 DEF FlattenSeq
  <2>2. ASSUME bad # {} PROVE FALSE
    <3>1. PICK n \in bad : \A x \in bad : n <= x
      <4>1. bad \in SUBSET Nat
        <5>1. bad \subseteq 0..N
          OBVIOUS
        <5> HIDE DEF bad
        <5> QED
          BY <1>0, <5>1
      <4> HIDE DEF bad
      <4> QED
        BY <2>2, <4>1, NatMin
    <3>2. n \in 0..N
      OBVIOUS
    <3>3. CASE n = 0
      <4> DEFINE g == [i \in 1..0 |-> IF i = 1 THEN s[i] ELSE << >>]
      <4>1. IsFlat(g, 0)
        <5>1. \A i \in 1..0 : FALSE
          OBVIOUS
        <5> QED
          BY <5>1
      <4> QED
        BY <3>1, <3>3, <4>1
    <3>4. CASE n # 0
      <4>1. n - 1 \in 0..N /\ ~(n <= n - 1) /\ n \in 1..N
        BY <1>0, <3>2, <3>4
      <4>2. n - 1 \notin bad
        <5> HIDE DEF bad
        <5> QED
          BY <3>1, <4>1
      <4>3. PICK f : IsFlat(f, n - 1)
        BY <4>1, <4>2
      <4> DEFINE g == [i \in 1..n |-> IF i < n THEN f[i] ELSE IF n = 1 THEN s[1] ELSE f[n - 1] \o s[n]]
      <4>4. \A i \in 1..n : g[i] = IF i = 1 THEN s[i] ELSE g[i - 1] \o s[i]
        <5>1. ASSUME NEW i \in 1..n, i < n PROVE g[i] = IF i = 1 THEN s[i] ELSE g[i - 1] \o s[i]
          <6>1. i \in 1..n-1 /\ (i # 1 => i - 1 \in 1..n /\ i - 1 < n)
            BY <4>1, <5>1
          <6>2. g[i] = f[i] /\ (i # 1 => g[i - 1] = f[i - 1])
            BY <5>1, <6>1
          <6>3. f[i] = IF i = 1 THEN s[i] ELSE f[i - 1] \o s[i]
            BY <4>3, <6>1
          <6> HIDE DEF g
          <6> QED
            BY <6>2, <6>3
        <5>2. g[n] = IF n = 1 THEN s[n] ELSE g[n - 1] \o s[n]
          <6>1. n \in 1..n /\ (n # 1 => n - 1 \in 1..n /\ n - 1 < n)
            BY <4>1
          <6> QED
            BY <6>1
        <5>3. \A i \in 1..n : i < n \/ i = n
          BY <4>1
        <5> HIDE DEF g
        <5> QED
          BY <5>1, <5>2, <5>3
      <4>5. IsFlat(g, n)
        <5>1. g = [i \in 1..n |-> g[i]]
          OBVIOUS
        <5> HIDE DEF g
        <5> QED
          BY <4>4, <5>1
      <4> QED
        BY <3>1, <4>5
    <3> QED
      BY <3>3, <3>4
  <2>3. \E f : IsFlat(f, N)
    <3>1. N \in 0..N
      BY <1>0
    <3> QED
      BY <2>2, <3>1
  <2> DEFINE flat == CHOOSE f : IsFlat(f, N)
  <2>4. IsFlat(flat, N)
    BY <2>3
  <2> HIDE DEF flat
  <2> DEFINE wrong == {n \in 1..N : ~(flat[n] \in Seq(S) /\ Holds(s, off, flat[n], n))}
  <2>5. ASSUME wrong # {} PROVE FALSE
    <3>1. PICK n \in wrong : \A x \in wrong : n <= x
      <4>1. wrong \in SUBSET Nat
        BY <1>0
      <4> HIDE DEF wrong
      <4> QED
        BY <2>5, <4>1, NatMin
    <3>2. n \in 1..N /\ ~(flat[n] \in Seq(S) /\ Holds(s, off, flat[n], n))
      OBVIOUS
    <3>3. CASE n = 1
      <4>1. flat[1] = s[1]
        BY <2>4, <3>2, <3>3
      <4>2. s[1] \in Seq(S) /\ Len(s[1]) \in Nat /\ off[1] = off[0] + Len(s[1]) /\ off[0] = 0
        BY <3>2, <3>3, OffsetsFacts
      <4>3. \A i \in 1..1 : i = 1
        OBVIOUS
      <4>4. Holds(s, off, s[1], 1)
        BY <4>2, <4>3 DEF Holds
      <4> QED
        BY <3>2, <3>3, <4>1, <4>2, <4>4
    <3>4. CASE n # 1
      <4>1. n - 1 \in 1..N /\ ~(n <= n - 1)
        BY <1>0, <3>2, <3>4
      <4>2. n - 1 \notin wrong
        <5> HIDE DEF wrong
        <5> QED
          BY <3>1, <4>1
      <4>3. flat[n - 1] \in Seq(S) /\ Holds(s, off, flat[n - 1], n - 1)
        BY <4>1, <4>2
      <4>4. flat[n] = flat[n - 1] \o s[n]
        BY <2>4, <3>2, <3>4
      <4> QED
        BY <3>2, <4>3, <4>4, FlattenNext
    <3> QED
      BY <3>3, <3>4
  <2>6. flat[N] \in Seq(S) /\ Holds(s, off, flat[N], N)
    <3>1. N \in 1..N
      BY <1>0, <1>2
    <3> QED
      BY <2>5, <3>1
  <2>7. FlattenSeq(s) = flat[N]
    BY <2>1 DEF flat
  <2> QED
    BY <2>6, <2>7 DEF Holds
<1> QED
  BY <1>1, <1>2

SettingsAnswer(q) ==
  CASE q.method = "PROPPATCH" -> ProppatchOutcome(q.server, q.body, q.settings)
    [] q.method = "MKCALENDAR" -> MkcalendarOutcome(q.body, Unset)
    [] q.method = "MKCOL" -> MkcolOutcome(q.body, Unset)

SettingsInv ==
  /\ asked.about = "settings"
  /\ asked.server \in {"caldav", "carddav"}
  /\ asked.method \in {"PROPPATCH", "MKCALENDAR", "MKCOL"}
  /\ asked.body \in Seq(Instruction)
  /\ answer # Nil => answer = SettingsAnswer(asked)

(* Every answer about settings is that of the handler the method names. *)
THEOREM Changing == SettingsSpec => []SettingsInv
<1>1. SettingsInit => SettingsInv
  BY DEF SettingsInit, SettingsInv
<1>2. SettingsInv /\ [Change]_answering => SettingsInv'
  BY DEF SettingsInv, Change, Answers, SettingsAnswer, answering
<1> QED
  BY <1>1, <1>2, PTL DEF SettingsSpec

Update == [name: STRING, remove: BOOLEAN, value: STRING \cup {Nil, Unusable}]

Named(instruction, j) ==
  [name |-> instruction.props[j].name, remove |-> instruction.remove,
   value |-> IF instruction.remove THEN Nil ELSE instruction.props[j].value]

(* An instruction is read as one update for each property it names. *)
LEMMA InstructionFacts ==
  ASSUME NEW x \in Instruction
  PROVE  /\ x.props \in Seq([name: STRING, value: STRING \cup {Nil, Unusable}])
         /\ Len(x.props) \in Nat
         /\ PropUpdates(x) \in Seq(Update)
         /\ Len(PropUpdates(x)) = Len(x.props)
         /\ \A j \in 1..Len(x.props) : PropUpdates(x)[j] = Named(x, j)
<1> DEFINE P == [name: STRING, value: STRING \cup {Nil, Unusable}]
<1>1. x.props \in Seq(P) /\ x.remove \in BOOLEAN
  BY DEF Instruction
<1>2. Len(x.props) \in Nat /\ \A j \in 1..Len(x.props) : x.props[j] \in P
  <2> HIDE DEF P
  <2> QED
    BY <1>1, LenProperties, ElementOfSeq
<1>3. PropUpdates(x) = [j \in 1..Len(x.props) |-> Named(x, j)]
  BY DEF PropUpdates, Named
<1>4. \A j \in 1..Len(x.props) : Named(x, j) \in Update
  BY <1>1, <1>2 DEF Named, Update
<1>5. PropUpdates(x) \in Seq(Update) /\ Len(PropUpdates(x)) = Len(x.props)
  <2> DEFINE n == Len(x.props)
  <2>1. n \in Nat /\ PropUpdates(x) \in [1..n -> Update]
    BY <1>2, <1>3, <1>4
  <2> HIDE DEF n
  <2>2. PropUpdates(x) \in Seq(Update) /\ Len(PropUpdates(x)) = n
    BY <2>1
  <2> QED
    BY <2>2 DEF n
<1> QED
  BY <1>1, <1>2, <1>3, <1>5

(* Where the update of a place of the document is in the list. *)
Order(pos) ==
  LET updates == Updates(asked.body) IN
    /\ updates \in Seq(Update)
    /\ pos \in [Places -> 1..Len(updates)]
    /\ \A p \in Places : updates[pos[p]] = Named(asked.body[p[1]], p[2])
    /\ \A k \in 1..Len(updates) : \E p \in Places : pos[p] = k
    /\ \A p, q \in Places : After(p, q) => pos[p] > pos[q]

(* The updates of a body are its properties in the order of the document. *)
LEMMA InOrder ==
  ASSUME asked.body \in Seq(Instruction)
  PROVE  /\ \E pos : Order(pos)
         /\ Len(FlattenSeq([i \in 1..Len(asked.body) |-> asked.body[i].props])) = Len(Updates(asked.body))
<1> DEFINE b == asked.body
           P == [name: STRING, value: STRING \cup {Nil, Unusable}]
           parts == [i \in 1..Len(b) |-> PropUpdates(b[i])]
           props == [i \in 1..Len(b) |-> b[i].props]
<1>1. Len(b) \in Nat /\ \A i \in 1..Len(b) : b[i] \in Instruction
  BY LenProperties, ElementOfSeq
<1>2. parts \in Seq(Seq(Update)) /\ Len(parts) = Len(b)
  <2>1. \A i \in 1..Len(b) : PropUpdates(b[i]) \in Seq(Update)
    BY <1>1, InstructionFacts
  <2> QED
    BY <1>1, <2>1
<1>3. props \in Seq(Seq(P)) /\ Len(props) = Len(b)
  <2>1. \A i \in 1..Len(b) : b[i].props \in Seq(P)
    BY <1>1, InstructionFacts
  <2> HIDE DEF P
  <2> QED
    BY <1>1, <2>1
<1>4. \A i \in 1..Len(b) : /\ parts[i] = PropUpdates(b[i]) /\ Len(parts[i]) = Len(b[i].props)
                           /\ props[i] = b[i].props /\ Len(props[i]) \in Nat
                           /\ \A j \in 1..Len(b[i].props) : parts[i][j] = Named(b[i], j)
  BY <1>1, InstructionFacts
<1>5. Updates(b) = FlattenSeq(parts)
  BY DEF Updates
<1>6. PICK off : Offsets(parts, off)
  BY <1>2, OffsetsExist
<1> HIDE DEF parts, props, P
<1>7. Offsets(props, off)
  BY <1>2, <1>3, <1>4, <1>6 DEF Offsets
<1>8. Len(FlattenSeq(props)) = Len(Updates(b))
  BY <1>2, <1>3, <1>5, <1>6, <1>7, Flattened
<1>9. Updates(b) \in Seq(Update) /\ Len(Updates(b)) = off[Len(b)]
  BY <1>2, <1>5, <1>6, Flattened
<1>10. \A i \in 1..Len(b) : /\ off[i - 1] \in Nat /\ off[i] \in Nat /\ i \in 0..Len(b) /\ i - 1 \in 0..Len(b)
                            /\ off[i] = off[i - 1] + Len(b[i].props) /\ off[i] <= off[Len(b)]
  <2>1. \A i \in 1..Len(b) : i \in 0..Len(b) /\ i <= Len(b) /\ Len(b) \in 0..Len(b)
    BY <1>1
  <2>2. \A i \in 1..Len(b) : off[i] <= off[Len(b)]
    BY <1>2, <1>6, <2>1, OffsetsGrow
  <2> QED
    BY <1>2, <1>4, <1>6, <2>2, OffsetsFacts
<1>11. off[Len(b)] \in Nat
  BY <1>1, <1>2, <1>6, OffsetsFacts
<1> DEFINE pos == [p \in Places |-> off[p[1] - 1] + p[2]]
<1>12. ASSUME NEW p \in Places
       PROVE  /\ p[1] \in 1..Len(b) /\ p[2] \in 1..Len(b[p[1]].props)
              /\ p = <<p[1], p[2]>>
  BY DEF Places
<1>13. \A i \in 1..Len(b) : \A j \in 1..Len(b[i].props) : <<i, j>> \in Places
  BY DEF Places
<1>14. ASSUME NEW p \in Places
       PROVE  pos[p] \in 1..Len(Updates(b)) /\ pos[p] <= off[p[1]] /\ pos[p] > off[p[1] - 1]
  <2>1. p[1] \in 1..Len(b) /\ p[2] \in 1..Len(b[p[1]].props)
    BY <1>12
  <2>3. off[p[1] - 1] \in Nat /\ off[p[1]] \in Nat /\ Len(b[p[1]].props) \in Nat
    BY <1>4, <1>10, <2>1
  <2>2. off[p[1] - 1] + Len(b[p[1]].props) <= off[p[1]] /\ off[p[1]] <= off[Len(b)]
    <3>1. off[p[1]] = off[p[1] - 1] + Len(b[p[1]].props) /\ off[p[1]] <= off[Len(b)]
      BY <1>10, <2>1, Zenon
    <3> HIDE DEF pos, b
    <3> QED
      BY <2>3, <3>1
  <2>4. p[2] \in Nat /\ 1 <= p[2] /\ p[2] <= Len(b[p[1]].props)
    BY <2>1, <2>3
  <2>5. off[p[1] - 1] + p[2] \in 1..off[Len(b)] /\ off[p[1] - 1] + p[2] <= off[p[1]]
    BY <1>11, <2>2, <2>3, <2>4, Between
  <2>6. off[p[1] - 1] + p[2] > off[p[1] - 1]
    BY <2>3, <2>4
  <2> QED
    BY <1>9, <2>5, <2>6
<1>15. \A p \in Places : Updates(b)[pos[p]] = Named(b[p[1]], p[2])
  <2> TAKE p \in Places
  <2>1. p[1] \in 1..Len(parts) /\ p[2] \in 1..Len(parts[p[1]])
    BY <1>2, <1>4, <1>12
  <2>2. FlattenSeq(parts)[off[p[1] - 1] + p[2]] = parts[p[1]][p[2]]
    BY <1>2, <1>6, <2>1, Flattened
  <2> QED
    BY <1>2, <1>4, <1>5, <2>1, <2>2
<1>16. \A k \in 1..Len(Updates(b)) : \E p \in Places : pos[p] = k
  <2> TAKE k \in 1..Len(Updates(b))
  <2>1. k \in 1..off[Len(parts)]
    BY <1>2, <1>9
  <2>2. PICK i \in 1..Len(parts) : k - off[i - 1] \in 1..Len(parts[i])
    <3>1. \A m \in 1..off[Len(parts)] : \E i \in 1..Len(parts) : m - off[i - 1] \in 1..Len(parts[i])
      BY <1>2, <1>6, OffsetsCover
    <3> HIDE DEF pos
    <3> QED
      BY <2>1, <3>1, Zenon
  <2> DEFINE j == k - off[i - 1]
  <2>3. j \in 1..Len(parts[i]) /\ off[i - 1] + j = k
    <3>1. off[i - 1] \in Nat /\ off[Len(b)] \in Nat
      BY <1>2, <1>10, <1>11
    <3>2. k \in Nat
      BY <1>2, <2>1, <3>1
    <3>3. off[i - 1] + (k - off[i - 1]) = k
      BY <3>1, <3>2
    <3> QED
      BY <2>2, <3>3
  <2> HIDE DEF j
  <2>4. <<i, j>> \in Places
    BY <1>2, <1>4, <1>13, <2>3
  <2> QED
    BY <2>3, <2>4
<1>17. \A p, q \in Places : After(p, q) => pos[p] > pos[q]
  <2> SUFFICES ASSUME NEW p \in Places, NEW q \in Places, After(p, q) PROVE pos[p] > pos[q]
    OBVIOUS
  <2>1. p[1] \in 1..Len(b) /\ q[1] \in 1..Len(b)
    BY <1>12
  <2>2. CASE p[1] = q[1] /\ p[2] > q[2]
    <3>1. p[2] \in Nat /\ q[2] \in Nat /\ off[p[1] - 1] \in Nat
      <4>1. Len(b[p[1]].props) \in Nat
        BY <1>4, <2>1
      <4> QED
        BY <1>10, <1>12, <2>1, <2>2, <4>1
    <3> QED
      BY <2>2, <3>1
  <2>3. CASE p[1] > q[1]
    <3>1. q[1] <= p[1] - 1 /\ q[1] \in 0..Len(b) /\ p[1] - 1 \in 0..Len(b)
      BY <1>1, <2>1, <2>3
    <3>2. off[q[1]] <= off[p[1] - 1]
      BY <1>2, <1>6, <3>1, OffsetsGrow
    <3>3. pos[q] <= off[q[1]] /\ pos[p] > off[p[1] - 1] /\ pos[p] \in Int /\ pos[q] \in Int
      BY <1>9, <1>11, <1>14
    <3>4. off[q[1]] \in Nat /\ off[p[1] - 1] \in Nat
      BY <1>10, <2>1
    <3> HIDE DEF pos
    <3> QED
      BY <3>2, <3>3, <3>4
  <2> QED
    BY <2>2, <2>3 DEF After
<1>18. pos \in [Places -> 1..Len(Updates(b))]
  <2>1. \A p \in Places : pos[p] \in 1..Len(Updates(b))
    BY <1>14
  <2> QED
    BY <2>1
<1> HIDE DEF pos
<1>19. Order(pos)
  BY <1>9, <1>15, <1>16, <1>17, <1>18 DEF Order
<1> QED
  BY <1>8, <1>19 DEF props

(* The patch holds the last accepted update of each property it names. *)
Holding(server, creating, updates, patch, k) ==
  LET accepted == {i \in 1..k : ApplySetting(server, updates[i], creating) = 200} IN
    /\ DOMAIN patch = {updates[i].name : i \in accepted}
    /\ \A n \in DOMAIN patch : \E i \in accepted :
         /\ updates[i].name = n
         /\ patch[n] = ValueOf(updates[i])
         /\ \A j \in accepted : updates[j].name = n => j <= i

(* One more update leaves the patch holding what the last of each name     *)
(* said.                                                                   *)
LEMMA Adding ==
  ASSUME NEW server, NEW creating, NEW updates, NEW patch, NEW k \in Nat, k # 0,
         Holding(server, creating, updates, patch, k - 1)
  PROVE  Holding(server, creating, updates, AddTo(server, creating, patch, updates[k]), k)
<1> DEFINE u == updates[k]
           old == {i \in 1..k-1 : ApplySetting(server, updates[i], creating) = 200}
           new == {i \in 1..k : ApplySetting(server, updates[i], creating) = 200}
           next == AddTo(server, creating, patch, u)
<1>1. /\ DOMAIN patch = {updates[i].name : i \in old}
      /\ \A n \in DOMAIN patch : \E i \in old :
           /\ updates[i].name = n
           /\ patch[n] = ValueOf(updates[i])
           /\ \A j \in old : updates[j].name = n => j <= i
  BY DEF Holding
<1>2. old \subseteq 1..k-1 /\ \A i \in old : i \in Nat /\ i < k
  OBVIOUS
<1>3. CASE ApplySetting(server, u, creating) # 200
  <2>1. new = old
    BY <1>3
  <2>2. next = patch
    BY <1>3 DEF AddTo
  <2> QED
    BY <1>1, <2>1, <2>2 DEF Holding
<1>4. CASE ApplySetting(server, u, creating) = 200
  <2>1. new = old \cup {k}
    BY <1>4
  <2>2. next = [n \in DOMAIN patch \cup {u.name} |-> IF n = u.name THEN ValueOf(u) ELSE patch[n]]
    BY <1>4 DEF AddTo
  <2> HIDE DEF old, new
  <2>3. DOMAIN next = {updates[i].name : i \in new}
    BY <1>1, <2>1, <2>2
  <2>4. ASSUME NEW n \in DOMAIN next
        PROVE  \E i \in new : /\ updates[i].name = n
                              /\ next[n] = ValueOf(updates[i])
                              /\ \A j \in new : updates[j].name = n => j <= i
    <3>1. CASE n = u.name
      <4>1. next[n] = ValueOf(updates[k])
        BY <2>2, <2>4, <3>1
      <4>2. \A j \in new : j <= k
        BY <1>2, <2>1
      <4> QED
        BY <2>1, <3>1, <4>1, <4>2
    <3>2. CASE n # u.name
      <4>1. n \in DOMAIN patch /\ next[n] = patch[n]
        BY <2>2, <2>4, <3>2
      <4>2. PICK i \in old : /\ updates[i].name = n
                             /\ patch[n] = ValueOf(updates[i])
                             /\ \A j \in old : updates[j].name = n => j <= i
        BY <1>1, <4>1
      <4> HIDE DEF next
      <4> QED
        BY <2>1, <3>2, <4>1, <4>2
    <3> QED
      BY <3>1, <3>2
  <2> HIDE DEF next
  <2>5. Holding(server, creating, updates, next, k)
    BY <2>3, <2>4 DEF Holding, new
  <2> QED
    BY <2>5 DEF next
<1> QED
  BY <1>3, <1>4

(* The patch of a body holds, for each property, what its last update      *)
(* said.                                                                   *)
LEMMA Accumulated ==
  ASSUME NEW server, NEW S, NEW updates \in Seq(S), NEW creating
  PROVE  Holding(server, creating, updates, Accumulate(server, updates, creating), Len(updates))
<1> DEFINE N == Len(updates)
<1>1. PICK f : /\ f[0] = [n \in {} |-> Nil]
               /\ \A k \in 1..N : f[k] = AddTo(server, creating, f[k - 1], updates[k])
               /\ Accumulate(server, updates, creating) = f[N]
  BY Accumulating
<1> DEFINE bad == {k \in 0..N : ~Holding(server, creating, updates, f[k], k)}
<1>2. N \in Nat
  BY LenProperties
<1>3. ASSUME bad # {} PROVE FALSE
  <2>1. PICK k \in bad : \A x \in bad : k <= x
    <3>1. bad \in SUBSET Nat
      BY <1>2
    <3> HIDE DEF bad
    <3> QED
      BY <1>3, <3>1, NatMin
  <2>2. k \in 0..N /\ ~Holding(server, creating, updates, f[k], k)
    OBVIOUS
  <2>3. CASE k = 0
    <3>1. \A x \in 1..0 : FALSE
      OBVIOUS
    <3>2. DOMAIN f[0] = {}
      BY <1>1
    <3>3. Holding(server, creating, updates, f[0], 0)
      BY <3>1, <3>2 DEF Holding
    <3> QED
      BY <2>2, <2>3, <3>3
  <2>4. CASE k # 0
    <3>1. k \in Nat /\ k \in 1..N /\ k - 1 \in 0..N /\ ~(k <= k - 1)
      BY <1>2, <2>2, <2>4
    <3>2. k - 1 \notin bad
      <4> HIDE DEF bad
      <4> QED
        BY <2>1, <3>1
    <3>3. Holding(server, creating, updates, f[k - 1], k - 1)
      BY <3>1, <3>2
    <3>4. Holding(server, creating, updates, AddTo(server, creating, f[k - 1], updates[k]), k)
      BY <2>4, <3>1, <3>3, Adding
    <3> QED
      BY <1>1, <2>2, <3>1, <3>4
  <2> QED
    BY <2>3, <2>4
<1>4. N \in 0..N
  BY <1>2
<1> QED
  BY <1>1, <1>3, <1>4

(* Of two places of a body, one comes after the other. *)
LEMMA Comparable ==
  ASSUME asked.body \in Seq(Instruction)
  PROVE  /\ \A p \in Places : asked.body[p[1]].remove \in BOOLEAN
         /\ \A p, q \in Places : p = q \/ After(p, q) \/ After(q, p)
<1> DEFINE b == asked.body
<1>1. Len(b) \in Nat /\ \A i \in 1..Len(b) : b[i] \in Instruction
  BY LenProperties, ElementOfSeq
<1>2. \A i \in 1..Len(b) : b[i].remove \in BOOLEAN /\ Len(b[i].props) \in Nat
  <2>1. \A i \in 1..Len(b) : Len(b[i].props) \in Nat
    BY <1>1, InstructionFacts
  <2> QED
    BY <1>1, <2>1 DEF Instruction
<1>3. ASSUME NEW p \in Places
      PROVE  p[1] \in 1..Len(b) /\ p[2] \in 1..Len(b[p[1]].props) /\ p = <<p[1], p[2]>>
  BY DEF Places
<1>4. ASSUME NEW p \in Places PROVE p[1] \in Nat /\ p[2] \in Nat
  <2>1. p[1] \in 1..Len(b) /\ p[2] \in 1..Len(b[p[1]].props)
    BY <1>3
  <2>2. Len(b[p[1]].props) \in Nat
    BY <1>2, <2>1
  <2> QED
    BY <1>1, <2>1, <2>2
<1>5. ASSUME NEW p \in Places, NEW q \in Places PROVE p = q \/ After(p, q) \/ After(q, p)
  <2>1. p[1] \in Nat /\ p[2] \in Nat /\ q[1] \in Nat /\ q[2] \in Nat
    BY <1>4
  <2>2. p = <<p[1], p[2]>> /\ q = <<q[1], q[2]>>
    BY <1>3
  <2>3. p[1] = q[1] /\ p[2] = q[2] => p = q
    BY <2>2, Zenon
  <2> QED
    BY <2>1, <2>3 DEF After
<1> QED
  BY <1>2, <1>3, <1>5

(* What the accepted changes make of a property is what the document says. *)
LEMMA AsForetold ==
  ASSUME asked.body \in Seq(Instruction),
         NEW server, NEW creating, NEW name \in Settable, NEW settings,
         \A k \in 1..Len(Updates(asked.body)) : Updates(asked.body)[k].name = name =>
           ApplySetting(server, Updates(asked.body)[k], creating) = 200
  PROVE  Patched(settings, Accumulate(server, Updates(asked.body), creating))[name]
         = Foretold(name, settings[name])
<1> DEFINE ups == Updates(asked.body)
           patch == Accumulate(server, ups, creating)
           about == {p \in Places : At(p).name = name}
           Newest(p) == \A q \in about \ {p} : After(p, q)
<1>1. PICK pos : Order(pos)
  BY InOrder
<1>2. ups \in Seq(Update) /\ pos \in [Places -> 1..Len(ups)] /\ Len(ups) \in Nat
  BY <1>1, LenProperties DEF Order
<1>3. \A p \in Places : ups[pos[p]] = Named(asked.body[p[1]], p[2])
  BY <1>1 DEF Order
<1>4. Holding(server, creating, ups, patch, Len(ups))
  BY <1>2, Accumulated
<1>5. Patched(settings, patch)[name] = IF name \in DOMAIN patch THEN patch[name] ELSE settings[name]
  BY DEF Patched
<1> HIDE DEF ups, patch
<1>6. \A p \in Places : ups[pos[p]].name = At(p).name
  <2> TAKE p \in Places
  <2>1. Named(asked.body[p[1]], p[2]).name = At(p).name
    BY DEF Named, At
  <2> QED
    BY <1>3, <2>1
<1>7. CASE about = {}
  <2>1. name \notin DOMAIN patch
    <3> SUFFICES ASSUME name \in DOMAIN patch PROVE FALSE
      OBVIOUS
    <3>1. PICK k \in 1..Len(ups) : ups[k].name = name
      BY <1>4 DEF Holding
    <3>2. PICK p \in Places : pos[p] = k
      BY <1>1 DEF Order, ups
    <3> QED
      BY <1>6, <1>7, <3>1, <3>2
  <2>2. Foretold(name, settings[name]) = settings[name]
    BY <1>7 DEF Foretold
  <2> QED
    BY <1>5, <2>1, <2>2 DEF ups, patch
<1>8. CASE about # {}
  <2>1. name \in DOMAIN patch
    <3>1. PICK p \in about : TRUE
      BY <1>8
    <3>2. pos[p] \in 1..Len(ups) /\ ups[pos[p]].name = name
      BY <1>2, <1>6, <3>1
    <3>3. ApplySetting(server, ups[pos[p]], creating) = 200
      BY <3>2 DEF ups
    <3> QED
      BY <1>4, <3>2, <3>3 DEF Holding
  <2>2. PICK i \in 1..Len(ups) :
           /\ ups[i].name = name
           /\ patch[name] = ValueOf(ups[i])
           /\ \A j \in 1..Len(ups) : ups[j].name = name => j <= i
    <3>1. \A j \in 1..Len(ups) : ups[j].name = name => ApplySetting(server, ups[j], creating) = 200
      BY DEF ups
    <3> DEFINE accepted == {j \in 1..Len(ups) : ApplySetting(server, ups[j], creating) = 200}
    <3>2. PICK k \in accepted : /\ ups[k].name = name
                               /\ patch[name] = ValueOf(ups[k])
                               /\ \A j \in accepted : ups[j].name = name => j <= k
      <4>1. \A n \in DOMAIN patch : \E k \in accepted :
              /\ ups[k].name = n
              /\ patch[n] = ValueOf(ups[k])
              /\ \A j \in accepted : ups[j].name = n => j <= k
        BY <1>4 DEF Holding
      <4> HIDE DEF accepted
      <4> QED
        BY <2>1, <4>1
    <3> QED
      BY <3>1, <3>2
  <2>3. PICK p \in Places : pos[p] = i
    BY <1>1 DEF Order, ups
  <2>4. p \in about
    BY <1>6, <2>2, <2>3
  <2>5. ASSUME NEW q \in about \ {p} PROVE After(p, q) /\ ~After(q, p)
    <3>1. pos[q] \in Nat /\ i \in Nat /\ pos[q] <= i
      BY <1>2, <1>6, <2>2
    <3>2. ~After(q, p)
      BY <1>1, <2>3, <3>1 DEF Order
    <3>3. After(p, q)
      BY <3>2, Comparable
    <3> QED
      BY <3>2, <3>3
  <2> DEFINE last == CHOOSE x \in about : Newest(x)
  <2>6. last \in about /\ Newest(last)
    BY <2>4, <2>5
  <2>7. last = p
    BY <2>4, <2>5, <2>6
  <2> HIDE DEF last
  <2>8. Foretold(name, settings[name])
        = IF ~asked.body[p[1]].remove THEN At(p).value ELSE IF name = "order" THEN Nil ELSE Empty
    <3>1. Foretold(name, settings[name])
          = CASE about = {} -> settings[name]
              [] about # {} /\ ~asked.body[last[1]].remove -> At(last).value
              [] about # {} /\ asked.body[last[1]].remove -> IF name = "order" THEN Nil ELSE Empty
      BY DEF Foretold, last
    <3>2. asked.body[p[1]].remove \in BOOLEAN
      BY Comparable
    <3> HIDE DEF about
    <3> QED
      BY <1>8, <2>7, <3>1, <3>2
  <2>9. patch[name] = IF ~asked.body[p[1]].remove THEN At(p).value ELSE IF name = "order" THEN Nil ELSE Empty
    <3>1. ups[i] = Named(asked.body[p[1]], p[2])
      BY <1>3, <2>3
    <3>2. Named(asked.body[p[1]], p[2]).name = name
      BY <2>2, <3>1
    <3>3. /\ Named(asked.body[p[1]], p[2]).remove = asked.body[p[1]].remove
          /\ ~asked.body[p[1]].remove => Named(asked.body[p[1]], p[2]).value = At(p).value
      BY DEF Named, At
    <3> QED
      BY <2>2, <3>1, <3>2, <3>3 DEF ValueOf
  <2> QED
    BY <1>5, <2>1, <2>8, <2>9 DEF ups, patch
<1> QED
  BY <1>7, <1>8

(* A property is taken, refused or in conflict. *)
LEMMA ThreeAnswers ==
  ASSUME NEW server, NEW update, NEW creating \in BOOLEAN
  PROVE  ApplySetting(server, update, creating) \in {200, 403, 409}
<1>1. ApplyBookSetting(update) \in {200, 403, 409}
  BY DEF ApplyBookSetting
<1>2. ApplyCalendarSetting(update, creating) \in {200, 403, 409}
  <2> DEFINE text == update.name \in Texts("caldav") \cup {"order"}
             kind == update.name = "components" /\ creating
             usable == IF DecodePropUpdate(update) THEN 200 ELSE 409
             known == IF DecodePropUpdate(update) /\ ~update.remove THEN 200 ELSE 409
             a == ApplyCalendarSetting(update, creating)
  <2>1. a = CASE text -> usable [] kind -> known [] OTHER -> 403
    BY DEF ApplyCalendarSetting
  <2>2. ~(text /\ kind)
    BY DEF Texts
  <2>3. usable \in {200, 409} /\ known \in {200, 409}
    OBVIOUS
  <2> HIDE DEF text, kind, a, usable, known
  <2>4. a \in {200, 403, 409}
    <3>1. CASE text
      <4>1. a = usable
        BY <2>1, <2>2, <3>1, Zenon
      <4> QED
        BY <2>3, <4>1
    <3>2. CASE kind
      <4>1. a = known
        BY <2>1, <2>2, <3>2, Zenon
      <4> QED
        BY <2>3, <4>1
    <3>3. CASE ~text /\ ~kind
      <4>1. a = 403
        BY <2>1, <3>3, Zenon
      <4> QED
        BY <4>1
    <3> QED
      BY <3>1, <3>2, <3>3
  <2> QED
    BY <2>4 DEF a
<1> QED
  BY <1>1, <1>2 DEF ApplySetting

(* What is rejected is refused or in conflict, and what is not is taken. *)
LEMMA RejectedFacts ==
  ASSUME NEW server, NEW S, NEW updates \in Seq(S), NEW creating \in BOOLEAN
  PROVE  /\ \A r \in Rejected(server, updates, creating) :
              /\ r.status \in {403, 409}
              /\ \E k \in 1..Len(updates) : r.name = updates[k].name
         /\ \A k \in 1..Len(updates) :
              \/ ApplySetting(server, updates[k], creating) = 200
              \/ \E r \in Rejected(server, updates, creating) : r.name = updates[k].name
<1>1. ToSet(updates) = {updates[k] : k \in 1..Len(updates)}
  BY DEF ToSet
<1>2. \A u : ApplySetting(server, u, creating) # 200 => ApplySetting(server, u, creating) \in {403, 409}
  BY ThreeAnswers
<1>3. ASSUME NEW r \in Rejected(server, updates, creating)
      PROVE  /\ r.status \in {403, 409}
             /\ \E k \in 1..Len(updates) : r.name = updates[k].name
  <2>1. PICK k \in 1..Len(updates) : /\ ApplySetting(server, updates[k], creating) # 200
                                     /\ r = [name |-> updates[k].name,
                                             status |-> ApplySetting(server, updates[k], creating)]
    BY <1>1 DEF Rejected
  <2> QED
    BY <1>2, <2>1
<1>4. ASSUME NEW k \in 1..Len(updates), ApplySetting(server, updates[k], creating) # 200
      PROVE  \E r \in Rejected(server, updates, creating) : r.name = updates[k].name
  <2> DEFINE r == [name |-> updates[k].name, status |-> ApplySetting(server, updates[k], creating)]
  <2>1. r \in Rejected(server, updates, creating)
    BY <1>1, <1>4 DEF Rejected
  <2>2. r.name = updates[k].name
    OBVIOUS
  <2> QED
    BY <2>1, <2>2
<1> QED
  BY <1>3, <1>4

(* The rows of a refusal give at least one reason, and report no success. *)
LEMMA RowsFacts ==
  ASSUME NEW updates, Len(updates) \in Nat,
         NEW rejected,
         \A r \in rejected : r.status \in {403, 409} /\ \E k \in 1..Len(updates) : r.name = updates[k].name
  PROVE  LET rows == NewPropPatchResponse(updates, rejected)
             statuses == {r.status : r \in ToSet(rows)}
         IN /\ Len(rows) = Len(updates)
            /\ \A k \in 1..Len(updates) : rows[k].name = updates[k].name
            /\ rejected = {} => statuses \subseteq {200}
            /\ rejected # {} => 200 \notin statuses /\ statuses \ {424} # {}
<1> DEFINE rows == NewPropPatchResponse(updates, rejected)
           N == Len(updates)
           statuses == {r.status : r \in ToSet(rows)}
           Own(k) == CHOOSE r \in rejected : r.name = updates[k].name
           Status(k) == IF \E r \in rejected : r.name = updates[k].name
                        THEN Own(k).status ELSE IF rejected = {} THEN 200 ELSE 424
<1>1. rows = [k \in 1..N |-> [name |-> updates[k].name, status |-> Status(k)]]
  BY DEF NewPropPatchResponse
<1> HIDE DEF Own, rows
<1>2. Len(rows) = N /\ DOMAIN rows = 1..N
  BY <1>1
<1>3. \A k \in 1..N : rows[k].name = updates[k].name /\ rows[k].status = Status(k)
  BY <1>1
<1>4. \A k \in 1..N : (\E r \in rejected : r.name = updates[k].name) => Own(k).status \in {403, 409}
  <2> TAKE k \in 1..N
  <2> HAVE \E r \in rejected : r.name = updates[k].name
  <2>1. Own(k) \in rejected
    BY DEF Own
  <2> QED
    BY <2>1
<1>5. ToSet(rows) = {rows[k] : k \in 1..N}
  BY <1>2 DEF ToSet
<1>6. \A x : x \in statuses <=> \E k \in 1..N : x = Status(k)
  <2>1. ASSUME NEW x \in statuses PROVE \E k \in 1..N : x = Status(k)
    <3>1. PICK r \in ToSet(rows) : x = r.status
      OBVIOUS
    <3>2. PICK k \in 1..N : r = rows[k]
      BY <1>5
    <3> HIDE DEF Status
    <3> QED
      BY <1>3, <3>1, <3>2
  <2>2. ASSUME NEW k \in 1..N PROVE Status(k) \in statuses
    <3>1. rows[k] \in ToSet(rows)
      BY <1>5
    <3>2. rows[k].status \in statuses
      BY <3>1
    <3> HIDE DEF Status, statuses
    <3> QED
      BY <1>3, <3>2
  <2> HIDE DEF Status, statuses
  <2> QED
    BY <2>1, <2>2
<1> HIDE DEF statuses
<1>7. CASE rejected = {}
  <2>1. \A k \in 1..N : Status(k) = 200
    BY <1>7
  <2> HIDE DEF Status
  <2>2. statuses \subseteq {200}
    BY <1>6, <2>1
  <2> QED
    BY <1>2, <1>3, <1>7, <2>2 DEF statuses, rows
<1>8. CASE rejected # {}
  <2>1. \A k \in 1..N : Status(k) # 200
    BY <1>4, <1>8
  <2>2. PICK r \in rejected : TRUE
    BY <1>8
  <2>3. PICK k \in 1..N : r.name = updates[k].name
    BY <2>2
  <2>4. Status(k) \in {403, 409}
    BY <1>4, <2>2, <2>3
  <2> HIDE DEF Status
  <2>5. 200 \notin statuses /\ statuses \ {424} # {}
    <3>1. 200 \notin statuses
      BY <1>6, <2>1
    <3>2. Status(k) \in statuses
      BY <1>6, <2>3
    <3> QED
      BY <2>4, <3>1, <3>2
  <2> QED
    BY <1>2, <1>3, <1>8, <2>5 DEF statuses, rows
<1> QED
  BY <1>7, <1>8

(* Every row is about an instruction, and every instruction has one. *)
LEMMA RowForEach ==
  ASSUME asked.body \in Seq(Instruction), NEW rows,
         Len(rows) = Len(Updates(asked.body)),
         \A k \in 1..Len(Updates(asked.body)) : rows[k].name = Updates(asked.body)[k].name
  PROVE  LET names == [i \in 1..Len(rows) |-> rows[i].name] IN
           /\ Len(names) = Len(FlattenSeq([i \in 1..Len(asked.body) |-> asked.body[i].props]))
           /\ ToSet(names) = {At(p).name : p \in Places}
<1> DEFINE ups == Updates(asked.body)
           names == [i \in 1..Len(rows) |-> rows[i].name]
<1>1. PICK pos : Order(pos)
  BY InOrder
<1>2. ups \in Seq(Update) /\ pos \in [Places -> 1..Len(ups)] /\ Len(ups) \in Nat
  BY <1>1, LenProperties DEF Order
<1>3. \A p \in Places : ups[pos[p]].name = At(p).name
  <2> TAKE p \in Places
  <2>1. Named(asked.body[p[1]], p[2]).name = At(p).name
    BY DEF Named, At
  <2> QED
    BY <1>1, <2>1 DEF Order
<1>4. \A k \in 1..Len(ups) : \E p \in Places : pos[p] = k
  BY <1>1 DEF Order
<1>5. Len(FlattenSeq([i \in 1..Len(asked.body) |-> asked.body[i].props])) = Len(ups)
  BY InOrder
<1> HIDE DEF ups
<1>6. names = [k \in 1..Len(ups) |-> ups[k].name]
  BY DEF ups
<1> HIDE DEF names
<1>7. Len(names) = Len(ups)
  BY <1>2, <1>6
<1>8. ToSet(names) = {ups[k].name : k \in 1..Len(ups)}
  BY <1>6 DEF ToSet
<1>9. {ups[k].name : k \in 1..Len(ups)} = {At(p).name : p \in Places}
  <2>1. \A k \in 1..Len(ups) : \E p \in Places : ups[k].name = At(p).name
    BY <1>3, <1>4
  <2>2. \A p \in Places : \E k \in 1..Len(ups) : ups[k].name = At(p).name
    BY <1>2, <1>3
  <2>3. ASSUME NEW k \in 1..Len(ups) PROVE ups[k].name \in {At(p).name : p \in Places}
    BY <2>1
  <2>4. ASSUME NEW p \in Places PROVE At(p).name \in {ups[k].name : k \in 1..Len(ups)}
    BY <2>2
  <2> QED
    BY <2>3, <2>4
<1> QED
  BY <1>5, <1>7, <1>8, <1>9 DEF names

(* A setting is unaffected by an update that is not about it. *)
LEMMA AllForetold ==
  ASSUME asked.body \in Seq(Instruction),
         NEW server, NEW creating, NEW settings,
         \A k \in 1..Len(Updates(asked.body)) : Updates(asked.body)[k].name \in Settable =>
           ApplySetting(server, Updates(asked.body)[k], creating) = 200
  PROVE  Patched(settings, Accumulate(server, Updates(asked.body), creating))
         = [n \in Settable |-> Foretold(n, settings[n])]
<1> DEFINE patched == Patched(settings, Accumulate(server, Updates(asked.body), creating))
<1>1. ASSUME NEW n \in Settable PROVE patched[n] = Foretold(n, settings[n])
  BY AsForetold
<1>2. patched = [n \in Settable |-> patched[n]]
  BY DEF Patched
<1> HIDE DEF patched
<1>3. patched = [n \in Settable |-> Foretold(n, settings[n])]
  BY <1>1, <1>2
<1> QED
  BY <1>3 DEF patched

(* The parts of what the answer to a change of properties promises. *)
RowStatuses(rows) == {r.status : r \in ToSet(rows)}

RowsForEach(rows) ==
  LET names == [i \in 1..Len(rows) |-> rows[i].name] IN
    /\ Len(names) = Len(FlattenSeq([i \in 1..Len(asked.body) |-> asked.body[i].props]))
    /\ ToSet(names) = {At(p).name : p \in Places}

AsTold(before) == [n \in Settable |-> Foretold(n, before[n])]

AllOrNothing(a, before) ==
  /\ \/ /\ a.settings = AsTold(before)
        /\ RowStatuses(a.rows) \subseteq {200}
        /\ a.status \in {201, 207}
     \/ /\ a.settings \in {Nil, asked.settings}
        /\ 200 \notin RowStatuses(a.rows)
        /\ a.rows # << >> => RowStatuses(a.rows) \ {424} # {}
        /\ a.rows = << >> => a.status >= 400
  /\ a.status = 207 => RowsForEach(a.rows)

(* An outcome without rows has no statuses. *)
LEMMA NoRows ==
  ASSUME NEW status, NEW settings
  PROVE  LET a == Outcome(status, << >>, settings) IN
           /\ a.status = status /\ a.settings = settings /\ a.rows = << >>
           /\ RowStatuses(a.rows) = {}
<1>1. ToSet(<< >>) = {}
  BY DEF ToSet
<1> QED
  BY <1>1 DEF Outcome, RowStatuses

(* The parts of an outcome. *)
LEMMA WithRows ==
  ASSUME NEW status, NEW rows, NEW settings
  PROVE  LET a == Outcome(status, rows, settings) IN
           a.status = status /\ a.settings = settings /\ a.rows = rows
BY DEF Outcome
(* What is accepted is done whole; what is not is answered with rows. *)
LEMMA Decided ==
  ASSUME asked.body \in Seq(Instruction), NEW server, NEW creating \in BOOLEAN, NEW settings
  PROVE  LET ups == Updates(asked.body)
             rejected == Rejected(server, ups, creating)
             rows == NewPropPatchResponse(ups, rejected)
         IN /\ (\A r \in rejected : r.name \notin Settable) =>
                 Patched(settings, Accumulate(server, ups, creating)) = AsTold(settings)
            /\ (\E r \in rejected : TRUE) \/ RowStatuses(rows) \subseteq {200}
            /\ rejected # {} => /\ 200 \notin RowStatuses(rows)
                                /\ RowStatuses(rows) \ {424} # {} /\ rows # << >>
            /\ RowsForEach(rows)
<1> DEFINE ups == Updates(asked.body)
           rejected == Rejected(server, ups, creating)
           rows == NewPropPatchResponse(ups, rejected)
<1>1. ups \in Seq(Update) /\ Len(ups) \in Nat
  <2>1. PICK pos : Order(pos)
    BY InOrder
  <2> QED
    BY <2>1, LenProperties DEF Order
<1>2. \A r \in rejected : r.status \in {403, 409} /\ \E k \in 1..Len(ups) : r.name = ups[k].name
  BY <1>1, RejectedFacts
<1>3. \A k \in 1..Len(ups) : \/ ApplySetting(server, ups[k], creating) = 200
                             \/ \E r \in rejected : r.name = ups[k].name
  BY <1>1, RejectedFacts
<1>4. /\ Len(rows) = Len(ups)
      /\ \A k \in 1..Len(ups) : rows[k].name = ups[k].name
      /\ rejected = {} => RowStatuses(rows) \subseteq {200}
      /\ rejected # {} => 200 \notin RowStatuses(rows) /\ RowStatuses(rows) \ {424} # {}
  <2> HIDE DEF ups, rejected
  <2> QED
    BY <1>1, <1>2, RowsFacts DEF RowStatuses
<1>5. (\A r \in rejected : r.name \notin Settable) =>
        Patched(settings, Accumulate(server, ups, creating)) = AsTold(settings)
  <2> HAVE \A r \in rejected : r.name \notin Settable
  <2>1. \A k \in 1..Len(ups) : ups[k].name \in Settable => ApplySetting(server, ups[k], creating) = 200
    <3> HIDE DEF ups, rejected
    <3> QED
      BY <1>3
  <2> QED
    BY <2>1, AllForetold DEF AsTold
<1>6. RowsForEach(rows)
  <2> HIDE DEF rows
  <2> QED
    BY <1>4, RowForEach DEF RowsForEach
<1>7. rejected # {} => rows # << >>
  <2> HIDE DEF ups, rejected, rows
  <2>1. rejected # {} => Len(ups) # 0
    BY <1>1, <1>2
  <2> QED
    BY <1>1, <1>4, <2>1
<1> HIDE DEF ups, rejected, rows
<1> QED
  BY <1>4, <1>5, <1>6, <1>7 DEF ups, rejected, rows

(* PROPPATCH changes all it was told to or nothing, and says which. *)
LEMMA PropPatched ==
  ASSUME SettingsInv, asked.method = "PROPPATCH"
  PROVE  AllOrNothing(SettingsAnswer(asked), asked.settings)
<1>0. PICK creating \in BOOLEAN : creating = FALSE
  OBVIOUS
<1> DEFINE ups == Updates(asked.body)
           rejected == Rejected(asked.server, ups, creating)
           rows == NewPropPatchResponse(ups, rejected)
           after == Patched(asked.settings, Accumulate(asked.server, ups, creating))
           a == SettingsAnswer(asked)
<1>1. asked.body \in Seq(Instruction)
  BY DEF SettingsInv
<1>2. a = IF ups = << >> THEN Outcome(400, << >>, asked.settings)
          ELSE Outcome(207, rows, IF rejected # {} THEN asked.settings ELSE after)
  BY <1>0 DEF SettingsAnswer, ProppatchOutcome
<1>3. (\A r \in rejected : r.name \notin Settable) => after = AsTold(asked.settings)
  BY <1>1, Decided
<1>4. (\E r \in rejected : TRUE) \/ RowStatuses(rows) \subseteq {200}
  BY <1>1, Decided
<1>5. rejected # {} => /\ 200 \notin RowStatuses(rows)
                        /\ RowStatuses(rows) \ {424} # {} /\ rows # << >>
  BY <1>1, Decided
<1>6. RowsForEach(rows)
  BY <1>1, Decided
<1> HIDE DEF ups, rejected, rows, after, a
<1>7. AllOrNothing(a, asked.settings)
  <2>1. CASE ups = << >>
    <3>1. a.status = 400 /\ a.settings = asked.settings /\ a.rows = << >> /\ RowStatuses(a.rows) = {}
      <4>1. a = Outcome(400, << >>, asked.settings)
        BY <1>2, <2>1
      <4> QED
        BY <4>1, NoRows
    <3> QED
      BY <3>1 DEF AllOrNothing
  <2>2. CASE ups # << >> /\ rejected = {}
    <3>1. a.status = 207 /\ a.settings = after /\ a.rows = rows
      BY <1>2, <2>2, WithRows
    <3> QED
      BY <1>3, <1>4, <1>6, <2>2, <3>1 DEF AllOrNothing
  <2>3. CASE ups # << >> /\ rejected # {}
    <3>1. a.status = 207 /\ a.settings = asked.settings /\ a.rows = rows
      BY <1>2, <2>3, WithRows
    <3> QED
      BY <1>5, <1>6, <2>3, <3>1 DEF AllOrNothing
  <2> QED
    BY <2>1, <2>2, <2>3
<1> QED
  BY <1>7 DEF a

(* So does MKCALENDAR, from a calendar with nothing set. *)
LEMMA CalendarMade ==
  ASSUME SettingsInv, asked.method = "MKCALENDAR"
  PROVE  AllOrNothing(SettingsAnswer(asked), Unset)
<1>0. PICK creating \in BOOLEAN : creating = TRUE
  OBVIOUS
<1> DEFINE ups == Updates(asked.body)
           rejected == Rejected("caldav", ups, creating)
           rows == NewPropPatchResponse(ups, rejected)
           after == Patched(Unset, Accumulate("caldav", ups, creating))
           a == SettingsAnswer(asked)
<1>1. asked.body \in Seq(Instruction)
  BY DEF SettingsInv
<1>2. a = IF rejected # {} THEN Outcome(207, rows, Nil) ELSE Outcome(201, << >>, after)
  BY <1>0 DEF SettingsAnswer, MkcalendarOutcome
<1>3. (\A r \in rejected : r.name \notin Settable) => after = AsTold(Unset)
  BY <1>1, Decided
<1>5. rejected # {} => /\ 200 \notin RowStatuses(rows)
                        /\ RowStatuses(rows) \ {424} # {} /\ rows # << >>
  BY <1>1, Decided
<1>6. RowsForEach(rows)
  BY <1>1, Decided
<1> HIDE DEF ups, rejected, rows, after, a
<1>7. AllOrNothing(a, Unset)
  <2>1. CASE rejected # {}
    <3>1. a.status = 207 /\ a.settings = Nil /\ a.rows = rows
      BY <1>2, <2>1, WithRows
    <3> QED
      BY <1>5, <1>6, <2>1, <3>1 DEF AllOrNothing
  <2>2. CASE rejected = {}
    <3>1. a.status = 201 /\ a.settings = after /\ a.rows = << >> /\ RowStatuses(a.rows) = {}
      BY <1>2, <2>2, NoRows
    <3> QED
      BY <1>3, <2>2, <3>1 DEF AllOrNothing
  <2> QED
    BY <2>1, <2>2
<1> QED
  BY <1>7 DEF a

(* So does the extended MKCOL of an address book. *)
LEMMA BookMade ==
  ASSUME SettingsInv, asked.method = "MKCOL"
  PROVE  AllOrNothing(SettingsAnswer(asked), Unset)
<1>0. PICK creating \in BOOLEAN : creating = TRUE
  OBVIOUS
<1> DEFINE ups == Updates(asked.body)
           all == Rejected("carddav", ups, creating)
           others == {r \in all : r.name # "resourcetype"}
           types == {u \in ToSet(ups) : u.name = "resourcetype"}
           odd == \E u \in types : u.value # "addressbook"
           after == Patched(Unset, Accumulate("carddav", ups, creating))
           a == SettingsAnswer(asked)
<1>1. asked.body \in Seq(Instruction)
  BY DEF SettingsInv
<1>2. a = IF odd THEN Outcome(400, << >>, Nil)
          ELSE IF others # {} THEN Outcome(403, << >>, Nil) ELSE Outcome(201, << >>, after)
  BY <1>0 DEF SettingsAnswer, MkcolOutcome
<1>3. (\A r \in all : r.name \notin Settable) => after = AsTold(Unset)
  BY <1>1, Decided
<1>4. others = {} => after = AsTold(Unset)
  <2>1. "resourcetype" \notin Settable
    BY DEF Settable
  <2> HIDE DEF all, after
  <2> QED
    BY <1>3, <2>1
<1> HIDE DEF others, odd, after, a
<1>5. AllOrNothing(a, Unset)
  <2>1. CASE odd
    <3>1. a.status = 400 /\ a.settings = Nil /\ a.rows = << >> /\ RowStatuses(a.rows) = {}
      BY <1>2, <2>1, NoRows
    <3> QED
      BY <3>1 DEF AllOrNothing
  <2>2. CASE ~odd /\ others # {}
    <3>1. a.status = 403 /\ a.settings = Nil /\ a.rows = << >> /\ RowStatuses(a.rows) = {}
      BY <1>2, <2>2, NoRows
    <3> QED
      BY <3>1 DEF AllOrNothing
  <2>3. CASE ~odd /\ others = {}
    <3>1. a.status = 201 /\ a.settings = after /\ a.rows = << >> /\ RowStatuses(a.rows) = {}
      BY <1>2, <2>3, NoRows
    <3> QED
      BY <1>4, <2>3, <3>1 DEF AllOrNothing
  <2> QED
    BY <2>1, <2>2, <2>3
<1> QED
  BY <1>5 DEF a

(* Any number of instructions, in any order, about any properties, of      *)
(* either server, change all of the properties or none (the updates of the *)
(* body are its instructions in document order, by InOrder; the accepted   *)
(* ones are folded into the patch one by one, by Accumulated).             *)
THEOREM ChangesAllOrNothing == SettingsSpec => []SettingsAllOrNothing
<1>1. SettingsInv => SettingsAllOrNothing
  <2> SUFFICES ASSUME SettingsInv, answer # Nil PROVE SettingsAllOrNothing
    BY DEF SettingsAllOrNothing, Answered
  <2> DEFINE before == IF asked.method = "PROPPATCH" THEN asked.settings ELSE Unset
  <2>1. answer = SettingsAnswer(asked) /\ asked.method \in {"PROPPATCH", "MKCALENDAR", "MKCOL"}
    BY DEF SettingsInv
  <2>2. AllOrNothing(answer, before)
    <3>1. CASE asked.method = "PROPPATCH"
      BY <2>1, <3>1, PropPatched
    <3>2. CASE asked.method = "MKCALENDAR"
      BY <2>1, <3>2, CalendarMade
    <3>3. CASE asked.method = "MKCOL"
      BY <2>1, <3>3, BookMade
    <3> QED
      BY <2>1, <3>1, <3>2, <3>3
  <2> QED
    BY <2>2 DEF AllOrNothing, SettingsAllOrNothing, RowStatuses, RowsForEach, AsTold
<1> QED
  BY <1>1, Changing, PTL

---------------------------------------------------------------------------
(* Filters: one occurrence of a property justifies an answer. *)

(* What a list of tests comes to. *)
LEMMA Settling ==
  ASSUME NEW results, DOMAIN results \subseteq Nat, NEW settling, NEW otherwise
  PROVE  /\ \/ /\ FirstSettles(results, settling, otherwise) = otherwise
               /\ \A i \in DOMAIN results : results[i] \notin {settling, "403"}
            \/ \E i \in DOMAIN results :
                 /\ results[i] \in {settling, "403"}
                 /\ FirstSettles(results, settling, otherwise) = results[i]
<1> DEFINE settled == {i \in DOMAIN results : results[i] \in {settling, "403"}}
<1>1. FirstSettles(results, settling, otherwise)
      = IF settled = {} THEN otherwise ELSE results[Min(settled)]
  BY DEF FirstSettles
<1>2. settled # {} => Min(settled) \in settled
  <2>1. settled \in SUBSET Nat
    OBVIOUS
  <2> HIDE DEF settled
  <2> QED
    BY <2>1, MinIn
<1>3. CASE settled = {}
  BY <1>1, <1>3
<1>4. CASE settled # {}
  <2>1. Min(settled) \in DOMAIN results /\ results[Min(settled)] \in {settling, "403"}
    BY <1>2, <1>4
  <2>2. FirstSettles(results, settling, otherwise) = results[Min(settled)]
    BY <1>1, <1>4
  <2> HIDE DEF settled
  <2> QED
    BY <2>1, <2>2
<1> QED
  BY <1>3, <1>4

(* A list of tests under anyof and under allof. *)
LEMMA Tests ==
  ASSUME NEW results, DOMAIN results \subseteq Nat
  PROVE  /\ AnyOf(results) \in {"yes", "no", "403"} /\ AllOf(results) \in {"yes", "no", "403"}
         /\ AnyOf(results) = "yes" => \E i \in DOMAIN results : results[i] = "yes"
         /\ AnyOf(results) = "403" => \E i \in DOMAIN results : results[i] = "403"
         /\ AnyOf(results) = "no" => \A i \in DOMAIN results : results[i] \notin {"yes", "403"}
         /\ AllOf(results) = "403" => \E i \in DOMAIN results : results[i] = "403"
         /\ AllOf(results) = "no" => \E i \in DOMAIN results : results[i] = "no"
         /\ AllOf(results) = "yes" => \A i \in DOMAIN results : results[i] \notin {"no", "403"}
<1>1. /\ AnyOf(results) \in {"yes", "no", "403"}
      /\ AnyOf(results) = "yes" => \E i \in DOMAIN results : results[i] = "yes"
      /\ AnyOf(results) = "403" => \E i \in DOMAIN results : results[i] = "403"
      /\ AnyOf(results) = "no" => \A i \in DOMAIN results : results[i] \notin {"yes", "403"}
  BY Settling DEF AnyOf
<1>2. /\ AllOf(results) \in {"yes", "no", "403"}
      /\ AllOf(results) = "403" => \E i \in DOMAIN results : results[i] = "403"
      /\ AllOf(results) = "no" => \E i \in DOMAIN results : results[i] = "no"
      /\ AllOf(results) = "yes" => \A i \in DOMAIN results : results[i] \notin {"no", "403"}
  BY Settling DEF AllOf
<1> QED
  BY <1>1, <1>2

(* The occurrences of a property in a component or a card, and its part    *)
(* with one of them alone.                                                 *)
LEMMA AloneFacts ==
  ASSUME NEW part \in ObjectPart, NEW i \in DOMAIN part.props
  PROVE  /\ DOMAIN part.props \subseteq Nat
         /\ Alone(part, i).name = part.name
         /\ Alone(part, i).props = <<part.props[i]>>
         /\ Alone(part, i) \in ObjectPart
         /\ DOMAIN Alone(part, i).props = {1} /\ Alone(part, i).props[1] = part.props[i]
<1> DEFINE S == [name: STRING, group: STRING, value: Seq(STRING), params: Seq(Seq(STRING))]
<1>1. part \in [name: STRING, props: Seq(S)]
  BY DEF ObjectPart
<1> HIDE DEF S
<1>2. part.props \in Seq(S)
  BY <1>1
<1>3. DOMAIN part.props \subseteq Nat
  BY <1>2
<1>4. Alone(part, i).name = part.name /\ Alone(part, i).props = <<part.props[i]>>
  BY <1>1 DEF Alone
<1>5. <<part.props[i]>> \in Seq(S)
  <2>1. part.props[i] \in S
    BY <1>2
  <2> QED
    BY <2>1
<1>6. Alone(part, i) \in [name: STRING, props: Seq(S)]
  BY <1>1, <1>5 DEF Alone
<1> QED
  BY <1>3, <1>4, <1>6 DEF ObjectPart, S

(* A calendar property filter holds of a component when it holds of one    *)
(* occurrence.                                                             *)
LEMMA CalendarProperty ==
  ASSUME NEW part \in ObjectPart, NEW filter, filter.isNotDefined = FALSE
  PROVE  /\ CalendarPropFilter(filter, part) = "yes" =>
              \E i \in DOMAIN part.props : CalendarPropFilter(filter, Alone(part, i)) = "yes"
         /\ CalendarPropFilter(filter, part) = "no" =>
              \A i \in DOMAIN part.props : CalendarPropFilter(filter, Alone(part, i)) # "yes"
<1> DEFINE fields == CalendarFields(filter, part)
           results == [i \in fields |-> CalendarPropField(filter, part.props[i])]
<1>1. CalendarPropFilter(filter, part) = IF fields = {} THEN "no" ELSE AnyOf(results)
  BY DEF CalendarPropFilter, Result
<1>2. DOMAIN results = fields /\ \A i \in fields : results[i] = CalendarPropField(filter, part.props[i])
  OBVIOUS
<1>3. /\ fields \subseteq DOMAIN part.props
      /\ \A i \in DOMAIN part.props : i \in fields <=> part.props[i].name = filter.name
  BY DEF CalendarFields
<1>4. fields \subseteq Nat
  BY <1>3, AloneFacts
<1> HIDE DEF fields, results
<1>5. ASSUME NEW i \in DOMAIN part.props
      PROVE  CalendarPropFilter(filter, Alone(part, i)) = "yes" <=> i \in fields /\ results[i] = "yes"
  <2> DEFINE alone == Alone(part, i)
             own == CalendarFields(filter, alone)
             test == [j \in own |-> CalendarPropField(filter, alone.props[j])]
  <2>1. DOMAIN alone.props = {1} /\ alone.props[1] = part.props[i]
    BY AloneFacts
  <2>2. own = IF i \in fields THEN {1} ELSE {}
    <3> HIDE DEF alone
    <3> QED
      BY <1>3, <2>1 DEF CalendarFields
  <2>3. CalendarPropFilter(filter, alone) = IF own = {} THEN "no" ELSE AnyOf(test)
    BY DEF CalendarPropFilter, Result
  <2>4. DOMAIN test = own /\ (i \in fields => test[1] = results[i])
    <3> HIDE DEF alone
    <3>1. DOMAIN test = own /\ \A j \in own : test[j] = CalendarPropField(filter, alone.props[j])
      OBVIOUS
    <3> HIDE DEF test, own
    <3>2. ASSUME i \in fields PROVE test[1] = results[i]
      <4>1. test[1] = CalendarPropField(filter, alone.props[1])
        BY <2>2, <3>1, <3>2
      <4>2. results[i] = CalendarPropField(filter, part.props[i])
        BY <1>2, <3>2
      <4> QED
        BY <2>1, <4>1, <4>2
    <3> QED
      BY <3>1, <3>2
  <2> HIDE DEF alone, own, test
  <2>5. CASE i \notin fields
    BY <2>2, <2>3, <2>5 DEF alone
  <2>6. CASE i \in fields
    <3>1. DOMAIN test = {1} /\ CalendarPropFilter(filter, alone) = AnyOf(test)
      BY <2>2, <2>3, <2>4, <2>6
    <3>2. /\ AnyOf(test) \in {"yes", "no", "403"}
          /\ AnyOf(test) = "yes" => test[1] = "yes"
          /\ AnyOf(test) = "no" => test[1] # "yes"
          /\ AnyOf(test) = "403" => test[1] # "yes"
      <4>1. DOMAIN test \subseteq Nat
        BY <3>1
      <4>2. AnyOf(test) \in {"yes", "no", "403"}
        BY <4>1, Tests
      <4>3. /\ AnyOf(test) = "yes" => \E j \in DOMAIN test : test[j] = "yes"
            /\ AnyOf(test) = "403" => \E j \in DOMAIN test : test[j] = "403"
            /\ AnyOf(test) = "no" => \A j \in DOMAIN test : test[j] \notin {"yes", "403"}
        BY <4>1, Tests
      <4> QED
        BY <3>1, <4>2, <4>3
    <3> QED
      BY <2>4, <2>6, <3>1, <3>2 DEF alone
  <2> QED
    BY <2>5, <2>6
<1>6. CASE fields = {}
  BY <1>1, <1>5, <1>6
<1>7. CASE fields # {}
  <2>1. /\ AnyOf(results) = "yes" => \E i \in fields : results[i] = "yes"
        /\ AnyOf(results) = "no" => \A i \in fields : results[i] # "yes"
    <3>1. DOMAIN results \subseteq Nat
      BY <1>2, <1>4
    <3>2. /\ AnyOf(results) = "yes" => \E j \in DOMAIN results : results[j] = "yes"
          /\ AnyOf(results) = "no" => \A j \in DOMAIN results : results[j] \notin {"yes", "403"}
      BY <3>1, Tests
    <3> QED
      BY <1>2, <3>2
  <2>2. CalendarPropFilter(filter, part) = AnyOf(results)
    BY <1>1, <1>7
  <2> QED
    BY <1>3, <1>5, <2>1, <2>2
<1> QED
  BY <1>6, <1>7
(* So does a property filter of a card. *)
LEMMA CardProperty ==
  ASSUME NEW part \in ObjectPart, NEW filter, filter.isNotDefined = FALSE
  PROVE  /\ CardPropFilter(filter, part) = "yes" =>
              \E i \in DOMAIN part.props : CardPropFilter(filter, Alone(part, i)) = "yes"
         /\ CardPropFilter(filter, part) = "no" =>
              \A i \in DOMAIN part.props : CardPropFilter(filter, Alone(part, i)) # "yes"
<1> DEFINE fields == CandidateFields(filter, part)
           results == [i \in fields |-> CardPropField(filter, part.props[i])]
<1>1. CardPropFilter(filter, part) = IF fields = {} THEN "no" ELSE AnyOf(results)
  BY DEF CardPropFilter, Result
<1>2. DOMAIN results = fields /\ \A i \in fields : results[i] = CardPropField(filter, part.props[i])
  OBVIOUS
<1>3. /\ fields \subseteq DOMAIN part.props
      /\ \A i \in DOMAIN part.props : i \in fields <=> /\ part.props[i].name = filter.name
                                                   /\ filter.group \in {"", part.props[i].group}
  BY DEF CandidateFields
<1>4. fields \subseteq Nat
  BY <1>3, AloneFacts
<1> HIDE DEF fields, results
<1>5. ASSUME NEW i \in DOMAIN part.props
      PROVE  CardPropFilter(filter, Alone(part, i)) = "yes" <=> i \in fields /\ results[i] = "yes"
  <2> DEFINE alone == Alone(part, i)
             own == CandidateFields(filter, alone)
             test == [j \in own |-> CardPropField(filter, alone.props[j])]
  <2>1. DOMAIN alone.props = {1} /\ alone.props[1] = part.props[i]
    BY AloneFacts
  <2>2. own = IF i \in fields THEN {1} ELSE {}
    <3> HIDE DEF alone
    <3> QED
      BY <1>3, <2>1 DEF CandidateFields
  <2>3. CardPropFilter(filter, alone) = IF own = {} THEN "no" ELSE AnyOf(test)
    BY DEF CardPropFilter, Result
  <2>4. DOMAIN test = own /\ (i \in fields => test[1] = results[i])
    <3> HIDE DEF alone
    <3>1. DOMAIN test = own /\ \A j \in own : test[j] = CardPropField(filter, alone.props[j])
      OBVIOUS
    <3> HIDE DEF test, own
    <3>2. ASSUME i \in fields PROVE test[1] = results[i]
      <4>1. test[1] = CardPropField(filter, alone.props[1])
        BY <2>2, <3>1, <3>2
      <4>2. results[i] = CardPropField(filter, part.props[i])
        BY <1>2, <3>2
      <4> QED
        BY <2>1, <4>1, <4>2
    <3> QED
      BY <3>1, <3>2
  <2> HIDE DEF alone, own, test
  <2>5. CASE i \notin fields
    BY <2>2, <2>3, <2>5 DEF alone
  <2>6. CASE i \in fields
    <3>1. DOMAIN test = {1} /\ CardPropFilter(filter, alone) = AnyOf(test)
      BY <2>2, <2>3, <2>4, <2>6
    <3>2. /\ AnyOf(test) \in {"yes", "no", "403"}
          /\ AnyOf(test) = "yes" => test[1] = "yes"
          /\ AnyOf(test) = "no" => test[1] # "yes"
          /\ AnyOf(test) = "403" => test[1] # "yes"
      <4>1. DOMAIN test \subseteq Nat
        BY <3>1
      <4>2. AnyOf(test) \in {"yes", "no", "403"}
        BY <4>1, Tests
      <4>3. /\ AnyOf(test) = "yes" => \E j \in DOMAIN test : test[j] = "yes"
            /\ AnyOf(test) = "403" => \E j \in DOMAIN test : test[j] = "403"
            /\ AnyOf(test) = "no" => \A j \in DOMAIN test : test[j] \notin {"yes", "403"}
        BY <4>1, Tests
      <4> QED
        BY <3>1, <4>2, <4>3
    <3> QED
      BY <2>4, <2>6, <3>1, <3>2 DEF alone
  <2> QED
    BY <2>5, <2>6
<1>6. CASE fields = {}
  BY <1>1, <1>5, <1>6
<1>7. CASE fields # {}
  <2>1. /\ AnyOf(results) = "yes" => \E i \in fields : results[i] = "yes"
        /\ AnyOf(results) = "no" => \A i \in fields : results[i] # "yes"
    <3>1. DOMAIN results \subseteq Nat
      BY <1>2, <1>4
    <3>2. /\ AnyOf(results) = "yes" => \E j \in DOMAIN results : results[j] = "yes"
          /\ AnyOf(results) = "no" => \A j \in DOMAIN results : results[j] \notin {"yes", "403"}
      BY <3>1, Tests
    <3> QED
      BY <1>2, <3>2
  <2>2. CardPropFilter(filter, part) = AnyOf(results)
    BY <1>1, <1>7
  <2> QED
    BY <1>3, <1>5, <2>1, <2>2
<1> QED
  BY <1>6, <1>7

(* A property filter always comes to a result; one for the absence of a    *)
(* property holds where there is none.                                     *)
LEMMA PropertyResults ==
  ASSUME NEW part \in ObjectPart, NEW filter
  PROVE  /\ CalendarPropFilter(filter, part) \in {"yes", "no", "403"}
         /\ CardPropFilter(filter, part) \in {"yes", "no", "403"}
         /\ filter.isNotDefined = TRUE =>
              /\ CalendarPropFilter(filter, part)
                 = Result(~\E i \in DOMAIN part.props : part.props[i].name = filter.name)
              /\ CardPropFilter(filter, part)
                 = Result(~\E i \in DOMAIN part.props :
                             /\ part.props[i].name = filter.name
                             /\ filter.group \in {"", part.props[i].group})
<1>1. CalendarFields(filter, part) \subseteq Nat /\ CandidateFields(filter, part) \subseteq Nat
  <2>1. \A i \in DOMAIN part.props : i \in Nat
    BY AloneFacts
  <2> QED
    BY <2>1 DEF CalendarFields, CandidateFields
<1>2. CalendarPropFilter(filter, part) \in {"yes", "no", "403"}
  <2> DEFINE fields == CalendarFields(filter, part)
             results == [i \in fields |-> CalendarPropField(filter, part.props[i])]
  <2>1. DOMAIN results = fields
    OBVIOUS
  <2>2. \/ CalendarPropFilter(filter, part) = Result((fields = {}) = filter.isNotDefined)
        \/ CalendarPropFilter(filter, part) = AnyOf(results)
    BY DEF CalendarPropFilter
  <2> HIDE DEF results, fields
  <2>3. DOMAIN results \subseteq Nat
    BY <1>1, <2>1 DEF fields
  <2>4. AnyOf(results) \in {"yes", "no", "403"}
    BY <2>3, Tests
  <2> QED
    BY <2>2, <2>4 DEF Result
<1>3. CardPropFilter(filter, part) \in {"yes", "no", "403"}
  <2> DEFINE fields == CandidateFields(filter, part)
             results == [i \in fields |-> CardPropField(filter, part.props[i])]
  <2>1. DOMAIN results = fields
    OBVIOUS
  <2>2. \/ CardPropFilter(filter, part) = Result((fields = {}) = filter.isNotDefined)
        \/ CardPropFilter(filter, part) = AnyOf(results)
    BY DEF CardPropFilter
  <2> HIDE DEF results, fields
  <2>3. DOMAIN results \subseteq Nat
    BY <1>1, <2>1 DEF fields
  <2>4. AnyOf(results) \in {"yes", "no", "403"}
    BY <2>3, Tests
  <2> QED
    BY <2>2, <2>4 DEF Result
<1>4. ASSUME filter.isNotDefined = TRUE
      PROVE  CalendarPropFilter(filter, part)
             = Result(~\E i \in DOMAIN part.props : part.props[i].name = filter.name)
  <2>1. CalendarPropFilter(filter, part) = Result(CalendarFields(filter, part) = {})
    BY <1>4 DEF CalendarPropFilter, Result
  <2>2. CalendarFields(filter, part) = {} <=> ~\E i \in DOMAIN part.props : part.props[i].name = filter.name
    BY DEF CalendarFields
  <2> QED
    BY <2>1, <2>2 DEF Result
<1>5. ASSUME filter.isNotDefined = TRUE
      PROVE  CardPropFilter(filter, part)
             = Result(~\E i \in DOMAIN part.props : /\ part.props[i].name = filter.name
                                                   /\ filter.group \in {"", part.props[i].group})
  <2>1. CardPropFilter(filter, part) = Result(CandidateFields(filter, part) = {})
    BY <1>5 DEF CardPropFilter, Result
  <2>2. CandidateFields(filter, part) = {} <=>
          ~\E i \in DOMAIN part.props : /\ part.props[i].name = filter.name
                                        /\ filter.group \in {"", part.props[i].group}
    BY DEF CandidateFields
  <2> QED
    BY <2>1, <2>2 DEF Result
<1> QED
  BY <1>2, <1>3, <1>4, <1>5

(* The result of a filter of one property on a component or a card. *)
LEMMA OneFilter ==
  ASSUME NEW filter, DOMAIN filter.props = {1}, NEW part \in ObjectPart
  PROVE  /\ part.name = filter.name => Match(filter, part) = CalendarPropFilter(filter.props[1], part)
         /\ part.name # filter.name => Match(filter, part) = "no"
         /\ MatchCardFilter(filter, part) = CardPropFilter(filter.props[1], part)
<1> DEFINE tests == [i \in DOMAIN filter.props |-> CalendarPropFilter(filter.props[i], part)]
           cards == [i \in DOMAIN filter.props |-> CardPropFilter(filter.props[i], part)]
<1>1. /\ DOMAIN tests = {1} /\ tests[1] = CalendarPropFilter(filter.props[1], part)
      /\ DOMAIN cards = {1} /\ cards[1] = CardPropFilter(filter.props[1], part)
  OBVIOUS
<1>2. /\ Match(filter, part) = IF part.name # filter.name THEN "no" ELSE AllOf(tests)
      /\ MatchCardFilter(filter, part) = IF filter.test = "allof" THEN AllOf(cards) ELSE AnyOf(cards)
  BY DEF Match, MatchCardFilter
<1> HIDE DEF tests, cards
<1>3. tests[1] \in {"yes", "no", "403"} /\ cards[1] \in {"yes", "no", "403"}
  BY <1>1, PropertyResults
<1>4. DOMAIN tests \subseteq Nat /\ DOMAIN cards \subseteq Nat
  BY <1>1
<1>5. ASSUME NEW results, DOMAIN results = {1}, results[1] \in {"yes", "no", "403"}
      PROVE  AllOf(results) = results[1] /\ AnyOf(results) = results[1]
  <2>1. DOMAIN results \subseteq Nat
    BY <1>5
  <2>2. AnyOf(results) \in {"yes", "no", "403"} /\ AllOf(results) \in {"yes", "no", "403"}
    BY <2>1, Tests
  <2>3. /\ AnyOf(results) = "yes" => results[1] = "yes"
        /\ AnyOf(results) = "403" => results[1] = "403"
        /\ AnyOf(results) = "no" => results[1] \notin {"yes", "403"}
    <3>1. /\ AnyOf(results) = "yes" => \E i \in DOMAIN results : results[i] = "yes"
          /\ AnyOf(results) = "403" => \E i \in DOMAIN results : results[i] = "403"
          /\ AnyOf(results) = "no" => \A i \in DOMAIN results : results[i] \notin {"yes", "403"}
      BY <2>1, Tests
    <3> QED
      BY <1>5, <3>1
  <2>4. /\ AllOf(results) = "no" => results[1] = "no"
        /\ AllOf(results) = "403" => results[1] = "403"
        /\ AllOf(results) = "yes" => results[1] \notin {"no", "403"}
    <3>1. /\ AllOf(results) = "no" => \E i \in DOMAIN results : results[i] = "no"
          /\ AllOf(results) = "403" => \E i \in DOMAIN results : results[i] = "403"
          /\ AllOf(results) = "yes" => \A i \in DOMAIN results : results[i] \notin {"no", "403"}
      BY <2>1, Tests
    <3> QED
      BY <1>5, <3>1
  <2> QED
    BY <1>5, <2>2, <2>3, <2>4
<1>6. AllOf(tests) = tests[1] /\ AllOf(cards) = cards[1] /\ AnyOf(cards) = cards[1]
  BY <1>1, <1>3, <1>5
<1> QED
  BY <1>1, <1>2, <1>6

(* A query for one property of the components of one name, in the absence  *)
(* of components of others.                                                *)
Absent(filter) == {f.name : f \in {f \in ToSet(filter.comps) : f.isNotDefined}}

Excluded(filter, children) == \E c \in DOMAIN children : children[c].name \in Absent(filter)

(* The parts of a calendar query and of the objects it is asked of. *)
LEMMA QueryFacts ==
  ASSUME NEW filter \in CalendarQuery
  PROVE  /\ 1 \in DOMAIN filter.comps /\ DOMAIN filter.comps \subseteq Nat
         /\ filter.comps[1].isNotDefined = FALSE
         /\ DOMAIN filter.comps[1].props = {1}
         /\ filter.comps[1].props[1].isNotDefined \in BOOLEAN
         /\ \A k \in DOMAIN filter.comps \ {1} : filter.comps[k].isNotDefined = TRUE
         /\ Absent(filter) = {filter.comps[k].name : k \in DOMAIN filter.comps \ {1}}
<1> DEFINE cs == filter.comps
<1>1. /\ cs \in Seq(CompFilter) /\ Len(cs) > 0 /\ ~cs[1].isNotDefined /\ Len(cs[1].props) = 1
      /\ \A i \in 2..Len(cs) : cs[i].isNotDefined
  BY DEF CalendarQuery
<1>2. Len(cs) \in Nat /\ DOMAIN cs = 1..Len(cs) /\ \A k \in 1..Len(cs) : cs[k] \in CompFilter
  BY <1>1, LenProperties, ElementOfSeq
<1>3. 1 \in DOMAIN cs /\ DOMAIN cs \subseteq Nat /\ \A k \in DOMAIN cs \ {1} : k \in 2..Len(cs)
  BY <1>1, <1>2
<1>4. \A k \in DOMAIN cs : cs[k].isNotDefined \in BOOLEAN /\ cs[k].props \in Seq(PropFilter)
  BY <1>2 DEF CompFilter
<1>5. cs[1].isNotDefined = FALSE /\ \A k \in DOMAIN cs \ {1} : cs[k].isNotDefined = TRUE
  BY <1>1, <1>3, <1>4
<1>6. DOMAIN cs[1].props = {1} /\ cs[1].props[1] \in PropFilter
  <2>1. cs[1].props \in Seq(PropFilter) /\ Len(cs[1].props) = 1
    BY <1>1, <1>3, <1>4
  <2>2. DOMAIN cs[1].props = 1..1 /\ cs[1].props[1] \in PropFilter
    BY <2>1, LenProperties, ElementOfSeq
  <2> QED
    BY <2>2
<1>7. Absent(filter) = {cs[k].name : k \in DOMAIN cs \ {1}}
  <2>1. ToSet(cs) = {cs[k] : k \in DOMAIN cs}
    BY <1>2 DEF ToSet
  <2>2. ASSUME NEW n \in Absent(filter) PROVE \E k \in DOMAIN cs \ {1} : n = cs[k].name
    BY <1>5, <2>1 DEF Absent
  <2>3. ASSUME NEW k \in DOMAIN cs \ {1} PROVE cs[k].name \in Absent(filter)
    BY <1>5, <2>1 DEF Absent
  <2> QED
    BY <2>2, <2>3
<1> QED
  BY <1>3, <1>5, <1>6, <1>7 DEF PropFilter

(* What a calendar query of one filter comes to. *)
LEMMA OneQuery ==
  ASSUME NEW filter \in CalendarQuery, NEW children, DOMAIN children \subseteq Nat
  PROVE  LET found == AnyOf([c \in DOMAIN children |-> Match(filter.comps[1], children[c])])
             answered == MatchObjectFilter(filter, children)
         IN /\ found = "yes" /\ ~Excluded(filter, children) => answered = "yes"
            /\ answered = "yes" => found = "yes" /\ ~Excluded(filter, children)
            /\ answered = "no" => found = "no" \/ Excluded(filter, children)
<1> DEFINE found == AnyOf([c \in DOMAIN children |-> Match(filter.comps[1], children[c])])
           results == [k \in DOMAIN filter.comps |-> MatchCompFilter(filter.comps[k], children)]
<1>1. MatchObjectFilter(filter, children) = AllOf(results)
  BY DEF MatchObjectFilter
<1>2. DOMAIN results = DOMAIN filter.comps /\ DOMAIN results \subseteq Nat /\ 1 \in DOMAIN results
  BY QueryFacts
<1>3. results[1] = found
  BY QueryFacts DEF MatchCompFilter
<1>4. ASSUME NEW k \in DOMAIN results, k # 1
      PROVE  results[k] = Result(\A c \in DOMAIN children : children[c].name # filter.comps[k].name)
  BY <1>4, QueryFacts DEF MatchCompFilter
<1> HIDE DEF results, found
<1>5. Excluded(filter, children) <=> \E k \in DOMAIN results : k # 1 /\ results[k] = "no"
  <2>1. \A n : n \in Absent(filter) <=> \E k \in DOMAIN results : k # 1 /\ n = filter.comps[k].name
    <3>1. Absent(filter) = {filter.comps[k].name : k \in DOMAIN filter.comps \ {1}}
      BY QueryFacts
    <3> QED
      BY <1>2, <3>1
  <2> QED
    BY <1>4, <2>1 DEF Excluded, Result
<1>6. \A k \in DOMAIN results : k # 1 => results[k] \in {"yes", "no"}
  BY <1>4 DEF Result
<1>7. /\ AllOf(results) \in {"yes", "no", "403"}
      /\ AllOf(results) = "403" => \E i \in DOMAIN results : results[i] = "403"
      /\ AllOf(results) = "no" => \E i \in DOMAIN results : results[i] = "no"
      /\ AllOf(results) = "yes" => \A i \in DOMAIN results : results[i] \notin {"no", "403"}
  BY <1>2, Tests
<1>8. found \in {"yes", "no", "403"}
  BY Tests DEF found
<1>9. /\ found = "yes" /\ ~Excluded(filter, children) => AllOf(results) = "yes"
      /\ AllOf(results) = "yes" => found = "yes" /\ ~Excluded(filter, children)
      /\ AllOf(results) = "no" => found = "no" \/ Excluded(filter, children)
  BY <1>2, <1>3, <1>5, <1>6, <1>7, <1>8
<1> QED
  BY <1>1, <1>9 DEF found

(* The same query, on one property alone. *)
LEMMA AloneQuery ==
  ASSUME NEW filter \in CalendarQuery, NEW part \in ObjectPart, NEW i \in DOMAIN part.props
  PROVE  MatchObjectFilter(filter, <<Alone(part, i)>>) = "yes" <=>
           /\ part.name = filter.comps[1].name
           /\ part.name \notin Absent(filter)
           /\ CalendarPropFilter(filter.comps[1].props[1], Alone(part, i)) = "yes"
<1> DEFINE alone == Alone(part, i)
           children == <<alone>>
           tests == [c \in DOMAIN children |-> Match(filter.comps[1], children[c])]
           found == AnyOf(tests)
<1>1. alone \in ObjectPart /\ alone.name = part.name
  BY AloneFacts
<1>2. DOMAIN children = {1} /\ children[1] = alone
  OBVIOUS
<1> HIDE DEF children, alone
<1>3. DOMAIN children \subseteq Nat
  BY <1>2
<1>4. DOMAIN tests = {1} /\ tests[1] = Match(filter.comps[1], alone)
  BY <1>2
<1>5. /\ found = "yes" /\ ~Excluded(filter, children) => MatchObjectFilter(filter, children) = "yes"
      /\ MatchObjectFilter(filter, children) = "yes" => found = "yes" /\ ~Excluded(filter, children)
  BY <1>3, OneQuery
<1>6. Excluded(filter, children) <=> part.name \in Absent(filter)
  BY <1>1, <1>2 DEF Excluded
<1>7. DOMAIN filter.comps[1].props = {1}
  BY QueryFacts
<1>8. /\ part.name = filter.comps[1].name =>
           tests[1] = CalendarPropFilter(filter.comps[1].props[1], alone)
      /\ part.name # filter.comps[1].name => tests[1] = "no"
  BY <1>1, <1>4, <1>7, OneFilter
<1>9. tests[1] \in {"yes", "no", "403"}
  BY <1>1, <1>8, PropertyResults
<1> HIDE DEF tests
<1>10. found = "yes" <=> tests[1] = "yes"
  <2>1. DOMAIN tests \subseteq Nat
    BY <1>4
  <2>2. /\ found \in {"yes", "no", "403"}
        /\ found = "yes" => \E j \in DOMAIN tests : tests[j] = "yes"
        /\ found = "403" => \E j \in DOMAIN tests : tests[j] = "403"
        /\ found = "no" => \A j \in DOMAIN tests : tests[j] \notin {"yes", "403"}
    BY <2>1, Tests
  <2> QED
    BY <1>4, <2>2
<1> HIDE DEF found
<1>11. MatchObjectFilter(filter, children) = "yes" <=>
         /\ part.name = filter.comps[1].name
         /\ part.name \notin Absent(filter)
         /\ CalendarPropFilter(filter.comps[1].props[1], alone) = "yes"
  BY <1>5, <1>6, <1>8, <1>10
<1> QED
  BY <1>11 DEF children, alone

(* The reasons a reader can point at: a property of a part of the object. *)
ReasonsOf(object) == UNION {{c} \X DOMAIN object[c].props : c \in DOMAIN object}

(* The occurrences of properties in an object are pairs of places. *)
LEMMA ReasonFacts ==
  ASSUME NEW object
  PROVE  /\ \A r \in ReasonsOf(object) : r[1] \in DOMAIN object /\ r[2] \in DOMAIN object[r[1]].props
         /\ \A c \in DOMAIN object : \A i \in DOMAIN object[c].props :
              <<c, i>> \in ReasonsOf(object)
BY DEF ReasonsOf

(* A calendar object matches when one occurrence alone would make it       *)
(* match.                                                                  *)
LEMMA CalendarJustified ==
  ASSUME NEW filter \in CalendarQuery, NEW object \in Seq(ObjectPart),
         MatchObjectFilter(filter, object) \in {"yes", "no"}
  PROVE  LET prop == filter.comps[1].props[1] IN
    MatchObjectFilter(filter, object) =
      IF prop.isNotDefined
      THEN Result(/\ ~Excluded(filter, object)
                  /\ \E c \in DOMAIN object :
                       /\ object[c].name = filter.comps[1].name
                       /\ ~\E r \in ReasonsOf(object) : r[1] = c /\ object[r[1]].props[r[2]].name = prop.name)
      ELSE Result(/\ ~Excluded(filter, object)
                  /\ \E r \in ReasonsOf(object) :
                       MatchObjectFilter(filter, <<Alone(object[r[1]], r[2])>>) = "yes")
<1> DEFINE first == filter.comps[1]
           prop == first.props[1]
           tests == [c \in DOMAIN object |-> Match(first, object[c])]
           found == AnyOf(tests)
           a == MatchObjectFilter(filter, object)
<1>1. DOMAIN object \subseteq Nat /\ \A c \in DOMAIN object : object[c] \in ObjectPart
  OBVIOUS
<1>2. /\ a = "yes" => found = "yes" /\ ~Excluded(filter, object)
      /\ a = "no" => found = "no" \/ Excluded(filter, object)
  BY <1>1, OneQuery
<1>3. DOMAIN first.props = {1} /\ prop.isNotDefined \in BOOLEAN
  BY QueryFacts
<1>4. DOMAIN tests = DOMAIN object /\ \A c \in DOMAIN object : tests[c] = Match(first, object[c])
  OBVIOUS
<1>5. \A c \in DOMAIN object :
        /\ object[c].name = first.name => tests[c] = CalendarPropFilter(prop, object[c])
        /\ object[c].name # first.name => tests[c] = "no"
  <2> HIDE DEF tests
  <2> QED
    BY <1>1, <1>3, <1>4, OneFilter
<1> HIDE DEF tests
<1>6. /\ found = "yes" => \E c \in DOMAIN object : tests[c] = "yes"
      /\ found = "no" => \A c \in DOMAIN object : tests[c] \notin {"yes", "403"}
  BY <1>1, <1>4, Tests
<1> HIDE DEF found
<1>7. \A c \in DOMAIN object : CalendarPropFilter(prop, object[c]) \in {"yes", "no", "403"}
  BY <1>1, PropertyResults
<1>8. CASE prop.isNotDefined = TRUE
  <2> DEFINE Has(c) == \E i \in DOMAIN object[c].props : object[c].props[i].name = prop.name
  <2>1. \A c \in DOMAIN object : CalendarPropFilter(prop, object[c]) = Result(~Has(c))
    BY <1>1, <1>8, PropertyResults
  <2>2. \A c \in DOMAIN object :
          Has(c) <=> \E r \in ReasonsOf(object) : r[1] = c /\ object[r[1]].props[r[2]].name = prop.name
    <3> TAKE c \in DOMAIN object
    <3>1. ASSUME NEW i \in DOMAIN object[c].props, object[c].props[i].name = prop.name
          PROVE  \E r \in ReasonsOf(object) : r[1] = c /\ object[r[1]].props[r[2]].name = prop.name
      <4>0. <<c, i>> \in ReasonsOf(object)
        BY ReasonFacts
      <4> WITNESS <<c, i>> \in ReasonsOf(object)
      <4> QED
        BY <4>0, <3>1
    <3>2. ASSUME NEW r \in ReasonsOf(object), r[1] = c, object[r[1]].props[r[2]].name = prop.name
          PROVE  Has(c)
      BY <3>2, ReasonFacts
    <3> QED
      BY <3>1, <3>2
  <2> DEFINE lacks == \E c \in DOMAIN object : object[c].name = first.name /\ ~Has(c)
  <2> HIDE DEF Has
  <2>3. a = Result(~Excluded(filter, object) /\ lacks)
    BY <1>2, <1>5, <1>6, <2>1 DEF Result
  <2> HIDE DEF first, prop, a
  <2> QED
    BY <1>8, <2>2, <2>3 DEF first, prop, a
<1>9. CASE prop.isNotDefined = FALSE
  <2> DEFINE Justifies(r) == MatchObjectFilter(filter, <<Alone(object[r[1]], r[2])>>) = "yes"
  <2>1. \A c \in DOMAIN object :
          /\ CalendarPropFilter(prop, object[c]) = "yes" =>
               \E i \in DOMAIN object[c].props : CalendarPropFilter(prop, Alone(object[c], i)) = "yes"
          /\ CalendarPropFilter(prop, object[c]) = "no" =>
               \A i \in DOMAIN object[c].props : CalendarPropFilter(prop, Alone(object[c], i)) # "yes"
    BY <1>1, <1>9, CalendarProperty
  <2>2. \A r \in ReasonsOf(object) :
          Justifies(r) <=> /\ object[r[1]].name = first.name
                           /\ object[r[1]].name \notin Absent(filter)
                           /\ CalendarPropFilter(prop, Alone(object[r[1]], r[2])) = "yes"
    BY <1>1, ReasonFacts, AloneQuery
  <2> HIDE DEF Justifies
  <2>3. a = "yes" => \E r \in ReasonsOf(object) : Justifies(r)
    <3> HAVE a = "yes"
    <3>1. PICK c \in DOMAIN object : tests[c] = "yes"
      BY <1>2, <1>6
    <3>2. object[c].name = first.name /\ CalendarPropFilter(prop, object[c]) = "yes"
      BY <1>5, <3>1
    <3>3. PICK i \in DOMAIN object[c].props : CalendarPropFilter(prop, Alone(object[c], i)) = "yes"
      BY <2>1, <3>2
    <3>4. object[c].name \notin Absent(filter)
      BY <1>2 DEF Excluded
    <3>5. <<c, i>> \in ReasonsOf(object) /\ Justifies(<<c, i>>)
      BY <2>2, <3>2, <3>3, <3>4, ReasonFacts
    <3> QED
      BY <3>5
  <2>4. ASSUME a = "no", ~Excluded(filter, object), NEW r \in ReasonsOf(object), Justifies(r) PROVE FALSE
    <3>1. r[1] \in DOMAIN object /\ r[2] \in DOMAIN object[r[1]].props
      BY ReasonFacts
    <3>2. object[r[1]].name = first.name /\ CalendarPropFilter(prop, Alone(object[r[1]], r[2])) = "yes"
      BY <2>2, <2>4
    <3>3. CalendarPropFilter(prop, object[r[1]]) \notin {"yes", "403"}
      BY <1>2, <1>5, <1>6, <2>4, <3>1, <3>2
    <3>4. CalendarPropFilter(prop, object[r[1]]) = "no"
      BY <1>7, <3>1, <3>3
    <3> QED
      BY <2>1, <3>1, <3>2, <3>4
  <2>5. a = "yes" => ~Excluded(filter, object)
    BY <1>2
  <2>6. a \in {"yes", "no"}
    OBVIOUS
  <2> HIDE DEF a
  <2>7. a = Result(~Excluded(filter, object) /\ \E r \in ReasonsOf(object) : Justifies(r))
    BY <2>3, <2>4, <2>5, <2>6 DEF Result
  <2> QED
    BY <1>9, <2>7 DEF a, Justifies
<1> QED
  BY <1>3, <1>8, <1>9

(* So does a card. *)
LEMMA CardJustified ==
  ASSUME NEW filter \in CardQuery, NEW object \in [1..1 -> ObjectPart],
         MatchCardFilter(filter, object[1]) \in {"yes", "no"}
  PROVE  LET prop == filter.props[1]
             Present(r) == /\ object[r[1]].props[r[2]].name = prop.name
                           /\ prop.group \in {"", object[r[1]].props[r[2]].group}
    IN MatchCardFilter(filter, object[1]) =
      IF prop.isNotDefined
      THEN Result(\E c \in DOMAIN object : ~\E r \in ReasonsOf(object) : r[1] = c /\ Present(r))
      ELSE Result(\E r \in ReasonsOf(object) :
                    MatchCardFilter(filter, Alone(object[r[1]], r[2])) = "yes")
<1> DEFINE prop == filter.props[1]
           a == MatchCardFilter(filter, object[1])
           Present(r) == /\ object[r[1]].props[r[2]].name = prop.name
                         /\ prop.group \in {"", object[r[1]].props[r[2]].group}
           Justifies(r) == MatchCardFilter(filter, Alone(object[r[1]], r[2])) = "yes"
           Has == \E i \in DOMAIN object[1].props :
                    /\ object[1].props[i].name = prop.name
                    /\ prop.group \in {"", object[1].props[i].group}
<1>1. DOMAIN object = {1} /\ object[1] \in ObjectPart
  OBVIOUS
<1>2. DOMAIN filter.props = {1} /\ prop.isNotDefined \in BOOLEAN
  BY DEF CardQuery, PropFilter
<1>3. a = CardPropFilter(prop, object[1])
  BY <1>1, <1>2, OneFilter
<1>4. \A r \in ReasonsOf(object) : r[1] = 1 /\ r[2] \in DOMAIN object[1].props
  BY <1>1, ReasonFacts
<1>5. \A i \in DOMAIN object[1].props : <<1, i>> \in ReasonsOf(object)
  BY <1>1, ReasonFacts
<1>6. CASE prop.isNotDefined = TRUE
  <2>1. a = Result(~Has)
    BY <1>1, <1>3, <1>6, PropertyResults
  <2>2. Has <=> \E r \in ReasonsOf(object) : r[1] = 1 /\ Present(r)
    <3>1. ASSUME NEW i \in DOMAIN object[1].props, object[1].props[i].name = prop.name,
                 prop.group \in {"", object[1].props[i].group}
          PROVE  \E r \in ReasonsOf(object) : r[1] = 1 /\ Present(r)
      <4>0. <<1, i>> \in ReasonsOf(object)
        BY <1>5
      <4> WITNESS <<1, i>> \in ReasonsOf(object)
      <4> QED
        BY <4>0, <3>1
    <3>2. ASSUME NEW r \in ReasonsOf(object), Present(r) PROVE Has
      BY <1>4, <3>2
    <3> QED
      BY <3>1, <3>2
  <2>3. (\E c \in DOMAIN object : ~\E r \in ReasonsOf(object) : r[1] = c /\ Present(r)) <=> ~Has
    <3> HIDE DEF Has, Present
    <3> QED
      BY <1>1, <2>2
  <2> HIDE DEF Has, a, prop
  <2> QED
    BY <1>6, <2>1, <2>3 DEF a, prop, Result
<1>7. CASE prop.isNotDefined = FALSE
  <2>1. /\ CardPropFilter(prop, object[1]) = "yes" =>
             \E i \in DOMAIN object[1].props : CardPropFilter(prop, Alone(object[1], i)) = "yes"
        /\ CardPropFilter(prop, object[1]) = "no" =>
             \A i \in DOMAIN object[1].props : CardPropFilter(prop, Alone(object[1], i)) # "yes"
    BY <1>1, <1>7, CardProperty
  <2>2. ASSUME NEW i \in DOMAIN object[1].props
        PROVE  MatchCardFilter(filter, Alone(object[1], i)) = CardPropFilter(prop, Alone(object[1], i))
    <3>1. Alone(object[1], i) \in ObjectPart
      BY <1>1, AloneFacts
    <3> QED
      BY <1>2, <3>1, OneFilter
  <2>3. a = "yes" => \E r \in ReasonsOf(object) : Justifies(r)
    <3> HAVE a = "yes"
    <3>1. PICK i \in DOMAIN object[1].props : CardPropFilter(prop, Alone(object[1], i)) = "yes"
      BY <1>3, <2>1
    <3>0. <<1, i>> \in ReasonsOf(object)
      BY <1>5
    <3> WITNESS <<1, i>> \in ReasonsOf(object)
    <3> QED
      BY <3>0, <2>2, <3>1
  <2>4. a = "no" => ~\E r \in ReasonsOf(object) : Justifies(r)
    <3> SUFFICES ASSUME a = "no", NEW r \in ReasonsOf(object), Justifies(r) PROVE FALSE
      OBVIOUS
    <3>1. r[1] = 1 /\ r[2] \in DOMAIN object[1].props
      BY <1>4
    <3>2. CardPropFilter(prop, Alone(object[1], r[2])) = "yes"
      BY <2>2, <3>1
    <3> QED
      BY <1>3, <2>1, <3>1, <3>2
  <2>5. a \in {"yes", "no"}
    OBVIOUS
  <2> HIDE DEF a, Justifies
  <2>6. a = Result(\E r \in ReasonsOf(object) : Justifies(r))
    BY <2>3, <2>4, <2>5 DEF Result
  <2> QED
    BY <1>7, <2>6 DEF a, Justifies
<1> QED
  BY <1>2, <1>6, <1>7

FiltersInv ==
  /\ \/ /\ asked.server = "caldav" /\ asked.object \in Seq(ObjectPart) /\ asked.filter \in CalendarQuery
     \/ /\ asked.server = "carddav" /\ asked.object \in [1..1 -> ObjectPart] /\ asked.filter \in CardQuery
  /\ answer # Nil =>
       answer = IF asked.server = "caldav" THEN MatchObjectFilter(asked.filter, asked.object)
                ELSE IF ValidateFilter(asked.filter) THEN MatchCardFilter(asked.filter, asked.object[1]) ELSE "400"

(* Every answer about a filter is that of the match function of its        *)
(* server.                                                                 *)
THEOREM Searching == FiltersSpec => []FiltersInv
<1>1. FiltersInit => FiltersInv
  BY DEF FiltersInit, FiltersInv
<1>2. FiltersInv /\ [Search]_answering => FiltersInv'
  BY DEF FiltersInv, Search, Answers, answering
<1> QED
  BY <1>1, <1>2, PTL DEF FiltersSpec

(* A query of one property over any object.  *)
THEOREM OneOccurrence == FiltersSpec => []OneOccurrenceJustifies
<1>1. FiltersInv => OneOccurrenceJustifies
  <2> SUFFICES ASSUME FiltersInv, answer # Nil, answer \in {"yes", "no"} PROVE OneOccurrenceJustifies
    BY DEF OneOccurrenceJustifies, Answered
  <2>1. CASE asked.server = "caldav"
    <3>1. asked.object \in Seq(ObjectPart) /\ asked.filter \in CalendarQuery
          /\ answer = MatchObjectFilter(asked.filter, asked.object)
      BY <2>1 DEF FiltersInv
    <3> DEFINE absent == {f.name : f \in {f \in ToSet(asked.filter.comps) : f.isNotDefined}}
               excluded == \E c \in DOMAIN asked.object : asked.object[c].name \in absent
               prop == asked.filter.comps[1].props[1]
               reasons == UNION {{c} \X DOMAIN asked.object[c].props : c \in DOMAIN asked.object}
               Justifies(r) == MatchObjectFilter(asked.filter, <<Alone(asked.object[r[1]], r[2])>>) = "yes"
               Present(r) == asked.object[r[1]].props[r[2]].name = prop.name
               lacks == \E c \in DOMAIN asked.object :
                          /\ asked.object[c].name = asked.filter.comps[1].name
                          /\ ~\E r \in reasons : r[1] = c /\ Present(r)
    <3>2. excluded <=> Excluded(asked.filter, asked.object)
      BY DEF Excluded, Absent
    <3>3. reasons = ReasonsOf(asked.object)
      BY DEF ReasonsOf
    <3>4. /\ prop.isNotDefined => answer = Result(~Excluded(asked.filter, asked.object) /\ lacks)
          /\ ~prop.isNotDefined =>
               answer = Result(~Excluded(asked.filter, asked.object) /\ \E r \in reasons : Justifies(r))
      <4>1. MatchObjectFilter(asked.filter, asked.object) \in {"yes", "no"}
        BY <3>1
      <4> QED
        BY <3>1, <3>3, <4>1, CalendarJustified
    <3> HIDE DEF excluded, lacks, Justifies, reasons, prop
    <3>5. IF prop.isNotDefined THEN answer = Result(~excluded /\ lacks)
          ELSE answer = Result(~excluded /\ \E r \in reasons : Justifies(r))
      BY <3>2, <3>4 DEF Result
    <3> QED
      BY <2>1, <3>5 DEF OneOccurrenceJustifies, excluded, lacks, Justifies, reasons, prop
  <2>2. CASE asked.server = "carddav"
    <3>1. asked.object \in [1..1 -> ObjectPart] /\ asked.filter \in CardQuery
          /\ answer = MatchCardFilter(asked.filter, asked.object[1])
      BY <2>2 DEF FiltersInv
    <3> DEFINE prop == asked.filter.props[1]
               reasons == UNION {{c} \X DOMAIN asked.object[c].props : c \in DOMAIN asked.object}
               Justifies(r) == MatchCardFilter(asked.filter, Alone(asked.object[r[1]], r[2])) = "yes"
               Present(r) == /\ asked.object[r[1]].props[r[2]].name = prop.name
                             /\ prop.group \in {"", asked.object[r[1]].props[r[2]].group}
               lacks == \E c \in DOMAIN asked.object : ~\E r \in reasons : r[1] = c /\ Present(r)
    <3>3. reasons = ReasonsOf(asked.object)
      BY DEF ReasonsOf
    <3>4. /\ prop.isNotDefined => answer = Result(lacks)
          /\ ~prop.isNotDefined => answer = Result(\E r \in reasons : Justifies(r))
      <4>1. MatchCardFilter(asked.filter, asked.object[1]) \in {"yes", "no"}
        BY <3>1
      <4>2. ASSUME prop.isNotDefined PROVE answer = Result(lacks)
        <5> DEFINE Lacks(places) ==
              \E c \in DOMAIN asked.object : ~\E r \in places : r[1] = c /\ Present(r)
        <5>1. answer = Result(Lacks(ReasonsOf(asked.object)))
          BY <3>1, <4>1, <4>2, CardJustified
        <5>2. Lacks(reasons) <=> Lacks(ReasonsOf(asked.object))
          BY <3>3
        <5> HIDE DEF Present, reasons
        <5> QED
          BY <5>1, <5>2 DEF Result
      <4>3. ASSUME ~prop.isNotDefined PROVE answer = Result(\E r \in reasons : Justifies(r))
        BY <3>1, <3>3, <4>1, <4>3, CardJustified
      <4> QED
        BY <4>2, <4>3
    <3> HIDE DEF lacks, Justifies, reasons, prop
    <3>5. IF prop.isNotDefined THEN answer = Result(lacks)
          ELSE answer = Result(\E r \in reasons : Justifies(r))
      BY <3>4
    <3> QED
      BY <2>2, <3>5 DEF OneOccurrenceJustifies, lacks, Justifies, reasons, prop
  <2> QED
    BY <2>1, <2>2 DEF FiltersInv
<1> QED
  BY <1>1, Searching, PTL

---------------------------------------------------------------------------
(* Bodies: what is stored is what is seen. *)

(* Each component that may be an item has a kind of its own. *)
LEMMA KindFacts ==
  /\ DOMAIN KindByComponent = {"VEVENT", "VTODO", "VJOURNAL", "VFREEBUSY"}
  /\ \A c \in DOMAIN KindByComponent : KindByComponent[c] \in ItemKinds
  /\ \A c, d \in DOMAIN KindByComponent : KindByComponent[c] = KindByComponent[d] => c = d
<1> DEFINE kinds == [c \in {"VEVENT", "VTODO", "VJOURNAL", "VFREEBUSY"} |->
             CASE c = "VEVENT" -> "event" [] c = "VTODO" -> "task"
               [] c = "VJOURNAL" -> "note" [] c = "VFREEBUSY" -> "availability"]
<1>1. /\ kinds["VEVENT"] = "event" /\ kinds["VTODO"] = "task"
      /\ kinds["VJOURNAL"] = "note" /\ kinds["VFREEBUSY"] = "availability"
      /\ DOMAIN kinds = {"VEVENT", "VTODO", "VJOURNAL", "VFREEBUSY"}
  OBVIOUS
<1>2. KindByComponent = kinds
  BY DEF KindByComponent
<1> HIDE DEF kinds
<1>3. \A c \in DOMAIN kinds : kinds[c] \in ItemKinds
  BY <1>1 DEF ItemKinds
<1>4. \A c, d \in DOMAIN kinds : kinds[c] = kinds[d] => c = d
  BY <1>1
<1> QED
  BY <1>1, <1>2, <1>3, <1>4

CalendarComp == [name: STRING, uid: STRING \cup {Nil}, stamp: BOOLEAN]

(* What makes one component right, alone and beside the first. *)
Right(comp) == comp.name \in DOMAIN KindByComponent /\ comp.uid # Nil /\ comp.stamp

(* A component is found wrong unless it is right, and of the kind and UID  *)
(* of the first.                                                           *)
LEMMA ComponentFacts ==
  ASSUME NEW comp \in CalendarComp
  PROVE  /\ ComponentError(comp, Nil) = Nil <=> Right(comp)
         /\ \A uid, kind : Item(uid, kind) # Nil =>
              (ComponentError(comp, Item(uid, kind)) = Nil <=>
                 Right(comp) /\ kind = KindByComponent[comp.name] /\ uid = comp.uid)
         /\ \A item : ComponentError(comp, item) \in Preconditions \cup {Nil}
<1> DEFINE a == comp.name \in DOMAIN KindByComponent
           b == comp.uid # Nil
           c == comp.stamp
           odd == "valid-calendar-object-resource"
<1>1. ASSUME NEW item
      PROVE  ComponentError(comp, item) =
               IF ~a \/ ~b THEN odd
               ELSE IF ~c THEN "valid-calendar-data"
               ELSE IF item # Nil /\ (item.kind # KindByComponent[comp.name] \/ item.uid # comp.uid)
                    THEN odd ELSE Nil
  <2> DEFINE last == IF item # Nil /\ (item.kind # KindByComponent[comp.name] \/ item.uid # comp.uid)
                     THEN odd ELSE Nil
             e == ComponentError(comp, item)
  <2>1. e = CASE ~a -> odd [] a /\ ~b -> odd [] a /\ b /\ ~c -> "valid-calendar-data" [] OTHER -> last
    BY DEF ComponentError
  <2> HIDE DEF a, b, c, last, e, odd
  <2>2. CASE ~a
    <3>1. e = odd
      BY <2>1, <2>2, Zenon
    <3> QED
      BY <2>2, <3>1 DEF e
  <2>3. CASE a /\ ~b
    <3>1. e = odd
      BY <2>1, <2>3, Zenon
    <3> QED
      BY <2>3, <3>1 DEF e
  <2>4. CASE a /\ b /\ ~c
    <3>1. e = "valid-calendar-data"
      BY <2>1, <2>4, Zenon
    <3> QED
      BY <2>4, <3>1 DEF e
  <2>5. CASE a /\ b /\ c
    <3>1. e = last
      BY <2>1, <2>5, Zenon
    <3> QED
      BY <2>5, <3>1 DEF e, last
  <2> QED
    BY <2>2, <2>3, <2>4, <2>5
<1>2. odd # Nil /\ "valid-calendar-data" # Nil /\ odd \in Preconditions
      /\ "valid-calendar-data" \in Preconditions
  <2>1. Nil \notin Preconditions
    BY BodiesAssumption
  <2> QED
    BY <2>1 DEF Preconditions
<1>3. Right(comp) <=> a /\ b /\ c
  BY DEF Right
<1> HIDE DEF a, b, c, odd
<1>4. ComponentError(comp, Nil) = Nil <=> Right(comp)
  BY <1>1, <1>2, <1>3
<1>5. ASSUME NEW uid, NEW kind, Item(uid, kind) # Nil
      PROVE  ComponentError(comp, Item(uid, kind)) = Nil <=>
               Right(comp) /\ kind = KindByComponent[comp.name] /\ uid = comp.uid
  <2>1. Item(uid, kind).kind = kind /\ Item(uid, kind).uid = uid
    BY DEF Item
  <2> QED
    BY <1>1, <1>2, <1>3, <1>5, <2>1
<1>6. \A item : ComponentError(comp, item) \in Preconditions \cup {Nil}
  BY <1>1, <1>2
<1> QED
  BY <1>4, <1>5, <1>6

(* The components other than time zones are one item. *)
OneItem(comps) ==
  LET items == {c \in ToSet(comps) : c.name # "VTIMEZONE"} IN
    /\ items # {}
    /\ \E uid \in {c.uid : c \in items} \ {Nil} : \E k \in DOMAIN KindByComponent :
         \A c \in items : c.name = k /\ c.uid = uid /\ c.stamp

(* What is read comes to an item or to a reason, and the item is that of   *)
(* every component.                                                        *)
LEMMA ReadFacts ==
  ASSUME NEW comps \in Seq(CalendarComp)
  PROVE  /\ (ReadComponents(comps).rejected = Nil) = OneItem(comps)
         /\ ReadComponents(comps).rejected = Nil =>
              \A c \in {c \in ToSet(comps) : c.name # "VTIMEZONE"} :
                ReadComponents(comps).uid = c.uid /\ ReadComponents(comps).kind = KindByComponent[c.name]
<1> DEFINE read == {i \in DOMAIN comps : comps[i].name # "VTIMEZONE"}
           first == comps[Min(read)]
           item == Item(first.uid, KindByComponent[first.name])
           wrong == {i \in read : ComponentError(comps[i], item) # Nil}
           items == {c \in ToSet(comps) : c.name # "VTIMEZONE"}
           why == ComponentError(first, Nil)
           answered == ReadComponents(comps)
<1>1. \A i \in DOMAIN comps : i \in Nat /\ comps[i] \in CalendarComp
  OBVIOUS
<1>2. read \in SUBSET Nat /\ wrong \in SUBSET Nat
  BY <1>1
<1>3. items = {comps[i] : i \in read}
  BY DEF ToSet
<1>4. read # {} => Min(read) \in read
  <2> HIDE DEF read
  <2> QED
    BY <1>2, MinIn
<1>5. wrong # {} => Min(wrong) \in wrong
  <2> HIDE DEF wrong
  <2> QED
    BY <1>2, MinIn
<1>6. \A x \in Preconditions : Rejection(x).rejected # Nil
  BY BodiesAssumption DEF Rejection
<1>7. /\ read = {} => answered = Rejection("valid-calendar-object-resource")
      /\ read # {} /\ why # Nil => answered = Rejection(why)
      /\ read # {} /\ why = Nil /\ wrong = {} => answered = item
      /\ read # {} /\ why = Nil /\ wrong # {} => answered = Rejection(ComponentError(comps[Min(wrong)], item))
  <2> DEFINE a == read = {}
             b == why # Nil
             x == Rejection("valid-calendar-object-resource")
             y == Rejection(why)
             z == IF wrong = {} THEN item ELSE Rejection(ComponentError(comps[Min(wrong)], item))
  <2>1. answered = CASE a -> x [] ~a /\ b -> y [] OTHER -> z
    BY DEF ReadComponents
  <2> HIDE DEF a, b, x, y, z, answered
  <2>2. CASE a
    <3>1. answered = x
      BY <2>1, <2>2, Zenon
    <3> QED
      BY <2>2, <3>1 DEF a, x
  <2>3. CASE ~a /\ b
    <3>1. answered = y
      BY <2>1, <2>3, Zenon
    <3> QED
      BY <2>3, <3>1 DEF a, b, y
  <2>4. CASE ~a /\ ~b
    <3>1. answered = z
      BY <2>1, <2>4, Zenon
    <3> QED
      BY <2>4, <3>1 DEF a, b, z
  <2> QED
    BY <2>2, <2>3, <2>4
<1>8. \A i \in read : i \in DOMAIN comps /\ comps[i] \in CalendarComp
  BY <1>1
<1>9. OneItem(comps) <=> /\ items # {}
                         /\ \E uid \in {c.uid : c \in items} \ {Nil} : \E k \in DOMAIN KindByComponent :
                              \A c \in items : c.name = k /\ c.uid = uid /\ c.stamp
  BY DEF OneItem
<1> HIDE DEF read, wrong, items, answered, item, why, first
<1>10. OneItem(comps) \in BOOLEAN
  BY DEF OneItem
<1>11. CASE read = {}
  <2>1. items = {}
    BY <1>3, <1>11
  <2>2. answered.rejected # Nil
    BY <1>6, <1>7, <1>11 DEF Preconditions
  <2> QED
    BY <1>9, <1>10, <2>1, <2>2 DEF answered
<1>12. CASE read # {} /\ why # Nil
  <2>1. first \in items /\ first \in CalendarComp
    BY <1>3, <1>4, <1>8, <1>12 DEF first
  <2>2. why \in Preconditions /\ ~Right(first)
    BY <1>12, <2>1, ComponentFacts DEF why
  <2>3. answered.rejected # Nil
    BY <1>6, <1>7, <1>12, <2>2
  <2>4. ~OneItem(comps)
    BY <1>9, <2>1, <2>2 DEF Right
  <2> QED
    BY <1>10, <2>3, <2>4 DEF answered
<1>13. CASE read # {} /\ why = Nil
  <2>1. first \in items /\ first \in CalendarComp
    BY <1>3, <1>4, <1>8, <1>13 DEF first
  <2>2. Right(first)
    BY <1>13, <2>1, ComponentFacts DEF why
  <2>3. item # Nil /\ item.rejected = Nil /\ item.uid = first.uid /\ item.kind = KindByComponent[first.name]
    <3>1. first.uid \in STRING /\ KindByComponent[first.name] \in ItemKinds
      BY <2>1, <2>2, KindFacts DEF Right, CalendarComp
    <3>2. item \in [rejected: {Nil}, uid: STRING, kind: ItemKinds]
      BY <3>1 DEF item, Item
    <3>3. item.rejected = Nil /\ item.uid = first.uid /\ item.kind = KindByComponent[first.name]
      BY DEF item, Item
    <3> QED
      BY <3>2, <3>3, BodiesAssumption
  <2>4. ASSUME NEW i \in read
        PROVE  i \notin wrong <=> /\ Right(comps[i])
                                  /\ KindByComponent[first.name] = KindByComponent[comps[i].name]
                                  /\ first.uid = comps[i].uid
    <3>1. i \notin wrong <=> ComponentError(comps[i], item) = Nil
      BY DEF wrong
    <3>2. comps[i] \in CalendarComp
      BY <1>8
    <3>3. Item(first.uid, KindByComponent[first.name]) # Nil
      BY <2>3 DEF item
    <3> QED
      BY <3>1, <3>2, <3>3, ComponentFacts DEF item
  <2>5. wrong \subseteq read
    BY DEF wrong
  <2>6. CASE wrong = {}
    <3>1. answered = item
      BY <1>7, <1>13, <2>6
    <3>2. ASSUME NEW c \in items
          PROVE  Right(c) /\ KindByComponent[first.name] = KindByComponent[c.name] /\ first.uid = c.uid
      BY <1>3, <2>4, <2>6
    <3>3. ASSUME NEW c \in items PROVE c.name = first.name /\ c.uid = first.uid /\ c.stamp
      BY <2>2, <3>2, KindFacts DEF Right
    <3>4. OneItem(comps)
      <4>1. first.uid \in {c.uid : c \in items} \ {Nil} /\ first.name \in DOMAIN KindByComponent
        BY <2>1, <2>2 DEF Right
      <4> QED
        BY <1>9, <2>1, <3>3, <4>1
    <3> QED
      BY <1>10, <2>3, <3>1, <3>2, <3>4 DEF answered, items
  <2>7. CASE wrong # {}
    <3>1. PICK i \in read : i = Min(wrong) /\ i \in wrong
      BY <1>5, <2>5, <2>7
    <3>2. answered = Rejection(ComponentError(comps[i], item))
      BY <1>7, <1>13, <2>7, <3>1
    <3>3. ComponentError(comps[i], item) \in Preconditions
      <4>1. ComponentError(comps[i], item) # Nil
        BY <3>1 DEF wrong
      <4>2. comps[i] \in CalendarComp
        BY <1>8
      <4> QED
        BY <4>1, <4>2, ComponentFacts
    <3>4. answered.rejected # Nil
      BY <1>6, <3>2, <3>3
    <3>5. comps[i] \in items
      BY <1>3
    <3>6. ~OneItem(comps)
      <4> SUFFICES ASSUME OneItem(comps) PROVE FALSE
        OBVIOUS
      <4>1. PICK uid \in {c.uid : c \in items} \ {Nil} : \E k \in DOMAIN KindByComponent :
                \A c \in items : c.name = k /\ c.uid = uid /\ c.stamp
        BY <1>9
      <4>2. PICK k \in DOMAIN KindByComponent : \A c \in items : c.name = k /\ c.uid = uid /\ c.stamp
        BY <4>1
      <4>3. uid # Nil
        BY <4>1
      <4> QED
        BY <2>1, <2>4, <3>1, <3>5, <4>2, <4>3 DEF Right
    <3> QED
      BY <1>10, <3>4, <3>6 DEF answered
  <2> QED
    BY <2>6, <2>7
<1> QED
  BY <1>11, <1>12, <1>13

CalendarObject == [comps: Seq(CalendarComp), versioned: BOOLEAN, method: BOOLEAN]

(* A calendar body is admitted as one complete object of one item.         *)
LEMMA ItemBodies ==
  ASSUME NEW body \in Seq(CalendarObject \cup {Junk})
  PROVE  /\ (ParseItemBody(body).rejected = Nil)
            = (/\ Len(body) = 1 /\ Junk \notin ToSet(body)
               /\ body[1].versioned /\ ~body[1].method /\ OneItem(body[1].comps))
         /\ ParseItemBody(body).rejected = Nil =>
              \A c \in {c \in ToSet(body[1].comps) : c.name # "VTIMEZONE"} :
                /\ ParseItemBody(body).uid = c.uid
                /\ ParseItemBody(body).kind = KindByComponent[c.name]
<1> DEFINE answered == ParseItemBody(body)
           items == {c \in ToSet(body[1].comps) : c.name # "VTIMEZONE"}
           Right1 == Len(body) = 1 /\ Junk \notin ToSet(body)
           v == body[1].versioned
           m == body[1].method
<1>1. \A x \in Preconditions : Rejection(x).rejected # Nil
  BY BodiesAssumption DEF Rejection
<1>2. SingleObject(body) <=> Right1
  <2>1. Len(body) = 1 => ToSet(body) = {body[1]}
    BY DEF ToSet
  <2> QED
    BY <2>1 DEF SingleObject
<1>3. Right1 => body[1] \in CalendarObject
  BY DEF ToSet
<1>4. "valid-calendar-data" \in Preconditions /\ "valid-calendar-object-resource" \in Preconditions
  BY DEF Preconditions
<1>5. /\ ~Right1 => answered = Rejection("valid-calendar-data")
      /\ Right1 /\ ~v => answered = Rejection("valid-calendar-data")
      /\ Right1 /\ v /\ m => answered = Rejection("valid-calendar-object-resource")
      /\ Right1 /\ v /\ ~m => answered = ReadComponents(body[1].comps)
  <2> DEFINE x == Rejection("valid-calendar-data")
             y == Rejection("valid-calendar-object-resource")
             z == ReadComponents(body[1].comps)
  <2>1. answered = IF ~SingleObject(body) THEN x
                   ELSE CASE ~v -> x [] v /\ m -> y [] OTHER -> z
    BY DEF ParseItemBody
  <2> HIDE DEF x, y, z, v, m, answered
  <2>2. ~SingleObject(body) => answered = x
    BY <2>1
  <2>3. SingleObject(body) => answered = CASE ~v -> x [] v /\ m -> y [] OTHER -> z
    BY <2>1
  <2>4. ASSUME SingleObject(body), ~v PROVE answered = x
    BY <2>3, <2>4, Zenon
  <2>5. ASSUME SingleObject(body), v, m PROVE answered = y
    BY <2>3, <2>5, Zenon
  <2>6. ASSUME SingleObject(body), v, ~m PROVE answered = z
    BY <2>3, <2>6, Zenon
  <2> QED
    BY <1>2, <2>2, <2>4, <2>5, <2>6 DEF x, y, z
<1> HIDE DEF answered, items, Right1, v, m
<1>6. CASE ~Right1 \/ ~v \/ m
  <2>1. answered.rejected # Nil
    BY <1>1, <1>4, <1>5, <1>6
  <2> QED
    BY <1>6, <2>1 DEF answered, Right1, v, m
<1>7. CASE Right1 /\ v /\ ~m
  <2>1. answered = ReadComponents(body[1].comps)
    BY <1>5, <1>7
  <2>2. body[1].comps \in Seq(CalendarComp)
    BY <1>3, <1>7 DEF CalendarObject
  <2>3. (answered.rejected = Nil) = OneItem(body[1].comps)
    BY <2>1, <2>2, ReadFacts
  <2>4. answered.rejected = Nil =>
          \A c \in items : answered.uid = c.uid /\ answered.kind = KindByComponent[c.name]
    BY <2>1, <2>2, ReadFacts DEF items
  <2> QED
    BY <1>7, <2>3, <2>4 DEF answered, items, Right1, v, m
<1> QED
  BY <1>6, <1>7

CardLine == [folded: BOOLEAN, text: STRING]

(* The card decoded of a body with nothing around it ends with the last    *)
(* line of the body, unless a line before spells END otherwise.            *)
LEMMA CardEnds ==
  ASSUME NEW lines \in Seq(CardLine), IsSingleCard(lines), Decodes(lines)
  PROVE  LET end == CardEnd(lines)
             last == Max(Told(lines))
         IN /\ lines[Min(Told(lines))].text = "BEGIN"
            /\ end = last \/ lines[end].text # "END"
            /\ end = last =>
                 Told(lines) \cap Read(lines) \subseteq Decoded(lines) \cup {Min(Read(lines)), end}
<1> DEFINE told == Told(lines)
           read == Read(lines)
           ends == {i \in told : lines[i].text = "END"}
           begin == Min(read)
           end == CardEnd(lines)
           last == Max(told)
<1>1. Len(lines) \in Nat /\ DOMAIN lines = 1..Len(lines)
  OBVIOUS
<1>2. told # {} /\ lines[Min(told)].text = "BEGIN" /\ ends = {last}
  BY DEF IsSingleCard
<1>3. Endings(lines) # {} /\ read # {} /\ Endings(lines) \subseteq read \ {begin}
  BY DEF Decodes, Endings
<1>4. Decoded(lines) = {i \in read : begin < i /\ i < end}
  BY DEF Decoded
<1>5. /\ \A i \in told : i \in DOMAIN lines
      /\ \A i \in DOMAIN lines : ~lines[i].folded /\ lines[i].text # "" => i \in told
  BY Zenon DEF Told
<1>6. /\ \A i \in read : i \in DOMAIN lines
      /\ \A i \in read : i = 1 \/ ~lines[i].folded
  BY Zenon DEF Read
<1> HIDE DEF told, read, ends
<1>7. told \in SUBSET (1..Len(lines))
  BY <1>1, <1>5, Zenon
<1>8. read \in SUBSET Nat /\ told \in SUBSET Nat
  <2>1. \A i \in DOMAIN lines : i \in Nat
    BY <1>1
  <2> QED
    BY <1>5, <1>6, <2>1, Zenon
<1>9. begin \in read /\ \A i \in read : begin <= i
  BY <1>3, <1>8, MinIn DEF begin
<1>10. end \in Endings(lines)
  <2>1. Endings(lines) \in SUBSET Nat
    BY <1>3, <1>8
  <2> QED
    BY <1>3, <2>1, MinIn DEF CardEnd
<1>11. last \in told /\ \A i \in told : i <= last
  BY <1>1, <1>2, <1>7, MaxIn DEF last
<1> HIDE DEF begin, end, last
<1>12. end \in read /\ end # begin
  BY <1>3, <1>10
<1>13. ~lines[end].folded
  <2>1. begin <= end /\ begin \in 1..Len(lines) /\ end \in 1..Len(lines)
    <3>1. begin \in DOMAIN lines /\ end \in DOMAIN lines /\ begin <= end
      BY <1>6, <1>9, <1>12, Zenon
    <3> QED
      BY <1>1, <3>1
  <2>2. end # 1
    BY <1>1, <1>12, <2>1
  <2> QED
    BY <1>6, <1>12, <2>2, Zenon
<1>14. end = last \/ lines[end].text # "END"
  <2> SUFFICES ASSUME lines[end].text = "END" PROVE end = last
    OBVIOUS
  <2>1. lines[end].text # ""
    OBVIOUS
  <2>2. end \in told
    BY <1>5, <1>6, <1>12, <1>13, <2>1, Zenon
  <2> QED
    BY <1>2, <2>2 DEF ends
<1>15. ASSUME end = last, NEW i \in told, i \in read PROVE i \in Decoded(lines) \cup {begin, end}
  <2>1. i <= end /\ begin <= i /\ i \in Nat /\ begin \in Nat /\ end \in Nat
    BY <1>8, <1>9, <1>11, <1>12, <1>15
  <2> QED
    BY <1>4, <1>15, <2>1
<1> QED
  BY <1>2, <1>14, <1>15 DEF told, read, begin, end, last

(* The value found for a property is one of the lines decoded.             *)
LEMMA FoundIn ==
  ASSUME NEW lines \in Seq(CardLine), NEW texts, ValueIn(lines, texts) # Nil
  PROVE  \E i \in Decoded(lines) :
           Unfolded(lines, i) = ValueIn(lines, texts) /\ Unfolded(lines, i)[1] \in texts
<1> DEFINE found == {i \in Decoded(lines) : Unfolded(lines, i)[1] \in texts}
<1>1. ValueIn(lines, texts) = IF found = {} THEN Nil ELSE Unfolded(lines, Min(found))
  BY DEF ValueIn
<1>2. Decoded(lines) \subseteq Nat
  <2>1. \A i \in Decoded(lines) : i \in DOMAIN lines
    BY Zenon DEF Decoded, Read
  <2>2. \A i \in DOMAIN lines : i \in Nat
    OBVIOUS
  <2> QED
    BY <2>1, <2>2
<1>3. found # {} /\ found \in SUBSET Nat
  BY <1>1, <1>2
<1>4. Min(found) \in found
  <2> HIDE DEF found
  <2> QED
    BY <1>3, MinIn
<1> QED
  BY <1>1, <1>3, <1>4

(* A card body that is admitted holds the card it is known by. *)
LEMMA CardBodies ==
  ASSUME NEW lines \in Seq(CardLine), ParseCardBody(lines).rejected = Nil
  PROVE  /\ IsSingleCard(lines) /\ Decodes(lines)
         /\ \E i \in Decoded(lines) : /\ Unfolded(lines, i) = ParseCardBody(lines).uid
                                      /\ ParseCardBody(lines).uid[1] \in UIDs
         /\ \E i \in Decoded(lines) : Unfolded(lines, i)[1] = "FN"
         /\ \E i \in Decoded(lines) : Unfolded(lines, i) \in VCardVersions
<1> DEFINE answered == ParseCardBody(lines)
           version == ValueIn(lines, Versions)
           uid == ValueIn(lines, UIDs)
           fn == ValueIn(lines, {"FN"})
           single == IsSingleCard(lines) /\ Decodes(lines)
<1>1. /\ Rejection("valid-address-data").rejected # Nil
      /\ Rejection("supported-address-data").rejected # Nil
  BY BodiesAssumption DEF Rejection, Preconditions
<1>2. /\ single /\ version # Nil /\ version \in VCardVersions /\ uid # Nil /\ fn # Nil
      /\ answered = Item(uid, "card")
  <2> DEFINE x == Rejection("valid-address-data")
             y == Rejection("supported-address-data")
             z == IF fn = Nil \/ uid = Nil THEN x ELSE Item(uid, "card")
             none == version = Nil
             old == version \notin VCardVersions
  <2>1. answered = IF ~single THEN x ELSE CASE none -> x [] ~none /\ old -> y [] OTHER -> z
    BY DEF ParseCardBody
  <2>2. x.rejected # Nil /\ y.rejected # Nil /\ answered.rejected = Nil
    BY <1>1
  <2> HIDE DEF x, y, z, single, none, old, answered
  <2>3. single
    BY <2>1, <2>2
  <2>4. answered = CASE none -> x [] ~none /\ old -> y [] OTHER -> z
    BY <2>1, <2>3
  <2>5. CASE none
    <3>1. answered = x
      BY <2>4, <2>5, Zenon
    <3> QED
      BY <2>2, <3>1
  <2>6. CASE old /\ ~none
    <3>1. answered = y
      BY <2>4, <2>6, Zenon
    <3> QED
      BY <2>2, <3>1
  <2>7. CASE ~old /\ ~none
    <3>1. answered = z
      BY <2>4, <2>7, Zenon
    <3>2. ~(fn = Nil \/ uid = Nil)
      BY <2>2, <3>1 DEF z
    <3> QED
      BY <2>3, <2>7, <3>1, <3>2 DEF z, none, old
  <2> QED
    BY <2>5, <2>6, <2>7
<1>3. answered.uid = uid
  BY <1>2 DEF Item
<1> HIDE DEF version, uid, fn, answered
<1>4. \E i \in Decoded(lines) : Unfolded(lines, i) = uid /\ Unfolded(lines, i)[1] \in UIDs
  BY <1>2, FoundIn DEF uid
<1>5. \E i \in Decoded(lines) : Unfolded(lines, i)[1] = "FN"
  BY <1>2, FoundIn DEF fn
<1>6. \E i \in Decoded(lines) : Unfolded(lines, i) = version
  BY <1>2, FoundIn DEF version
<1> QED
  BY <1>2, <1>3, <1>4, <1>5, <1>6 DEF answered

(* A body asked about, and the answer there is to it. *)
BodiesInv ==
  /\ asked.about = "body"
  /\ \/ asked.server = "caldav" /\ asked.body \in Seq(CalendarObject \cup {Junk})
     \/ asked.server = "carddav" /\ asked.body \in Seq(CardLine)
  /\ \/ answer = Nil
     \/ asked.server = "caldav" /\ answer = ParseItemBody(asked.body)
     \/ asked.server = "carddav" /\ answer = ParseCardBody(asked.body)

(* Every answer about a body is that of the parser of its server. *)
LEMMA Admitting == BodiesSpec => []BodiesInv
<1>1. BodiesInit => BodiesInv
  <2> SUFFICES ASSUME BodiesInit PROVE BodiesInv
    OBVIOUS
  <2> DEFINE ItemsAsked == [about: {"body"}, server: {"caldav"}, body: Seq(CalendarObject \cup {Junk})]
             CardsAsked == [about: {"body"}, server: {"carddav"}, body: Seq(CardLine)]
  <2>1. answer = Nil /\ asked \in ItemsAsked \cup CardsAsked
    BY DEF BodiesInit, CalendarObject, CalendarComp, CardLine
  <2>2. CASE asked \in ItemsAsked
    BY <2>1, <2>2 DEF BodiesInv
  <2>3. CASE asked \in CardsAsked
    BY <2>1, <2>3 DEF BodiesInv
  <2> QED
    BY <2>1, <2>2, <2>3
<1>2. BodiesInv /\ [Admit]_answering => BodiesInv'
  <2> SUFFICES ASSUME BodiesInv, [Admit]_answering PROVE BodiesInv'
    OBVIOUS
  <2>1. CASE Admit
    BY <2>1 DEF BodiesInv, Admit, Answers
  <2>2. CASE UNCHANGED answering
    BY <2>2 DEF BodiesInv, answering
  <2> QED
    BY <2>1, <2>2
<1> QED
  BY <1>1, <1>2, PTL DEF BodiesSpec

(* What is stored is what is seen, whatever the body and however long it   *)
(* is: a calendar body is admitted exactly when it is one complete object  *)
(* of one item; a card body only with its UID, a name and a version in the *)
(* card decoded of it, and with nothing of meaning after that card unless  *)
(* its END is one the envelope check does not see.                         *)
THEOREM StoredSeen == BodiesSpec => []StoredIsSeen
<1>1. BodiesInv => StoredIsSeen
  <2> SUFFICES ASSUME BodiesInv, Answered("body") PROVE StoredIsSeen
    BY DEF StoredIsSeen
  <2>1. CASE asked.server = "caldav"
    <3>1. asked.body \in Seq(CalendarObject \cup {Junk}) /\ answer = ParseItemBody(asked.body)
      BY <2>1 DEF BodiesInv, Answered
    <3> DEFINE items == {c \in ToSet(asked.body[1].comps) : c.name # "VTIMEZONE"}
               One == /\ Len(asked.body) = 1 /\ Junk \notin ToSet(asked.body)
                      /\ asked.body[1].versioned /\ ~asked.body[1].method
                      /\ items # {}
                      /\ \E uid \in {c.uid : c \in items} \ {Nil} : \E k \in DOMAIN KindByComponent :
                           \A c \in items : c.name = k /\ c.uid = uid /\ c.stamp
    <3>2. One = (/\ Len(asked.body) = 1 /\ Junk \notin ToSet(asked.body)
                 /\ asked.body[1].versioned /\ ~asked.body[1].method /\ OneItem(asked.body[1].comps))
      BY DEF OneItem
    <3>3. (answer.rejected = Nil) = One
      <4> HIDE DEF One
      <4> QED
        BY <3>1, <3>2, ItemBodies
    <3>4. answer.rejected = Nil =>
            \A c \in items : answer.uid = c.uid /\ answer.kind = KindByComponent[c.name]
      BY <3>1, ItemBodies
    <3> HIDE DEF One
    <3>5. (answer.rejected = Nil) = One
          /\ (answer.rejected = Nil =>
                \A c \in items : answer.uid = c.uid /\ answer.kind = KindByComponent[c.name])
      BY <3>3, <3>4
    <3> HIDE DEF items
    <3> QED
      BY <2>1, <3>5 DEF StoredIsSeen, One, items
  <2>2. CASE asked.server = "carddav"
    <3>1. asked.body \in Seq(CardLine) /\ answer = ParseCardBody(asked.body)
      BY <2>2 DEF BodiesInv, Answered
    <3> DEFINE lines == asked.body
               end == CardEnd(lines)
               last == Max(Told(lines))
    <3>2. ASSUME answer.rejected = Nil
          PROVE  /\ lines[Min(Told(lines))].text = "BEGIN"
                 /\ end = last \/ lines[end].text # "END"
                 /\ end = last =>
                      Told(lines) \cap Read(lines) \subseteq Decoded(lines) \cup {Min(Read(lines)), end}
      BY <3>1, <3>2, CardBodies, CardEnds
    <3>3. ASSUME answer.rejected = Nil
          PROVE  /\ \E i \in Decoded(lines) : Unfolded(lines, i) = answer.uid /\ answer.uid[1] \in UIDs
                 /\ \E i \in Decoded(lines) : Unfolded(lines, i)[1] = "FN"
                 /\ \E i \in Decoded(lines) : Unfolded(lines, i) \in VCardVersions
      BY <3>1, <3>3, CardBodies
    <3> QED
      BY <2>2, <3>2, <3>3 DEF StoredIsSeen
  <2> QED
    BY <2>1, <2>2 DEF BodiesInv
<1> QED
  BY <1>1, Admitting, PTL

---------------------------------------------------------------------------
(* Agendas: what the rules, the overrides and the limits come to. *)

(* Windows with both ends. *)
Bounded == {w \in [start: Int, end: Int] : w.start < w.end}

(* A span of a duration overlaps a window that it begins before the end of *)
(* and reaches into.                                                       *)
LEMMA SpanOverlaps ==
  ASSUME NEW w \in Bounded, NEW s \in Int, NEW d \in Nat
  PROVE  IntervalOverlaps(w, Span(s, d))
           <=> s < w.end /\ (IF d > 0 THEN w.start < s + d ELSE w.start <= s)
<1> DEFINE span == Span(s, d)
<1>1. span.start = s /\ span.end = s + d
  BY DEF Span
<1>2. w.start \in Int /\ w.end \in Int /\ w.start # Nil /\ w.end # Nil
  BY TimeRangeAssumption DEF Bounded
<1> HIDE DEF span
<1>3. IntervalOverlaps(w, span) <=> /\ w.end > span.start
                                    /\ IF span.end > span.start THEN w.start < span.end
                                       ELSE w.start <= span.start
  BY <1>2 DEF IntervalOverlaps, EndAfter, StartBefore, StartAtOrBefore
<1> QED
  BY <1>1, <1>2, <1>3 DEF span

(* What a function takes finitely many arguments to is finite. *)
LEMMA ImageFinite ==
  ASSUME NEW D, IsFiniteSet(D), NEW f, f = [x \in D |-> f[x]]
  PROVE  IsFiniteSet({f[x] : x \in D})
<1>1. f \in Surjection(D, {f[x] : x \in D})
  BY DEF Surjection
<1> QED
  BY <1>1, FS_Surjection

LEMMA SequenceFinite ==
  ASSUME NEW S, NEW s \in Seq(S)
  PROVE  ToSet(s) \subseteq S /\ IsFiniteSet(ToSet(s)) /\ IsFiniteSet(DOMAIN s)
<1>1. Len(s) \in Nat /\ DOMAIN s = 1..Len(s) /\ s = [i \in DOMAIN s |-> s[i]]
  OBVIOUS
<1>2. IsFiniteSet(1..Len(s))
  <2>1. 1 \in Int /\ Len(s) \in Int
    BY <1>1
  <2> QED
    BY <2>1, FS_Interval
<1>3. ToSet(s) = {s[i] : i \in DOMAIN s}
  BY DEF ToSet
<1> QED
  BY <1>1, <1>2, <1>3, ImageFinite

LEMMA DatesFinite ==
  ASSUME NEW lists \in Seq(Seq(Int))
  PROVE  SplitDateLists(lists) \in SUBSET Int /\ IsFiniteSet(SplitDateLists(lists))
<1>1. ASSUME NEW i \in DOMAIN lists PROVE lists[i] \in Seq(Int)
  OBVIOUS
<1>2. ASSUME NEW i \in DOMAIN lists
      PROVE  ToSet(lists[i]) \subseteq Int /\ IsFiniteSet(ToSet(lists[i]))
  <2> DEFINE s == lists[i]
  <2>1. s \in Seq(Int)
    BY <1>1
  <2> HIDE DEF s
  <2>2. ToSet(s) \subseteq Int /\ IsFiniteSet(ToSet(s))
    BY <2>1, SequenceFinite
  <2> QED
    BY <2>2 DEF s
<1>3. IsFiniteSet(DOMAIN lists)
  BY SequenceFinite
<1> DEFINE f == [i \in DOMAIN lists |-> ToSet(lists[i])]
           sets == {f[i] : i \in DOMAIN lists}
<1>4. IsFiniteSet(sets)
  <2>1. f = [i \in DOMAIN lists |-> f[i]]
    OBVIOUS
  <2> HIDE DEF f
  <2> QED
    BY <1>3, <2>1, ImageFinite
<1>5. SplitDateLists(lists) = UNION sets
  BY DEF SplitDateLists
<1>6. \A T \in sets : IsFiniteSet(T) /\ T \subseteq Int
  BY <1>2
<1> HIDE DEF sets
<1>7. IsFiniteSet(UNION sets)
  BY <1>4, <1>6, FS_UNION
<1> QED
  BY <1>5, <1>6, <1>7

LEMMA SetFinite ==
  ASSUME NEW m \in Master
  PROVE  RecurrenceSet(m) \in SUBSET Int /\ IsFiniteSet(RecurrenceSet(m))
<1>1. /\ m.start \in Int /\ m.count \in Nat /\ m.step \in Nat
      /\ m.rdates \in Seq(Seq(Int)) /\ m.exdates \in Seq(Seq(Int))
  BY DEF Master
<1> DEFINE rule == 0..(m.count - 1)
           f == [k \in rule |-> m.start + k * m.step]
           ruled == {f[k] : k \in rule}
<1>2. ASSUME NEW k \in rule PROVE f[k] \in Int
  <2>1. k * m.step \in Int
    BY <1>1
  <2> QED
    BY <1>1, <2>1
<1>3. IsFiniteSet(ruled)
  <2>1. f = [k \in rule |-> f[k]]
    OBVIOUS
  <2>2. IsFiniteSet(rule)
    <3>1. 0 \in Int /\ m.count - 1 \in Int
      BY <1>1
    <3> QED
      BY <3>1, FS_Interval
  <2> HIDE DEF f, rule
  <2> QED
    BY <2>1, <2>2, ImageFinite
<1> DEFINE dates == SplitDateLists(m.rdates)
<1>4. dates \in SUBSET Int /\ IsFiniteSet(dates)
  BY <1>1, DatesFinite
<1>5. RecurrenceSet(m) = (ruled \cup dates) \ SplitDateLists(m.exdates)
  BY DEF RecurrenceSet
<1>6. ruled \subseteq Int
  BY <1>2
<1> HIDE DEF ruled, dates, f, rule
<1>7. IsFiniteSet(ruled \cup dates)
  BY <1>3, <1>4, FS_Union
<1>8. IsFiniteSet(RecurrenceSet(m))
  BY <1>5, <1>7, FS_Difference
<1> QED
  BY <1>4, <1>5, <1>6, <1>8

(* A walk that is not used up meets every occurrence before the end of the *)
(* window.                                                                 *)
LEMMA WalkFacts ==
  ASSUME NEW m \in Master, NEW w \in Bounded
  PROVE  /\ Walked(m, w) \subseteq Walk(m, w) /\ Walk(m, w) \subseteq Int
         /\ \A t : t \in Walk(m, w) <=> t \in RecurrenceSet(m) /\ t < w.end
         /\ ~Exhausted(m, w) => Walked(m, w) = Walk(m, w)
<1> DEFINE walk == Walk(m, w)
<1>1. walk \subseteq Int /\ IsFiniteSet(walk)
  <2>1. walk \in SUBSET RecurrenceSet(m)
    BY DEF Walk
  <2> QED
    BY <2>1, SetFinite, FS_Subset
<1>2. ASSUME ~Exhausted(m, w), NEW t \in walk PROVE t \in Walked(m, w)
  <2> DEFINE before == {u \in walk : u < t}
  <2>1. before \in SUBSET walk
    OBVIOUS
  <2> HIDE DEF before, walk
  <2>2. Cardinality(before) <= Cardinality(walk) /\ IsFiniteSet(before)
    BY <1>1, <2>1, FS_Subset
  <2>3. Cardinality(before) \in Nat /\ Cardinality(walk) \in Nat
    BY <1>1, <2>2, FS_CardinalityType
  <2>4. Cardinality(walk) < MaxIterations
    BY <1>2, <2>3, RecurrenceAssumption DEF Exhausted, walk
  <2>5. Cardinality(before) < MaxIterations
    BY <2>2, <2>3, <2>4, RecurrenceAssumption
  <2> QED
    BY <1>2, <2>5 DEF Walked, before, walk
<1> QED
  BY <1>1, <1>2 DEF Walk, Walked

(* What an object of an agenda is made of. *)
LEMMA ObjectFacts ==
  ASSUME NEW o \in AgendaObject
  PROVE  /\ o.kind \in {"VEVENT", "VFREEBUSY"}
         /\ o.master # Nil => o.master \in Master /\ o.kind = "VEVENT"
         /\ IsFiniteSet(DOMAIN o.overrides) /\ DOMAIN o.overrides \subseteq Int
         /\ \A rid \in DOMAIN o.overrides : o.overrides[rid] \in Override
         /\ o.overrides = [rid \in DOMAIN o.overrides |-> o.overrides[rid]]
         /\ o.kind = "VEVENT" => o.periods = {}
         /\ o.kind = "VFREEBUSY" => DOMAIN o.overrides = {} /\ o.periods \in Finite(BusyPeriod)
<1>1. CASE o.kind = "VEVENT"
  <2>1. /\ o.master \in Master \cup {Nil} /\ o.periods = {}
        /\ \E rids \in Finite(Int) : o.overrides \in [rids -> Override]
    BY <1>1 DEF AgendaObject
  <2> QED
    BY <1>1, <2>1 DEF Finite
<1>2. CASE o.kind # "VEVENT"
  <2>1. /\ o.kind = "VFREEBUSY" /\ o.master = Nil /\ o.periods \in Finite(BusyPeriod)
        /\ o.overrides \in [{} -> Override]
    BY <1>2 DEF AgendaObject
  <2>2. IsFiniteSet({})
    BY FS_EmptySet
  <2> QED
    BY <2>1, <2>2
<1> QED
  BY <1>1, <1>2


(* What the filter asks of the master, and of an override. *)
LEMMA MasterMatches ==
  ASSUME NEW m \in Master, NEW w
  PROVE  /\ ~Recurs(m) => MatchCompTimeRange(m, w) =
                            IF IntervalOverlaps(w, Span(m.start, Length(m))) THEN "in" ELSE "out"
         /\ Recurs(m) =>
              MatchCompTimeRange(m, w) =
                IF \E t \in Walked(m, w) : IntervalOverlaps(w, Span(t, Length(m))) THEN "in"
                ELSE IF Exhausted(m, w) THEN "507" ELSE "out"
<1> DEFINE plain == ~Recurs(m)
           found == \E t \in Walked(m, w) : IntervalOverlaps(w, Span(t, Length(m)))
           there == IntervalOverlaps(w, Span(m.start, Length(m)))
           gaveUp == Exhausted(m, w)
<1>1. MatchCompTimeRange(m, w) =
        CASE plain -> IF there THEN "in" ELSE "out"
          [] ~plain /\ found -> "in"
          [] OTHER -> IF gaveUp THEN "507" ELSE "out"
  BY DEF MatchCompTimeRange
<1> HIDE DEF plain, found, there, gaveUp
<1>2. CASE plain
  <2>1. MatchCompTimeRange(m, w) = IF there THEN "in" ELSE "out"
    BY <1>1, <1>2, Zenon
  <2> QED
    BY <1>2, <2>1 DEF plain, there
<1>3. CASE ~plain /\ found
  <2>1. MatchCompTimeRange(m, w) = "in"
    BY <1>1, <1>3, Zenon
  <2> QED
    BY <1>3, <2>1 DEF plain, found
<1>4. CASE ~plain /\ ~found
  <2>1. MatchCompTimeRange(m, w) = IF gaveUp THEN "507" ELSE "out"
    BY <1>1, <1>4, Zenon
  <2> QED
    BY <1>4, <2>1 DEF plain, found, gaveUp
<1> QED
  BY <1>2, <1>3, <1>4

(* The occurrences of the rule an expansion of an object carries its       *)
(* master to.                                                              *)
Carried(o, w) ==
  IF Recurs(o.master)
  THEN {t \in Walked(o.master, w) : IntervalOverlaps(w, Span(t, Length(o.master)))} ELSE {}

(* What expansion emits of an object of events. *)
LEMMA EventEmission ==
  ASSUME NEW o \in AgendaObject, o.kind = "VEVENT", NEW w \in Bounded
  PROVE  LET e == ExpandCalendar(o, w).emitted
         IN /\ e = [rid \in DOMAIN e |-> e[rid]]
            /\ \A rid : rid \in DOMAIN e <=>
                 \/ rid \in Carried(o, w)
                 \/ rid \in DOMAIN o.overrides /\ Moved(o, rid, w)
                 \/ /\ rid = Nil /\ o.master # Nil /\ ~Recurs(o.master)
                    /\ IntervalOverlaps(w, Span(o.master.start, Length(o.master)))
            /\ \A rid \in DOMAIN e \cap DOMAIN o.overrides :
                 e[rid] = OverrideInstance(o.overrides[rid])
            /\ \A rid \in DOMAIN e \ DOMAIN o.overrides :
                 e[rid] = IF rid = Nil
                          THEN Instance(o.master.start, o.master.duration, o.master.status)
                          ELSE RecurrenceInstance(o.master, rid)
<1> DEFINE masters == IF Recurs(o.master) THEN ExpandMaster(o, w) ELSE << >>
           left == LeftOver(o, w, DOMAIN masters)
           plain == Plain(o, w)
           e == ExpandCalendar(o, w).emitted
<1>1. e = Joined(Joined(masters, left), plain)
  BY DEF ExpandCalendar
<1>2. /\ DOMAIN masters = Carried(o, w)
      /\ \A rid \in DOMAIN masters :
           masters[rid] = IF rid \in DOMAIN o.overrides THEN OverrideInstance(o.overrides[rid])
                          ELSE RecurrenceInstance(o.master, rid)
  <2>1. CASE Recurs(o.master)
    BY <2>1 DEF ExpandMaster, Carried
  <2>2. CASE ~Recurs(o.master)
    <3>1. masters = << >> /\ Carried(o, w) = {}
      BY <2>2 DEF Carried
    <3> HIDE DEF masters
    <3>2. DOMAIN masters = {}
      BY <3>1
    <3> QED
      BY <3>1, <3>2
  <2> QED
    BY <2>1, <2>2
<1>3. /\ DOMAIN left = {rid \in DOMAIN o.overrides \ DOMAIN masters : Moved(o, rid, w)}
      /\ \A rid \in DOMAIN left : left[rid] = OverrideInstance(o.overrides[rid])
  BY DEF LeftOver
<1>4. /\ \A rid : rid \in DOMAIN plain <=>
           /\ rid = Nil /\ o.master # Nil /\ ~Recurs(o.master)
           /\ IntervalOverlaps(w, Span(o.master.start, Length(o.master)))
      /\ \A rid \in DOMAIN plain :
           plain[rid] = Instance(o.master.start, o.master.duration, o.master.status)
  <2>1. ASSUME o.master # Nil, ~Recurs(o.master)
        PROVE  MatchCompTimeRange(o.master, w) = "in"
                 <=> IntervalOverlaps(w, Span(o.master.start, Length(o.master)))
    <3>1. o.master \in Master
      BY <2>1, ObjectFacts
    <3> QED
      BY <2>1, <3>1, MasterMatches
  <2>2. Recurs(o.master) => o.master # Nil
    BY DEF Recurs
  <2> QED
    BY <2>1, <2>2 DEF Plain
<1>5. Nil \notin Carried(o, w) /\ Nil \notin DOMAIN o.overrides
  <2>1. Carried(o, w) \subseteq Int
    <3>1. CASE Recurs(o.master)
      <4>1. o.master \in Master
        BY <3>1, ObjectFacts DEF Recurs
      <4> QED
        BY <4>1, WalkFacts DEF Carried
    <3> QED
      BY <3>1 DEF Carried
  <2> QED
    BY <2>1, ObjectFacts, TimeRangeAssumption
<1> HIDE DEF masters, left, plain, e
<1>6. /\ DOMAIN e = DOMAIN masters \cup DOMAIN left \cup DOMAIN plain
      /\ e = [rid \in DOMAIN e |-> e[rid]]
      /\ \A rid \in DOMAIN e : e[rid] = IF rid \in DOMAIN masters THEN masters[rid]
                                     ELSE IF rid \in DOMAIN left THEN left[rid] ELSE plain[rid]
  <2> DEFINE first == Joined(masters, left)
  <2>1. /\ DOMAIN first = DOMAIN masters \cup DOMAIN left
        /\ \A rid \in DOMAIN first : first[rid] = IF rid \in DOMAIN masters THEN masters[rid] ELSE left[rid]
    BY DEF Joined
  <2> HIDE DEF first
  <2>2. /\ e = [rid \in DOMAIN first \cup DOMAIN plain |->
                 IF rid \in DOMAIN first THEN first[rid] ELSE plain[rid]]
    BY <1>1 DEF Joined, first
  <2> QED
    BY <2>1, <2>2
<1>7. \A rid : rid \in DOMAIN e <=>
                 \/ rid \in Carried(o, w)
                 \/ rid \in DOMAIN o.overrides /\ Moved(o, rid, w)
                 \/ /\ rid = Nil /\ o.master # Nil /\ ~Recurs(o.master)
                    /\ IntervalOverlaps(w, Span(o.master.start, Length(o.master)))
  BY <1>2, <1>3, <1>4, <1>6
<1>8. \A rid \in DOMAIN e \cap DOMAIN o.overrides : e[rid] = OverrideInstance(o.overrides[rid])
  BY <1>2, <1>3, <1>4, <1>5, <1>6
<1>9. \A rid \in DOMAIN e \ DOMAIN o.overrides :
        e[rid] = IF rid = Nil THEN Instance(o.master.start, o.master.duration, o.master.status)
                 ELSE RecurrenceInstance(o.master, rid)
  BY <1>2, <1>3, <1>4, <1>5, <1>6
<1> QED
  BY <1>6, <1>7, <1>8, <1>9 DEF e

---------------------------------------------------------------------------
(* Agendas: an answer is what Consult makes of the objects and the window. *)

AgendaAnswer(objs, w) ==
  [matches |-> [i \in DOMAIN objs |-> MatchObject(objs[i], w)],
   expanded |-> [i \in DOMAIN objs |-> ExpandAll(<<objs[i]>>, w)],
   busy |-> ReportFreeBusy(objs, w),
   limited |-> ReportFreeBusy([i \in DOMAIN objs |-> Shape(objs[i], w)], w)]

RecurrenceInv ==
  /\ asked \in [about: {"agenda"}, objects: Seq(AgendaObject), window: Bounded]
  /\ answer # Nil => answer = AgendaAnswer(asked.objects, asked.window)

(* Every answer about an agenda is that of its objects and its window. *)
THEOREM Consulting == RecurrenceSpec => []RecurrenceInv
<1>1. RecurrenceInit => RecurrenceInv
  BY DEF RecurrenceInit, RecurrenceInv, Bounded
<1>2. RecurrenceInv /\ [Consult]_answering => RecurrenceInv'
  BY DEF RecurrenceInv, Consult, Answers, AgendaAnswer, answering
<1> QED
  BY <1>1, <1>2, PTL DEF RecurrenceSpec

(* Of an object by itself, what its expansion emits is all there is. *)
LEMMA OneEmitted ==
  ASSUME NEW o, NEW w
  PROVE  /\ (Emitted(<<o>>, w) = {}) <=> (DOMAIN ExpandCalendar(o, w).emitted = {})
         /\ ExpandAll(<<o>>, w).refused
              <=> \/ ExpandCalendar(o, w).exhausted
                  \/ Cardinality(Emitted(<<o>>, w)) > MaxExpandedInstances
         /\ ExpandAll(<<o>>, w).refused \/ DOMAIN ExpandAll(<<o>>, w).emitted = Emitted(<<o>>, w)
<1> DEFINE objs == <<o>>
<1>1. DOMAIN objs = {1} /\ objs[1] = o
  OBVIOUS
<1> HIDE DEF objs
<1>2. Emitted(objs, w) = {1} \X DOMAIN ExpandCalendar(o, w).emitted
  BY <1>1 DEF Emitted
<1>3. ExpandAll(objs, w).refused
        <=> \/ ExpandCalendar(o, w).exhausted
            \/ Cardinality(Emitted(objs, w)) > MaxExpandedInstances
  BY <1>1 DEF ExpandAll
<1>4. ExpandAll(objs, w).refused \/ DOMAIN ExpandAll(objs, w).emitted = Emitted(objs, w)
  BY DEF ExpandAll
<1>5. (Emitted(objs, w) = {}) <=> (DOMAIN ExpandCalendar(o, w).emitted = {})
  <2> DEFINE e == DOMAIN ExpandCalendar(o, w).emitted
  <2> HIDE DEF e
  <2>1. ASSUME NEW x \in e PROVE <<1, x>> \in {1} \X e
    OBVIOUS
  <2>2. e = {} => {1} \X e = {}
    OBVIOUS
  <2> QED
    BY <1>2, <2>1, <2>2 DEF e
<1> QED
  BY <1>3, <1>4, <1>5 DEF objs

(* What the filter makes of an object of events. *)
LEMMA FilterVerdict ==
  ASSUME NEW o \in AgendaObject, o.kind = "VEVENT", NEW w
  PROVE  LET master == IF o.master = Nil THEN "out" ELSE MatchCompTimeRange(o.master, w)
         IN MatchObject(o, w) =
              IF master # "out" THEN master
              ELSE IF \E rid \in DOMAIN o.overrides : Moved(o, rid, w) THEN "in" ELSE "out"
<1> DEFINE master == IF o.master = Nil THEN "out" ELSE MatchCompTimeRange(o.master, w)
           beside == \E rid \in DOMAIN o.overrides : Moved(o, rid, w)
<1>1. MatchObject(o, w) =
        CASE o.kind # "VEVENT" -> "out"
          [] o.kind = "VEVENT" /\ master # "out" -> master
          [] OTHER -> IF beside THEN "in" ELSE "out"
  BY DEF MatchObject
<1> HIDE DEF master, beside
<1>2. CASE master # "out"
  <2>1. MatchObject(o, w) = master
    BY <1>1, <1>2, Zenon
  <2> QED
    BY <1>2, <2>1 DEF master
<1>3. CASE master = "out"
  <2>1. MatchObject(o, w) = IF beside THEN "in" ELSE "out"
    BY <1>1, <1>3, Zenon
  <2> QED
    BY <1>3, <2>1 DEF master, beside
<1> QED
  BY <1>2, <1>3

(* The two walks of one object of events agree. *)
LEMMA WalksAgree ==
  ASSUME NEW o \in AgendaObject, o.kind = "VEVENT", NEW w \in Bounded
  PROVE  LET e == DOMAIN ExpandCalendar(o, w).emitted
             exhausted == ExpandCalendar(o, w).exhausted
             verdict == MatchObject(o, w)
         IN /\ verdict \in {"507", "out", "in"}
            /\ verdict = "507" => exhausted
            /\ verdict = "out" => ~exhausted /\ e = {}
            /\ verdict = "in" => e # {}
<1> DEFINE m == o.master
           e == DOMAIN ExpandCalendar(o, w).emitted
           exhausted == ExpandCalendar(o, w).exhausted
           beside == \E rid \in DOMAIN o.overrides : Moved(o, rid, w)
           master == IF m = Nil THEN "out" ELSE MatchCompTimeRange(m, w)
           there == m # Nil /\ ~Recurs(m) /\ IntervalOverlaps(w, Span(m.start, Length(m)))
<1>1. MatchObject(o, w) = IF master # "out" THEN master ELSE IF beside THEN "in" ELSE "out"
  BY FilterVerdict
<1>2. exhausted <=> Recurs(m) /\ Exhausted(m, w)
  BY DEF ExpandCalendar
<1>3. e = {} <=> Carried(o, w) = {} /\ ~beside /\ ~there
  <2>1. \A rid : rid \in e <=> \/ rid \in Carried(o, w)
                               \/ rid \in DOMAIN o.overrides /\ Moved(o, rid, w)
                               \/ rid = Nil /\ there
    BY EventEmission
  <2> HIDE DEF e, there
  <2> QED
    BY <2>1
<1>4. /\ m = Nil => master = "out" /\ Carried(o, w) = {} /\ ~there /\ ~Recurs(m)
      /\ m # Nil /\ ~Recurs(m) => master = (IF there THEN "in" ELSE "out") /\ Carried(o, w) = {}
      /\ m # Nil /\ Recurs(m) =>
           /\ master = IF Carried(o, w) # {} THEN "in" ELSE IF Exhausted(m, w) THEN "507" ELSE "out"
           /\ ~there
  <2>1. CASE m = Nil
    BY <2>1 DEF Recurs, Carried
  <2>2. CASE m # Nil
    <3>1. m \in Master
      BY <2>2, ObjectFacts
    <3>2. CASE Recurs(m)
      <4>1. MatchCompTimeRange(m, w) =
              IF \E t \in Walked(m, w) : IntervalOverlaps(w, Span(t, Length(m))) THEN "in"
              ELSE IF Exhausted(m, w) THEN "507" ELSE "out"
        BY <3>1, <3>2, MasterMatches
      <4>2. Carried(o, w) = {t \in Walked(m, w) : IntervalOverlaps(w, Span(t, Length(m)))}
        BY <3>2 DEF Carried
      <4> QED
        BY <2>2, <3>2, <4>1, <4>2
    <3>3. CASE ~Recurs(m)
      <4>1. MatchCompTimeRange(m, w) =
              IF IntervalOverlaps(w, Span(m.start, Length(m))) THEN "in" ELSE "out"
        BY <3>1, <3>3, MasterMatches
      <4> QED
        BY <2>2, <3>3, <4>1 DEF Carried
    <3> QED
      BY <3>2, <3>3
  <2> QED
    BY <2>1, <2>2
<1> HIDE DEF m, e, exhausted, beside, master, there
<1> QED
  BY <1>1, <1>2, <1>3, <1>4 DEF e, exhausted

(* The filter and the expansion of a query agree on every object of        *)
(* events, whatever its rule, its overrides and the window.                *)
THEOREM WalkedAlike == RecurrenceSpec => []MatchIffExpands
<1>1. RecurrenceInv => MatchIffExpands
  <2> SUFFICES ASSUME RecurrenceInv, Answered("agenda"), NEW i \in DOMAIN asked.objects,
                      asked.objects[i].kind = "VEVENT"
               PROVE  CASE answer.matches[i] = "507" -> answer.expanded[i].refused
                        [] answer.matches[i] = "out" ->
                             ~answer.expanded[i].refused /\ DOMAIN answer.expanded[i].emitted = {}
                        [] answer.matches[i] = "in" ->
                             answer.expanded[i].refused \/ DOMAIN answer.expanded[i].emitted # {}
    BY DEF MatchIffExpands
  <2> DEFINE o == asked.objects[i]
             w == asked.window
             x == ExpandAll(<<o>>, w)
             e == DOMAIN ExpandCalendar(o, w).emitted
             exhausted == ExpandCalendar(o, w).exhausted
  <2>1. o \in AgendaObject /\ o.kind = "VEVENT" /\ w \in Bounded
    BY DEF RecurrenceInv
  <2>2. answer.matches[i] = MatchObject(o, w) /\ answer.expanded[i] = x
    BY DEF RecurrenceInv, AgendaAnswer, Answered
  <2> HIDE DEF o, w
  <2>3. /\ MatchObject(o, w) \in {"507", "out", "in"}
        /\ MatchObject(o, w) = "507" => exhausted
        /\ MatchObject(o, w) = "out" => ~exhausted /\ e = {}
        /\ MatchObject(o, w) = "in" => e # {}
    BY <2>1, WalksAgree
  <2>4. /\ (Emitted(<<o>>, w) = {}) <=> (e = {})
        /\ x.refused <=> exhausted \/ Cardinality(Emitted(<<o>>, w)) > MaxExpandedInstances
        /\ x.refused \/ DOMAIN x.emitted = Emitted(<<o>>, w)
    BY OneEmitted
  <2>5. e = {} => ~(Cardinality(Emitted(<<o>>, w)) > MaxExpandedInstances)
    <3>1. Cardinality({}) = 0
      BY FS_EmptySet
    <3> QED
      BY <2>4, <3>1, RecurrenceAssumption
  <2> HIDE DEF x, e, exhausted
  <2>6. CASE MatchObject(o, w) = "507"
    <3>1. answer.matches[i] = "507" /\ answer.expanded[i].refused
      BY <2>2, <2>3, <2>4, <2>6
    <3> QED
      BY <3>1
  <2>7. CASE MatchObject(o, w) = "out"
    <3>1. /\ answer.matches[i] = "out"
          /\ ~answer.expanded[i].refused /\ DOMAIN answer.expanded[i].emitted = {}
      BY <2>2, <2>3, <2>4, <2>5, <2>7
    <3> QED
      BY <3>1
  <2>8. CASE MatchObject(o, w) = "in"
    <3>1. /\ answer.matches[i] = "in"
          /\ answer.expanded[i].refused \/ DOMAIN answer.expanded[i].emitted # {}
      BY <2>2, <2>3, <2>4, <2>8
    <3> QED
      BY <3>1
  <2> QED
    BY <2>3, <2>6, <2>7, <2>8
<1> QED
  BY <1>1, Consulting, PTL

---------------------------------------------------------------------------
(* The limits. *)

(* What expansion makes of a VFREEBUSY is the object itself. *)
LEMMA FreeBusyEmission ==
  ASSUME NEW o \in AgendaObject, o.kind = "VFREEBUSY", NEW w
  PROVE  /\ DOMAIN ExpandCalendar(o, w).emitted = {Nil}
         /\ ExpandCalendar(o, w).emitted[Nil] = o
         /\ ~ExpandCalendar(o, w).exhausted
<1>1. o.master = Nil /\ DOMAIN o.overrides = {}
  BY ObjectFacts
<1>2. ~Recurs(o.master)
  BY <1>1 DEF Recurs
<1> DEFINE left == LeftOver(o, w, DOMAIN << >>)
           plain == Plain(o, w)
           none == << >>
<1>3. DOMAIN left = {}
  BY <1>1 DEF LeftOver
<1>4. DOMAIN plain = {Nil} /\ plain[Nil] = o
  BY DEF Plain
<1>5. ExpandCalendar(o, w).emitted = Joined(Joined(none, left), plain)
      /\ ~ExpandCalendar(o, w).exhausted
  BY <1>2 DEF ExpandCalendar
<1>6. DOMAIN none = {}
  OBVIOUS
<1> HIDE DEF left, plain, none
<1>7. DOMAIN Joined(none, left) = {}
  BY <1>3, <1>6 DEF Joined
<1>8. Joined(Joined(none, left), plain) = [x \in {Nil} |-> plain[x]]
  BY <1>4, <1>7 DEF Joined
<1> QED
  BY <1>4, <1>5, <1>8

(* A limited object is an object. *)
LEMMA ShapeFacts ==
  ASSUME NEW o \in AgendaObject, NEW w \in Bounded
  PROVE  LET s == Shape(o, w)
         IN /\ s \in AgendaObject /\ s.kind = o.kind /\ s.master = o.master
            /\ "periods" \in DOMAIN s
            /\ s.periods = {p \in o.periods : IntervalOverlaps(w, Span(p.start, p.end - p.start))}
            /\ DOMAIN s.overrides = {rid \in DOMAIN o.overrides : OverrideImpacts(o, rid, w)}
            /\ \A rid \in DOMAIN s.overrides : s.overrides[rid] = o.overrides[rid]
<1> DEFINE ps == {p \in o.periods : IntervalOverlaps(w, Span(p.start, p.end - p.start))}
           rids == {rid \in DOMAIN o.overrides : OverrideImpacts(o, rid, w)}
           ovs == [rid \in rids |-> o.overrides[rid]]
<1>1. o = [kind |-> o.kind, master |-> o.master, periods |-> o.periods, overrides |-> o.overrides]
  BY DEF AgendaObject
<1>2. LimitRecurrence(o, w) = [o EXCEPT !.overrides = ovs]
  BY DEF LimitRecurrence, Restrict
<1> HIDE DEF ps, ovs
<1>3. LimitRecurrence(o, w) = [kind |-> o.kind, master |-> o.master, periods |-> o.periods, overrides |-> ovs]
  BY <1>1, <1>2
<1>4. LimitFreeBusy(LimitRecurrence(o, w), w) =
        [kind |-> o.kind, master |-> o.master, periods |-> ps, overrides |-> ovs]
  <2> DEFINE r == LimitRecurrence(o, w)
  <2>1. r.periods = o.periods
    BY <1>3
  <2> HIDE DEF r
  <2>2. {p \in r.periods : IntervalOverlaps(w, Span(p.start, p.end - p.start))} = ps
    BY <2>1 DEF ps
  <2>3. LimitFreeBusy(r, w) = [r EXCEPT !.periods = ps]
    BY <2>2 DEF LimitFreeBusy
  <2> QED
    BY <1>3, <2>3 DEF r
<1>5. Shape(o, w) = [kind |-> o.kind, master |-> o.master, periods |-> ps, overrides |-> ovs]
  BY <1>4 DEF Shape
<1>6. /\ rids \in Finite(Int) /\ ovs \in [rids -> Override]
  <2>1. rids \subseteq DOMAIN o.overrides
    OBVIOUS
  <2> HIDE DEF rids
  <2>2. IsFiniteSet(rids) /\ rids \subseteq Int
    BY <2>1, ObjectFacts, FS_Subset
  <2> QED
    BY <2>1, <2>2, ObjectFacts DEF Finite, ovs
<1>7. Shape(o, w) \in AgendaObject
  <2>1. CASE o.kind = "VEVENT"
    <3>1. o.master \in Master \cup {Nil} /\ ps = {}
      BY <2>1, ObjectFacts DEF ps
    <3> QED
      BY <1>5, <1>6, <2>1, <3>1 DEF AgendaObject
  <2>2. CASE o.kind = "VFREEBUSY"
    <3>1. ps \subseteq o.periods
      BY DEF ps
    <3>2. ps \in Finite(BusyPeriod)
      BY <2>2, <3>1, ObjectFacts, FS_Subset DEF Finite
    <3>3. o.master = Nil /\ rids = {}
      BY <2>2, ObjectFacts
    <3>4. ovs \in [{} -> Override]
      BY <1>6, <3>3
    <3> QED
      BY <1>5, <2>2, <3>2, <3>3, <3>4 DEF AgendaObject
  <2> QED
    BY <2>1, <2>2, ObjectFacts
<1> QED
  BY <1>5, <1>7 DEF ps, ovs

(* An instance that does not meet the window, or has no length, keeps none *)
(* of its time.                                                            *)
LEMMA InstanceIdle ==
  ASSUME NEW w \in Bounded, NEW s \in Int, NEW d \in Nat, NEW status,
         d = 0 \/ ~IntervalOverlaps(w, Span(s, d))
  PROVE  BusyPeriodsOf(Instance(s, d, status), w) = {}
<1> DEFINE c == Instance(s, d, status)
           end == s + d
           p == [start |-> s, end |-> end, type |-> status]
           clipped == [p EXCEPT !.start = Latest(p.start, w.start), !.end = Earliest(p.end, w.end)]
<1>1. w.start \in Int /\ w.end \in Int
  BY DEF Bounded
<1>2. ~(s < w.end /\ w.start < s + d /\ d > 0)
  BY SpanOverlaps
<1>3. clipped.start = Latest(s, w.start) /\ clipped.end = Earliest(s + d, w.end)
  OBVIOUS
<1>4. Clip(p, w) = IF clipped.start < clipped.end THEN {clipped} ELSE {}
  BY DEF Clip
<1>5. BusyPeriodsOf(c, w) = {} \/ BusyPeriodsOf(c, w) = Clip(p, w)
  BY DEF BusyPeriodsOf, Instance
<1> HIDE DEF c, p, clipped
<1>6. ~(clipped.start < clipped.end)
  BY <1>1, <1>2, <1>3 DEF Latest, Earliest
<1> QED
  BY <1>4, <1>5, <1>6 DEF c

(* Expansion emits as much of a limited object of events, and what each of *)
(* it contributes to busy time is the same.                                *)
LEMMA EventsKept ==
  ASSUME NEW o \in AgendaObject, o.kind = "VEVENT", NEW w \in Bounded
  PROVE  LET s == ExpandCalendar(Shape(o, w), w)
             x == ExpandCalendar(o, w)
         IN /\ s.exhausted = x.exhausted /\ DOMAIN s.emitted = DOMAIN x.emitted
            /\ \A rid \in DOMAIN x.emitted :
                 BusyPeriodsOf(s.emitted[rid], w) = BusyPeriodsOf(x.emitted[rid], w)
<1> DEFINE s == Shape(o, w)
           e == ExpandCalendar(o, w).emitted
           f == ExpandCalendar(s, w).emitted
           Unruled(rid) == /\ rid = Nil /\ o.master # Nil /\ ~Recurs(o.master)
                         /\ IntervalOverlaps(w, Span(o.master.start, Length(o.master)))
           carried == Carried(o, w)
<1>1. /\ s \in AgendaObject /\ s.kind = "VEVENT" /\ s.master = o.master
      /\ DOMAIN s.overrides = {rid \in DOMAIN o.overrides : OverrideImpacts(o, rid, w)}
      /\ \A rid \in DOMAIN s.overrides : s.overrides[rid] = o.overrides[rid]
  BY ShapeFacts
<1> HIDE DEF s
<1>2. Carried(s, w) = carried
  BY <1>1 DEF Carried
<1>3. /\ e = [rid \in DOMAIN e |-> e[rid]]
      /\ \A rid : rid \in DOMAIN e <=>
           rid \in carried \/ (rid \in DOMAIN o.overrides /\ Moved(o, rid, w)) \/ Unruled(rid)
      /\ \A rid \in DOMAIN e \cap DOMAIN o.overrides : e[rid] = OverrideInstance(o.overrides[rid])
      /\ \A rid \in DOMAIN e \ DOMAIN o.overrides :
           e[rid] = IF rid = Nil THEN Instance(o.master.start, o.master.duration, o.master.status)
                    ELSE RecurrenceInstance(o.master, rid)
  BY EventEmission
<1>4. /\ f = [rid \in DOMAIN f |-> f[rid]]
      /\ \A rid : rid \in DOMAIN f <=>
           rid \in carried \/ (rid \in DOMAIN s.overrides /\ Moved(s, rid, w)) \/ Unruled(rid)
      /\ \A rid \in DOMAIN f \cap DOMAIN s.overrides : f[rid] = OverrideInstance(s.overrides[rid])
      /\ \A rid \in DOMAIN f \ DOMAIN s.overrides :
           f[rid] = IF rid = Nil THEN Instance(o.master.start, o.master.duration, o.master.status)
                    ELSE RecurrenceInstance(o.master, rid)
  <2> HIDE DEF carried
  <2>1. /\ f = [rid \in DOMAIN f |-> f[rid]]
        /\ \A rid : rid \in DOMAIN f <=>
             \/ rid \in Carried(s, w)
             \/ (rid \in DOMAIN s.overrides /\ Moved(s, rid, w))
             \/ /\ rid = Nil /\ s.master # Nil /\ ~Recurs(s.master)
                /\ IntervalOverlaps(w, Span(s.master.start, Length(s.master)))
        /\ \A rid \in DOMAIN f \cap DOMAIN s.overrides : f[rid] = OverrideInstance(s.overrides[rid])
    BY <1>1, EventEmission
  <2>4. \A rid \in DOMAIN f \ DOMAIN s.overrides :
           f[rid] = IF rid = Nil THEN Instance(s.master.start, s.master.duration, s.master.status)
                    ELSE RecurrenceInstance(s.master, rid)
    BY <1>1, EventEmission
  <2> HIDE DEF f
  <2>2. \A rid : rid \in DOMAIN f <=>
           rid \in carried \/ (rid \in DOMAIN s.overrides /\ Moved(s, rid, w)) \/ Unruled(rid)
    <3>1. \A rid : Unruled(rid) <=>
            /\ rid = Nil /\ s.master # Nil /\ ~Recurs(s.master)
            /\ IntervalOverlaps(w, Span(s.master.start, Length(s.master)))
      BY <1>1
    <3> HIDE DEF Unruled
    <3> QED
      BY <1>2, <2>1, <3>1
  <2>3. \A rid \in DOMAIN f \ DOMAIN s.overrides :
           f[rid] = IF rid = Nil THEN Instance(o.master.start, o.master.duration, o.master.status)
                    ELSE RecurrenceInstance(o.master, rid)
    <3>1. s.master = o.master
      BY <1>1
    <3> QED
      BY ONLY <2>4, <3>1
  <2> HIDE DEF Unruled
  <2> QED
    BY <2>1, <2>2, <2>3
<1>5. \A rid \in DOMAIN s.overrides : Moved(s, rid, w) <=> Moved(o, rid, w)
  BY <1>1 DEF Moved
<1>6. \A rid \in DOMAIN o.overrides : Moved(o, rid, w) => rid \in DOMAIN s.overrides
  BY <1>1 DEF OverrideImpacts
<1>7. ASSUME NEW rid \in DOMAIN o.overrides, rid \notin DOMAIN s.overrides, rid \in carried
      PROVE  /\ o.master # Nil /\ ~IntervalOverlaps(w, Span(rid, o.master.duration))
             /\ ~Moved(o, rid, w)
  <2>1. o.master # Nil
    BY <1>7 DEF Carried, Recurs
  <2> QED
    BY <1>1, <1>7, <2>1 DEF OverrideImpacts
<1>8. DOMAIN s.overrides \subseteq DOMAIN o.overrides /\ Nil \notin DOMAIN o.overrides
  BY <1>1, ObjectFacts, TimeRangeAssumption
<1>9. ExpandCalendar(s, w).exhausted = ExpandCalendar(o, w).exhausted
  BY <1>1 DEF ExpandCalendar
<1> HIDE DEF e, f, carried
<1>10. DOMAIN f = DOMAIN e
  BY <1>3, <1>4, <1>5, <1>6, <1>8
<1>11. ASSUME NEW rid \in DOMAIN e
       PROVE  BusyPeriodsOf(f[rid], w) = BusyPeriodsOf(e[rid], w)
  <2>1. CASE rid \in DOMAIN s.overrides
    <3>1. f[rid] = e[rid]
      BY <1>1, <1>3, <1>4, <1>8, <1>10, <2>1
    <3> QED
      BY <3>1
  <2>2. CASE rid \notin DOMAIN o.overrides
    <3>1. rid \notin DOMAIN s.overrides
      BY <1>8, <2>2
    <3>2. f[rid] = e[rid]
      BY <1>3, <1>4, <1>10, <2>2, <3>1
    <3> QED
      BY <3>2
  <2>3. CASE rid \notin DOMAIN s.overrides /\ rid \in DOMAIN o.overrides
    <3> DEFINE m == o.master
               ov == o.overrides[rid]
    <3>1. rid \in carried /\ rid # Nil
      BY <1>3, <1>6, <1>8, <2>3
    <3>2. /\ m # Nil /\ ~IntervalOverlaps(w, Span(rid, m.duration))
          /\ ~IntervalOverlaps(w, Span(ov.start, Length(ov)))
      BY <1>7, <2>3, <3>1 DEF Moved
    <3>3. f[rid] = RecurrenceInstance(m, rid)
      BY <1>4, <1>10, <2>3, <3>1
    <3>4. e[rid] = OverrideInstance(ov)
      BY <1>3, <2>3
    <3>5. ov \in Override /\ m \in Master /\ rid \in Int
      BY <2>3, <3>2, ObjectFacts
    <3>6. ov.start \in Int /\ ov.duration \in Nat /\ m.duration \in Nat
      BY <3>5 DEF Override, Master
    <3> HIDE DEF m, ov
    <3>7. BusyPeriodsOf(f[rid], w) = {}
      BY <3>2, <3>3, <3>5, <3>6, InstanceIdle DEF RecurrenceInstance
    <3>8. ov.duration = 0 \/ ~IntervalOverlaps(w, Span(ov.start, ov.duration))
      BY <3>2, <3>6 DEF Length, Endless
    <3>9. BusyPeriodsOf(e[rid], w) = {}
      BY <3>4, <3>6, <3>8, InstanceIdle DEF OverrideInstance
    <3> QED
      BY <3>7, <3>9
  <2> QED
    BY <2>1, <2>2, <2>3
<1> QED
  BY <1>9, <1>10, <1>11 DEF s, e, f

(* A period that does not meet the window is clipped away. *)
LEMMA ClippedAway ==
  ASSUME NEW p \in BusyPeriod, NEW w \in Bounded,
         ~IntervalOverlaps(w, Span(p.start, p.end - p.start))
  PROVE  Clip(p, w) = {}
<1> DEFINE span == Span(p.start, p.end - p.start)
           clipped == [p EXCEPT !.start = Latest(p.start, w.start), !.end = Earliest(p.end, w.end)]
<1>1. p.start \in Int /\ p.end \in Int
  BY DEF BusyPeriod
<1>2. w.start \in Int /\ w.end \in Int /\ w.start # Nil /\ w.end # Nil
  BY TimeRangeAssumption DEF Bounded
<1>3. span.start = p.start /\ span.end = p.end
  BY <1>1 DEF Span
<1>4. clipped.start = Latest(p.start, w.start) /\ clipped.end = Earliest(p.end, w.end)
  BY DEF BusyPeriod
<1>5. Clip(p, w) = IF clipped.start < clipped.end THEN {clipped} ELSE {}
  BY DEF Clip
<1> HIDE DEF span, clipped
<1>6. ~IntervalOverlaps(w, span)
  BY DEF span
<1>7. ~(p.start < w.end /\ w.start < p.end /\ p.start < p.end)
  BY <1>1, <1>2, <1>3, <1>6 DEF IntervalOverlaps, EndAfter, StartBefore
<1>8. ~(clipped.start < clipped.end)
  BY <1>1, <1>2, <1>4, <1>7 DEF Latest, Earliest
<1> QED
  BY <1>5, <1>8

(* A limited VFREEBUSY contributes the same periods. *)
LEMMA PeriodsKept ==
  ASSUME NEW o \in AgendaObject, o.kind = "VFREEBUSY", NEW w \in Bounded
  PROVE  BusyPeriodsOf(Shape(o, w), w) = BusyPeriodsOf(o, w)
<1> DEFINE s == Shape(o, w)
           Busy(c) == UNION {Clip(p, w) : p \in {p \in c.periods : p.type # "free"}}
<1>1. /\ "periods" \in DOMAIN s
      /\ s.periods = {p \in o.periods : IntervalOverlaps(w, Span(p.start, p.end - p.start))}
  BY ShapeFacts
<1>2. "periods" \in DOMAIN o /\ o.periods \subseteq BusyPeriod
  BY ObjectFacts DEF AgendaObject, Finite
<1> HIDE DEF s
<1>3. BusyPeriodsOf(s, w) = Busy(s)
  BY <1>1 DEF BusyPeriodsOf
<1>4. BusyPeriodsOf(o, w) = Busy(o)
  BY <1>2 DEF BusyPeriodsOf
<1>5. \A p \in o.periods : p \in s.periods \/ Clip(p, w) = {}
  BY <1>1, <1>2, ClippedAway
<1>6. s.periods \subseteq o.periods
  BY <1>1
<1>7. Busy(s) \subseteq Busy(o)
  BY <1>6
<1>8. Busy(o) \subseteq Busy(s)
  BY <1>5
<1> QED
  BY <1>3, <1>4, <1>7, <1>8 DEF s

(* Of an object and of the limited object, expansion emits as much, and    *)
(* what each of it contributes to busy time is the same.                   *)
LEMMA ShapeKeeps ==
  ASSUME NEW o \in AgendaObject, NEW w \in Bounded
  PROVE  LET s == ExpandCalendar(Shape(o, w), w)
             x == ExpandCalendar(o, w)
         IN /\ s.exhausted = x.exhausted /\ DOMAIN s.emitted = DOMAIN x.emitted
            /\ \A rid \in DOMAIN x.emitted :
                 BusyPeriodsOf(s.emitted[rid], w) = BusyPeriodsOf(x.emitted[rid], w)
<1>1. CASE o.kind = "VEVENT"
  BY <1>1, EventsKept
<1>2. CASE o.kind = "VFREEBUSY"
  <2> DEFINE shape == Shape(o, w)
  <2>1. shape \in AgendaObject /\ shape.kind = "VFREEBUSY"
    BY <1>2, ShapeFacts
  <2> HIDE DEF shape
  <2>2. /\ DOMAIN ExpandCalendar(shape, w).emitted = {Nil}
        /\ ExpandCalendar(shape, w).emitted[Nil] = shape
        /\ ~ExpandCalendar(shape, w).exhausted
    BY <2>1, FreeBusyEmission
  <2>3. /\ DOMAIN ExpandCalendar(o, w).emitted = {Nil}
        /\ ExpandCalendar(o, w).emitted[Nil] = o
        /\ ~ExpandCalendar(o, w).exhausted
    BY <1>2, FreeBusyEmission
  <2>4. ExpandCalendar(shape, w).exhausted = ExpandCalendar(o, w).exhausted
    BY <2>2, <2>3 DEF ExpandCalendar
  <2>5. BusyPeriodsOf(shape, w) = BusyPeriodsOf(o, w)
    BY <1>2, PeriodsKept DEF shape
  <2> QED
    BY <2>2, <2>3, <2>4, <2>5 DEF shape
<1> QED
  BY <1>1, <1>2, ObjectFacts

(* The free-busy report of limited objects is that of the objects.         *)
LEMMA LimitedAlike ==
  ASSUME NEW objs \in Seq(AgendaObject), NEW w \in Bounded
  PROVE  ReportFreeBusy([i \in DOMAIN objs |-> Shape(objs[i], w)], w) = ReportFreeBusy(objs, w)
<1> DEFINE shapes == [i \in DOMAIN objs |-> Shape(objs[i], w)]
           X(i) == ExpandCalendar(objs[i], w)
           S(i) == ExpandCalendar(shapes[i], w)
           Busy(x) == UNION {BusyPeriodsOf(x.emitted[e], w) : e \in DOMAIN x.emitted}
<1>1. DOMAIN shapes = DOMAIN objs
  OBVIOUS
<1>2. ASSUME NEW i \in DOMAIN objs
      PROVE  /\ S(i).exhausted = X(i).exhausted /\ DOMAIN S(i).emitted = DOMAIN X(i).emitted
             /\ \A rid \in DOMAIN X(i).emitted :
                  BusyPeriodsOf(S(i).emitted[rid], w) = BusyPeriodsOf(X(i).emitted[rid], w)
  <2> DEFINE o == objs[i]
  <2>1. o \in AgendaObject /\ shapes[i] = Shape(o, w)
    OBVIOUS
  <2> HIDE DEF o, shapes
  <2>2. LET s == ExpandCalendar(Shape(o, w), w)
            x == ExpandCalendar(o, w)
        IN /\ s.exhausted = x.exhausted /\ DOMAIN s.emitted = DOMAIN x.emitted
           /\ \A rid \in DOMAIN x.emitted :
                BusyPeriodsOf(s.emitted[rid], w) = BusyPeriodsOf(x.emitted[rid], w)
    BY <2>1, ShapeKeeps
  <2> QED
    BY <2>1, <2>2 DEF o
<1> HIDE DEF shapes
<1>3. Emitted(shapes, w) = UNION {{i} \X DOMAIN S(i).emitted : i \in DOMAIN objs}
  BY <1>1 DEF Emitted
<1>4. Emitted(objs, w) = UNION {{i} \X DOMAIN X(i).emitted : i \in DOMAIN objs}
  BY DEF Emitted
<1> DEFINE x == ExpandAll(objs, w)
           s == ExpandAll(shapes, w)
           emitted == Emitted(objs, w)
<1>5. Emitted(shapes, w) = emitted
  <2>1. \A i \in DOMAIN objs : {i} \X DOMAIN S(i).emitted = {i} \X DOMAIN X(i).emitted
    BY <1>2
  <2> HIDE DEF S, X
  <2> QED
    BY <1>3, <1>4, <2>1
<1>6. s.refused = x.refused
  <2>1. x.refused = (\/ \E i \in DOMAIN objs : X(i).exhausted
                     \/ Cardinality(emitted) > MaxExpandedInstances)
    BY DEF ExpandAll
  <2>2. s.refused = (\/ \E i \in DOMAIN objs : S(i).exhausted
                     \/ Cardinality(Emitted(shapes, w)) > MaxExpandedInstances)
    BY <1>1 DEF ExpandAll
  <2>3. (\E i \in DOMAIN objs : X(i).exhausted) <=> (\E i \in DOMAIN objs : S(i).exhausted)
    BY <1>2
  <2> HIDE DEF S, X, s, x, emitted
  <2>4. s.refused \in BOOLEAN /\ x.refused \in BOOLEAN
    BY <2>1, <2>2
  <2> QED
    BY <1>5, <2>1, <2>2, <2>3
<1>7. /\ DOMAIN x.emitted = IF x.refused THEN {} ELSE emitted
      /\ \A e \in DOMAIN x.emitted : x.emitted[e] = X(e[1]).emitted[e[2]]
  BY DEF ExpandAll
<1>8. /\ DOMAIN s.emitted = IF s.refused THEN {} ELSE Emitted(shapes, w)
      /\ \A e \in DOMAIN s.emitted : s.emitted[e] = S(e[1]).emitted[e[2]]
  BY DEF ExpandAll
<1>9. ASSUME NEW e \in emitted
      PROVE  BusyPeriodsOf(S(e[1]).emitted[e[2]], w) = BusyPeriodsOf(X(e[1]).emitted[e[2]], w)
  <2>1. PICK i \in DOMAIN objs : e \in {i} \X DOMAIN X(i).emitted
    BY <1>4
  <2>2. e[1] = i /\ e[2] \in DOMAIN X(i).emitted
    BY <2>1
  <2> HIDE DEF S, X
  <2> QED
    BY <1>2, <2>2
<1> HIDE DEF S, X, s, x, emitted
<1>10. Busy(s) = Busy(x)
  <2>1. DOMAIN s.emitted = DOMAIN x.emitted /\ DOMAIN x.emitted \subseteq emitted
    BY <1>5, <1>6, <1>7, <1>8
  <2>2. \A e \in DOMAIN x.emitted : BusyPeriodsOf(s.emitted[e], w) = BusyPeriodsOf(x.emitted[e], w)
    BY <1>7, <1>8, <1>9, <2>1
  <2> QED
    BY <2>1, <2>2
<1>11. ReportFreeBusy(objs, w) = [refused |-> x.refused, periods |-> Coalesce(Busy(x))]
  BY DEF ReportFreeBusy, x
<1>12. ReportFreeBusy(shapes, w) = [refused |-> s.refused, periods |-> Coalesce(Busy(s))]
  BY DEF ReportFreeBusy, s
<1> HIDE DEF Busy
<1> QED
  BY <1>6, <1>10, <1>11, <1>12 DEF shapes

(* The busy time of a window comes out of limited objects as it does of    *)
(* whole ones, whatever they hold.                                         *)
THEOREM LimitedLikeWhole == RecurrenceSpec => []LimitsLoseNothing
<1>1. RecurrenceInv => LimitsLoseNothing
  <2> SUFFICES ASSUME RecurrenceInv, Answered("agenda") PROVE answer.limited = answer.busy
    BY DEF LimitsLoseNothing
  <2>1. asked.objects \in Seq(AgendaObject) /\ asked.window \in Bounded
    BY DEF RecurrenceInv
  <2>2. answer = AgendaAnswer(asked.objects, asked.window)
    BY DEF RecurrenceInv, Answered
  <2> QED
    BY <2>1, <2>2, LimitedAlike DEF AgendaAnswer
<1> QED
  BY <1>1, Consulting, PTL

---------------------------------------------------------------------------
(* Busy time: the periods of a window, and the order they are merged in. *)

Types == {"busy", "tentative", "unavailable"}

(* The periods of a window, under a type that is reported. *)
PeriodsIn(w) ==
  {p \in [start: Int, end: Int, type: Types] :
     w.start <= p.start /\ p.start < p.end /\ p.end <= w.end}

LEMMA RankFacts ==
  /\ DOMAIN Rank = Types
  /\ \A type \in Types : Rank[type] \in 1..3
  /\ \A type, other \in Types : Rank[type] = Rank[other] => type = other
<1>1. DOMAIN Rank = Types
  BY DEF Rank, Types
<1>2. \A type \in Types :
        Rank[type] = CASE type = "busy" -> 1 [] type = "tentative" -> 2 [] type = "unavailable" -> 3
  BY DEF Rank, Types
<1>3. Rank["busy"] = 1 /\ Rank["tentative"] = 2 /\ Rank["unavailable"] = 3
  BY <1>2 DEF Types
<1> QED
  BY <1>1, <1>3 DEF Types

(* A window has finitely many periods. *)
LEMMA PeriodsFinite ==
  ASSUME NEW w \in Bounded
  PROVE  IsFiniteSet(PeriodsIn(w))
<1> DEFINE times == (w.start)..(w.end)
           D == (times \X times) \X Types
           f == [d \in D |-> [start |-> d[1][1], end |-> d[1][2], type |-> d[2]]]
<1>1. IsFiniteSet(times)
  <2>1. w.start \in Int /\ w.end \in Int
    BY DEF Bounded
  <2> QED
    BY <2>1, FS_Interval
<1>2. IsFiniteSet(Types)
  <2>1. IsFiniteSet({"busy"}) /\ IsFiniteSet({"tentative"}) /\ IsFiniteSet({"unavailable"})
    BY FS_Singleton
  <2>2. IsFiniteSet({"busy"} \cup {"tentative"})
    BY <2>1, FS_Union
  <2>3. IsFiniteSet(({"busy"} \cup {"tentative"}) \cup {"unavailable"})
    BY <2>1, <2>2, FS_Union
  <2>4. Types = ({"busy"} \cup {"tentative"}) \cup {"unavailable"}
    BY DEF Types
  <2> QED
    BY <2>3, <2>4
<1>3. IsFiniteSet(D)
  <2>1. IsFiniteSet(times \X times)
    BY <1>1, FS_Product
  <2> HIDE DEF times
  <2> QED
    BY <1>2, <2>1, FS_Product
<1>4. IsFiniteSet({f[d] : d \in D})
  <2>1. f = [d \in D |-> f[d]]
    OBVIOUS
  <2> HIDE DEF f, D
  <2> QED
    BY <1>3, <2>1, ImageFinite
<1>5. ASSUME NEW p \in PeriodsIn(w)
      PROVE  p \in {f[d] : d \in D}
  <2> DEFINE d == <<<<p.start, p.end>>, p.type>>
  <2>1. /\ p = [start |-> p.start, end |-> p.end, type |-> p.type]
        /\ p.start \in Int /\ p.end \in Int /\ p.type \in Types
        /\ w.start <= p.start /\ p.start < p.end /\ p.end <= w.end
    BY DEF PeriodsIn
  <2>2. w.start \in Int /\ w.end \in Int
    BY DEF Bounded
  <2>3. p.start \in times /\ p.end \in times
    BY <2>1, <2>2
  <2>4. d \in D
    BY <2>1, <2>3
  <2>5. f[d] = p
    BY <2>1, <2>4
  <2> HIDE DEF f, d, D
  <2> QED
    BY <2>4, <2>5
<1>6. PeriodsIn(w) \subseteq {f[d] : d \in D}
  BY <1>5
<1> HIDE DEF f, D
<1> QED
  BY <1>4, <1>6, FS_Subset

(* Of periods there are any of, one comes before no other. *)
LEMMA LatestPeriod ==
  ASSUME NEW w \in Bounded, NEW periods \in SUBSET PeriodsIn(w), periods # {}
  PROVE  \E m \in periods : \A p \in periods : ~Before(m, p)
<1>1. \A p \in periods : /\ p.start \in Int /\ p.type \in Types /\ p.start <= w.end /\ w.end \in Int
                         /\ Rank[p.type] \in 1..3
  BY RankFacts DEF PeriodsIn, Bounded
<1> DEFINE ranks == {3 - Rank[p.type] : p \in periods}
<1>2. PICK r \in ranks : \A x \in ranks : r <= x
  <2>1. ranks \in SUBSET Nat /\ ranks # {}
    BY <1>1
  <2> HIDE DEF ranks
  <2> QED
    BY <2>1, NatMin
<1>3. PICK a \in periods : r = 3 - Rank[a.type]
  OBVIOUS
<1>4. \A p \in periods : Rank[p.type] <= Rank[a.type]
  <2> TAKE p \in periods
  <2>1. 3 - Rank[a.type] <= 3 - Rank[p.type]
    BY <1>2, <1>3
  <2> QED
    BY <1>1, <2>1
<1> DEFINE same == {p \in periods : p.type = a.type}
           starts == {w.end - p.start : p \in same}
<1>5. PICK s \in starts : \A x \in starts : s <= x
  <2>1. starts \in SUBSET Nat /\ starts # {}
    BY <1>1, <1>3
  <2> HIDE DEF starts
  <2> QED
    BY <2>1, NatMin
<1>6. PICK m \in same : s = w.end - m.start
  OBVIOUS
<1>7. ASSUME NEW p \in periods, Before(m, p) PROVE FALSE
  <2>1. m \in periods /\ m.type = a.type
    BY <1>6
  <2>2. ~(Rank[m.type] < Rank[p.type])
    BY <1>1, <1>4, <2>1
  <2>3. p.type = m.type /\ m.start < p.start
    BY <1>7, <2>2 DEF Before
  <2>4. w.end - m.start <= w.end - p.start
    BY <1>5, <1>6, <2>1, <2>3
  <2> QED
    BY <1>1, <2>1, <2>3, <2>4
<1> QED
  BY <1>6, <1>7

(* An enumeration of periods in their order. *)
IsOrdering(s, periods) ==
  /\ s \in Bijection(1..Cardinality(periods), periods)
  /\ \A i, j \in 1..Cardinality(periods) : i < j => ~Before(s[j], s[i])

(* Any of them can be put in order. *)
LEMMA SortedExists ==
  ASSUME NEW w \in Bounded, NEW periods \in SUBSET PeriodsIn(w)
  PROVE  \E s : IsOrdering(s, periods)
<1> DEFINE bad == {n \in Nat : \E S \in SUBSET PeriodsIn(w) :
                                 Cardinality(S) = n /\ ~\E s : IsOrdering(s, S)}
<1>1. \A S \in SUBSET PeriodsIn(w) : IsFiniteSet(S) /\ Cardinality(S) \in Nat
  BY PeriodsFinite, FS_Subset, FS_CardinalityType
<1>2. ASSUME bad # {} PROVE FALSE
  <2>1. PICK n \in bad : \A x \in bad : n <= x
    <3>1. bad \in SUBSET Nat
      OBVIOUS
    <3> HIDE DEF bad
    <3> QED
      BY <1>2, <3>1, NatMin
  <2>2. n \in Nat
    OBVIOUS
  <2>3. PICK S \in SUBSET PeriodsIn(w) : Cardinality(S) = n /\ ~\E s : IsOrdering(s, S)
    OBVIOUS
  <2>4. CASE S = {}
    <3> DEFINE none == [i \in {} |-> i]
    <3>1. Cardinality(S) = 0 /\ 1..0 = {}
      BY <2>4, FS_EmptySet
    <3>2. IsOrdering(none, S)
      BY <2>4, <3>1 DEF IsOrdering, Bijection, Injection, Surjection, IsInjective
    <3> QED
      BY <2>3, <3>2
  <2>5. CASE S # {}
    <3>1. PICK m \in S : \A p \in S : ~Before(m, p)
      BY <2>5, LatestPeriod
    <3> DEFINE T == S \ {m}
    <3>2. T \in SUBSET PeriodsIn(w) /\ Cardinality(T) = n - 1 /\ n - 1 \in Nat
      <4>1. IsFiniteSet(S) /\ Cardinality(T) \in Nat
        BY <1>1
      <4>2. Cardinality(T) = Cardinality(S) - 1
        BY <3>1, <4>1, FS_RemoveElement
      <4> QED
        BY <2>2, <2>3, <4>1, <4>2
    <3>3. PICK t : IsOrdering(t, T)
      <4>1. n - 1 \notin bad
        <5> HIDE DEF bad
        <5> QED
          BY <2>1, <2>2, <3>2
      <4> HIDE DEF T
      <4> QED
        BY <3>2, <4>1
    <3> DEFINE s == [i \in 1..n |-> IF i = n THEN m ELSE t[i]]
    <3>4. /\ t \in [1..n-1 -> T]
          /\ \A i, j \in 1..n-1 : t[i] = t[j] => i = j
          /\ \A p \in T : \E i \in 1..n-1 : t[i] = p
          /\ \A i, j \in 1..n-1 : i < j => ~Before(t[j], t[i])
      <4>1. DOMAIN t = 1..n-1
        BY <3>2, <3>3 DEF IsOrdering, Bijection, Injection
      <4> QED
        BY <3>2, <3>3, <4>1 DEF IsOrdering, Bijection, Injection, Surjection, IsInjective
    <3>5. \A i \in 1..n : i = n \/ i \in 1..n-1
      BY <2>2
    <3>6. s \in [1..n -> S]
      BY <3>1, <3>4, <3>5
    <3>7. /\ n \in 1..n /\ s[n] = m
          /\ \A i \in 1..n-1 : i \in 1..n /\ i # n /\ s[i] = t[i] /\ s[i] # m
      <4>1. n \in 1..n
        BY <3>2
      <4>2. \A i \in 1..n-1 : i \in 1..n /\ i # n
        BY <2>2
      <4> QED
        BY <3>4, <4>1, <4>2
    <3> HIDE DEF s
    <3>8. \A i, j \in 1..n : s[i] = s[j] => i = j
      BY <3>4, <3>5, <3>7
    <3>9. \A p \in S : \E i \in 1..n : s[i] = p
      BY <3>4, <3>7
    <3>10. \A i, j \in 1..n : i < j => ~Before(s[j], s[i])
      <4> SUFFICES ASSUME NEW i \in 1..n, NEW j \in 1..n, i < j PROVE ~Before(s[j], s[i])
        OBVIOUS
      <4>1. i \in 1..n-1
        BY <2>2
      <4>2. CASE j = n
        BY <3>1, <3>6, <3>7, <4>2
      <4>3. CASE j \in 1..n-1
        BY <3>4, <3>7, <4>1, <4>3
      <4> QED
        BY <3>5, <4>2, <4>3
    <3>11. DOMAIN s = 1..n
      BY <3>6
    <3>12. IsOrdering(s, S)
      BY <2>3, <3>6, <3>8, <3>9, <3>10, <3>11
      DEF IsOrdering, Bijection, Injection, Surjection, IsInjective
    <3> QED
      BY <2>3, <3>12
  <2> QED
    BY <2>4, <2>5
<1> QED
  BY <1>1, <1>2

(* What the code sorts is all of the periods, by type and start. *)
LEMMA SortedFacts ==
  ASSUME NEW w \in Bounded, NEW periods \in SUBSET PeriodsIn(w)
  PROVE  LET s == Sorted(periods)
             n == Cardinality(periods)
         IN /\ n \in Nat /\ s \in [1..n -> periods]
            /\ \A p \in periods : \E i \in 1..n : s[i] = p
            /\ \A i, j \in 1..n : i < j =>
                 /\ Rank[s[i].type] <= Rank[s[j].type]
                 /\ s[i].type = s[j].type => s[i].start <= s[j].start
<1> DEFINE s == Sorted(periods)
           n == Cardinality(periods)
<1>1. \E t \in Bijection(1..n, periods) : \A i, j \in 1..n : i < j => ~Before(t[j], t[i])
  BY SortedExists DEF IsOrdering
<1>2. s \in Bijection(1..n, periods) /\ \A i, j \in 1..n : i < j => ~Before(s[j], s[i])
  BY <1>1 DEF Sorted
<1>3. n \in Nat
  BY PeriodsFinite, FS_Subset, FS_CardinalityType
<1> HIDE DEF s, n
<1>4. s \in [1..n -> periods] /\ \A p \in periods : \E i \in 1..n : s[i] = p
  BY <1>2 DEF Bijection, Injection, Surjection
<1>5. ASSUME NEW i \in 1..n, NEW j \in 1..n, i < j
      PROVE  /\ Rank[s[i].type] <= Rank[s[j].type]
             /\ s[i].type = s[j].type => s[i].start <= s[j].start
  <2>1. s[i] \in PeriodsIn(w) /\ s[j] \in PeriodsIn(w)
    BY <1>4
  <2>2. /\ Rank[s[i].type] \in 1..3 /\ Rank[s[j].type] \in 1..3
        /\ s[i].start \in Int /\ s[j].start \in Int
    BY <2>1, RankFacts DEF PeriodsIn
  <2>3. ~Before(s[j], s[i])
    BY <1>2, <1>5
  <2> QED
    BY <2>2, <2>3 DEF Before
<1> QED
  BY <1>3, <1>4, <1>5 DEF s, n

(* Merging periods is a walk over them, one result after another. *)
LEMMA Merging ==
  ASSUME NEW N \in Nat, NEW periods, DOMAIN periods = 1..N
  PROVE  \E f : /\ f[0] = << >>
                /\ \A k \in 1..N : f[k] = Merge(f[k - 1], periods[k])
                /\ FoldLeft(Merge, << >>, periods) = f[N]
<1> DEFINE IsFold(g, n) == g = [s \in SUBSET (1..n) |->
             IF s = {} THEN << >>
             ELSE Merge(g[s \ {Max(s)}], periods[Max(s)])]
           bad == {n \in 0..N : ~ \E g : IsFold(g, n)}
<1>1. FoldLeft(Merge, << >>, periods) = (CHOOSE g : IsFold(g, N))[1..N]
  BY DEF FoldLeft, MapThenFoldSet
<1>2. ASSUME bad # {} PROVE FALSE
  <2>1. PICK n \in bad : \A x \in bad : n <= x
    <3>1. bad \in SUBSET Nat
      OBVIOUS
    <3> HIDE DEF bad
    <3> QED
      BY <1>2, <3>1, NatMin
  <2>2. CASE n = 0
    <3>1. IsFold([s \in SUBSET (1..0) |-> << >>], 0)
      <4>1. \A s \in SUBSET (1..0) : s = {}
        OBVIOUS
      <4> QED
        BY <4>1
    <3> QED
      BY <2>1, <2>2, <3>1
  <2>3. CASE n # 0
    <3>1. n - 1 \in 0..N /\ n - 1 \notin bad /\ n \in Nat
      <4>1. n \in 0..N
        OBVIOUS
      <4>2. ~(n <= n - 1) /\ n - 1 \in 0..N
        BY <2>3, <4>1
      <4> HIDE DEF bad
      <4> QED
        BY <2>1, <4>1, <4>2
    <3>2. PICK g : IsFold(g, n - 1)
      BY <3>1
    <3> DEFINE h == [s \in SUBSET (1..n) |->
                 IF n \in s THEN Merge(g[s \ {n}], periods[n]) ELSE g[s]]
    <3>3. ASSUME NEW s \in SUBSET (1..n), n \in s
          PROVE  Max(s) = n /\ s \ {n} \in SUBSET (1..n-1) /\ h[s \ {n}] = g[s \ {n}]
      <4>1. \A y \in s : n >= y
        BY <3>1
      <4>2. \A x \in s : (\A y \in s : x >= y) => x = n
        BY <3>1, <3>3, <4>1
      <4>3. Max(s) = n
        BY <3>3, <4>1, <4>2 DEF Max
      <4> QED
        BY <3>1, <4>3
    <3>4. ASSUME NEW s \in SUBSET (1..n), n \notin s, s # {}
          PROVE  /\ s \in SUBSET (1..n-1) /\ h[s] = g[s]
                 /\ s \ {Max(s)} \in SUBSET (1..n-1)
                 /\ h[s \ {Max(s)}] = g[s \ {Max(s)}]
      <4>1. s \in SUBSET (1..n-1)
        BY <3>1, <3>4
      <4>2. s \ {Max(s)} \in SUBSET (1..n-1) /\ n \notin s \ {Max(s)}
        BY <3>4, <4>1
      <4>3. s \ {Max(s)} \in SUBSET (1..n)
        BY <3>4
      <4> QED
        BY <3>4, <4>1, <4>2, <4>3
    <3>5. ASSUME NEW s \in SUBSET (1..n)
          PROVE  h[s] = IF s = {} THEN << >>
                        ELSE Merge(h[s \ {Max(s)}], periods[Max(s)])
      <4>1. CASE n \in s
        <5>1. h[s] = Merge(g[s \ {n}], periods[n])
          BY <4>1
        <5> HIDE DEF h
        <5> QED
          BY <3>3, <4>1, <5>1
      <4>2. CASE s = {}
        <5>1. h[s] = g[s] /\ s \in SUBSET (1..n-1)
          BY <4>2
        <5> HIDE DEF h
        <5> QED
          BY <3>2, <4>2, <5>1
      <4>3. CASE n \notin s /\ s # {}
        <5>1. g[s] = Merge(g[s \ {Max(s)}], periods[Max(s)])
          BY <3>2, <3>4, <4>3
        <5> HIDE DEF h
        <5> QED
          BY <3>4, <4>3, <5>1
      <4> QED
        BY <4>1, <4>2, <4>3
    <3>6. IsFold(h, n)
      <4> HIDE DEF h
      <4>1. h = [s \in SUBSET (1..n) |-> h[s]]
        BY DEF h
      <4> QED
        BY <3>5, <4>1
    <3> QED
      BY <2>1, <3>6
  <2> QED
    BY <2>2, <2>3
<1>3. \E g : IsFold(g, N)
  <2>1. N \in 0..N
    OBVIOUS
  <2> QED
    BY <1>2, <2>1
<1> DEFINE fold == CHOOSE g : IsFold(g, N)
<1>4. IsFold(fold, N)
  BY <1>3
<1> HIDE DEF fold
<1>5. fold[{}] = << >>
  BY <1>4
<1>6. ASSUME NEW k \in 1..N
      PROVE  fold[1..k] = Merge(fold[1..k-1], periods[k])
  <2>1. 1..k \in SUBSET (1..N) /\ 1..k # {}
    <3>1. k \in 1..k /\ \A x \in 1..k : x \in 1..N
      OBVIOUS
    <3> QED
      BY <3>1
  <2>2. Max(1..k) = k
    <3>1. k \in Nat /\ k \in 1..k /\ \A y \in 1..k : k >= y
      OBVIOUS
    <3>2. \A x \in 1..k : (\A y \in 1..k : x >= y) => x = k
      BY <3>1
    <3> QED
      BY <3>1, <3>2 DEF Max
  <2>3. (1..k) \ {Max(1..k)} = 1..k-1
    BY <2>2
  <2> QED
    BY <1>4, <2>1, <2>2, <2>3
<1> DEFINE f == [k \in 0..N |-> fold[1..k]]
<1>7. f[0] = << >>
  <2>1. 1..0 = {} /\ 0 \in 0..N
    OBVIOUS
  <2> QED
    BY <1>5, <2>1
<1>8. \A k \in 1..N : f[k] = Merge(f[k - 1], periods[k])
  <2>1. \A k \in 1..N : k \in 0..N /\ k - 1 \in 0..N
    OBVIOUS
  <2> QED
    BY <1>6, <2>1
<1>9. FoldLeft(Merge, << >>, periods) = f[N]
  BY <1>1 DEF fold
<1> HIDE DEF f
<1> QED
  BY <1>7, <1>8, <1>9

(* A period keeps the time from t to t + 1, under its type. *)
Covers(p, type, t) == p.type = type /\ p.start <= t /\ t < p.end

(* What the first k of the sorted periods s have been merged into. *)
IsMerged(m, s, k, w) ==
  /\ m \in Seq(PeriodsIn(w))
  /\ \A type \in Types, t \in Int :
       (\E i \in 1..Len(m) : Covers(m[i], type, t)) <=> \E j \in 1..k : Covers(s[j], type, t)
  /\ \A i, j \in 1..Len(m) : i < j /\ m[i].type = m[j].type => m[i].end < m[j].start
  /\ k = 0 => m = << >>
  /\ k > 0 => /\ m # << >> /\ m[Len(m)].type = s[k].type /\ m[Len(m)].start <= s[k].start
              /\ \A i \in 1..Len(m) : Rank[m[i].type] <= Rank[s[k].type]

InOrderOf(s, n) ==
  \A i, j \in 1..n : i < j =>
    /\ Rank[s[i].type] <= Rank[s[j].type]
    /\ s[i].type = s[j].type => s[i].start <= s[j].start

(* One more period is merged into its place. *)
LEMMA MergeStep ==
  ASSUME NEW w \in Bounded, NEW n \in Nat, NEW s \in [1..n -> PeriodsIn(w)], InOrderOf(s, n),
         NEW k \in 1..n, NEW m, IsMerged(m, s, k - 1, w)
  PROVE  IsMerged(Merge(m, s[k]), s, k, w)
<1> DEFINE p == s[k]
           L == Len(m)
           last == m[L]
           joins == m # << >> /\ last.type = p.type /\ p.start <= last.end
           r == Merge(m, p)
<1>1. /\ p \in PeriodsIn(w) /\ p.start \in Int /\ p.end \in Int /\ p.type \in Types /\ p.start < p.end
      /\ w.start <= p.start /\ p.end <= w.end
      /\ p = [start |-> p.start, end |-> p.end, type |-> p.type]
  BY DEF PeriodsIn
<1>2. /\ m \in Seq(PeriodsIn(w)) /\ L \in Nat /\ DOMAIN m = 1..L
      /\ \A i \in 1..L : m[i] \in PeriodsIn(w)
      /\ m = << >> <=> L = 0
  <2>1. m \in Seq(PeriodsIn(w))
    BY DEF IsMerged
  <2> QED
    BY <2>1
<1>3. \A q \in PeriodsIn(w) : /\ q.start \in Int /\ q.end \in Int /\ q.type \in Types
                              /\ q.start < q.end /\ w.start <= q.start /\ q.end <= w.end
                              /\ q = [start |-> q.start, end |-> q.end, type |-> q.type]
  BY DEF PeriodsIn
<1>4. \A type \in Types, t \in Int :
        (\E i \in 1..L : Covers(m[i], type, t)) <=> \E j \in 1..(k - 1) : Covers(s[j], type, t)
  BY DEF IsMerged
<1>5. \A i, j \in 1..L : i < j /\ m[i].type = m[j].type => m[i].end < m[j].start
  BY DEF IsMerged
<1>6. L > 0 => /\ k - 1 \in 1..n /\ last.type = s[k - 1].type /\ last.start <= s[k - 1].start
               /\ \A i \in 1..L : Rank[m[i].type] <= Rank[s[k - 1].type]
  <2>1. k \in Nat /\ k >= 1 /\ k <= n
    OBVIOUS
  <2>2. k - 1 = 0 => L = 0
    BY <1>2 DEF IsMerged
  <2>3. k - 1 > 0 => /\ last.type = s[k - 1].type /\ last.start <= s[k - 1].start
                     /\ \A i \in 1..L : Rank[m[i].type] <= Rank[s[k - 1].type]
    BY DEF IsMerged
  <2> QED
    BY <1>2, <2>1, <2>2, <2>3
<1>7. k - 1 \in 1..n => /\ Rank[s[k - 1].type] <= Rank[p.type]
                        /\ s[k - 1].type = p.type => s[k - 1].start <= p.start
                        /\ s[k - 1] \in PeriodsIn(w)
  <2>1. k - 1 < k
    OBVIOUS
  <2> QED
    BY <2>1 DEF InOrderOf
<1>8. \A type \in Types, t \in Int :
        (\E j \in 1..k : Covers(s[j], type, t))
          <=> (\E i \in 1..L : Covers(m[i], type, t)) \/ Covers(p, type, t)
  <2>1. \A j \in 1..k : j = k \/ j \in 1..(k - 1)
    OBVIOUS
  <2>2. k \in 1..k /\ \A j \in 1..(k - 1) : j \in 1..k
    OBVIOUS
  <2> QED
    BY <1>4, <2>1, <2>2
<1>9. \A q \in PeriodsIn(w) : Rank[q.type] \in 1..3
  BY <1>3, RankFacts
<1>10. r = IF joins THEN [m EXCEPT ![L].end = Latest(@, p.end)] ELSE Append(m, p)
  BY DEF Merge, Last
<1>11. \A i \in 1..L : Rank[m[i].type] <= Rank[p.type]
  <2> TAKE i \in 1..L
  <2>1. L > 0
    BY <1>2
  <2>2. Rank[m[i].type] <= Rank[s[k - 1].type] /\ Rank[s[k - 1].type] <= Rank[p.type]
    BY <1>6, <1>7, <2>1
  <2>3. Rank[m[i].type] \in Int /\ Rank[s[k - 1].type] \in Int /\ Rank[p.type] \in Int
    BY <1>1, <1>2, <1>6, <1>7, <1>9, <2>1
  <2> HIDE DEF p
  <2> QED
    BY <2>2, <2>3
<1> HIDE DEF p, L, r
<1>12. CASE joins
  <2> DEFINE longer == [last EXCEPT !.end = Latest(last.end, p.end)]
  <2>1. L \in 1..L /\ last \in PeriodsIn(w)
    BY <1>2, <1>12
  <2>2. last.start <= p.start
    <3>1. last.start <= s[k - 1].start /\ s[k - 1].start <= p.start
      BY <1>6, <1>7, <1>12, <2>1
    <3>2. last.start \in Int /\ s[k - 1].start \in Int
      BY <1>3, <1>6, <1>7, <2>1
    <3> QED
      BY <1>1, <3>1, <3>2
  <2>3. /\ last.start \in Int /\ last.end \in Int /\ last.type = p.type /\ p.start <= last.end
        /\ last.end <= w.end /\ last.start < last.end /\ w.start <= last.start
        /\ last = [start |-> last.start, end |-> last.end, type |-> last.type]
    BY <1>3, <1>12, <2>1
  <2>4. /\ longer.start = last.start /\ longer.type = p.type
        /\ longer.end = Latest(last.end, p.end) /\ longer \in PeriodsIn(w)
    <3>1. Latest(last.end, p.end) \in Int /\ Latest(last.end, p.end) <= w.end
          /\ last.end <= Latest(last.end, p.end)
      BY <1>1, <2>3 DEF Latest, Bounded
    <3>2. longer = [start |-> last.start, end |-> Latest(last.end, p.end), type |-> p.type]
      BY <2>3
    <3>3. last.start < Latest(last.end, p.end)
      BY <2>3, <3>1
    <3> HIDE DEF longer, last
    <3> QED
      BY <1>1, <2>3, <3>1, <3>2, <3>3 DEF PeriodsIn
  <2>5. r = [m EXCEPT ![L] = longer]
    BY <1>10, <1>12
  <2> HIDE DEF longer
  <2>6. /\ r \in Seq(PeriodsIn(w)) /\ Len(r) = L /\ r[L] = longer
        /\ \A i \in 1..L : i # L => r[i] = m[i]
    BY <1>2, <2>1, <2>4, <2>5
  <2>7. \A type \in Types, t \in Int :
          Covers(longer, type, t) <=> Covers(last, type, t) \/ Covers(p, type, t)
    <3> HIDE DEF last
    <3> QED
      BY <1>1, <2>2, <2>3, <2>4 DEF Covers, Latest
  <2>8. \A type \in Types, t \in Int :
          (\E i \in 1..Len(r) : Covers(r[i], type, t)) <=> \E j \in 1..k : Covers(s[j], type, t)
    <3> TAKE type \in Types, t \in Int
    <3>1. (\E i \in 1..Len(r) : Covers(r[i], type, t))
            <=> Covers(longer, type, t) \/ \E i \in 1..L : i # L /\ Covers(m[i], type, t)
      BY <2>1, <2>6
    <3>2. (\E i \in 1..L : Covers(m[i], type, t))
            <=> Covers(last, type, t) \/ \E i \in 1..L : i # L /\ Covers(m[i], type, t)
      BY <2>1
    <3> QED
      BY <1>8, <2>7, <3>1, <3>2
  <2>9. \A i, j \in 1..L : i < j /\ r[i].type = r[j].type => r[i].end < r[j].start
    <3> SUFFICES ASSUME NEW i \in 1..L, NEW j \in 1..L, i < j, r[i].type = r[j].type
                 PROVE  r[i].end < r[j].start
      OBVIOUS
    <3>1. i # L /\ r[i] = m[i]
      BY <1>2, <2>6
    <3>2. r[j].start = m[j].start /\ r[j].type = m[j].type
      BY <2>3, <2>4, <2>6
    <3> QED
      BY <1>5, <3>1, <3>2
  <2>10. \A i \in 1..L : Rank[r[i].type] <= Rank[p.type]
    BY <1>1, <1>9, <1>11, <2>4, <2>6
  <2>11. r # << >>
    BY <1>12, <1>2, <2>6
  <2>12. k > 0 /\ k # 0
    OBVIOUS
  <2> HIDE DEF last
  <2> QED
    BY <2>2, <2>4, <2>6, <2>8, <2>9, <2>10, <2>11, <2>12 DEF IsMerged, p, r
<1>13. CASE ~joins
  <2>1. r = Append(m, p)
    BY <1>10, <1>13
  <2>2. /\ r \in Seq(PeriodsIn(w)) /\ Len(r) = L + 1 /\ r[L + 1] = p
        /\ \A i \in 1..L : r[i] = m[i]
    BY <1>1, <1>2, <2>1 DEF L
  <2>3. L + 1 \in 1..(L + 1) /\ \A i \in 1..(L + 1) : i = L + 1 \/ i \in 1..L
    BY <1>2
  <2>4. \A i \in 1..L : i \in 1..(L + 1)
    BY <1>2
  <2>5. \A type \in Types, t \in Int :
          (\E i \in 1..Len(r) : Covers(r[i], type, t)) <=> \E j \in 1..k : Covers(s[j], type, t)
    <3> TAKE type \in Types, t \in Int
    <3>1. (\E i \in 1..Len(r) : Covers(r[i], type, t))
            <=> Covers(p, type, t) \/ \E i \in 1..L : Covers(m[i], type, t)
      BY <2>2, <2>3, <2>4
    <3> QED
      BY <1>8, <3>1
  <2>6. ASSUME NEW i \in 1..L, m[i].type = p.type PROVE m[i].end < p.start
    <3>1. L > 0 /\ L \in 1..L /\ m # << >> /\ last \in PeriodsIn(w) /\ m[i] \in PeriodsIn(w)
      BY <1>2
    <3>2. last.type = p.type
      <4>1. Rank[p.type] <= Rank[last.type]
        BY <1>6, <2>6, <3>1
      <4>2. Rank[last.type] <= Rank[p.type]
        BY <1>11, <3>1
      <4>3. Rank[last.type] = Rank[p.type]
        BY <1>1, <1>9, <3>1, <4>1, <4>2
      <4> QED
        BY <1>1, <1>3, <3>1, <4>3, RankFacts
    <3>3. last.end < p.start
      BY <1>1, <1>3, <1>13, <3>1, <3>2
    <3>4. i = L \/ m[i].end < last.start
      <4>1. i = L \/ i < L
        BY <1>2
      <4> QED
        BY <1>5, <2>6, <3>1, <3>2, <4>1
    <3>5. /\ last.start \in Int /\ last.end \in Int /\ last.start < last.end
          /\ m[i].end \in Int
      BY <1>3, <3>1
    <3> HIDE DEF last
    <3>6. CASE i = L
      BY <3>3, <3>6 DEF last
    <3>7. CASE m[i].end < last.start
      BY <1>1, <3>3, <3>5, <3>7
    <3> QED
      BY <3>4, <3>6, <3>7
  <2>7. \A i, j \in 1..(L + 1) : i < j /\ r[i].type = r[j].type => r[i].end < r[j].start
    <3> SUFFICES ASSUME NEW i \in 1..(L + 1), NEW j \in 1..(L + 1), i < j, r[i].type = r[j].type
                 PROVE  r[i].end < r[j].start
      OBVIOUS
    <3>1. i \in 1..L /\ r[i] = m[i]
      BY <1>2, <2>2
    <3>2. CASE j = L + 1
      BY <2>2, <2>6, <3>1, <3>2
    <3>3. CASE j \in 1..L
      BY <1>5, <2>2, <3>1, <3>3
    <3> QED
      BY <2>3, <3>2, <3>3
  <2>8. \A i \in 1..(L + 1) : Rank[r[i].type] <= Rank[p.type]
    BY <1>1, <1>9, <1>11, <2>2, <2>3
  <2>9. r # << >> /\ k > 0 /\ k # 0
    BY <1>2, <2>2
  <2>10. r[Len(r)].type = p.type /\ r[Len(r)].start <= p.start
    BY <1>1, <2>2
  <2> QED
    BY <2>2, <2>5, <2>7, <2>8, <2>9, <2>10 DEF IsMerged, p, r
<1> QED
  BY <1>12, <1>13

(* So the walk over all of them ends with them merged. *)
LEMMA Coalesced ==
  ASSUME NEW w \in Bounded, NEW periods \in SUBSET PeriodsIn(w)
  PROVE  LET m == Coalesce(periods)
         IN /\ m \in Seq(PeriodsIn(w))
            /\ \A type \in Types, t \in Int :
                 (\E p \in ToSet(m) : Covers(p, type, t)) <=> \E p \in periods : Covers(p, type, t)
            /\ \A i, j \in 1..Len(m) : i < j /\ m[i].type = m[j].type => m[i].end < m[j].start
<1> DEFINE s == Sorted(periods)
           n == Cardinality(periods)
           m == Coalesce(periods)
<1>1. /\ n \in Nat /\ s \in [1..n -> periods]
      /\ \A p \in periods : \E i \in 1..n : s[i] = p
      /\ InOrderOf(s, n)
  BY SortedFacts DEF InOrderOf
<1>2. m = FoldLeft(Merge, << >>, s)
  BY DEF Coalesce
<1> HIDE DEF s, n, m
<1>3. s \in [1..n -> PeriodsIn(w)] /\ DOMAIN s = 1..n
  BY <1>1
<1>4. PICK f : /\ f[0] = << >> /\ \A k \in 1..n : f[k] = Merge(f[k - 1], s[k])
               /\ m = f[n]
  BY <1>1, <1>2, <1>3, Merging
<1> DEFINE bad == {k \in 0..n : ~IsMerged(f[k], s, k, w)}
<1>5. ASSUME bad # {} PROVE FALSE
  <2>1. PICK k \in bad : \A x \in bad : k <= x
    <3>1. bad \in SUBSET Nat
      OBVIOUS
    <3> HIDE DEF bad
    <3> QED
      BY <1>5, <3>1, NatMin
  <2>2. CASE k = 0
    <3>1. f[0] = << >> /\ Len(<< >>) = 0 /\ << >> \in Seq(PeriodsIn(w)) /\ 1..0 = {}
      BY <1>4
    <3>2. IsMerged(f[0], s, 0, w)
      BY <3>1 DEF IsMerged
    <3> QED
      BY <2>1, <2>2, <3>2
  <2>3. CASE k # 0
    <3>1. k \in 1..n /\ k - 1 \in 0..n /\ ~(k <= k - 1)
      <4>1. k \in 0..n
        BY <2>1
      <4> QED
        BY <1>1, <2>3, <4>1
    <3>2. k - 1 \notin bad
      <4> HIDE DEF bad
      <4> QED
        BY <2>1, <3>1
    <3>3. IsMerged(f[k - 1], s, k - 1, w)
      BY <3>1, <3>2
    <3>4. IsMerged(Merge(f[k - 1], s[k]), s, k, w)
      BY <1>1, <1>3, <3>1, <3>3, MergeStep
    <3> QED
      BY <1>4, <2>1, <3>1, <3>4
  <2> QED
    BY <2>2, <2>3
<1>6. IsMerged(m, s, n, w)
  <2>1. n \in 0..n
    BY <1>1
  <2> QED
    BY <1>4, <1>5, <2>1
<1>7. /\ m \in Seq(PeriodsIn(w))
      /\ \A type \in Types, t \in Int :
           (\E i \in 1..Len(m) : Covers(m[i], type, t)) <=> \E j \in 1..n : Covers(s[j], type, t)
      /\ \A i, j \in 1..Len(m) : i < j /\ m[i].type = m[j].type => m[i].end < m[j].start
  BY <1>6 DEF IsMerged
<1>8. \A type \in Types, t \in Int :
        (\E p \in ToSet(m) : Covers(p, type, t)) <=> \E p \in periods : Covers(p, type, t)
  <2> TAKE type \in Types, t \in Int
  <2>1. (\E p \in ToSet(m) : Covers(p, type, t)) <=> \E i \in 1..Len(m) : Covers(m[i], type, t)
    <3>1. ToSet(m) = {m[i] : i \in 1..Len(m)}
      BY <1>7 DEF ToSet
    <3> QED
      BY <3>1
  <2>2. (\E p \in periods : Covers(p, type, t)) <=> \E j \in 1..n : Covers(s[j], type, t)
    BY <1>1
  <2> QED
    BY <1>7, <2>1, <2>2
<1> QED
  BY <1>7, <1>8 DEF m

(* A period cut to the window keeps the same time of it. *)
LEMMA ClipFacts ==
  ASSUME NEW w \in Bounded, NEW start \in Int, NEW end \in Int, NEW kind \in Types
  PROVE  LET p == [start |-> start, end |-> end, type |-> kind]
         IN /\ Clip(p, w) \subseteq PeriodsIn(w)
            /\ \A type \in Types, t \in (w.start)..(w.end - 1) :
                 (\E q \in Clip(p, w) : Covers(q, type, t)) <=> Covers(p, type, t)
<1> DEFINE p == [start |-> start, end |-> end, type |-> kind]
           clipped == [p EXCEPT !.start = Latest(p.start, w.start), !.end = Earliest(p.end, w.end)]
           from == Latest(start, w.start)
           to == Earliest(end, w.end)
<1>1. clipped = [start |-> from, end |-> to, type |-> kind]
  <2>1. p.start = start /\ p.end = end
    OBVIOUS
  <2>2. clipped = [p EXCEPT !.start = from, !.end = to]
    BY <2>1
  <2> HIDE DEF from, to, clipped
  <2> QED
    BY <2>2
<1>2. Clip(p, w) = IF clipped.start < clipped.end THEN {clipped} ELSE {}
  BY DEF Clip
<1>3. w.start \in Int /\ w.end \in Int
  BY DEF Bounded
<1>4. from \in Int /\ to \in Int /\ w.start <= from /\ to <= w.end
  BY <1>3 DEF Latest, Earliest
<1>5. \A t \in (w.start)..(w.end - 1) : start <= t /\ t < end <=> from <= t /\ t < to
  BY <1>3 DEF Latest, Earliest
<1> HIDE DEF clipped, from, to
<1>6. Clip(p, w) \subseteq PeriodsIn(w)
  BY <1>1, <1>2, <1>4 DEF PeriodsIn
<1>7. ASSUME NEW type \in Types, NEW t \in (w.start)..(w.end - 1)
      PROVE  (\E q \in Clip(p, w) : Covers(q, type, t)) <=> Covers(p, type, t)
  <2>1. Covers(p, type, t) <=> kind = type /\ from <= t /\ t < to
    BY <1>5 DEF Covers
  <2>2. Covers(clipped, type, t) <=> kind = type /\ from <= t /\ t < to
    BY <1>1 DEF Covers
  <2>3. from <= t /\ t < to => clipped.start < clipped.end
    BY <1>1, <1>3, <1>4
  <2> HIDE DEF p
  <2> QED
    BY <1>2, <2>1, <2>2, <2>3
<1> QED
  BY <1>6, <1>7

(* What an instance contributes is the time of the window it keeps. *)
LEMMA InstanceBusy ==
  ASSUME NEW w \in Bounded, NEW start \in Int, NEW duration \in Nat,
         NEW status \in {"busy", "tentative", "free"}
  PROVE  LET c == Instance(start, duration, status)
         IN /\ BusyPeriodsOf(c, w) \subseteq PeriodsIn(w)
            /\ \A type \in Types, t \in (w.start)..(w.end - 1) :
                 (\E q \in BusyPeriodsOf(c, w) : Covers(q, type, t))
                   <=> c.status = type /\ c.start <= t /\ t < c.end
<1> DEFINE c == Instance(start, duration, status)
           end == start + duration
           p == [start |-> start, end |-> end, type |-> status]
<1>1. /\ c.start = start /\ c.end = end /\ c.status = status
      /\ "periods" \notin DOMAIN c
  BY DEF Instance
<1>2. end \in Int
  OBVIOUS
<1>3. BusyPeriodsOf(c, w) =
        IF c.status = "free" THEN {} ELSE Clip([start |-> c.start, end |-> c.end, type |-> c.status], w)
  BY <1>1 DEF BusyPeriodsOf
<1> HIDE DEF c, end
<1>4. CASE status = "free"
  BY <1>1, <1>3, <1>4 DEF Types, c
<1>5. CASE status # "free"
  <2>1. status \in Types
    BY <1>5 DEF Types
  <2>2. BusyPeriodsOf(c, w) = Clip(p, w)
    BY <1>1, <1>3, <1>5
  <2>3. /\ Clip(p, w) \subseteq PeriodsIn(w)
        /\ \A type \in Types, t \in (w.start)..(w.end - 1) :
             (\E q \in Clip(p, w) : Covers(q, type, t)) <=> Covers(p, type, t)
    BY <1>2, <2>1, ClipFacts
  <2>4. \A type, t : Covers(p, type, t) <=> c.status = type /\ c.start <= t /\ t < c.end
    BY <1>1 DEF Covers
  <2> HIDE DEF p
  <2> QED
    BY <2>2, <2>3, <2>4 DEF c
<1> QED
  BY <1>4, <1>5

(* What expansion can write of an object: its events, as instances.        *)
Instances(obj) ==
  LET m == obj.master
  IN {OverrideInstance(obj.overrides[rid]) : rid \in DOMAIN obj.overrides}
       \cup (IF Recurs(m)
             THEN {RecurrenceInstance(m, t) : t \in RecurrenceSet(m) \ DOMAIN obj.overrides}
             ELSE IF m # Nil THEN {Instance(m.start, m.duration, m.status)} ELSE {})

(* An event that has an end keeps the time of its instance.                *)
LEMMA EventKeeps ==
  ASSUME NEW c, c.start \in Int, c.duration \in Nat, NEW t \in Int, NEW type
  PROVE  LET x == Instance(c.start, c.duration, c.status)
         IN (~Endless(c) /\ c.status = type /\ c.start <= t /\ t < c.start + Length(c))
              <=> (x.status = type /\ x.start <= t /\ t < x.end)
<1> DEFINE x == Instance(c.start, c.duration, c.status)
           end == c.start + c.duration
<1>1. x.start = c.start /\ x.end = end /\ x.status = c.status
  BY DEF Instance
<1> HIDE DEF x
<1>2. CASE Endless(c)
  <2>1. end = c.start
    BY <1>2 DEF Endless
  <2> QED
    BY <1>1, <1>2, <2>1 DEF x
<1>3. CASE ~Endless(c)
  BY <1>1, <1>3 DEF Length, x
<1> QED
  BY <1>2, <1>3

(* The events of an object of events keep the time of its instances.       *)
LEMMA EventsKeep ==
  ASSUME NEW o \in AgendaObject, o.kind = "VEVENT", NEW t \in Int, NEW type
  PROVE  KeepsBusy(o, type, t)
           <=> \E x \in Instances(o) : x.status = type /\ x.start <= t /\ t < x.end
<1> DEFINE m == o.master
           Kept(c) == ~Endless(c) /\ c.status = type /\ c.start <= t /\ t < c.start + Length(c)
           Fills(x) == x.status = type /\ x.start <= t /\ t < x.end
           FillsFrom(s, d, status) == Fills(Instance(s, d, status))
           Later(u) == [m EXCEPT !.start = u]
<1>1. o.periods = {}
  BY ObjectFacts
<1>2. KeepsBusy(o, type, t) <=> \E c \in Events(o) : Kept(c)
  BY <1>1 DEF KeepsBusy
<1>3. ASSUME NEW c, c.start \in Int, c.duration \in Nat
      PROVE  Kept(c) <=> FillsFrom(c.start, c.duration, c.status)
  BY <1>3, EventKeeps
<1>4. \A rid \in DOMAIN o.overrides :
        o.overrides[rid].start \in Int /\ o.overrides[rid].duration \in Nat
  BY ObjectFacts DEF Override
<1>5. m # Nil => m \in Master /\ m.start \in Int /\ m.duration \in Nat /\ RecurrenceSet(m) \subseteq Int
  BY ObjectFacts, SetFinite DEF Master
<1>6. Recurs(m) => m # Nil
  BY DEF Recurs
<1>7. ASSUME m # Nil, NEW u
      PROVE  Later(u).start = u /\ Later(u).duration = m.duration /\ Later(u).status = m.status
  BY <1>5, <1>7 DEF Master
<1>8. (\E c \in Events(o) : Kept(c)) <=>
        \/ \E rid \in DOMAIN o.overrides : Kept(o.overrides[rid])
        \/ Recurs(m) /\ \E u \in RecurrenceSet(m) \ DOMAIN o.overrides : Kept(Later(u))
        \/ ~Recurs(m) /\ m # Nil /\ Kept(m)
  <2> HIDE DEF Kept
  <2> QED
    BY DEF Events
<1>9. (\E x \in Instances(o) : Fills(x)) <=>
        \/ \E rid \in DOMAIN o.overrides : Fills(OverrideInstance(o.overrides[rid]))
        \/ Recurs(m) /\ \E u \in RecurrenceSet(m) \ DOMAIN o.overrides : Fills(RecurrenceInstance(m, u))
        \/ ~Recurs(m) /\ m # Nil /\ FillsFrom(m.start, m.duration, m.status)
  <2> HIDE DEF Fills
  <2> QED
    BY DEF Instances
<1> HIDE DEF Later
<1>10. \A rid \in DOMAIN o.overrides :
         Kept(o.overrides[rid]) <=> Fills(OverrideInstance(o.overrides[rid]))
  <2> HIDE DEF Fills, Kept
  <2> QED
    BY <1>3, <1>4 DEF OverrideInstance
<1>11. Recurs(m) => \A u \in RecurrenceSet(m) : Kept(Later(u)) <=> Fills(RecurrenceInstance(m, u))
  <2> HIDE DEF Fills, Kept, m
  <2>1. SUFFICES ASSUME Recurs(m), NEW u \in RecurrenceSet(m)
                 PROVE  Kept(Later(u)) <=> Fills(RecurrenceInstance(m, u))
    OBVIOUS
  <2>2. m # Nil /\ u \in Int /\ m.duration \in Nat
    BY <1>5, <1>6, <2>1
  <2>3. Kept(Later(u)) <=> FillsFrom(Later(u).start, Later(u).duration, Later(u).status)
    BY <1>3, <1>7, <2>2
  <2> QED
    BY <1>7, <2>2, <2>3 DEF RecurrenceInstance
<1>12. m # Nil => (Kept(m) <=> FillsFrom(m.start, m.duration, m.status))
  <2> HIDE DEF FillsFrom, Kept, m
  <2> QED
    BY <1>3, <1>5
<1> HIDE DEF Fills, FillsFrom, Kept, m
<1>13. (\E x \in Instances(o) : Fills(x)) <=> (\E c \in Events(o) : Kept(c))
  BY <1>8, <1>9, <1>10, <1>11, <1>12
<1> QED
  BY <1>2, <1>13 DEF Fills

(* What is emitted of an object of events are instances of it, and all     *)
(* those that keep time of the window, unless the walk gave up.            *)
LEMMA EmittedInstances ==
  ASSUME NEW o \in AgendaObject, o.kind = "VEVENT", NEW w \in Bounded,
         ~ExpandCalendar(o, w).exhausted
  PROVE  LET e == ExpandCalendar(o, w).emitted
         IN /\ \A rid \in DOMAIN e : e[rid] \in Instances(o)
            /\ \A x \in Instances(o), t \in (w.start)..(w.end - 1) :
                 x.start <= t /\ t < x.end => \E rid \in DOMAIN e : e[rid] = x
            /\ \A x \in Instances(o) :
                 \E s \in Int, d \in Nat, status \in {"busy", "tentative", "free"} :
                   x = Instance(s, d, status)
<1> DEFINE e == ExpandCalendar(o, w).emitted
           m == o.master
           Unruled(rid) == /\ rid = Nil /\ m # Nil /\ ~Recurs(m)
                         /\ IntervalOverlaps(w, Span(m.start, Length(m)))
           carried == Carried(o, w)
           alone == Instance(m.start, m.duration, m.status)
<1>1. \A rid : rid \in DOMAIN e <=>
           rid \in carried \/ (rid \in DOMAIN o.overrides /\ Moved(o, rid, w)) \/ Unruled(rid)
  BY EventEmission
<1>2. \A rid \in DOMAIN e \cap DOMAIN o.overrides : e[rid] = OverrideInstance(o.overrides[rid])
  BY EventEmission
<1>3. \A rid \in DOMAIN e \ DOMAIN o.overrides :
        e[rid] = IF rid = Nil THEN alone ELSE RecurrenceInstance(m, rid)
  BY EventEmission
<1>4. /\ DOMAIN o.overrides \subseteq Int
      /\ \A rid \in DOMAIN o.overrides :
           /\ o.overrides[rid].start \in Int /\ o.overrides[rid].duration \in Nat
           /\ o.overrides[rid].status \in {"busy", "tentative", "free"}
  BY ObjectFacts DEF Override
<1>5. m # Nil => /\ m \in Master /\ m.start \in Int /\ m.duration \in Nat
                 /\ m.status \in {"busy", "tentative", "free"}
                 /\ RecurrenceSet(m) \subseteq Int
  BY ObjectFacts, SetFinite DEF Master
<1>6. Recurs(m) => m # Nil /\ ~Exhausted(m, w)
  BY DEF Recurs, ExpandCalendar
<1>7. /\ Recurs(m) =>
           carried = {t \in RecurrenceSet(m) : t < w.end /\ IntervalOverlaps(w, Span(t, Length(m)))}
      /\ ~Recurs(m) => carried = {}
  <2>1. CASE Recurs(m)
    <3>1. Walked(m, w) = Walk(m, w)
      BY <1>5, <1>6, <2>1, WalkFacts
    <3>2. carried = {t \in Walked(m, w) : IntervalOverlaps(w, Span(t, Length(m)))}
      BY <2>1 DEF Carried
    <3> QED
      BY <2>1, <3>1, <3>2 DEF Walk
  <2>2. CASE ~Recurs(m)
    BY <2>2 DEF Carried
  <2> QED
    BY <2>1, <2>2
<1>8. \A x : x \in Instances(o) <=>
         \/ \E rid \in DOMAIN o.overrides : x = OverrideInstance(o.overrides[rid])
         \/ Recurs(m) /\ \E t \in RecurrenceSet(m) \ DOMAIN o.overrides : x = RecurrenceInstance(m, t)
         \/ ~Recurs(m) /\ m # Nil /\ x = alone
  <2> DEFINE moved == {OverrideInstance(o.overrides[rid]) : rid \in DOMAIN o.overrides}
             ruled == {RecurrenceInstance(m, t) : t \in RecurrenceSet(m) \ DOMAIN o.overrides}
  <2>1. Instances(o) = moved \cup (IF Recurs(m) THEN ruled ELSE IF m # Nil THEN {alone} ELSE {})
    BY DEF Instances
  <2>2. CASE Recurs(m)
    <3>1. Instances(o) = moved \cup ruled
      BY <2>1, <2>2
    <3> QED
      BY <2>2, <3>1
  <2>3. CASE ~Recurs(m) /\ m # Nil
    <3>1. Instances(o) = moved \cup {alone}
      BY <2>1, <2>3
    <3> HIDE DEF alone
    <3> QED
      BY <2>3, <3>1
  <2>4. CASE ~Recurs(m) /\ m = Nil
    <3>1. Instances(o) = moved
      BY <2>1, <2>4
    <3> QED
      BY <2>4, <3>1
  <2> QED
    BY <2>2, <2>3, <2>4
<1> HIDE DEF e, m, alone, carried
<1>9. ASSUME NEW rid \in DOMAIN e PROVE e[rid] \in Instances(o)
  <2>1. CASE rid \in DOMAIN o.overrides
    BY <1>2, <1>8, <2>1
  <2>2. CASE rid \notin DOMAIN o.overrides /\ rid = Nil
    <3>1. rid \notin carried
      BY <1>5, <1>6, <1>7, <2>2, TimeRangeAssumption
    <3>2. m # Nil /\ ~Recurs(m)
      BY <1>1, <2>2, <3>1
    <3> QED
      BY <1>3, <1>8, <2>2, <3>2
  <2>3. CASE rid \notin DOMAIN o.overrides /\ rid # Nil
    <3>1. rid \in carried
      BY <1>1, <2>3
    <3> QED
      BY <1>3, <1>7, <1>8, <2>3, <3>1
  <2> QED
    BY <2>1, <2>2, <2>3
<1>10. ASSUME NEW x \in Instances(o), NEW t \in (w.start)..(w.end - 1), x.start <= t, t < x.end
       PROVE  \E rid \in DOMAIN e : e[rid] = x
  <2>1. w.start \in Int /\ w.end \in Int /\ t \in Int /\ w.start <= t /\ t < w.end
    BY DEF Bounded
  <2>2. ASSUME NEW c, c.start \in Int, c.duration \in Nat, NEW s \in Int, x.start = s, x.end = s + c.duration
        PROVE  IntervalOverlaps(w, Span(s, Length(c))) /\ s < w.end
    <3>1. IntervalOverlaps(w, Span(s, c.duration)) /\ s < w.end
      BY <1>10, <2>1, <2>2, SpanOverlaps
    <3>2. c.duration # 0
      BY <1>10, <2>1, <2>2
    <3> QED
      BY <3>1, <3>2 DEF Length, Endless
  <2>3. CASE \E rid \in DOMAIN o.overrides : x = OverrideInstance(o.overrides[rid])
    <3>1. PICK rid \in DOMAIN o.overrides : x = OverrideInstance(o.overrides[rid])
      BY <2>3
    <3> DEFINE ov == o.overrides[rid]
               start == ov.start
               end == ov.start + ov.duration
    <3>3. ov.start \in Int /\ ov.duration \in Nat /\ x.start = start /\ x.end = end
      BY <1>4, <3>1 DEF OverrideInstance, Instance
    <3> HIDE DEF ov
    <3>4. IntervalOverlaps(w, Span(ov.start, Length(ov)))
      BY <2>2, <3>3
    <3>2. Moved(o, rid, w)
      BY <3>4 DEF Moved, ov
    <3> QED
      BY <1>1, <1>2, <3>1, <3>2
  <2>4. CASE Recurs(m) /\ \E u \in RecurrenceSet(m) \ DOMAIN o.overrides : x = RecurrenceInstance(m, u)
    <3>1. PICK u \in RecurrenceSet(m) \ DOMAIN o.overrides : x = RecurrenceInstance(m, u)
      BY <2>4
    <3>2. u \in Int /\ u # Nil
      BY <1>5, <1>6, <2>4, TimeRangeAssumption
    <3> DEFINE end == u + m.duration
    <3>5. x.start = u /\ x.end = end
      BY <3>1 DEF RecurrenceInstance, Instance
    <3>3. u < w.end /\ IntervalOverlaps(w, Span(u, Length(m)))
      BY <1>5, <1>6, <2>2, <2>4, <3>2, <3>5
    <3>4. u \in carried
      BY <1>7, <2>4, <3>3
    <3> QED
      BY <1>1, <1>3, <3>1, <3>2, <3>4
  <2>5. CASE ~Recurs(m) /\ m # Nil /\ x = alone
    <3> DEFINE end == m.start + m.duration
    <3>3. x.start = m.start /\ x.end = end
      BY <2>5 DEF alone, Instance
    <3>4. IntervalOverlaps(w, Span(m.start, Length(m)))
      BY <1>5, <2>2, <2>5, <3>3
    <3>1. Unruled(Nil)
      BY <2>5, <3>4
    <3>2. Nil \notin DOMAIN o.overrides
      BY <1>4, TimeRangeAssumption
    <3> QED
      BY <1>1, <1>3, <2>5, <3>1, <3>2
  <2> QED
    BY <1>8, <2>3, <2>4, <2>5
<1>11. ASSUME NEW x \in Instances(o)
       PROVE  \E s \in Int, d \in Nat, status \in {"busy", "tentative", "free"} : x = Instance(s, d, status)
  <2>1. CASE \E rid \in DOMAIN o.overrides : x = OverrideInstance(o.overrides[rid])
    BY <1>4, <2>1 DEF OverrideInstance
  <2>2. CASE Recurs(m) /\ \E u \in RecurrenceSet(m) \ DOMAIN o.overrides : x = RecurrenceInstance(m, u)
    BY <1>5, <1>6, <2>2 DEF RecurrenceInstance
  <2>3. CASE ~Recurs(m) /\ m # Nil /\ x = alone
    BY <1>5, <2>3 DEF alone
  <2> QED
    BY <1>8, <2>1, <2>2, <2>3
<1> QED
  BY <1>9, <1>10, <1>11 DEF e

(* What an expanded object contributes to busy time is what it keeps of    *)
(* the window.                                                             *)
LEMMA ObjectBusy ==
  ASSUME NEW o \in AgendaObject, NEW w \in Bounded, ~ExpandCalendar(o, w).exhausted
  PROVE  LET e == ExpandCalendar(o, w).emitted
         IN /\ \A rid \in DOMAIN e : BusyPeriodsOf(e[rid], w) \subseteq PeriodsIn(w)
            /\ \A type \in Types, t \in (w.start)..(w.end - 1) :
                 (\E rid \in DOMAIN e : \E q \in BusyPeriodsOf(e[rid], w) : Covers(q, type, t))
                   <=> KeepsBusy(o, type, t)
<1> DEFINE e == ExpandCalendar(o, w).emitted
           BusyAt(c, type, t) == \E q \in BusyPeriodsOf(c, w) : Covers(q, type, t)
<1>1. CASE o.kind = "VEVENT"
  <2>1. /\ \A rid \in DOMAIN e : e[rid] \in Instances(o)
        /\ \A x \in Instances(o), t \in (w.start)..(w.end - 1) :
             x.start <= t /\ t < x.end => \E rid \in DOMAIN e : e[rid] = x
    BY <1>1, EmittedInstances
  <2>2. \A x \in Instances(o) :
          \E s \in Int, d \in Nat, status \in {"busy", "tentative", "free"} : x = Instance(s, d, status)
    BY <1>1, EmittedInstances
  <2> HIDE DEF e
  <2>3. ASSUME NEW x \in Instances(o)
        PROVE  /\ BusyPeriodsOf(x, w) \subseteq PeriodsIn(w)
               /\ \A type \in Types, t \in (w.start)..(w.end - 1) :
                    BusyAt(x, type, t) <=> x.status = type /\ x.start <= t /\ t < x.end
    <3>1. PICK s \in Int, d \in Nat, status \in {"busy", "tentative", "free"} : x = Instance(s, d, status)
      BY <2>2
    <3> QED
      BY <3>1, InstanceBusy
  <2>5. ASSUME NEW type \in Types, NEW t \in (w.start)..(w.end - 1)
        PROVE  (\E rid \in DOMAIN e : BusyAt(e[rid], type, t)) <=> KeepsBusy(o, type, t)
    <3>1. KeepsBusy(o, type, t) <=> \E x \in Instances(o) : x.status = type /\ x.start <= t /\ t < x.end
      <4>1. t \in Int
        BY DEF Bounded
      <4> QED
        BY <1>1, <4>1, EventsKeep
    <3> HIDE DEF BusyAt
    <3>2. ASSUME NEW rid \in DOMAIN e, BusyAt(e[rid], type, t)
          PROVE  KeepsBusy(o, type, t)
      BY <2>1, <2>3, <3>1, <3>2
    <3>3. ASSUME NEW x \in Instances(o), x.status = type, x.start <= t, t < x.end
          PROVE  \E rid \in DOMAIN e : BusyAt(e[rid], type, t)
      <4>1. PICK rid \in DOMAIN e : e[rid] = x
        BY <2>1, <3>3
      <4>2. BusyAt(x, type, t)
        BY <2>3, <3>3
      <4> QED
        BY <4>1, <4>2
    <3> QED
      BY <3>1, <3>2, <3>3
  <2> QED
    BY <2>1, <2>3, <2>5 DEF e
<1>2. CASE o.kind = "VFREEBUSY"
  <2>1. DOMAIN e = {Nil} /\ e[Nil] = o
    BY <1>2, FreeBusyEmission
  <2>2. /\ o.master = Nil /\ DOMAIN o.overrides = {} /\ o.periods \subseteq BusyPeriod
        /\ "periods" \in DOMAIN o
    BY <1>2, ObjectFacts DEF Finite, AgendaObject
  <2> DEFINE told == {p \in o.periods : p.type # "free"}
  <2>3. BusyPeriodsOf(o, w) = UNION {Clip(p, w) : p \in told}
    BY <2>2 DEF BusyPeriodsOf
  <2>4. ASSUME NEW p \in told
        PROVE  /\ Clip(p, w) \subseteq PeriodsIn(w)
               /\ \A type \in Types, t \in (w.start)..(w.end - 1) :
                    (\E q \in Clip(p, w) : Covers(q, type, t)) <=> Covers(p, type, t)
    <3>1. /\ p.start \in Int /\ p.end \in Int /\ p.type \in Types
          /\ p = [start |-> p.start, end |-> p.end, type |-> p.type]
      BY <2>2, RankFacts DEF BusyPeriod
    <3> HIDE DEF told
    <3> QED
      BY <3>1, ClipFacts
  <2>5. ASSUME NEW type \in Types, NEW t
        PROVE  KeepsBusy(o, type, t) <=> \E p \in told : Covers(p, type, t)
    <3>1. Events(o) = {}
      BY <2>2 DEF Events, Recurs
    <3>2. \A p \in o.periods : p.type = type => p \in told
      BY DEF Types
    <3> QED
      BY <3>1, <3>2 DEF KeepsBusy, Covers
  <2> HIDE DEF told, e
  <2>6. BusyPeriodsOf(o, w) \subseteq PeriodsIn(w)
    BY <2>3, <2>4
  <2>7. ASSUME NEW type \in Types, NEW t \in (w.start)..(w.end - 1)
        PROVE  BusyAt(o, type, t) <=> KeepsBusy(o, type, t)
    <3>1. BusyAt(o, type, t) <=> \E p \in told : \E q \in Clip(p, w) : Covers(q, type, t)
      BY <2>3
    <3> QED
      BY <2>4, <2>5, <3>1
  <2> QED
    BY <2>1, <2>6, <2>7 DEF e
<1> QED
  BY <1>1, <1>2, ObjectFacts

(* What a free-busy report refuses, and what it reports.                   *)
LEMMA Reported ==
  ASSUME NEW objs \in Seq(AgendaObject), NEW w \in Bounded
  PROVE  LET r == ReportFreeBusy(objs, w)
         IN IF r.refused
            THEN \/ \E i \in DOMAIN objs : Recurs(objs[i].master) /\ Exhausted(objs[i].master, w)
                 \/ Cardinality(Emitted(objs, w)) > MaxExpandedInstances
            ELSE /\ \A type \in Types, t \in (w.start)..(w.end - 1) :
                      (\E p \in ToSet(r.periods) : Covers(p, type, t))
                        <=> \E i \in DOMAIN objs : KeepsBusy(objs[i], type, t)
                 /\ r.periods \in Seq(PeriodsIn(w))
                 /\ \A i, j \in 1..Len(r.periods) :
                      i < j /\ r.periods[i].type = r.periods[j].type =>
                        r.periods[i].end < r.periods[j].start
<1> DEFINE x == ExpandAll(objs, w)
           X(i) == ExpandCalendar(objs[i], w)
           busy == UNION {BusyPeriodsOf(x.emitted[e], w) : e \in DOMAIN x.emitted}
           r == ReportFreeBusy(objs, w)
<1>1. r.refused = x.refused /\ r.periods = Coalesce(busy)
  BY DEF ReportFreeBusy
<1>2. x.refused <=> \/ \E i \in DOMAIN objs : X(i).exhausted
                    \/ Cardinality(Emitted(objs, w)) > MaxExpandedInstances
  BY DEF ExpandAll
<1>3. \A i \in DOMAIN objs : X(i).exhausted => Recurs(objs[i].master) /\ Exhausted(objs[i].master, w)
  BY DEF ExpandCalendar
<1>4. CASE r.refused
  <2> HIDE DEF x, X
  <2> QED
    BY <1>1, <1>2, <1>3, <1>4
<1>5. CASE ~r.refused
  <2>1. /\ DOMAIN x.emitted = Emitted(objs, w)
        /\ \A e \in DOMAIN x.emitted : x.emitted[e] = X(e[1]).emitted[e[2]]
    BY <1>1, <1>5 DEF ExpandAll
  <2>2. Emitted(objs, w) = UNION {{i} \X DOMAIN X(i).emitted : i \in DOMAIN objs}
    BY DEF Emitted
  <2>3. ASSUME NEW i \in DOMAIN objs
        PROVE  /\ \A rid \in DOMAIN X(i).emitted : BusyPeriodsOf(X(i).emitted[rid], w) \subseteq PeriodsIn(w)
               /\ \A type \in Types, t \in (w.start)..(w.end - 1) :
                    (\E rid \in DOMAIN X(i).emitted :
                       \E q \in BusyPeriodsOf(X(i).emitted[rid], w) : Covers(q, type, t))
                      <=> KeepsBusy(objs[i], type, t)
    <3> DEFINE o == objs[i]
    <3>1. o \in AgendaObject
      OBVIOUS
    <3>2. ~ExpandCalendar(o, w).exhausted
      BY <1>1, <1>2, <1>5
    <3> HIDE DEF o
    <3>3. LET e == ExpandCalendar(o, w).emitted
          IN /\ \A rid \in DOMAIN e : BusyPeriodsOf(e[rid], w) \subseteq PeriodsIn(w)
             /\ \A type \in Types, t \in (w.start)..(w.end - 1) :
                  (\E rid \in DOMAIN e : \E q \in BusyPeriodsOf(e[rid], w) : Covers(q, type, t))
                    <=> KeepsBusy(o, type, t)
      BY <3>1, <3>2, ObjectBusy
    <3> QED
      BY <3>3 DEF o
  <2>4. \A q : q \in busy <=> \E e \in DOMAIN x.emitted : q \in BusyPeriodsOf(x.emitted[e], w)
    <3> HIDE DEF x
    <3> QED
      OBVIOUS
  <2>5. \A q : q \in busy <=> \E i \in DOMAIN objs : \E rid \in DOMAIN X(i).emitted :
                               q \in BusyPeriodsOf(X(i).emitted[rid], w)
    <3> HIDE DEF x, X, busy
    <3>1. ASSUME NEW q, NEW e \in DOMAIN x.emitted, q \in BusyPeriodsOf(x.emitted[e], w)
          PROVE  \E i \in DOMAIN objs : \E rid \in DOMAIN X(i).emitted :
                   q \in BusyPeriodsOf(X(i).emitted[rid], w)
      <4>1. PICK i \in DOMAIN objs : e \in {i} \X DOMAIN X(i).emitted
        BY <2>1, <2>2
      <4>2. e[1] = i /\ e[2] \in DOMAIN X(i).emitted
        BY <4>1
      <4> QED
        BY <2>1, <3>1, <4>2
    <3>2. ASSUME NEW q, NEW i \in DOMAIN objs, NEW rid \in DOMAIN X(i).emitted,
                 q \in BusyPeriodsOf(X(i).emitted[rid], w)
          PROVE  \E e \in DOMAIN x.emitted : q \in BusyPeriodsOf(x.emitted[e], w)
      <4> DEFINE e == <<i, rid>>
      <4>1. e \in DOMAIN x.emitted /\ e[1] = i /\ e[2] = rid
        BY <2>1, <2>2
      <4> HIDE DEF e
      <4> QED
        BY <2>1, <3>2, <4>1
    <3> QED
      BY <2>4, <3>1, <3>2
  <2> HIDE DEF x, X, busy
  <2>6. busy \subseteq PeriodsIn(w)
    BY <2>3, <2>5
  <2>7. LET m == Coalesce(busy)
        IN /\ m \in Seq(PeriodsIn(w))
           /\ \A type \in Types, t \in Int :
                (\E p \in ToSet(m) : Covers(p, type, t)) <=> \E p \in busy : Covers(p, type, t)
           /\ \A i, j \in 1..Len(m) : i < j /\ m[i].type = m[j].type => m[i].end < m[j].start
    BY <2>6, Coalesced
  <2>8. ASSUME NEW type \in Types, NEW t \in (w.start)..(w.end - 1)
        PROVE  (\E p \in busy : Covers(p, type, t)) <=> \E i \in DOMAIN objs : KeepsBusy(objs[i], type, t)
    BY <2>3, <2>5
  <2>9. (w.start)..(w.end - 1) \subseteq Int
    BY DEF Bounded
  <2>10. \A type \in Types, t \in (w.start)..(w.end - 1) :
           (\E p \in ToSet(r.periods) : Covers(p, type, t))
             <=> \E i \in DOMAIN objs : KeepsBusy(objs[i], type, t)
    BY <1>1, <2>7, <2>8, <2>9
  <2> HIDE DEF r
  <2> QED
    BY <1>1, <1>5, <2>7, <2>10 DEF r
<1> QED
  BY <1>4, <1>5

(* A free-busy answer is exact in any window, but for the days of all-day  *)
(* events without an end, whatever the objects hold but THISANDFUTURE      *)
(* overrides, of which nothing is said.                                    *)
THEOREM FreeBusyExact == RecurrenceSpec => []FreeBusyIsExact
<1>1. RecurrenceInv => FreeBusyIsExact
  <2> SUFFICES ASSUME RecurrenceInv, Answered("agenda") PROVE FreeBusyIsExact
    BY DEF FreeBusyIsExact
  <2> DEFINE objs == asked.objects
             w == asked.window
             r == ReportFreeBusy(objs, w)
  <2>1. objs \in Seq(AgendaObject) /\ w \in Bounded
    BY DEF RecurrenceInv
  <2>2. answer.busy = r
    BY DEF RecurrenceInv, Answered, AgendaAnswer
  <2> HIDE DEF objs, w
  <2>3. CASE r.refused
    <3>1. \/ \E i \in DOMAIN objs : Recurs(objs[i].master) /\ Exhausted(objs[i].master, w)
          \/ Cardinality(Emitted(objs, w)) > MaxExpandedInstances
      BY <2>1, <2>3, Reported
    <3> QED
      BY <2>2, <2>3, <3>1 DEF FreeBusyIsExact, Exhausted, Walk, objs, w
  <2>4. CASE ~r.refused
    <3>1. /\ \A type \in Types, t \in (w.start)..(w.end - 1) :
               (\E p \in ToSet(r.periods) : Covers(p, type, t))
                 <=> \E i \in DOMAIN objs : KeepsBusy(objs[i], type, t)
          /\ r.periods \in Seq(PeriodsIn(w))
          /\ \A i, j \in 1..Len(r.periods) :
               i < j /\ r.periods[i].type = r.periods[j].type =>
                 r.periods[i].end < r.periods[j].start
      BY <2>1, <2>4, Reported
    <3> HIDE DEF r
    <3>2. DOMAIN r.periods = 1..Len(r.periods)
      BY <3>1
    <3>3. ASSUME NEW p \in ToSet(r.periods)
          PROVE  w.start <= p.start /\ p.start < p.end /\ p.end <= w.end
      <4>1. p \in PeriodsIn(w)
        BY <3>1 DEF ToSet
      <4> QED
        BY <4>1 DEF PeriodsIn
    <3>4. \A type \in DOMAIN Rank : \A t \in (w.start)..(w.end - 1) :
            (\E p \in ToSet(r.periods) : p.type = type /\ p.start <= t /\ t < p.end)
              <=> \E i \in DOMAIN objs : KeepsBusy(objs[i], type, t)
      BY <3>1, RankFacts DEF Covers
    <3>5. \A i, j \in DOMAIN r.periods :
            i < j /\ r.periods[i].type = r.periods[j].type => r.periods[i].end < r.periods[j].start
      BY <3>1, <3>2
    <3>6. ~answer.busy.refused
      BY <2>2, <2>4
    <3> QED
      BY <2>2, <3>3, <3>4, <3>5, <3>6 DEF FreeBusyIsExact, objs, w
  <2> QED
    BY <2>3, <2>4
<1> QED
  BY <1>1, Consulting, PTL
=============================================================================
