------------------------------ MODULE MCReports ------------------------------
(* Requests over up to three members, and over four of which the last is   *)
(* beyond the scan budget.                                                 *)
EXTENDS Reports

Fate1(kind) ==
  CASE kind \in Queries -> {"match", "other", "garbled", "unrenderable"}
    [] kind = "collection listing" -> {"match", "unrenderable"}
    [] kind = "account listing" -> {"match", "other", "unrenderable"}
    [] kind = "initial sync" -> {"match", "garbled", "unrenderable"}
    [] OTHER -> {"match", "other", "unrenderable"}

(* Only what is served has a size that matters. *)
Parts(kind) ==
  {p \in [bytes: {1, 3}, fate: Fate1(kind)] :
     p.fate \notin {"match", "unrenderable"} => p.bytes = 1}

MembersOf(kind, n) ==
  {[i \in 1..n |-> [name |-> i, bytes |-> s[i].bytes, fate |-> s[i].fate]] :
     s \in [1..n -> Parts(kind)]}

(* One more than the budget, one name twice, one member misnamed. *)
Odd ==
  LET m(name, fate) == [name |-> name, bytes |-> 1, fate |-> fate] IN
  {[i \in 1..4 |-> m(i, "match")],
   <<m(1, "match"), m(2, "match"), m(1, "match")>>,
   <<m(1, "match"), m(2, "misnamed"), m(3, "match")>>}

Limits(kind) ==
  IF kind \in Syncs \cup {"addressbook-query"} THEN {Nil} \cup 0..2 ELSE {Nil}

MCJobs ==
  UNION {[kind: {kind}, stored: UNION {MembersOf(kind, n) : n \in 0..3} \cup Odd,
          limit: Limits(kind), more: IF kind = "sync" THEN BOOLEAN ELSE {FALSE},
          echo: {0, 2}] : kind \in Kind}
=============================================================================
