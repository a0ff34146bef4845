------------------------------ MODULE LocalFS ------------------------------
(***************************************************************************)
(* LocalFileSystem: a WebDAV file system over a directory of the operating *)
(* system.  No lock is held: a request is a sequence of system calls, and  *)
(* those of other requests run between them.  Each action below is one     *)
(* call that changes the tree, with the reads next to it whose answers it  *)
(* uses; the process may die between any two.                              *)
(*                                                                         *)
(* A temporary file or tree is a sibling of the resource under a random    *)
(* hidden name; Temps are these names, and a new one is one nobody holds.  *)
(***************************************************************************)
EXTENDS Trees

CONSTANTS
  Requests,      \* slots for the requests being served
  Paths,         \* the resources requests name
  Temps,         \* temporary names
  Bodies,        \* what clients put
  Headers,       \* the If-Match and If-None-Match headers clients send
  Methods,       \* the HTTP methods they use
  Faults,        \* which system calls may fail for reasons of their own
  Crashes,       \* may the process die
  Torn,          \* what a COPY read of a file whose bytes had not all arrived
  MaxInos        \* model bound: files and directories ever made

(* What paths are made of. *)
Segments == UNION {{p[i] : i \in DOMAIN p} : p \in Paths}

ASSUME LocalFSAssumption ==
  /\ Methods \subseteq {"PUT", "DELETE", "COPY", "MOVE", "MKCOL"}
  /\ Faults \subseteq {"body", "copy", "remove", "rename", "restore", "discard", "cleanup"}
  /\ Crashes \in BOOLEAN
  /\ MaxInos \in Nat
  /\ Partial \notin Bodies \cup {Torn}
  /\ Paths \subseteq Seq(Segments) \ {<<>>}
  /\ Temps \cap Segments = {}
  /\ Nil \notin Seq(Segments \cup Temps)

VARIABLES
  fs,            \* the tree on disk, temporary names included
  req,           \* slot -> the request being served, or Nil
  inos           \* how many files and directories were made

vars == <<fs, req, inos>>

(* phase is the next call; tmp and aside are the temporary paths, todo the *)
(* paths still to copy or the names still to remove, ino the file being    *)
(* written or the directory being emptied, from the file being read for a  *)
(* copy as it was when it was opened, existed what the stat said of the    *)
(* destination.                                                            *)
Serving(ask, phase, existed) ==
  [ask |-> ask, phase |-> phase, existed |-> existed,
   tmp |-> Nil, aside |-> Nil, todo |-> {}, ino |-> 0, from |-> Nil]

In(r, op, phase) == req[r] # Nil /\ req[r].ask.op = op /\ req[r].phase = phase

Finish(r) == req' = [req EXCEPT ![r] = Nil]

GoTo(r, phase) == req' = [req EXCEPT ![r].phase = phase]

MayFail(call) == call \in Faults

(* Paths that requests hold or that exist. *)
InUse ==
  DOMAIN fs \cup {req[r].tmp : r \in {r \in Requests : req[r] # Nil}}
            \cup {req[r].aside : r \in {r \in Requests : req[r] # Nil}}

Hidden(p) == p # Nil /\ \E i \in 1..Len(p) : p[i] \in Temps

(* tempSibling: a random name beside a path, which nothing else ever has. *)
Fresh(dir) ==
  {dir \o <<t>> : t \in {u \in Temps :
     \A p \in InUse \ {Nil} : \A i \in 1..Len(p) : p[i] # u}}

(* The disk has room for a file or a directory. *)
Room == inos < MaxInos

---------------------------------------------------------------------------
(* PUT: Create.                                                            *)

Create(r, p, ifMatch, ifNoneMatch, body) ==
  /\ req[r] = Nil
  /\ checkConditionalMatches(ETagAt(fs, p), ifMatch, ifNoneMatch)
  /\ req' = [req EXCEPT ![r] =
       Serving([op |-> "PUT", path |-> p, body |-> body,
                ifMatch |-> ifMatch, ifNoneMatch |-> ifNoneMatch],
               "create", p \in DOMAIN fs)]
  /\ UNCHANGED <<fs, inos>>

(* Mutant: the resource itself is truncated and written. *)
createSibling_InPlace(r) ==
  /\ In(r, "PUT", "create")
  /\ LET p == req[r].ask.path IN
     /\ IsCollection(fs, Parent(p)) /\ ~IsCollection(fs, p)
     /\ Room
     /\ inos' = inos + 1
     /\ fs' = With(fs, p, File(inos + 1, Partial))
     /\ req' = [req EXCEPT ![r].tmp = p, ![r].ino = inos + 1, ![r].phase = "write"]

createSibling(r) ==
  /\ In(r, "PUT", "create")
  /\ LET dir == Parent(req[r].ask.path) IN
     \/ /\ ~IsCollection(fs, dir) \/ ~Room \/ Fresh(dir) = {}
        /\ Finish(r)
        /\ UNCHANGED <<fs, inos>>
     \/ /\ IsCollection(fs, dir)
        /\ Room
        /\ inos' = inos + 1
        /\ \E tmp \in Fresh(dir) :
             /\ fs' = With(fs, tmp, File(inos + 1, Partial))
             /\ req' = [req EXCEPT ![r].tmp = tmp, ![r].ino = inos + 1,
                                   ![r].phase = "write"]

(* An open file is written wherever it is by now. *)
Filled(r, body) ==
  [p \in DOMAIN fs |-> IF fs[p].ino = req[r].ino THEN File(fs[p].ino, body) ELSE fs[p]]

(* The body arrives. *)
WriteBody(r) ==
  /\ In(r, "PUT", "write")
  /\ fs' = Filled(r, req[r].ask.body)
  /\ GoTo(r, "rename")
  /\ UNCHANGED inos

(* The client disconnects. *)
BodyBreaks(r) ==
  /\ In(r, "PUT", "write") /\ MayFail("body")
  /\ GoTo(r, "cleanup")
  /\ UNCHANGED <<fs, inos>>

(* chmod and rename; the stat for the answer changes nothing. *)
RenameTemp(r) ==
  /\ In(r, "PUT", "rename")
  /\ LET tmp == req[r].tmp p == req[r].ask.path IN
     \/ /\ CanRename(fs, tmp, p)
        /\ fs' = Moved(fs, tmp, p)
        /\ Finish(r)
     \/ /\ ~CanRename(fs, tmp, p) \/ MayFail("rename")
        /\ GoTo(r, "cleanup")
        /\ UNCHANGED fs
  /\ UNCHANGED inos

(* Mutant: a failed request leaves its temporary file or tree. *)
Cleanup_Forgotten(r) ==
  /\ req[r] # Nil /\ req[r].phase = "cleanup"
  /\ Finish(r)
  /\ UNCHANGED <<fs, inos>>

(* The deferred removal of a failed PUT or COPY; nobody hears if it fails. *)
Cleanup(r) ==
  /\ req[r] # Nil /\ req[r].phase = "cleanup"
  /\ \/ fs' = Without(fs, req[r].tmp)
     \/ MayFail("cleanup") /\ UNCHANGED fs
  /\ Finish(r)
  /\ UNCHANGED inos

---------------------------------------------------------------------------
(* DELETE: RemoveAll.                                                      *)

RemoveAll(r, p, ifMatch, ifNoneMatch) ==
  /\ req[r] = Nil
  /\ p \in DOMAIN fs
  /\ checkConditionalMatches(fs[p].ino, ifMatch, ifNoneMatch)
  /\ req' = [req EXCEPT ![r] =
       Serving([op |-> "DELETE", path |-> p,
                ifMatch |-> ifMatch, ifNoneMatch |-> ifNoneMatch],
               "remove", TRUE)]
  /\ UNCHANGED <<fs, inos>>

(* A file or an empty directory goes at once, others are opened. *)
Remove(r) ==
  /\ In(r, "DELETE", "remove")
  /\ LET p == req[r].ask.path members == MembersOf(fs, p) IN
     \/ /\ p \notin DOMAIN fs \/ members = {}
        /\ fs' = Without(fs, p)
        /\ Finish(r)
     \/ /\ p \in DOMAIN fs /\ members # {}
        /\ req' = [req EXCEPT ![r].phase = "empty", ![r].ino = fs[p].ino,
                              ![r].todo = {m[Len(m)] : m \in members}]
        /\ UNCHANGED fs
  /\ UNCHANGED inos

(* The open directory is emptied, wherever it is by now, from the leaves.  *)
(* A member that does not go, or gets members of its own, is left.         *)
RemoveMember(r) ==
  /\ In(r, "DELETE", "empty")
  /\ \E name \in req[r].todo :
       LET members == {d \o <<name>> : d \in {d \in DOMAIN fs : fs[d].ino = req[r].ino}}
                        \cap DOMAIN fs IN
       \/ /\ \E m \in members : \E leaf \in Under(fs, m) :
               /\ MembersOf(fs, leaf) = {}
               /\ fs' = Without(fs, leaf)
          /\ UNCHANGED req
       \/ /\ MayFail("remove") \/ \A m \in members : MembersOf(fs, m) # {}
          /\ req' = [req EXCEPT ![r].todo = @ \ {name}]
          /\ UNCHANGED fs
  /\ UNCHANGED inos

RemoveEmptied(r) ==
  /\ In(r, "DELETE", "empty") /\ req[r].todo = {}
  /\ LET p == req[r].ask.path IN
     fs' = IF IsCollection(fs, p) /\ MembersOf(fs, p) = {}
           THEN Without(fs, p) ELSE fs
  /\ Finish(r)
  /\ UNCHANGED inos

RemoveFails(r) ==
  /\ In(r, "DELETE", "remove") \/ In(r, "DELETE", "empty")
  /\ MayFail("remove")
  /\ Finish(r)
  /\ UNCHANGED <<fs, inos>>

---------------------------------------------------------------------------
(* MKCOL: Mkdir, one call.                                                 *)

Mkdir(r, p) ==
  /\ req[r] = Nil
  /\ p \notin DOMAIN fs
  /\ IsCollection(fs, Parent(p))
  /\ Room
  /\ inos' = inos + 1
  /\ fs' = With(fs, p, Collection(inos + 1))
  /\ UNCHANGED req

---------------------------------------------------------------------------
(* COPY and MOVE.                                                          *)

(* refuseContainment, and the two stats. *)
MayTransfer(src, dst, overwrite) ==
  /\ ~Within(src, dst)
  /\ src \in DOMAIN fs
  /\ dst \in DOMAIN fs => overwrite
  /\ Parent(dst) \in DOMAIN fs => IsCollection(fs, Parent(dst))

Copy(r, src, dst, deep, overwrite) ==
  /\ req[r] = Nil
  /\ MayTransfer(src, dst, overwrite)
  /\ \E tmp \in Fresh(Parent(dst)) :
       req' = [req EXCEPT ![r] =
         [Serving([op |-> "COPY", path |-> src, dst |-> dst, deep |-> deep,
                   overwrite |-> overwrite], "copy", dst \in DOMAIN fs)
          EXCEPT !.tmp = tmp, !.todo = {src}]]
  /\ UNCHANGED <<fs, inos>>

(* A file is written over a file; a name that is taken takes nothing else. *)
CanCopy(x, target) ==
  /\ x \in DOMAIN fs /\ IsCollection(fs, Parent(target))
  /\ target \in DOMAIN fs => fs[x].file /\ fs[target].file

(* copyTree: one entry of the walk.  Some entry is gone by now, or the     *)
(* place for its copy is missing or taken, and the walk ends.  Or it is a  *)
(* directory, made again at once, and its members come next.  Or it is a   *)
(* file, and copyRegularFile opens it and creates the copy, or truncates   *)
(* what has its name.                                                      *)
copyTree(r) ==
  /\ In(r, "COPY", "copy")
  /\ \E x \in req[r].todo :
       LET ask == req[r].ask
           target == Rebased(x, ask.path, req[r].tmp) IN
       \/ /\ ~CanCopy(x, target) \/ ~Room \/ MayFail("copy")
          /\ GoTo(r, "cleanup")
          /\ UNCHANGED <<fs, inos>>
       \/ /\ CanCopy(x, target) /\ Room
          /\ inos' = inos + 1
          /\ \/ /\ ~fs[x].file
                /\ fs' = With(fs, target, Collection(inos + 1))
                /\ req' = [req EXCEPT ![r].todo =
                     (@ \ {x}) \cup IF ask.deep THEN MembersOf(fs, x) ELSE {}]
             \/ /\ fs[x].file
                /\ fs' = With(fs, target, File(inos + 1, Partial))
                /\ req' = [req EXCEPT ![r].todo = @ \ {x}, ![r].phase = "fill",
                                      ![r].ino = inos + 1, ![r].from = fs[x]]

(* What io.Copy finds in the open file: what it held when it was opened,   *)
(* or holds by now.  If that had not all arrived, the copy is cut short.   *)
Read(r) ==
  {IF body = Partial THEN Torn ELSE body :
     body \in {req[r].from.body} \cup
              {fs[q].body : q \in {q \in DOMAIN fs : fs[q].file /\ fs[q].ino = req[r].from.ino}}}

(* copyRegularFile goes on: the bytes are copied, or not all of them. *)
copyRegularFile(r) ==
  /\ In(r, "COPY", "fill")
  /\ \E phase \in {"copy", "cleanup"} :
       /\ \/ phase = "copy" /\ \E body \in Read(r) : fs' = Filled(r, body)
          \/ phase = "cleanup" /\ MayFail("copy") /\ UNCHANGED fs
       /\ req' = [req EXCEPT ![r].phase = phase, ![r].ino = 0, ![r].from = Nil]
  /\ UNCHANGED inos

Move(r, src, dst, overwrite) ==
  /\ req[r] = Nil
  /\ MayTransfer(src, dst, overwrite)
  /\ req' = [req EXCEPT ![r] =
       Serving([op |-> "MOVE", path |-> src, dst |-> dst, overwrite |-> overwrite],
               "swap", dst \in DOMAIN fs)]
  /\ UNCHANGED <<fs, inos>>

(* swapTree starts when the new tree is complete. *)
ReadyToSwap(r) == In(r, "MOVE", "swap") \/ (In(r, "COPY", "copy") /\ req[r].todo = {})

NewTree(r) == IF req[r].ask.op = "COPY" THEN req[r].tmp ELSE req[r].ask.path

(* The error returns; a COPY removes its tree first. *)
Abandon(r) == IF req[r].ask.op = "COPY" THEN GoTo(r, "cleanup") ELSE Finish(r)

RenameNew(r) ==
  /\ ReadyToSwap(r) /\ ~req[r].existed
  /\ LET dst == req[r].ask.dst IN
     \/ /\ CanRename(fs, NewTree(r), dst)
        /\ fs' = Moved(fs, NewTree(r), dst)
        /\ Finish(r)
     \/ /\ ~CanRename(fs, NewTree(r), dst) \/ MayFail("rename")
        /\ Abandon(r)
        /\ UNCHANGED fs
  /\ UNCHANGED inos

(* Mutant: the old tree is removed to make room. *)
SetAside_Removes(r) ==
  /\ ReadyToSwap(r) /\ req[r].existed
  /\ \E aside \in Fresh(Parent(req[r].ask.dst)) :
       /\ fs' = Without(fs, req[r].ask.dst)
       /\ req' = [req EXCEPT ![r].aside = aside, ![r].phase = "swapIn"]
  /\ UNCHANGED inos

SetAside(r) ==
  /\ ReadyToSwap(r) /\ req[r].existed
  /\ LET dst == req[r].ask.dst IN
     \/ \E aside \in Fresh(Parent(dst)) :
          /\ CanRename(fs, dst, aside)
          /\ fs' = Moved(fs, dst, aside)
          /\ req' = [req EXCEPT ![r].aside = aside, ![r].phase = "swapIn"]
     \/ /\ dst \notin DOMAIN fs \/ Fresh(Parent(dst)) = {} \/ MayFail("rename")
        /\ Abandon(r)
        /\ UNCHANGED fs
  /\ UNCHANGED inos

(* Mutant: the old tree is given up whether or not the new one got there. *)
SwapIn_Unchecked(r) ==
  /\ req[r] # Nil /\ req[r].phase = "swapIn"
  /\ LET dst == req[r].ask.dst IN
     fs' = IF CanRename(fs, NewTree(r), dst) THEN Moved(fs, NewTree(r), dst) ELSE fs
  /\ GoTo(r, "discard")
  /\ UNCHANGED inos

SwapIn(r) ==
  /\ req[r] # Nil /\ req[r].phase = "swapIn"
  /\ LET dst == req[r].ask.dst IN
     \/ /\ CanRename(fs, NewTree(r), dst)
        /\ fs' = Moved(fs, NewTree(r), dst)
        /\ GoTo(r, "discard")
     \/ /\ ~CanRename(fs, NewTree(r), dst) \/ MayFail("rename")
        /\ GoTo(r, "restore")
        /\ UNCHANGED fs
  /\ UNCHANGED inos

Restore(r) ==
  /\ req[r] # Nil /\ req[r].phase = "restore"
  /\ LET aside == req[r].aside dst == req[r].ask.dst IN
     \/ CanRename(fs, aside, dst) /\ fs' = Moved(fs, aside, dst)
     \/ (~CanRename(fs, aside, dst) \/ MayFail("restore")) /\ UNCHANGED fs
  /\ Abandon(r)
  /\ UNCHANGED inos

(* Nobody looks under a hidden name: its removal is one step here. *)
Discard(r) ==
  /\ req[r] # Nil /\ req[r].phase = "discard"
  /\ \/ fs' = Without(fs, req[r].aside)
     \/ MayFail("discard") /\ UNCHANGED fs
  /\ Finish(r)
  /\ UNCHANGED inos

---------------------------------------------------------------------------

(* The process dies; what the calls did stays. *)
Crash ==
  /\ Crashes
  /\ \E r \in Requests : req[r] # Nil
  /\ req' = [r \in Requests |-> Nil]
  /\ UNCHANGED <<fs, inos>>

Init ==
  /\ fs = <<>>
  /\ req = [r \in Requests |-> Nil]
  /\ inos = 0

Begin(r) ==
  \E p \in Paths :
    \/ \E ifMatch \in Headers, ifNoneMatch \in Headers :
         \/ "PUT" \in Methods /\ \E body \in Bodies :
              Create(r, p, ifMatch, ifNoneMatch, body)
         \/ "DELETE" \in Methods /\ RemoveAll(r, p, ifMatch, ifNoneMatch)
    \/ \E dst \in Paths, overwrite \in BOOLEAN :
         \/ "COPY" \in Methods /\ \E deep \in BOOLEAN :
              Copy(r, p, dst, deep, overwrite)
         \/ "MOVE" \in Methods /\ Move(r, p, dst, overwrite)
    \/ "MKCOL" \in Methods /\ Mkdir(r, p)

Continue(r) ==
  \/ createSibling(r) \/ WriteBody(r) \/ BodyBreaks(r) \/ RenameTemp(r)
  \/ Remove(r) \/ RemoveMember(r) \/ RemoveEmptied(r) \/ RemoveFails(r)
  \/ copyTree(r) \/ copyRegularFile(r)
  \/ RenameNew(r) \/ SetAside(r) \/ SwapIn(r) \/ Restore(r) \/ Discard(r)
  \/ Cleanup(r)

Next ==
  \/ \E r \in Requests : Begin(r) \/ Continue(r)
  \/ Crash

Spec == Init /\ [][Next]_vars

---------------------------------------------------------------------------
(* Properties.                                                             *)

Asks ==
  [op : {"PUT"}, path : Paths, body : Bodies, ifMatch : Headers, ifNoneMatch : Headers]
  \cup [op : {"DELETE"}, path : Paths, ifMatch : Headers, ifNoneMatch : Headers]
  \cup [op : {"COPY"}, path : Paths, dst : Paths, deep : BOOLEAN, overwrite : BOOLEAN]
  \cup [op : {"MOVE"}, path : Paths, dst : Paths, overwrite : BOOLEAN]

Phases == {"create", "write", "rename", "cleanup", "remove", "empty", "copy", "fill",
           "swap", "swapIn", "restore", "discard"}

Segs == Segments \cup Temps

(* Where temporary files and trees are made. *)
Staged == {Parent(p) \o <<t>> : p \in Paths, t \in Temps}

(* What is kept of a request. *)
Request ==
  [ask : Asks, phase : Phases, existed : BOOLEAN,
   tmp : Staged \cup {Nil}, aside : Staged \cup {Nil},
   todo : SUBSET (Seq(Segs) \cup Segs), ino : Nat,
   from : {Nil} \cup [file : {TRUE}, ino : Nat, body : Bodies \cup {Partial, Torn}]]

(* ETags are of files that exist, and Nil is no request. *)
ASSUME RequestAssumption ==
  /\ Headers \subseteq [set : BOOLEAN, any : BOOLEAN, tags : SUBSET (Nat \ {0})]
  /\ Nil \notin Asks
  /\ Nil \notin Request

(* No reader ever finds a file under a name a client chose that a request  *)
(* began to write and has not finished, or never will: not while a PUT     *)
(* arrives or a COPY is at a file, nor after a disconnect, a walk that     *)
(* ends midway, a removal that fails, a crash, or a MOVE of the collection *)
(* the file is being written in (the comments on fs_local.go:178 and       *)
(* fs_local_test.go:69).  What a COPY meanwhile made of such a file is a   *)
(* file of its own, Torn, of which this says nothing: it may get a name.   *)
NoPartialResource ==
  \A p \in DOMAIN fs : fs[p].file /\ fs[p].body = Partial => Hidden(p)

(* A complete file leaves the disk only when a client deleted it, when     *)
(* another file took its very name, or when a COPY or MOVE brought its     *)
(* replacement into place before: never by a failure or a crash            *)
(* (Copy's and Move's comments, fs_local.go:321 and :450).                 *)
NothingLost ==
  [][\A p \in DOMAIN fs :
       /\ fs[p].file /\ fs[p].body # Partial
       /\ \A q \in DOMAIN fs' : fs'[q].ino # fs[p].ino
       => \/ p \in DOMAIN fs' /\ fs'[p].file
          \/ \E r \in Requests :
               /\ req[r] # Nil
               /\ \/ req[r].ask.op = "DELETE"
                  \/ req[r].phase = "discard" /\ Within(req[r].aside, p)
                  \/ req[r].phase = "cleanup" /\ Within(req[r].tmp, p)]_vars

(* When no request is being served, no temporary name is left, whichever   *)
(* calls failed but three, which nothing undoes: the removals deferred by  *)
(* Create and Copy, swapTree's restore and its removal of the old tree.    *)
NoStrays ==
  (\A r \in Requests : req[r] = Nil) => \A p \in DOMAIN fs : ~Hidden(p)

(* What clients can see: a tree that was moved aside counts as in place    *)
(* until its replacement is.                                               *)
Swapping == {r \in Requests : req[r] # Nil /\ req[r].phase \in {"swapIn", "restore"}}

Resources ==
  LET inPlace == IF Swapping = {} THEN fs
                 ELSE LET r == CHOOSE r \in Swapping : TRUE IN
                      Moved(fs, req[r].aside, req[r].ask.dst) IN
  [p \in {p \in DOMAIN inPlace : ~Hidden(p)} |-> inPlace[p]]

Pending ==
  [r \in Requests |->
     IF req[r] = Nil THEN Nil
     ELSE IF req[r].phase \in {"cleanup", "restore", "discard"} THEN Nil
     ELSE req[r].ask]

Atomic == INSTANCE AtomicTree WITH tree <- Resources, pending <- Pending

(* Served one at a time, requests are atomic: whatever calls fail, but the *)
(* three nothing undoes, PUT, COPY and MOVE take effect whole and at once  *)
(* or not at all, under their conditions, and clients see no state in      *)
(* between.                                                                *)
Implements == Atomic!Spec
=============================================================================
