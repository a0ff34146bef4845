----------------------------- MODULE AtomicTree -----------------------------
(***************************************************************************)
(* What a WebDAV file system promises: a request takes effect at one       *)
(* moment between its acceptance and its answer, whole, and only if its    *)
(* conditions hold at that moment; or it does not take effect at all.      *)
(* Only DELETE of a collection may be seen, or fail, half done, and is     *)
(* decided when it is accepted.                                            *)
(***************************************************************************)
EXTENDS Trees

CONSTANTS Requests

VARIABLES
  tree,          \* the resources
  pending        \* request slot -> the request accepted there, or Nil

vars == <<tree, pending>>

Inos == {tree[p].ino : p \in DOMAIN tree}

Named(header) == IF header.any THEN Nat \ {0} ELSE header.tags

(* The conditions of q hold of a resource with this ETag. *)
Permitted(q, etag) ==
  /\ q.ifMatch.set => etag \in Named(q.ifMatch)
  /\ q.ifNoneMatch.set => etag \notin Named(q.ifNoneMatch)

Answered(r) == pending' = [pending EXCEPT ![r] = Nil]

Accept(r) ==
  /\ pending[r] = Nil
  /\ pending'[r] # Nil
  /\ LET q == pending'[r] IN
     /\ pending' = [pending EXCEPT ![r] = q]
     /\ q.op = "DELETE" =>
          /\ q.path \in DOMAIN tree
          /\ Permitted(q, tree[q.path].ino)
  /\ UNCHANGED tree

(* The request fails, or a DELETE finds nothing left to do. *)
Refuse(r) ==
  /\ pending[r] # Nil
  /\ Answered(r)
  /\ UNCHANGED tree

Put(r) ==
  /\ pending[r] # Nil /\ pending[r].op = "PUT"
  /\ LET q == pending[r] p == q.path IN
     /\ Permitted(q, ETagAt(tree, p))
     /\ IsCollection(tree, Parent(p)) /\ ~IsCollection(tree, p)
     /\ p \in DOMAIN tree'
     /\ tree'[p].ino \notin Inos
     /\ tree' = With(tree, p, File(tree'[p].ino, q.body))
  /\ Answered(r)

Delete(r) ==
  /\ pending[r] # Nil /\ pending[r].op = "DELETE"
  /\ \E p \in Under(tree, pending[r].path) :
       /\ MembersOf(tree, p) = {}
       /\ tree' = Without(tree, p)
       /\ IF p = pending[r].path THEN Answered(r) ELSE UNCHANGED pending

Mkcol(p) ==
  /\ p \notin DOMAIN tree
  /\ IsCollection(tree, Parent(p))
  /\ tree'[p].ino \notin Inos
  /\ tree' = With(tree, p, Collection(tree'[p].ino))
  /\ UNCHANGED pending

(* COPY and MOVE need a source and a place for the destination. *)
CanPlace(q) ==
  /\ q.path \in DOMAIN tree
  /\ ~Within(q.path, q.dst)
  /\ IsCollection(tree, Parent(q.dst))
  /\ q.dst \in DOMAIN tree => q.overwrite

Move(r) ==
  /\ pending[r] # Nil /\ pending[r].op = "MOVE"
  /\ LET q == pending[r] IN
     /\ CanPlace(q)
     /\ tree' = Moved(tree, q.path, q.dst)
  /\ Answered(r)

(* Every copy is a new file with the bytes of its original. *)
Copy(r) ==
  /\ pending[r] # Nil /\ pending[r].op = "COPY"
  /\ LET q == pending[r]
         originals == IF q.deep THEN Under(tree, q.path) ELSE {q.path}
         kept == Without(tree, q.dst)
         CopyOf(p) == Rebased(p, q.path, q.dst) IN
     /\ CanPlace(q)
     /\ DOMAIN tree' = DOMAIN kept \cup {CopyOf(p) : p \in originals}
     /\ \A p \in DOMAIN kept : tree'[p] = tree[p]
     /\ \A p \in originals :
          LET copy == tree'[CopyOf(p)] IN
          /\ copy.file = tree[p].file /\ copy.body = tree[p].body
          /\ copy.ino \notin Inos
  /\ Answered(r)

Init ==
  /\ tree = <<>>
  /\ pending = [r \in Requests |-> Nil]

Next ==
  \/ \E r \in Requests :
       \/ Accept(r)
       \/ Refuse(r)
       \/ Put(r)
       \/ Delete(r)
       \/ Move(r)
       \/ Copy(r)
  \/ \E p \in DOMAIN tree' \ DOMAIN tree : Mkcol(p)

Spec == Init /\ [][Next]_vars
=============================================================================
