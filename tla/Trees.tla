------------------------------- MODULE Trees -------------------------------
(***************************************************************************)
(* Trees of files and collections, as the system calls LocalFileSystem     *)
(* makes see them.  A path is a sequence of segments below the served      *)
(* directory, which always exists; a tree maps the paths that exist to     *)
(* nodes.  ino is what tells one file from every other: it stands for the  *)
(* modification time and size that fileInfoFromOS makes the ETag of.       *)
(***************************************************************************)
EXTENDS Naturals, Sequences

CONSTANTS
  Nil,           \* no value
  Partial        \* the body of a file whose bytes have not all arrived

File(ino, body) == [file |-> TRUE, ino |-> ino, body |-> body]
Collection(ino) == [file |-> FALSE, ino |-> ino, body |-> Nil]

Parent(p) == SubSeq(p, 1, Len(p) - 1)

(* q is p, or a path below it. *)
Within(p, q) == Len(p) <= Len(q) /\ \A i \in 1..Len(p) : q[i] = p[i]

Under(tree, p) == {q \in DOMAIN tree : Within(p, q)}

MembersOf(tree, p) == {q \in DOMAIN tree : Parent(q) = p}

IsCollection(tree, p) == p = <<>> \/ (p \in DOMAIN tree /\ ~tree[p].file)

(* x, which is within p, as it would be called if p were q. *)
Rebased(x, p, q) == q \o SubSeq(x, Len(p) + 1, Len(x))

Without(tree, p) == [x \in DOMAIN tree \ Under(tree, p) |-> tree[x]]

With(tree, p, node) == [x \in DOMAIN tree \cup {p} |-> IF x = p THEN node ELSE tree[x]]

(* rename(2): the tree at p comes to be at q, in place of what was there. *)
Moved(tree, p, q) ==
  [x \in {Rebased(y, p, q) : y \in Under(tree, p)}
           \cup (DOMAIN tree \ (Under(tree, p) \cup Under(tree, q))) |->
     IF Within(q, x) THEN tree[Rebased(x, q, p)] ELSE tree[x]]

(* os.Rename refuses to replace a directory, even an empty one, and to     *)
(* replace a file by a directory.                                          *)
CanRename(tree, p, q) ==
  /\ p \in DOMAIN tree
  /\ IsCollection(tree, Parent(q))
  /\ q \in DOMAIN tree => tree[p].file /\ tree[q].file
  /\ ~Within(p, q)

---------------------------------------------------------------------------
(* Conditional headers.  0 is the ETag of a resource that is not there.    *)

ETagAt(tree, p) == IF p \in DOMAIN tree THEN tree[p].ino ELSE 0

Unset == [set |-> FALSE, any |-> FALSE, tags |-> {}]
Wildcard == [set |-> TRUE, any |-> TRUE, tags |-> {}]
Tags(tags) == [set |-> TRUE, any |-> FALSE, tags |-> tags]

MatchETag(header, etag) ==
  IF header.any THEN etag # 0 ELSE etag # 0 /\ etag \in header.tags

(* Mutant: If-None-Match is not looked at. *)
checkConditionalMatches_IfMatchOnly(etag, ifMatch, ifNoneMatch) ==
  ifMatch.set => MatchETag(ifMatch, etag)

checkConditionalMatches(etag, ifMatch, ifNoneMatch) ==
  /\ ifMatch.set => MatchETag(ifMatch, etag)
  /\ ifNoneMatch.set => ~MatchETag(ifNoneMatch, etag)
=============================================================================
