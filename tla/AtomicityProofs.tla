--------------------------- MODULE AtomicityProofs ---------------------------
(***************************************************************************)
(* Served one at a time, the requests of LocalFS are atomic: its steps are *)
(* those of AtomicTree.                                                    *)
(***************************************************************************)
EXTENDS LocalFSProofs

---------------------------------------------------------------------------
(* The invariant of a request r that is served alone.                      *)

(* One slot, no crash, and no failure of the three calls that clear up. *)
Undisturbed(r) ==
  /\ Requests = {r} /\ ~Crashes
  /\ "cleanup" \notin Faults /\ "restore" \notin Faults /\ "discard" \notin Faults

(* x is a, or below it under names clients chose. *)
Beyond(a, x) == Within(a, x) /\ \A i \in Len(a)+1..Len(x) : x[i] \notin Temps

(* Where the request may have something under a temporary name. *)
Places(q) ==
  {p \in {q.tmp} : q.ask.op \in {"PUT", "COPY"} /\ q.phase \notin {"create", "discard"}}
  \cup {p \in {q.aside} : q.phase \in {"swapIn", "restore", "discard"}}

(* Nothing else is hidden. *)
Staging(places, t) == \A x \in DOMAIN t : Hidden(x) => \E a \in places : Beyond(a, x)

PutOK(q, t) ==
  q.ask.op = "PUT" =>
    /\ q.phase # "cleanup" =>
         checkConditionalMatches(ETagAt(t, q.ask.path), q.ask.ifMatch, q.ask.ifNoneMatch)
    /\ q.phase # "create" => Parent(q.tmp) = Parent(q.ask.path)
    /\ q.phase = "write" => q.tmp \in DOMAIN t /\ t[q.tmp].ino = q.ino
    /\ q.phase = "rename" => 
         q.tmp \in DOMAIN t /\ t[q.tmp] = File(t[q.tmp].ino, q.ask.body)

DeleteOK(q, t) ==
  q.phase = "empty" => q.ask.path \in DOMAIN t /\ t[q.ask.path].ino = q.ino

TransferOK(q, t) ==
  q.ask.op \in {"COPY", "MOVE"} =>
    /\ ~Within(q.ask.path, q.ask.dst)
    /\ q.ask.op = "COPY" => Parent(q.tmp) = Parent(q.ask.dst)
    /\ q.phase \in {"copy", "fill", "swap"} =>
         /\ q.existed <=> q.ask.dst \in DOMAIN t
         /\ q.existed => q.ask.overwrite
    /\ q.phase \in {"swapIn", "restore", "discard"} =>
         /\ Parent(q.aside) = Parent(q.ask.dst)
         /\ q.ask.overwrite
         /\ q.ask.op = "COPY" => Token(q.aside) # Token(q.tmp)
    /\ q.phase \in {"swapIn", "restore"} =>
         q.aside \in DOMAIN t /\ q.ask.dst \notin DOMAIN t

(* The tree, with what is set aside in its place. *)
View(q, t) ==
  IF q # Nil /\ q.phase \in {"swapIn", "restore"} THEN Moved(t, q.aside, q.ask.dst) ELSE t

Originals(q, v) == IF q.ask.deep THEN Under(v, q.ask.path) ELSE {q.ask.path}

SameContent(node, copy) == copy.file = node.file /\ copy.body = node.body

(* The file being copied, whose copy has no bytes yet. *)
Filling(q, t, v, y) ==
  LET copy == Rebased(y, q.ask.path, q.tmp) IN
  v[y] = q.from /\ copy \in DOMAIN t /\ t[copy].ino = q.ino

CopyOK(q, t, v) ==
  q.ask.op = "COPY" /\ q.phase \in {"copy", "fill", "swapIn"} =>
    /\ q.ask.path \in DOMAIN v
    /\ ~q.ask.deep => q.todo \subseteq {q.ask.path}
    /\ q.phase = "swapIn" => q.todo = {}
    /\ \A y \in Originals(q, v) :
         LET copy == Rebased(y, q.ask.path, q.tmp) IN
         \/ \E z \in q.todo : Within(z, y)
         \/ copy \in DOMAIN t /\ SameContent(v[y], t[copy])
         \/ q.phase = "fill" /\ Filling(q, t, v, y)
    /\ q.phase = "fill" =>
         q.from.body # Partial /\ \E y \in Originals(q, v) : Filling(q, t, v, y)
    /\ \A x \in DOMAIN t :
         Within(q.tmp, x) => Rebased(x, q.tmp, q.ask.path) \in Originals(q, v)

AloneInv(q, t) ==
  IF q = Nil THEN Staging({}, t)
  ELSE /\ Staging(Places(q), t)
       /\ PutOK(q, t)
       /\ DeleteOK(q, t)
       /\ TransferOK(q, t)
       /\ CopyOK(q, t, View(q, t))
---------------------------------------------------------------------------
(* Hidden paths.                                                           *)

Clean(x) == \A i \in 1..Len(x) : x[i] \notin Temps

LEMMA HiddenIs ==
  ASSUME NEW x \in Seq(Segs)
  PROVE  Hidden(x) <=> ~Clean(x)
BY LocalFSAssumption DEF Hidden, Clean, Segs

LEMMA PathsClean ==
  ASSUME NEW p \in Paths
  PROVE  Clean(p) /\ ~Hidden(p)
<1>1. p \in Seq(Segments)
  BY LocalFSAssumption
<1>2. \A i \in 1..Len(p) : p[i] \in Segments
  BY <1>1, ElementOfSeq
<1>3. Clean(p)
  BY <1>2, LocalFSAssumption DEF Clean
<1> QED
  BY <1>3, PathFacts, HiddenIs

(* The collection of a clean path is clean. *)
LEMMA CleanAbove ==
  ASSUME NEW x \in Seq(Segs), NEW z \in Seq(Segs), Within(z, x), Clean(x)
  PROVE  Clean(z)
<1>1. Len(x) \in Nat /\ Len(z) \in Nat
  BY LenProperties
<1> QED
  BY <1>1 DEF Within, Clean

LEMMA StagedHidden ==
  ASSUME NEW a \in Staged, NEW x \in Seq(Segs), Within(a, x)
  PROVE  Hidden(x) /\ ~Clean(x)
<1>1. a \in Seq(Segs) /\ Len(a) \in 1..Len(a) /\ a[Len(a)] \in Temps
  BY StagedFacts DEF Token
<1>2. ~Clean(a)
  BY <1>1 DEF Clean
<1> QED
  BY <1>1, <1>2, CleanAbove, HiddenIs

LEMMA BeyondRebased ==
  ASSUME NEW x \in Seq(Segs), NEW p \in Seq(Segs), NEW q \in Seq(Segs), Beyond(p, x)
  PROVE  /\ Beyond(q, Rebased(x, p, q))
         /\ Clean(q) => Clean(Rebased(x, p, q))
<1> DEFINE z == Rebased(x, p, q)
<1>1. z \in Seq(Segs) /\ Within(q, z) /\ Spliced(z, x, p, q)
  BY RebasedBack, RebasedFacts DEF Beyond
<1> HIDE DEF z
<1>2. ASSUME NEW i \in Len(q)+1..Len(z)
      PROVE  z[i] \notin Temps
  <2>1. /\ Len(z) = Len(q) + Len(x) - Len(p)
        /\ Len(x) \in Nat /\ Len(p) \in Nat /\ Len(q) \in Nat /\ Len(z) \in Nat
    BY <1>1, LenProperties DEF Spliced
  <2>2. /\ i \in Len(q) + 1..Len(q) + Len(x) - Len(p)
        /\ i - Len(q) + Len(p) \in Len(p)+1..Len(x)
    BY <1>2, <2>1
  <2>3. z[i] = x[i - Len(q) + Len(p)]
    BY <1>1, <2>2 DEF Spliced
  <2> QED
    BY <2>2, <2>3 DEF Beyond
<1>3. Beyond(q, z)
  BY <1>1, <1>2 DEF Beyond
<1>4. ASSUME Clean(q)
      PROVE  Clean(z)
  <2> SUFFICES ASSUME NEW i \in 1..Len(z)
               PROVE  z[i] \notin Temps
    BY DEF Clean
  <2>1. CASE i <= Len(q)
    BY <1>1, <1>4, <2>1 DEF Spliced, Clean
  <2>2. CASE ~(i <= Len(q))
    BY <1>1, <1>2, <2>2 DEF Spliced
  <2> QED
    BY <2>1, <2>2
<1> QED
  BY <1>3, <1>4 DEF z

(* Below a clean path, hidden is hidden on the way down. *)
LEMMA CleanIsBeyond ==
  ASSUME NEW x \in Seq(Segs), NEW p \in Seq(Segs), Within(p, x)
  PROVE  /\ Clean(x) => Beyond(p, x)
         /\ Clean(p) /\ Beyond(p, x) => Clean(x)
<1>1. Len(x) \in Nat /\ Len(p) \in Nat /\ Len(p) <= Len(x)
  BY LenProperties DEF Within
<1> QED
  BY <1>1 DEF Clean, Beyond, Within

LEMMA HiddenRebased ==
  ASSUME NEW x \in Seq(Segs), NEW p \in Seq(Segs), NEW q \in Seq(Segs),
         Within(p, x), Clean(p), Clean(q)
  PROVE  Hidden(Rebased(x, p, q)) <=> Hidden(x)
<1> DEFINE z == Rebased(x, p, q)
<1>1. z \in Seq(Segs) /\ Within(q, z) /\ Rebased(z, q, p) = x
  BY RebasedBack
<1> HIDE DEF z
<1>2. Clean(x) => Clean(z)
  BY CleanIsBeyond, BeyondRebased DEF z
<1>3. Clean(z) => Clean(x)
  BY <1>1, CleanIsBeyond, BeyondRebased
<1> QED
  BY <1>1, <1>2, <1>3, HiddenIs DEF z

(* A temporary path and its siblings are apart. *)
LEMMA StagedApart ==
  ASSUME NEW a \in Staged, NEW p \in Seq(Segs), p # <<>>, Parent(a) = Parent(p),
         Clean(p) \/ Token(p) # Token(a)
  PROVE  ~Within(a, p) /\ ~Within(p, a)
<1>1. a \in Seq(Segs) /\ a # <<>> /\ Len(a) > 0 /\ Token(a) \in Temps
  BY StagedFacts
<1>2. Len(Parent(a)) = Len(a) - 1 /\ Len(Parent(p)) = Len(p) - 1 /\ Len(a) \in Nat /\ Len(p) \in Nat
      /\ Len(p) > 0
  BY <1>1, ParentFacts
<1>3. Len(a) = Len(p)
  BY <1>2
<1>4. Clean(p) => Token(p) # Token(a)
  BY <1>1, <1>2 DEF Clean, Token
<1>5. a # p
  BY <1>4
<1> QED
  BY <1>1, <1>3, <1>5, WithinFacts

---------------------------------------------------------------------------
(* What clients see of a tree.                                             *)

Visible(t) == [x \in {x \in DOMAIN t : ~Hidden(x)} |-> t[x]]

(* t and u have the same nodes. *)
SameTree(t, u) == DOMAIN t = DOMAIN u /\ \A x \in DOMAIN t : t[x] = u[x]

IsTree(t) == t = [x \in DOMAIN t |-> t[x]]

LEMMA Extensional ==
  ASSUME NEW t, NEW u, IsTree(t), IsTree(u), SameTree(t, u)
  PROVE  t = u
BY DEF IsTree, SameTree

LEMMA TreesAre ==
  ASSUME NEW t, NEW p, NEW q, NEW node
  PROVE  /\ IsTree(Visible(t))
         /\ IsTree(With(t, p, node))
         /\ IsTree(Without(t, p))
         /\ IsTree(Moved(t, p, q))
BY DEF IsTree, Visible, With, Without, Moved

LEMMA VisibleFacts ==
  ASSUME NEW t
  PROVE  /\ DOMAIN Visible(t) = {x \in DOMAIN t : ~Hidden(x)}
         /\ \A x \in DOMAIN Visible(t) : Visible(t)[x] = t[x]
BY DEF Visible

LEMMA VisibleSame ==
  ASSUME NEW t, NEW u,
         \A x : ~Hidden(x) => /\ x \in DOMAIN t <=> x \in DOMAIN u
                              /\ x \in DOMAIN t => t[x] = u[x]
  PROVE  Visible(t) = Visible(u)
<1> DEFINE v == Visible(t)
           w == Visible(u)
<1>1. SameTree(v, w)
  BY VisibleFacts DEF SameTree
<1>2. IsTree(v) /\ IsTree(w)
  BY TreesAre
<1> QED
  BY <1>1, <1>2, Extensional

LEMMA VisibleWith ==
  ASSUME NEW t, NEW p, NEW node
  PROVE  Visible(With(t, p, node)) = IF Hidden(p) THEN Visible(t)
                                     ELSE With(Visible(t), p, node)
<1> DEFINE u == With(t, p, node)
<1>1. DOMAIN u = DOMAIN t \cup {p} /\ u[p] = node /\ \A x \in DOMAIN t : x # p => u[x] = t[x]
  BY DEF With
<1>2. CASE Hidden(p)
  <2> HIDE DEF u
  <2>1. \A x : ~Hidden(x) => /\ x \in DOMAIN u <=> x \in DOMAIN t
                             /\ x \in DOMAIN u => u[x] = t[x]
    BY <1>1, <1>2
  <2>2. Visible(u) = Visible(t)
    BY <2>1, VisibleSame
  <2> QED
    BY <1>2, <2>2 DEF u
<1>3. CASE ~Hidden(p)
  <2> DEFINE v == Visible(u)
             w == With(Visible(t), p, node)
  <2>1. DOMAIN w = DOMAIN Visible(t) \cup {p} /\ w[p] = node
        /\ \A x \in DOMAIN Visible(t) : x # p => w[x] = Visible(t)[x]
    BY DEF With
  <2>2. IsTree(v) /\ IsTree(w)
    BY TreesAre
  <2> HIDE DEF u, w
  <2>3. SameTree(v, w)
    BY <1>1, <1>3, <2>1, VisibleFacts DEF SameTree
  <2>4. v = w
    BY <2>2, <2>3, Extensional
  <2> QED
    BY <1>3, <2>4 DEF u, w
<1> QED
  BY <1>2, <1>3

LEMMA VisibleWithout ==
  ASSUME NEW t, NEW p
  PROVE  Visible(Without(t, p)) = Without(Visible(t), p)
<1> DEFINE v == Visible(Without(t, p))
           w == Without(Visible(t), p)
<1>1. IsTree(v) /\ IsTree(w)
  BY TreesAre
<1>2. SameTree(v, w)
  BY VisibleFacts DEF SameTree, Without, Under
<1> QED
  BY <1>1, <1>2, Extensional

(* What is hidden does not matter. *)
LEMMA VisibleDiscarded ==
  ASSUME NEW t, DOMAIN t \subseteq Seq(Segs), NEW a \in Staged
  PROVE  Visible(Without(t, a)) = Visible(t)
<1> DEFINE u == Without(t, a)
<1>1. DOMAIN u = {x \in DOMAIN t : ~Within(a, x)} /\ \A x \in DOMAIN u : u[x] = t[x]
  BY DEF Without, Under
<1> HIDE DEF u
<1>2. \A x \in DOMAIN t : Within(a, x) => Hidden(x)
  BY StagedHidden
<1>3. \A x : ~Hidden(x) => /\ x \in DOMAIN u <=> x \in DOMAIN t
                           /\ x \in DOMAIN u => u[x] = t[x]
  BY <1>1, <1>2
<1> QED
  BY <1>3, VisibleSame DEF u

LEMMA VisibleCollection ==
  ASSUME NEW t, NEW p, ~Hidden(p)
  PROVE  IsCollection(Visible(t), p) <=> IsCollection(t, p)
BY VisibleFacts DEF IsCollection

(* There is one way to rename. *)
LEMMA RenamesUnique ==
  ASSUME NEW t, NEW p, NEW q, NEW u, NEW v,
         Renames(t, u, p, q), Renames(t, v, p, q), IsTree(u), IsTree(v)
  PROVE  u = v
<1>1. \A x \in DOMAIN u : x \in DOMAIN v /\ v[x] = u[x]
  BY DEF Renames
<1>2. \A x \in DOMAIN v : x \in DOMAIN u
  BY DEF Renames
<1>3. SameTree(u, v)
  BY <1>1, <1>2 DEF SameTree
<1> QED
  BY <1>3, Extensional

(* Clients see a rename of theirs as a rename. *)
LEMMA VisibleMoved ==
  ASSUME NEW t, DOMAIN t \subseteq Seq(Segs),
         NEW p \in Seq(Segs), NEW q \in Seq(Segs), Clean(p), Clean(q)
  PROVE  Visible(Moved(t, p, q)) = Moved(Visible(t), p, q)
<1> DEFINE u == Moved(t, p, q)
           s == Visible(t)
           v == Visible(u)
<1>1. Renames(t, u, p, q)
  BY MovedRenames
<1>2. DOMAIN s \subseteq Seq(Segs)
  BY VisibleFacts
<1>3. Renames(s, Moved(s, p, q), p, q)
  BY <1>2, MovedRenames
<1>4. IsTree(Moved(s, p, q)) /\ IsTree(v)
  BY TreesAre
<1>5. DOMAIN s = {x \in DOMAIN t : ~Hidden(x)} /\ \A x \in DOMAIN s : s[x] = t[x]
  BY VisibleFacts
<1>6. DOMAIN v = {x \in DOMAIN u : ~Hidden(x)} /\ \A x \in DOMAIN v : v[x] = u[x]
  BY VisibleFacts
<1> HIDE DEF u, s, v
<1>7. \A y \in DOMAIN t : Within(p, y) => (Hidden(Rebased(y, p, q)) <=> Hidden(y))
  BY HiddenRebased
<1>8. \A x \in Seq(Segs) : Within(q, x) => (Hidden(Rebased(x, q, p)) <=> Hidden(x))
  BY HiddenRebased
<1>9. Renames(s, v, p, q)
  <2>1. ASSUME NEW x \in DOMAIN v
        PROVE  \/ /\ Within(q, x)
                  /\ Rebased(x, q, p) \in DOMAIN s /\ Within(p, Rebased(x, q, p))
                  /\ x = Rebased(Rebased(x, q, p), p, q)
                  /\ x \in Seq(Segs) /\ v[x] = s[Rebased(x, q, p)]
               \/ /\ ~Within(q, x) /\ ~Within(p, x)
                  /\ x \in DOMAIN s /\ v[x] = s[x]
    BY <1>1, <1>5, <1>6, <1>8 DEF Renames
  <2>2. \A y \in DOMAIN s :
          Within(p, y) => Rebased(y, p, q) \in DOMAIN v /\ v[Rebased(y, p, q)] = s[y]
    BY <1>1, <1>5, <1>6, <1>7 DEF Renames
  <2>3. \A y \in DOMAIN s :
          ~Within(p, y) /\ ~Within(q, y) => y \in DOMAIN v /\ v[y] = s[y]
    BY <1>1, <1>5, <1>6 DEF Renames
  <2> QED
    BY <2>1, <2>2, <2>3 DEF Renames
<1>10. v = Moved(s, p, q)
  BY <1>3, <1>4, <1>9, RenamesUnique
<1> QED
  BY <1>10 DEF u, s, v

(* There and back is no change. *)
LEMMA MovedBack ==
  ASSUME NEW t, DOMAIN t \subseteq Seq(Segs),
         NEW p \in Seq(Segs), NEW q \in Seq(Segs),
         ~Within(p, q), ~Within(q, p), \A x \in DOMAIN t : ~Within(q, x)
  PROVE  SameTree(Moved(Moved(t, p, q), q, p), t)
<1> DEFINE u == Moved(t, p, q)
           v == Moved(u, q, p)
<1>1. Renames(t, u, p, q)
  BY MovedRenames
<1> HIDE DEF u
<1>2. DOMAIN u \subseteq Seq(Segs)
  BY <1>1 DEF Renames
<1>3. Renames(u, v, q, p)
  BY <1>2, MovedRenames
<1> HIDE DEF v
<1>4. \A x \in DOMAIN t : Within(p, x) =>
        /\ Within(q, Rebased(x, p, q)) /\ Rebased(Rebased(x, p, q), q, p) = x
  BY RebasedBack
<1>5. ASSUME NEW x \in DOMAIN t
      PROVE  x \in DOMAIN v /\ v[x] = t[x]
  <2>1. CASE Within(p, x)
    BY <1>1, <1>3, <1>4, <2>1 DEF Renames
  <2>2. CASE ~Within(p, x)
    BY <1>1, <1>3, <2>2 DEF Renames
  <2> QED
    BY <2>1, <2>2
<1>6. ASSUME NEW x \in DOMAIN v
      PROVE  x \in DOMAIN t
  <2>1. CASE Within(p, x)
    <3> DEFINE y == Rebased(x, p, q)
    <3>1. y \in DOMAIN u /\ Within(q, y) /\ x = Rebased(y, q, p)
      BY <1>3, <2>1 DEF Renames
    <3> QED
      BY <1>1, <3>1 DEF Renames
  <2>2. CASE ~Within(p, x)
    BY <1>1, <1>3, <2>2 DEF Renames
  <2> QED
    BY <2>1, <2>2
<1> QED
  BY <1>5, <1>6 DEF SameTree, u, v
LEMMA SameVisible ==
  ASSUME NEW t, NEW u, SameTree(t, u)
  PROVE  Visible(t) = Visible(u)
BY VisibleSame DEF SameTree

(* A MOVE over a tree that is set aside, as clients see it. *)
LEMMA VisibleSwap ==
  ASSUME NEW t, NEW n \in Nat, TreeOK(t, n), NEW a \in Staged,
         NEW p \in Paths, NEW q \in Paths, q \notin DOMAIN t, CanRename(t, p, q)
  PROVE  Visible(Moved(t, p, q)) = Moved(Visible(Moved(t, a, q)), p, q)
<1> DEFINE u == Moved(t, p, q)
           b == Moved(t, a, q)
           s == Visible(b)
           v == Visible(u)
<1>1. /\ DOMAIN t \subseteq Seq(Segs) /\ a \in Seq(Segs) /\ p \in Seq(Segs)
      /\ q \in Seq(Segs) /\ q # <<>>
  BY PathFacts, StagedFacts DEF TreeOK
<1>2. Clean(p) /\ Clean(q)
  BY PathsClean
<1>3. Renames(t, u, p, q) /\ Renames(t, b, a, q)
  BY <1>1, MovedRenames
<1>4. DOMAIN s = {x \in DOMAIN b : ~Hidden(x)} /\ \A x \in DOMAIN s : s[x] = b[x]
  BY VisibleFacts
<1>5. DOMAIN v = {x \in DOMAIN u : ~Hidden(x)} /\ \A x \in DOMAIN v : v[x] = u[x]
  BY VisibleFacts
<1>6. IsTree(Moved(s, p, q)) /\ IsTree(v)
  BY TreesAre
<1> HIDE DEF u, b
<1>7. DOMAIN s \subseteq Seq(Segs)
  BY <1>1, <1>3, <1>4 DEF Renames
<1>8. Renames(s, Moved(s, p, q), p, q)
  BY <1>1, <1>7, MovedRenames
<1> HIDE DEF s, v
<1>9. ASSUME NEW x \in DOMAIN t
      PROVE  ~Within(q, x)
  BY <1>1 DEF TreeOK, Closed, IsCollection
<1>10. p \in DOMAIN t /\ ~Within(p, q)
  BY DEF CanRename
<1>11. \A x \in Seq(Segs) : Within(p, x) => ~Within(q, x)
  BY <1>1, <1>9, <1>10, WithinFacts
<1>12. \A x \in Seq(Segs) : ~Hidden(x) => ~Within(a, x)
  BY StagedHidden
<1>13. \A y \in DOMAIN t : Within(p, y) => (Hidden(Rebased(y, p, q)) <=> Hidden(y))
  BY <1>1, <1>2, HiddenRebased
<1>14. \A x : ~Hidden(x) /\ ~Within(q, x) =>
         /\ x \in DOMAIN t => x \in DOMAIN b /\ b[x] = t[x]
         /\ x \in DOMAIN b => x \in DOMAIN t /\ b[x] = t[x]
  BY <1>1, <1>3, <1>12 DEF Renames
<1>15. Renames(s, v, p, q)
  <2>1. ASSUME NEW x \in DOMAIN v
        PROVE  \/ /\ Within(q, x)
                  /\ Rebased(x, q, p) \in DOMAIN s /\ Within(p, Rebased(x, q, p))
                  /\ x = Rebased(Rebased(x, q, p), p, q)
                  /\ x \in Seq(Segs) /\ v[x] = s[Rebased(x, q, p)]
               \/ /\ ~Within(q, x) /\ ~Within(p, x)
                  /\ x \in DOMAIN s /\ v[x] = s[x]
    <3>1. x \in DOMAIN u /\ ~Hidden(x) /\ v[x] = u[x]
      BY <1>5
    <3>2. CASE Within(q, x)
      <4> DEFINE y == Rebased(x, q, p)
      <4>1. y \in DOMAIN t /\ Within(p, y) /\ x = Rebased(y, p, q) /\ x \in Seq(Segs) /\ u[x] = t[y]
        BY <1>3, <3>1, <3>2 DEF Renames
      <4> HIDE DEF y
      <4>2. ~Hidden(y)
        BY <1>13, <3>1, <4>1
      <4>3. y \in DOMAIN b /\ b[y] = t[y]
        BY <1>9, <1>14, <4>1, <4>2
      <4> QED
        BY <1>4, <3>1, <3>2, <4>1, <4>2, <4>3 DEF y
    <3>3. CASE ~Within(q, x)
      BY <1>3, <1>4, <1>14, <3>1, <3>3 DEF Renames
    <3> QED
      BY <3>2, <3>3
  <2>2. \A y \in DOMAIN s :
          Within(p, y) => Rebased(y, p, q) \in DOMAIN v /\ v[Rebased(y, p, q)] = s[y]
    <3> SUFFICES ASSUME NEW y \in DOMAIN s, Within(p, y)
                 PROVE  Rebased(y, p, q) \in DOMAIN v /\ v[Rebased(y, p, q)] = s[y]
      OBVIOUS
    <3>1. y \in DOMAIN t /\ s[y] = t[y] /\ ~Hidden(y)
      BY <1>4, <1>7, <1>11, <1>14
    <3>2. Rebased(y, p, q) \in DOMAIN u /\ u[Rebased(y, p, q)] = t[y]
      BY <1>3, <3>1 DEF Renames
    <3> QED
      BY <1>5, <1>13, <3>1, <3>2
  <2>3. \A y \in DOMAIN s :
          ~Within(p, y) /\ ~Within(q, y) => y \in DOMAIN v /\ v[y] = s[y]
    BY <1>3, <1>4, <1>5, <1>14 DEF Renames
  <2> QED
    BY <2>1, <2>2, <2>3 DEF Renames
<1>16. v = Moved(s, p, q)
  BY <1>6, <1>8, <1>15, RenamesUnique
<1> QED
  BY <1>16 DEF u, s, v, b

(* Rebasing twice is rebasing once. *)
LEMMA RebasedTwice ==
  ASSUME NEW S, NEW x \in Seq(S), NEW p \in Seq(S), NEW q \in Seq(S), NEW o \in Seq(S),
         Within(p, x)
  PROVE  Rebased(Rebased(x, p, q), q, o) = Rebased(x, p, o)
<1> DEFINE y == Rebased(x, p, q)
           z == Rebased(y, q, o)
           w == Rebased(x, p, o)
<1>1. y \in Seq(S) /\ Within(q, y) /\ Spliced(y, x, p, q) /\ w \in Seq(S) /\ Spliced(w, x, p, o)
  <2> HIDE DEF z
  <2> QED
    BY RebasedFacts, RebasedBack
<1> HIDE DEF y, w
<1>2. z \in Seq(S) /\ Spliced(z, y, q, o)
  BY <1>1, RebasedFacts
<1> HIDE DEF z
<1>3. /\ Len(y) = Len(q) + Len(x) - Len(p) /\ Len(w) = Len(o) + Len(x) - Len(p)
      /\ Len(z) = Len(o) + Len(y) - Len(q)
      /\ Len(x) \in Nat /\ Len(p) \in Nat /\ Len(q) \in Nat /\ Len(o) \in Nat /\ Len(y) \in Nat
      /\ Len(p) <= Len(x)
  BY <1>1, <1>2 DEF Spliced
<1>4. Len(z) = Len(w)
  BY <1>3
<1>5. ASSUME NEW i \in 1..Len(z)
      PROVE  z[i] = w[i]
  <2>1. CASE i <= Len(o)
    BY <1>1, <1>2, <1>3, <2>1 DEF Spliced
  <2>2. CASE ~(i <= Len(o))
    <3> DEFINE j == i - Len(o) + Len(q)
               k == i - Len(o) + Len(p)
    <3>1. /\ i \in Len(o)+1..Len(o) + Len(y) - Len(q)
          /\ i \in Len(o)+1..Len(o) + Len(x) - Len(p)
          /\ j \in Len(q)+1..Len(q) + Len(x) - Len(p)
          /\ j - Len(q) + Len(p) = k
      BY <1>3, <2>2
    <3>2. z[i] = y[j]
      BY <1>2, <3>1 DEF Spliced
    <3>3. y[j] = x[j - Len(q) + Len(p)]
      BY <1>1, <3>1 DEF Spliced
    <3>4. w[i] = x[k]
      BY <1>1, <3>1 DEF Spliced
    <3> QED
      BY <3>1, <3>2, <3>3, <3>4
  <2> QED
    BY <2>1, <2>2
<1>6. z = w
  BY <1>1, <1>2, <1>4, <1>5, SeqEqual
<1> QED
  BY <1>6 DEF z, w, y
---------------------------------------------------------------------------
(* What COPY brings into place.                                            *)

(* u is t with copies of the originals, which are within p, at q. *)
Copied(t, u, p, q, originals) ==
  /\ DOMAIN u = DOMAIN Without(t, q) \cup {Rebased(y, p, q) : y \in originals}
  /\ \A x \in DOMAIN Without(t, q) : u[x] = t[x]
  /\ \A y \in originals :
       /\ SameContent(t[y], u[Rebased(y, p, q)])
       /\ u[Rebased(y, p, q)].ino \notin {t[x].ino : x \in DOMAIN t}

(* v is t but for what is below q, and for what clients do not see. *)
AgreesBut(v, t, q) ==
  \A x : ~Hidden(x) /\ ~Within(q, x) =>
    /\ x \in DOMAIN v => x \in DOMAIN t /\ v[x] = t[x]
    /\ x \in DOMAIN t => x \in DOMAIN v /\ v[x] = t[x]

(* No node that clients see is one of a's. *)
OutsideOf(v, t, a) ==
  \A z \in DOMAIN v : ~Hidden(z) => \E y \in DOMAIN t : ~Within(a, y) /\ v[z] = t[y]

(* Below a there are copies of the originals, which are within p. *)
CopiesAt(t, v, p, a, originals) ==
  /\ \A y \in originals :
       /\ y \in DOMAIN v /\ Within(p, y)
       /\ Rebased(y, p, a) \in DOMAIN t
       /\ SameContent(v[y], t[Rebased(y, p, a)])
  /\ \A x \in DOMAIN t : Within(a, x) => Rebased(x, a, p) \in originals

LEMMA CopyPlaced ==
  ASSUME NEW t, NEW n \in Nat, TreeOK(t, n), NEW v, DOMAIN v \subseteq Seq(Segs),
         NEW a \in Staged, NEW p \in Paths, NEW q \in Paths,
         AgreesBut(v, t, q), OutsideOf(v, t, a),
         NEW originals, CopiesAt(t, v, p, a, originals)
  PROVE  Copied(Visible(v), Visible(Moved(t, a, q)), p, q,
                {y \in originals : ~Hidden(y)})
<1> DEFINE b == Moved(t, a, q)
           s == Visible(v)
           u == Visible(b)
           seen == {y \in originals : ~Hidden(y)}
           kept == Without(s, q)
<1>1. /\ DOMAIN t \subseteq Seq(Segs) /\ a \in Seq(Segs) /\ p \in Seq(Segs) /\ q \in Seq(Segs)
      /\ Clean(p) /\ Clean(q)
  BY PathFacts, StagedFacts, PathsClean DEF TreeOK
<1>2. Renames(t, b, a, q)
  BY <1>1, MovedRenames
<1>3. DOMAIN s = {x \in DOMAIN v : ~Hidden(x)} /\ \A x \in DOMAIN s : s[x] = v[x]
  BY VisibleFacts
<1>4. DOMAIN u = {x \in DOMAIN b : ~Hidden(x)} /\ \A x \in DOMAIN u : u[x] = b[x]
  BY VisibleFacts
<1>5. DOMAIN kept = {x \in DOMAIN s : ~Within(q, x)}
  BY DEF Without, Under
<1> HIDE DEF b, s, u, kept
<1>6. \A x \in Seq(Segs) : ~Hidden(x) => ~Within(a, x)
  BY <1>1, StagedHidden
<1>7. \A y \in Seq(Segs) : Within(p, y) =>
        /\ Hidden(Rebased(y, p, q)) <=> Hidden(y)
        /\ Within(q, Rebased(y, p, q))
        /\ Within(a, Rebased(y, p, a))
        /\ Rebased(Rebased(y, p, a), a, q) = Rebased(y, p, q)
  BY <1>1, HiddenRebased, RebasedBack, RebasedTwice
(* What was not replaced. *)
<1>8. ASSUME NEW x \in DOMAIN kept
      PROVE  x \in DOMAIN u /\ u[x] = s[x]
  <2>1. x \in DOMAIN v /\ ~Hidden(x) /\ ~Within(q, x) /\ s[x] = v[x]
    BY <1>3, <1>5
  <2>2. x \in DOMAIN t /\ v[x] = t[x] /\ ~Within(a, x)
    BY <1>6, <2>1 DEF AgreesBut
  <2> QED
    BY <1>2, <1>4, <2>1, <2>2 DEF Renames
(* The copies. *)
<1>9. ASSUME NEW y \in seen
      PROVE  /\ Rebased(y, p, q) \in DOMAIN u
             /\ SameContent(s[y], u[Rebased(y, p, q)])
             /\ \A x \in DOMAIN s : s[x].ino # u[Rebased(y, p, q)].ino
  <2> DEFINE c == Rebased(y, p, a)
             d == Rebased(y, p, q)
  <2>1. y \in DOMAIN v /\ Within(p, y) /\ c \in DOMAIN t /\ SameContent(v[y], t[c]) /\ ~Hidden(y)
    BY DEF CopiesAt
  <2>2. ~Hidden(d) /\ Within(a, c) /\ Rebased(c, a, q) = d
    BY <1>7, <2>1
  <2> HIDE DEF c, d
  <2>3. d \in DOMAIN u /\ u[d] = t[c]
    BY <1>2, <1>4, <2>1, <2>2 DEF Renames
  <2>4. ASSUME NEW x \in DOMAIN s
        PROVE  s[x].ino # u[d].ino
    <3>1. PICK z \in DOMAIN t : ~Within(a, z) /\ s[x] = t[z]
      BY <1>3 DEF OutsideOf
    <3>2. z # c
      BY <2>2, <3>1
    <3>3. t[z].ino # t[c].ino
      BY <2>1, <3>2 DEF TreeOK
    <3> QED
      BY <2>3, <3>1, <3>3
  <2>5. SameContent(s[y], u[d])
    BY <1>3, <2>1, <2>3
  <2> QED
    BY <2>3, <2>4, <2>5 DEF d
(* Nothing else. *)
<1>10. ASSUME NEW x \in DOMAIN u
       PROVE  x \in DOMAIN kept \/ \E y \in seen : x = Rebased(y, p, q)
  <2>1. x \in DOMAIN b /\ ~Hidden(x)
    BY <1>4
  <2>2. CASE Within(q, x)
    <3> DEFINE z == Rebased(x, q, a)
               y == Rebased(x, q, p)
    <3>1. z \in DOMAIN t /\ Within(a, z) /\ x \in Seq(Segs)
      BY <1>2, <2>1, <2>2 DEF Renames
    <3>2. Rebased(z, a, p) = y
      BY <1>1, <2>2, <3>1, RebasedTwice
    <3>3. x = Rebased(y, p, q)
      BY <1>1, <2>2, <3>1, RebasedBack
    <3>4. Hidden(y) <=> Hidden(x)
      BY <1>1, <2>2, <3>1, HiddenRebased
    <3> HIDE DEF y, z
    <3>5. y \in originals
      BY <3>1, <3>2 DEF CopiesAt
    <3> QED
      BY <2>1, <3>3, <3>4, <3>5
  <2>3. CASE ~Within(q, x)
    BY <1>2, <1>3, <1>5, <2>1, <2>3 DEF Renames, AgreesBut
  <2> QED
    BY <2>2, <2>3
<1>11. DOMAIN u = DOMAIN kept \cup {Rebased(y, p, q) : y \in seen}
  BY <1>8, <1>9, <1>10
<1> HIDE DEF seen
<1>12. \A y \in seen : u[Rebased(y, p, q)].ino \notin {s[x].ino : x \in DOMAIN s}
  BY <1>9
<1>13. Copied(s, u, p, q, seen)
  BY <1>8, <1>9, <1>11, <1>12 DEF Copied, kept
<1> QED
  BY <1>13 DEF b, s, u, seen

---------------------------------------------------------------------------
(* What stays hidden.                                                      *)

LEMMA NotAbove ==
  ASSUME NEW p \in Paths, NEW q \in Paths, NEW a \in Staged, Parent(a) = Parent(q),
         ~Within(p, q)
  PROVE  ~Within(p, a)
<1>1. /\ p \in Seq(Segs) /\ q \in Seq(Segs) /\ q # <<>> /\ a \in Seq(Segs) /\ a # <<>>
      /\ ~Hidden(p) /\ Parent(q) \in Seq(Segs)
  BY PathFacts, StagedFacts, PathsClean
<1>2. SUFFICES ASSUME Within(p, a) PROVE FALSE
  OBVIOUS
<1>3. p # a
  BY <1>1, StagedHidden, WithinFacts
<1>4. Within(p, Parent(q))
  BY <1>1, <1>2, <1>3, ParentWithin
<1> QED
  BY <1>1, <1>4, ParentWithin

(* No path is below both of two that are apart. *)
LEMMA Apart ==
  ASSUME NEW p \in Seq(Segs), NEW q \in Seq(Segs), ~Within(p, q), ~Within(q, p)
  PROVE  \A x \in Seq(Segs) : ~(Within(p, x) /\ Within(q, x))
BY WithinFacts

LEMMA MovedIn ==
  ASSUME NEW t, DOMAIN t \subseteq Seq(Segs), NEW places, Staging(places, t),
         NEW a \in Staged, NEW q \in Paths,
         \A b \in places : b = a \/ (b \in Staged /\ ~Within(a, b) /\ ~Within(b, a))
  PROVE  Staging(places \ {a}, Moved(t, a, q))
<1> DEFINE u == Moved(t, a, q)
<1>1. a \in Seq(Segs) /\ q \in Seq(Segs) /\ Clean(q)
  BY PathFacts, StagedFacts, PathsClean
<1>2. Renames(t, u, a, q)
  BY <1>1, MovedRenames
<1> HIDE DEF u
<1>3. ASSUME NEW x \in DOMAIN u, Hidden(x)
      PROVE  \E b \in places \ {a} : Beyond(b, x)
  <2>1. CASE Within(q, x)
    <3> DEFINE y == Rebased(x, q, a)
    <3>1. y \in DOMAIN t /\ Within(a, y) /\ x = Rebased(y, a, q) /\ x \in Seq(Segs)
      BY <1>2, <2>1 DEF Renames
    <3> HIDE DEF y
    <3>2. Hidden(y)
      BY <3>1, StagedHidden
    <3>3. PICK b \in places : Beyond(b, y)
      BY <3>1, <3>2 DEF Staging
    <3>4. b = a
      BY <1>1, <3>1, <3>3, Apart, StagedFacts DEF Beyond
    <3>5. Clean(x)
      BY <1>1, <3>1, <3>3, <3>4, BeyondRebased
    <3> QED
      BY <1>3, <3>1, <3>5, HiddenIs
  <2>2. CASE ~Within(q, x)
    <3>1. x \in DOMAIN t /\ ~Within(a, x)
      BY <1>2, <2>2 DEF Renames
    <3> QED
      BY <1>3, <3>1 DEF Staging, Beyond
  <2> QED
    BY <2>1, <2>2
<1> QED
  BY <1>3 DEF Staging, u

(* Below a client's path that no temporary one is below, all is seen. *)
LEMMA SeenBelow ==
  ASSUME NEW t, DOMAIN t \subseteq Seq(Segs), NEW places, Staging(places, t),
         NEW p \in Paths, \A b \in places : b \in Staged /\ ~Within(p, b)
  PROVE  \A x \in DOMAIN t : Within(p, x) => ~Hidden(x) /\ Clean(x)
<1> SUFFICES ASSUME NEW x \in DOMAIN t, Within(p, x), Hidden(x)
             PROVE  FALSE
  BY HiddenIs
<1>1. PICK b \in places : Beyond(b, x)
  BY DEF Staging
<1>2. p \in Seq(Segs) /\ b \in Seq(Segs) /\ ~Hidden(p)
  BY PathFacts, PathsClean, StagedFacts
<1>3. Within(b, p)
  BY <1>1, <1>2, WithinFacts DEF Beyond
<1> QED
  BY <1>2, <1>3, StagedHidden

LEMMA MovedAcross ==
  ASSUME NEW t, DOMAIN t \subseteq Seq(Segs), NEW places, Staging(places, t),
         NEW p \in Paths, NEW q \in Paths,
         \A b \in places : b \in Staged /\ ~Within(p, b)
  PROVE  Staging(places, Moved(t, p, q))
<1> DEFINE u == Moved(t, p, q)
<1>1. p \in Seq(Segs) /\ q \in Seq(Segs) /\ Clean(p) /\ Clean(q)
  BY PathFacts, PathsClean
<1>2. Renames(t, u, p, q)
  BY <1>1, MovedRenames
<1> HIDE DEF u
<1>3. ASSUME NEW x \in DOMAIN u, Hidden(x)
      PROVE  \E b \in places : Beyond(b, x)
  <2>1. CASE Within(q, x)
    <3> DEFINE y == Rebased(x, q, p)
    <3>1. y \in DOMAIN t /\ Within(p, y) /\ x = Rebased(y, p, q)
      BY <1>2, <2>1 DEF Renames
    <3> HIDE DEF y
    <3>2. ~Hidden(y)
      BY <3>1, SeenBelow
    <3> QED
      BY <1>1, <1>3, <3>1, <3>2, HiddenRebased
  <2>2. CASE ~Within(q, x)
    <3>1. x \in DOMAIN t
      BY <1>2, <2>2 DEF Renames
    <3> QED
      BY <1>3, <3>1 DEF Staging
  <2> QED
    BY <2>1, <2>2
<1> QED
  BY <1>3 DEF Staging, u

LEMMA MovedAside ==
  ASSUME NEW t, DOMAIN t \subseteq Seq(Segs), NEW places, Staging(places, t),
         NEW p \in Paths, NEW a \in Staged,
         \A b \in places : b \in Staged /\ ~Within(p, b)
  PROVE  Staging(places \cup {a}, Moved(t, p, a))
<1> DEFINE u == Moved(t, p, a)
<1>1. p \in Seq(Segs) /\ a \in Seq(Segs) /\ Clean(p)
  BY PathFacts, PathsClean, StagedFacts
<1>2. Renames(t, u, p, a)
  BY <1>1, MovedRenames
<1> HIDE DEF u
<1>3. ASSUME NEW x \in DOMAIN u, Hidden(x)
      PROVE  \E b \in places \cup {a} : Beyond(b, x)
  <2>1. CASE Within(a, x)
    <3> DEFINE y == Rebased(x, a, p)
    <3>1. y \in DOMAIN t /\ Within(p, y) /\ x = Rebased(y, p, a)
      BY <1>2, <2>1 DEF Renames
    <3> HIDE DEF y
    <3>2. Clean(y)
      BY <3>1, SeenBelow
    <3>3. Beyond(p, y)
      BY <1>1, <3>1, <3>2, CleanIsBeyond
    <3> QED
      BY <1>1, <3>1, <3>3, BeyondRebased
  <2>2. CASE ~Within(a, x)
    <3>1. x \in DOMAIN t
      BY <1>2, <2>2 DEF Renames
    <3> QED
      BY <1>3, <3>1 DEF Staging
  <2> QED
    BY <2>1, <2>2
<1> QED
  BY <1>3 DEF Staging, u

LEMMA StagingWithout ==
  ASSUME NEW t, NEW places, Staging(places, t), NEW a
  PROVE  Staging(places \ {a}, Without(t, a))
BY DEF Staging, Without, Under, Beyond

LEMMA StagingPart ==
  ASSUME NEW t, NEW places, Staging(places, t), NEW u, DOMAIN u \subseteq DOMAIN t
  PROVE  Staging(places, u)
BY DEF Staging

LEMMA StagingWith ==
  ASSUME NEW t, NEW places, Staging(places, t), NEW x, NEW node,
         ~Hidden(x) \/ \E a \in places : Beyond(a, x)
  PROVE  Staging(places, With(t, x, node))
BY DEF Staging, With

LEMMA StagingMore ==
  ASSUME NEW t, NEW places, Staging(places, t), NEW more, places \subseteq more
  PROVE  Staging(more, t)
BY DEF Staging
---------------------------------------------------------------------------
(* The invariant holds while one request is served.                        *)

LEMMA PlacesOf ==
  ASSUME NEW q
  PROVE  /\ q.ask.op = "PUT" =>
              /\ q.phase = "create" => Places(q) = {}
              /\ q.phase \in {"write", "rename", "cleanup"} => Places(q) = {q.tmp}
         /\ q.ask.op = "DELETE" /\ q.phase \in {"remove", "empty"} => Places(q) = {}
         /\ q.ask.op = "COPY" =>
              /\ q.phase \in {"copy", "fill", "cleanup"} => Places(q) = {q.tmp}
              /\ q.phase \in {"swapIn", "restore"} => Places(q) = {q.tmp, q.aside}
              /\ q.phase = "discard" => Places(q) = {q.aside}
         /\ q.ask.op = "MOVE" =>
              /\ q.phase = "swap" => Places(q) = {}
              /\ q.phase \in {"swapIn", "restore", "discard"} => Places(q) = {q.aside}
BY DEF Places

LEMMA Becomes ==
  ASSUME ShapeInv, NEW r \in Requests, NEW q, req' = [req EXCEPT ![r] = q]
  PROVE  req'[r] = q
BY DEF ShapeInv

LEMMA Idle ==
  ASSUME NEW t, Staging({}, t)
  PROVE  AloneInv(Nil, t)
BY DEF AloneInv

LEMMA FinishAlone ==
  ASSUME ShapeInv, NEW r \in Requests, Finish(r), Staging({}, fs')
  PROVE  AloneInv(req'[r], fs')
<1>1. req'[r] = Nil
  BY Becomes DEF Finish
<1> QED
  BY <1>1, Idle

(* What the invariant says of a PUT, a DELETE and a transfer. *)
LEMMA PutAlone ==
  ASSUME NEW q \in Request, NEW t, q.ask.op = "PUT", Staging(Places(q), t), PutOK(q, t),
         q.phase # "empty"
  PROVE  AloneInv(q, t)
<1>1. DeleteOK(q, t) /\ TransferOK(q, t) /\ CopyOK(q, t, View(q, t))
  BY DEF DeleteOK, TransferOK, CopyOK
<1> QED
  BY <1>1, RequestAssumption DEF AloneInv

LEMMA DeleteAlone ==
  ASSUME NEW q \in Request, NEW t, q.ask.op = "DELETE", Staging(Places(q), t), DeleteOK(q, t)
  PROVE  AloneInv(q, t)
<1>1. PutOK(q, t) /\ TransferOK(q, t) /\ CopyOK(q, t, View(q, t))
  BY DEF PutOK, TransferOK, CopyOK
<1> QED
  BY <1>1, RequestAssumption DEF AloneInv

LEMMA TransferAlone ==
  ASSUME NEW q \in Request, NEW t, q.ask.op \in {"COPY", "MOVE"}, Staging(Places(q), t),
         TransferOK(q, t), CopyOK(q, t, View(q, t)), q.phase # "empty"
  PROVE  AloneInv(q, t)
<1>1. PutOK(q, t) /\ DeleteOK(q, t)
  BY DEF PutOK, DeleteOK
<1> QED
  BY <1>1, RequestAssumption DEF AloneInv

LEMMA AloneFacts ==
  ASSUME NEW r \in Requests, req[r] # Nil, AloneInv(req[r], fs)
  PROVE  /\ Staging(Places(req[r]), fs)
         /\ PutOK(req[r], fs)
         /\ DeleteOK(req[r], fs)
         /\ TransferOK(req[r], fs)
         /\ CopyOK(req[r], fs, View(req[r], fs))
BY DEF AloneInv

LEMMA IdleFacts ==
  ASSUME NEW r \in Requests, req[r] = Nil, AloneInv(req[r], fs)
  PROVE  Staging({}, fs)
BY DEF AloneInv

LEMMA CreateAlone ==
  ASSUME ShapeInv, NEW r \in Requests, AloneInv(req[r], fs), NEW p \in Paths,
         NEW ifMatch \in Headers, NEW ifNoneMatch \in Headers, NEW body \in Bodies,
         Create(r, p, ifMatch, ifNoneMatch, body)
  PROVE  AloneInv(req'[r], fs')
<1> DEFINE ask == [op |-> "PUT", path |-> p, body |-> body,
                   ifMatch |-> ifMatch, ifNoneMatch |-> ifNoneMatch]
           existed == p \in DOMAIN fs
           q == Serving(ask, "create", existed)
<1>1. /\ ask \in Asks /\ ask.op = "PUT" /\ ask.path = p
      /\ ask.ifMatch = ifMatch /\ ask.ifNoneMatch = ifNoneMatch
  BY DEF Asks
<1>2. req' = [req EXCEPT ![r] = q] /\ fs' = fs
  BY DEF Create
<1>3. req[r] = Nil /\ checkConditionalMatches(ETagAt(fs, p), ifMatch, ifNoneMatch)
  BY DEF Create
<1>4. existed \in BOOLEAN
  OBVIOUS
<1> HIDE DEF ask, existed
<1>5. q \in Request /\ q.ask = ask /\ q.phase = "create"
  <2>1. RequestOK(q)
    BY <1>1, <1>4, PhaseFacts, ServingOK
  <2> QED
    BY <2>1 DEF RequestOK, Serving
<1> HIDE DEF q
<1>6. Staging(Places(q), fs)
  BY <1>1, <1>3, <1>5, IdleFacts, PlacesOf
<1>7. PutOK(q, fs)
  BY <1>1, <1>3, <1>5 DEF PutOK
<1>8. AloneInv(q, fs)
  BY <1>1, <1>5, <1>6, <1>7, PutAlone
<1> QED
  BY <1>2, <1>8, Becomes

LEMMA RemoveAllAlone ==
  ASSUME ShapeInv, NEW r \in Requests, AloneInv(req[r], fs), NEW p \in Paths,
         NEW ifMatch \in Headers, NEW ifNoneMatch \in Headers,
         RemoveAll(r, p, ifMatch, ifNoneMatch)
  PROVE  AloneInv(req'[r], fs')
<1> DEFINE ask == [op |-> "DELETE", path |-> p,
                   ifMatch |-> ifMatch, ifNoneMatch |-> ifNoneMatch]
           q == Serving(ask, "remove", TRUE)
<1>1. ask \in Asks /\ ask.op = "DELETE"
  BY DEF Asks
<1>2. req' = [req EXCEPT ![r] = q] /\ fs' = fs /\ req[r] = Nil
  BY DEF RemoveAll
<1> HIDE DEF ask
<1>3. q \in Request /\ q.ask = ask /\ q.phase = "remove"
  <2>1. RequestOK(q)
    BY <1>1, PhaseFacts, ServingOK
  <2> QED
    BY <2>1 DEF RequestOK, Serving
<1> HIDE DEF q
<1>4. Staging(Places(q), fs)
  BY <1>1, <1>2, <1>3, IdleFacts, PlacesOf
<1>5. DeleteOK(q, fs)
  BY <1>3 DEF DeleteOK
<1>6. AloneInv(q, fs)
  BY <1>1, <1>3, <1>4, <1>5, DeleteAlone
<1> QED
  BY <1>2, <1>6, Becomes

LEMMA MoveAlone ==
  ASSUME ShapeInv, NEW r \in Requests, AloneInv(req[r], fs), NEW src \in Paths,
         NEW dst \in Paths, NEW overwrite \in BOOLEAN, Move(r, src, dst, overwrite)
  PROVE  AloneInv(req'[r], fs')
<1> DEFINE ask == [op |-> "MOVE", path |-> src, dst |-> dst, overwrite |-> overwrite]
           existed == dst \in DOMAIN fs
           q == Serving(ask, "swap", existed)
<1>1. /\ ask \in Asks /\ ask.op = "MOVE" /\ ask.path = src /\ ask.dst = dst
      /\ ask.overwrite = overwrite
  BY DEF Asks
<1>2. req' = [req EXCEPT ![r] = q] /\ fs' = fs /\ req[r] = Nil
  BY DEF Move
<1>3. ~Within(src, dst) /\ (existed => overwrite)
  BY DEF Move, MayTransfer
<1>4. existed \in BOOLEAN /\ (existed <=> dst \in DOMAIN fs)
  OBVIOUS
<1> HIDE DEF ask, existed
<1>5. q \in Request /\ q.ask = ask /\ q.phase = "swap" /\ q.existed = existed
  <2>1. RequestOK(q)
    BY <1>1, <1>4, PhaseFacts, ServingOK
  <2> QED
    BY <2>1 DEF RequestOK, Serving
<1> HIDE DEF q
<1>6. Staging(Places(q), fs)
  BY <1>1, <1>2, <1>5, IdleFacts, PlacesOf
<1>7. TransferOK(q, fs)
  BY <1>1, <1>3, <1>4, <1>5 DEF TransferOK
<1>8. CopyOK(q, fs, View(q, fs))
  BY <1>1, <1>5 DEF CopyOK
<1>9. AloneInv(q, fs)
  BY <1>1, <1>5, <1>6, <1>7, <1>8, TransferAlone
<1> QED
  BY <1>2, <1>9, Becomes

LEMMA MkdirAlone ==
  ASSUME ShapeInv, NEW r \in Requests, AloneInv(req[r], fs), NEW p \in Paths, Mkdir(r, p)
  PROVE  AloneInv(req'[r], fs')
<1>1. fs' = With(fs, p, Collection(inos + 1)) /\ req' = req /\ req[r] = Nil
  BY DEF Mkdir
<1>2. Staging({}, fs')
  BY <1>1, IdleFacts, PathsClean, StagingWith
<1> QED
  BY <1>1, <1>2, Idle
(* Only the phase changes. *)
Continues(q, z, phase) ==
  /\ z \in Request /\ z.phase = phase
  /\ z.ask = q.ask /\ z.existed = q.existed /\ z.tmp = q.tmp /\ z.aside = q.aside
  /\ z.todo = q.todo /\ z.ino = q.ino

LEMMA GoToIs ==
  ASSUME ShapeInv, NEW r \in Requests, req[r] # Nil, NEW phase \in Phases, GoTo(r, phase)
  PROVE  Continues(req[r], req'[r], phase)
<1> DEFINE q == req[r]
           z == [q EXCEPT !.phase = phase]
<1>1. q \in Request
  BY LiveFacts
<1>2. req' = [req EXCEPT ![r] = z]
  BY DEF GoTo
<1>3. req'[r] = z
  BY <1>2, Becomes
<1> HIDE DEF q
<1>4. Continues(q, z, phase)
  BY <1>1 DEF Request, Continues
<1> QED
  BY <1>3, <1>4 DEF q

(* What LiveFacts, PathFacts and StagedFacts say of the request at hand. *)
LEMMA ServedFacts ==
  ASSUME ShapeInv, NEW r \in Requests, req[r] # Nil
  PROVE  /\ req[r] \in Request /\ RequestOK(req[r])
         /\ req[r].ask.op \in {"PUT", "DELETE", "COPY", "MOVE"}
         /\ req[r].ask.path \in Paths
         /\ req[r].ask.op \in {"COPY", "MOVE"} => req[r].ask.dst \in Paths
         /\ req[r].phase \in PhasesOf(req[r].ask.op)
         /\ req[r].tmp \in Staged \cup {Nil} /\ req[r].aside \in Staged \cup {Nil}
         /\ req[r].ask.op = "COPY" \/ req[r].phase \in {"write", "rename", "cleanup"} =>
              req[r].tmp \in Staged
         /\ req[r].phase \in {"swapIn", "restore", "discard"} => req[r].aside \in Staged
         /\ DOMAIN fs \subseteq Seq(Segs) \ {<<>>} /\ inos \in Nat /\ TreeOK(fs, inos)
BY LiveFacts, AskFacts, TreeStays DEF RequestOK, Request

LEMMA createSiblingAlone ==
  ASSUME ShapeInv, NEW r \in Requests, AloneInv(req[r], fs), createSibling(r)
  PROVE  AloneInv(req'[r], fs')
<1> DEFINE p == req[r].ask.path
<1>1. req[r] # Nil /\ req[r].ask.op = "PUT" /\ req[r].phase = "create"
  BY DEF createSibling, In
<1>2. p \in Paths /\ req[r] \in Request /\ inos \in Nat
  BY <1>1, ServedFacts
<1>3. Staging({}, fs) /\ PutOK(req[r], fs)
  BY <1>1, AloneFacts, PlacesOf
<1>4. CASE Finish(r) /\ UNCHANGED fs
  BY <1>3, <1>4, FinishAlone
<1>5. CASE \E tmp \in Fresh(Parent(p)) :
             /\ fs' = With(fs, tmp, File(inos + 1, Partial))
             /\ req' = [req EXCEPT ![r].tmp = tmp, ![r].ino = inos + 1,
                                   ![r].phase = "write"]
  <2>1. PICK tmp \in Fresh(Parent(p)) :
             /\ fs' = With(fs, tmp, File(inos + 1, Partial))
             /\ req' = [req EXCEPT ![r].tmp = tmp, ![r].ino = inos + 1,
                                   ![r].phase = "write"]
    BY <1>5
  <2> DEFINE q == [req[r] EXCEPT !.tmp = tmp, !.ino = inos + 1, !.phase = "write"]
             node == File(inos + 1, Partial)
  <2>2. tmp \in Staged /\ Parent(tmp) = Parent(p) /\ tmp \notin DOMAIN fs
    BY <1>2, FreshFacts
  <2>3. tmp \in Seq(Segs) /\ Hidden(tmp) /\ ~Hidden(p) /\ Len(tmp) \in Nat
    BY <1>2, <2>2, StagedFacts, StagedHidden, WithinFacts, PathsClean
  <2>4. /\ q \in Request /\ q.ask = req[r].ask /\ q.tmp = tmp /\ q.ino = inos + 1
        /\ q.phase = "write"
    <3>1. inos + 1 \in Nat /\ "write" \in Phases /\ tmp \in Staged \cup {Nil}
      BY <1>2, <2>2 DEF Phases
    <3> QED
      BY <1>2, <3>1 DEF Request
  <2>5. req'[r] = q
    <3>1. req' = [req EXCEPT ![r] = q]
      BY <2>1
    <3> QED
      BY <3>1, Becomes
  <2>6. node.ino = inos + 1
    BY NodeIs
  <2>7. /\ fs' = With(fs, tmp, node)
        /\ tmp \in DOMAIN fs' /\ fs'[tmp] = node
        /\ p \in DOMAIN fs' <=> p \in DOMAIN fs
        /\ p \in DOMAIN fs => fs'[p] = fs[p]
    BY <2>1, <2>3 DEF With
  <2> HIDE DEF q, node
  <2>8. Beyond(tmp, tmp)
    BY <2>3, WithinFacts DEF Beyond
  <2>9. Staging(Places(q), fs')
    <3>1. Staging({tmp}, fs)
      BY <1>3, StagingMore
    <3>2. Staging({tmp}, fs')
      BY <2>7, <2>8, <3>1, StagingWith
    <3> QED
      BY <1>1, <2>4, <3>2, PlacesOf
  <2>10. ETagAt(fs', p) = ETagAt(fs, p)
    BY <2>7 DEF ETagAt
  <2>11. PutOK(q, fs')
    BY <1>1, <1>3, <2>2, <2>4, <2>6, <2>7, <2>10 DEF PutOK
  <2>12. AloneInv(q, fs')
    BY <1>1, <2>4, <2>9, <2>11, PutAlone
  <2> QED
    BY <2>5, <2>12
<1> QED
  BY <1>4, <1>5 DEF createSibling

LEMMA WriteBodyAlone ==
  ASSUME ShapeInv, NEW r \in Requests, AloneInv(req[r], fs), WriteBody(r)
  PROVE  AloneInv(req'[r], fs')
<1> DEFINE p == req[r].ask.path
           tmp == req[r].tmp
           body == req[r].ask.body
           ino == req[r].ino
<1>1. /\ req[r] # Nil /\ req[r].ask.op = "PUT" /\ req[r].phase = "write"
      /\ GoTo(r, "rename")
  BY DEF WriteBody, In
<1>2. p \in Paths /\ req[r] \in Request /\ tmp \in Staged
  BY <1>1, ServedFacts
<1>3. Staging({tmp}, fs) /\ PutOK(req[r], fs)
  BY <1>1, AloneFacts, PlacesOf
<1>4. /\ DOMAIN fs' = DOMAIN fs
      /\ \A x \in DOMAIN fs : fs'[x] = IF fs[x].ino = ino THEN File(fs[x].ino, body) ELSE fs[x]
  BY DEF WriteBody, Filled
<1>5. Continues(req[r], req'[r], "rename")
  BY <1>1, GoToIs DEF Phases
<1> DEFINE z == req'[r]
<1> HIDE DEF z
<1>6. /\ z \in Request /\ z.phase = "rename" /\ z.ask = req[r].ask /\ z.tmp = tmp
  BY <1>5 DEF Continues, z
<1>7. \A x \in DOMAIN fs : fs'[x].ino = fs[x].ino
  <2> SUFFICES ASSUME NEW x \in DOMAIN fs
               PROVE  fs'[x].ino = fs[x].ino
    OBVIOUS
  <2>1. PICK m : m = fs[x].ino
    OBVIOUS
  <2>2. File(m, body).ino = m
    BY NodeIs
  <2> QED
    BY <1>4, <2>1, <2>2
<1>8. ETagAt(fs', p) = ETagAt(fs, p)
  BY <1>4, <1>7 DEF ETagAt
<1>9. tmp \in DOMAIN fs /\ fs[tmp].ino = ino
  BY <1>1, <1>3 DEF PutOK
<1>10. tmp \in DOMAIN fs' /\ fs'[tmp] = File(fs'[tmp].ino, body)
  <2>1. PICK m : m = fs[tmp].ino
    OBVIOUS
  <2>2. fs'[tmp] = File(m, body)
    BY <1>4, <1>9, <2>1
  <2>3. fs'[tmp].ino = m
    BY <1>7, <1>9, <2>1
  <2> QED
    BY <1>4, <1>9, <2>2, <2>3
<1>11. Staging(Places(z), fs')
  BY <1>1, <1>3, <1>4, <1>6, PlacesOf, StagingPart
<1>12. PutOK(z, fs')
  BY <1>1, <1>3, <1>6, <1>8, <1>10 DEF PutOK
<1>13. AloneInv(z, fs')
  BY <1>1, <1>6, <1>11, <1>12, PutAlone
<1> QED
  BY <1>13 DEF z

(* A PUT or a COPY that fails has its temporary file or tree to remove. *)
LEMMA CleanupNextAlone ==
  ASSUME ShapeInv, NEW r \in Requests, AloneInv(req[r], fs), req[r] # Nil,
         req[r].ask.op \in {"PUT", "COPY"}, GoTo(r, "cleanup"),
         req[r].phase # "create", Staging({req[r].tmp}, fs')
  PROVE  AloneInv(req'[r], fs')
<1>1. Continues(req[r], req'[r], "cleanup")
  BY GoToIs DEF Phases
<1> DEFINE z == req'[r]
<1> HIDE DEF z
<1>2. z \in Request /\ z.phase = "cleanup" /\ z.ask = req[r].ask /\ z.tmp = req[r].tmp
  BY <1>1 DEF Continues, z
<1>3. PutOK(req[r], fs) /\ TransferOK(req[r], fs)
  BY AloneFacts
<1>4. Staging(Places(z), fs')
  BY <1>2, PlacesOf
<1>5. CASE req[r].ask.op = "PUT"
  <2>1. PutOK(z, fs')
    BY <1>2, <1>3, <1>5 DEF PutOK
  <2> QED
    BY <1>2, <1>4, <1>5, <2>1, PutAlone DEF z
<1>6. CASE req[r].ask.op = "COPY"
  <2>1. TransferOK(z, fs')
    BY <1>2, <1>3, <1>6 DEF TransferOK
  <2>2. CopyOK(z, fs', View(z, fs'))
    BY <1>2 DEF CopyOK
  <2> QED
    BY <1>2, <1>4, <1>6, <2>1, <2>2, TransferAlone DEF z
<1> QED
  BY <1>5, <1>6

LEMMA BodyBreaksAlone ==
  ASSUME ShapeInv, NEW r \in Requests, AloneInv(req[r], fs), BodyBreaks(r)
  PROVE  AloneInv(req'[r], fs')
<1>1. /\ req[r] # Nil /\ req[r].ask.op = "PUT" /\ req[r].phase = "write"
      /\ GoTo(r, "cleanup") /\ fs' = fs
  BY DEF BodyBreaks, In
<1>2. Staging({req[r].tmp}, fs')
  BY <1>1, AloneFacts, PlacesOf
<1> QED
  BY <1>1, <1>2, CleanupNextAlone

LEMMA RenameTempAlone ==
  ASSUME ShapeInv, NEW r \in Requests, AloneInv(req[r], fs), RenameTemp(r)
  PROVE  AloneInv(req'[r], fs')
<1> DEFINE tmp == req[r].tmp
           p == req[r].ask.path
<1>1. req[r] # Nil /\ req[r].ask.op = "PUT" /\ req[r].phase = "rename"
  BY DEF RenameTemp, In
<1>2. p \in Paths /\ tmp \in Staged /\ DOMAIN fs \subseteq Seq(Segs)
  BY <1>1, ServedFacts
<1>3. Staging({tmp}, fs)
  BY <1>1, AloneFacts, PlacesOf
<1>4. CASE fs' = Moved(fs, tmp, p) /\ Finish(r)
  <2>1. Staging({tmp} \ {tmp}, fs')
    BY <1>2, <1>3, <1>4, MovedIn
  <2>2. Staging({}, fs')
    BY <2>1, StagingMore
  <2> QED
    BY <1>4, <2>2, FinishAlone
<1>5. CASE GoTo(r, "cleanup") /\ UNCHANGED fs
  BY <1>1, <1>3, <1>5, CleanupNextAlone
<1> QED
  BY <1>4, <1>5 DEF RenameTemp

LEMMA CleanupAlone ==
  ASSUME ShapeInv, NEW r \in Requests, AloneInv(req[r], fs), Cleanup(r),
         "cleanup" \notin Faults
  PROVE  AloneInv(req'[r], fs')
<1> DEFINE tmp == req[r].tmp
<1>1. req[r] # Nil /\ req[r].phase = "cleanup" /\ fs' = Without(fs, tmp) /\ Finish(r)
  BY DEF Cleanup, MayFail
<1>2. req[r].ask.op \in {"PUT", "COPY"}
  BY <1>1, ServedFacts, PhaseFacts
<1>3. Staging({tmp}, fs)
  BY <1>1, <1>2, AloneFacts, PlacesOf
<1>4. Staging({}, fs')
  BY <1>1, <1>3, StagingWithout, StagingMore
<1> QED
  BY <1>1, <1>4, FinishAlone
LEMMA RemoveAlone ==
  ASSUME ShapeInv, ShapeInv', NEW r \in Requests, AloneInv(req[r], fs), Remove(r)
  PROVE  AloneInv(req'[r], fs')
<1> DEFINE p == req[r].ask.path
           names == {m[Len(m)] : m \in MembersOf(fs, p)}
<1>1. req[r] # Nil /\ req[r].ask.op = "DELETE" /\ req[r].phase = "remove"
  BY DEF Remove, In
<1>2. req[r] \in Request /\ Staging({}, fs)
  BY <1>1, ServedFacts, AloneFacts, PlacesOf
<1>3. CASE fs' = Without(fs, p) /\ Finish(r)
  <2>1. DOMAIN fs' \subseteq DOMAIN fs
    BY <1>3 DEF Without
  <2> QED
    BY <1>2, <1>3, <2>1, StagingPart, FinishAlone
<1>4. CASE /\ p \in DOMAIN fs
           /\ req' = [req EXCEPT ![r].phase = "empty", ![r].ino = fs[p].ino,
                                 ![r].todo = names]
           /\ UNCHANGED fs
  <2> DEFINE q == [req[r] EXCEPT !.phase = "empty", !.ino = fs[p].ino, !.todo = names]
  <2>1. req' = [req EXCEPT ![r] = q]
    BY <1>4
  <2>2. q.ask = req[r].ask /\ q.phase = "empty" /\ q.ino = fs[p].ino
    BY <1>2 DEF Request
  <2> HIDE DEF q
  <2>3. req'[r] = q
    BY <2>1, Becomes
  <2>4. Staging(Places(q), fs')
    BY <1>1, <1>2, <1>4, <2>2, PlacesOf
  <2>5. DeleteOK(q, fs')
    BY <1>4, <2>2 DEF DeleteOK
  <2>6. CASE q = Nil
    BY <1>2, <1>4, <2>3, <2>6, Idle
  <2>7. CASE q # Nil
    <3>1. q \in Request
      BY <2>3, <2>7 DEF ShapeInv
    <3> QED
      BY <1>1, <2>2, <2>3, <2>4, <2>5, <3>1, DeleteAlone
  <2> QED
    BY <2>6, <2>7
<1> QED
  BY <1>3, <1>4 DEF Remove

(* The directory being emptied is where it was. *)
LEMMA EmptyingHere ==
  ASSUME ShapeInv, NEW r \in Requests, AloneInv(req[r], fs), In(r, "DELETE", "empty"),
         NEW d \in DOMAIN fs, fs[d].ino = req[r].ino
  PROVE  d = req[r].ask.path
<1>1. req[r].ask.path \in DOMAIN fs /\ fs[req[r].ask.path].ino = req[r].ino
  BY AloneFacts DEF In, DeleteOK
<1> QED
  BY <1>1, TreeStays DEF TreeOK

LEMMA RemoveMemberAlone ==
  ASSUME ShapeInv, ShapeInv', NEW r \in Requests, AloneInv(req[r], fs), RemoveMember(r)
  PROVE  AloneInv(req'[r], fs')
<1> DEFINE p == req[r].ask.path
<1>1. req[r] # Nil /\ req[r].ask.op = "DELETE" /\ req[r].phase = "empty" /\ In(r, "DELETE", "empty")
  BY DEF RemoveMember, In
<1>2. req[r] \in Request /\ Staging({}, fs) /\ DeleteOK(req[r], fs)
  BY <1>1, ServedFacts, AloneFacts, PlacesOf
<1>3. p \in DOMAIN fs /\ fs[p].ino = req[r].ino /\ p \in Seq(Segs) /\ DOMAIN fs \subseteq Seq(Segs)
  BY <1>1, <1>2, ServedFacts DEF DeleteOK
<1>4. PICK name \in req[r].todo :
        LET members == {d \o <<name>> : d \in {d \in DOMAIN fs : fs[d].ino = req[r].ino}}
                         \cap DOMAIN fs IN
        \/ /\ \E m \in members : \E leaf \in Under(fs, m) :
                /\ MembersOf(fs, leaf) = {}
                /\ fs' = Without(fs, leaf)
           /\ UNCHANGED req
        \/ /\ req' = [req EXCEPT ![r].todo = @ \ {name}]
           /\ UNCHANGED fs
  BY DEF RemoveMember
<1>5. CASE /\ UNCHANGED req
           /\ \E d \in DOMAIN fs : \E leaf \in DOMAIN fs :
                /\ fs[d].ino = req[r].ino /\ d \o <<name>> \in DOMAIN fs
                /\ Within(d \o <<name>>, leaf)
                /\ fs' = Without(fs, leaf)
  <2>1. PICK leaf \in DOMAIN fs : /\ p \o <<name>> \in DOMAIN fs
                                  /\ Within(p \o <<name>>, leaf)
                                  /\ fs' = Without(fs, leaf)
    BY <1>1, <1>5, EmptyingHere
  <2>2. ~Within(leaf, p)
    <3>1. Len(p) \in Nat /\ Len(leaf) \in Nat
      BY <1>3, LenProperties
    <3>2. Len(p \o <<name>>) = Len(p) + 1
      <4> DEFINE S == Segs \cup {name}
      <4>1. p \in Seq(S)
        BY <1>3, SeqMonotonic
      <4>2. name \in S
        OBVIOUS
      <4> HIDE DEF S
      <4>3. <<name>> \in Seq(S) /\ Len(<<name>>) = 1
        BY <4>2
      <4> QED
        BY <4>1, <4>3, ConcatProperties
    <3> QED
      BY <2>1, <3>1, <3>2 DEF Within
  <2>3. /\ DOMAIN fs' = {x \in DOMAIN fs : ~Within(leaf, x)}
        /\ \A x \in DOMAIN fs' : fs'[x] = fs[x]
    BY <2>1 DEF Without, Under
  <2>4. DeleteOK(req[r], fs')
    BY <1>3, <2>2, <2>3 DEF DeleteOK
  <2>5. Staging(Places(req[r]), fs')
    BY <1>1, <1>2, <2>3, PlacesOf, StagingPart
  <2>6. AloneInv(req[r], fs')
    BY <1>1, <1>2, <2>4, <2>5, DeleteAlone
  <2> QED
    BY <1>5, <2>6
<1>6. CASE req' = [req EXCEPT ![r].todo = @ \ {name}] /\ UNCHANGED fs
  <2> DEFINE q == [req[r] EXCEPT !.todo = @ \ {name}]
  <2>1. req' = [req EXCEPT ![r] = q]
    BY <1>6
  <2>2. q.ask = req[r].ask /\ q.phase = "empty" /\ q.ino = req[r].ino
    BY <1>1, <1>2 DEF Request
  <2> HIDE DEF q
  <2>3. req'[r] = q
    BY <2>1, Becomes
  <2>4. Staging(Places(q), fs')
    BY <1>1, <1>2, <1>6, <2>2, PlacesOf
  <2>5. DeleteOK(q, fs')
    BY <1>2, <1>3, <1>6, <2>2 DEF DeleteOK
  <2>6. CASE q = Nil
    BY <1>2, <1>6, <2>3, <2>6, Idle
  <2>7. CASE q # Nil
    <3>1. q \in Request
      BY <2>3, <2>7 DEF ShapeInv
    <3> QED
      BY <1>1, <2>2, <2>3, <2>4, <2>5, <3>1, DeleteAlone
  <2> QED
    BY <2>6, <2>7
<1> QED
  BY <1>4, <1>5, <1>6 DEF Under

LEMMA RemoveEmptiedAlone ==
  ASSUME ShapeInv, NEW r \in Requests, AloneInv(req[r], fs), RemoveEmptied(r)
  PROVE  AloneInv(req'[r], fs')
<1>1. /\ req[r] # Nil /\ req[r].ask.op = "DELETE" /\ req[r].phase = "empty" /\ Finish(r)
      /\ fs' = Without(fs, req[r].ask.path) \/ fs' = fs
  BY DEF RemoveEmptied, In
<1>2. Staging({}, fs) /\ DOMAIN fs' \subseteq DOMAIN fs
  BY <1>1, AloneFacts, PlacesOf DEF Without
<1> QED
  BY <1>1, <1>2, StagingPart, FinishAlone

LEMMA RemoveFailsAlone ==
  ASSUME ShapeInv, NEW r \in Requests, AloneInv(req[r], fs), RemoveFails(r)
  PROVE  AloneInv(req'[r], fs')
<1>1. /\ req[r] # Nil /\ req[r].ask.op = "DELETE" /\ req[r].phase \in {"remove", "empty"}
      /\ Finish(r) /\ fs' = fs
  BY DEF RemoveFails, In
<1>2. Staging({}, fs')
  BY <1>1, AloneFacts, PlacesOf
<1> QED
  BY <1>1, <1>2, FinishAlone

LEMMA CopyAlone ==
  ASSUME ShapeInv, NEW r \in Requests, AloneInv(req[r], fs), NEW src \in Paths,
         NEW dst \in Paths, NEW deep \in BOOLEAN, NEW overwrite \in BOOLEAN,
         Copy(r, src, dst, deep, overwrite)
  PROVE  AloneInv(req'[r], fs')
<1> DEFINE ask == [op |-> "COPY", path |-> src, dst |-> dst, deep |-> deep,
                   overwrite |-> overwrite]
           existed == dst \in DOMAIN fs
<1>1. /\ ask \in Asks /\ ask.op = "COPY" /\ ask.path = src /\ ask.dst = dst
      /\ ask.deep = deep /\ ask.overwrite = overwrite
  BY DEF Asks
<1>2. PICK tmp \in Fresh(Parent(dst)) :
        req' = [req EXCEPT ![r] =
          [Serving(ask, "copy", existed) EXCEPT !.tmp = tmp, !.todo = {src}]]
  BY DEF Copy
<1> DEFINE q == [Serving(ask, "copy", existed) EXCEPT !.tmp = tmp, !.todo = {src}]
<1>3. req[r] = Nil /\ fs' = fs
  BY DEF Copy
<1>4. ~Within(src, dst) /\ src \in DOMAIN fs /\ (existed => overwrite)
  BY DEF Copy, MayTransfer
<1>5. existed \in BOOLEAN /\ (existed <=> dst \in DOMAIN fs)
  OBVIOUS
<1>6. /\ tmp \in Staged /\ Parent(tmp) = Parent(dst)
      /\ \A x \in DOMAIN fs : \A i \in 1..Len(x) : x[i] # Token(tmp)
  BY FreshFacts
<1>7. src \in Seq(Segs) /\ tmp \in Seq(Segs) /\ Len(tmp) \in 1..Len(tmp) /\ Within(src, src)
      /\ DOMAIN fs \subseteq Seq(Segs)
  BY <1>6, PathFacts, StagedFacts, WithinFacts, TreeStays
<1> HIDE DEF ask, existed
<1>8. /\ q.ask = ask /\ q.phase = "copy" /\ q.existed = existed /\ q.tmp = tmp
      /\ q.todo = {src}
  BY DEF Serving
<1>9. q \in Request
  <2>1. "copy" \in Phases /\ tmp \in Staged \cup {Nil} /\ Nil \in Staged \cup {Nil}
        /\ {src} \in SUBSET (Seq(Segs) \cup Segs) /\ 0 \in Nat
    BY <1>6, <1>7 DEF Phases
  <2> QED
    BY <1>1, <1>5, <2>1 DEF Serving, Request
<1>10. req' = [req EXCEPT ![r] = q]
  BY <1>2
<1> HIDE DEF q
<1>11. Staging(Places(q), fs)
  BY <1>1, <1>3, <1>8, IdleFacts, PlacesOf, StagingMore
<1>12. TransferOK(q, fs)
  BY <1>1, <1>4, <1>5, <1>6, <1>8 DEF TransferOK
<1>13. View(q, fs) = fs
  BY <1>8 DEF View
<1>14. \A y \in Originals(q, fs) : Within(src, y)
  BY <1>1, <1>7, <1>8 DEF Originals, Under
<1>15. ASSUME NEW x \in DOMAIN fs, Within(tmp, x)
       PROVE  FALSE
  BY <1>6, <1>7, <1>15, LenProperties DEF Within, Token
<1>16. CopyOK(q, fs, fs)
  BY <1>1, <1>4, <1>8, <1>14, <1>15 DEF CopyOK
<1>17. AloneInv(q, fs)
  BY <1>1, <1>8, <1>9, <1>11, <1>12, <1>13, <1>16, TransferAlone
<1> QED
  BY <1>3, <1>10, <1>17, Becomes
(* The first step from a collection down to what is in it. *)
LEMMA ChildOn ==
  ASSUME NEW S, NEW x \in Seq(S), NEW y \in Seq(S), Within(x, y), x # y
  PROVE  \E m \in Seq(S) : m # <<>> /\ Parent(m) = x /\ Within(m, y)
<1> DEFINE n == Len(x) + 1
           m == SubSeq(y, 1, n)
<1>1. Len(x) \in Nat /\ Len(y) \in Nat /\ n <= Len(y) /\ n \in Nat
  BY WithinFacts DEF Within
<1>2. \A i \in 1..n : y[i] \in S
  BY <1>1, ElementOfSeq
<1> HIDE DEF n
<1>3. /\ m \in Seq(S)
      /\ Len(m) = IF 1 <= n THEN n - 1 + 1 ELSE 0
      /\ \A i \in 1..n - 1 + 1 : m[i] = y[1 + i - 1]
  BY <1>1, <1>2, SubSeqProperties
<1> HIDE DEF m
<1>4. Len(m) = n /\ \A i \in 1..n : m[i] = y[i]
  BY <1>1, <1>3 DEF n
<1>5. m # <<>> /\ Within(m, y)
  BY <1>1, <1>4, EmptySeq DEF n, Within
<1>6. Parent(m) = x
  <2>1. /\ Parent(m) \in Seq(S) /\ Len(Parent(m)) = Len(m) - 1
        /\ \A i \in 1..Len(m) - 1 : Parent(m)[i] = m[i]
    BY <1>3, <1>5, ParentFacts
  <2>2. Len(Parent(m)) = Len(x)
    BY <1>1, <1>4, <2>1 DEF n
  <2>3. \A i \in 1..Len(Parent(m)) : Parent(m)[i] = x[i]
    BY <1>1, <1>4, <2>1, <2>2 DEF n, Within
  <2> QED
    BY <2>1, <2>2, <2>3, SeqEqual
<1> QED
  BY <1>3, <1>5, <1>6

(* Another entry of the tree is copied. *)
LEMMA CopyStep ==
  ASSUME NEW t, NEW n \in Nat, TreeOK(t, n), NEW q, q.ask.op = "COPY", q.phase = "copy",
         CopyOK(q, t, t), Staging({q.tmp}, t), q.tmp \in Staged, q.ask.path \in Paths,
         ~Within(q.ask.path, q.tmp),
         NEW x \in q.todo, x \in DOMAIN t, Within(q.ask.path, x),
         NEW node, NEW z, z.ask = q.ask, z.tmp = q.tmp,
         \/ z.phase = "copy" /\ SameContent(t[x], node)
         \/ z.phase = "fill" /\ z.from = t[x] /\ z.ino = node.ino /\ t[x].body # Partial,
         z.todo = (q.todo \ {x}) \cup IF q.ask.deep /\ ~t[x].file THEN MembersOf(t, x) ELSE {},
         NEW u, u = With(t, Rebased(x, q.ask.path, q.tmp), node)
  PROVE  CopyOK(z, u, u) /\ Staging({q.tmp}, u)
<1> DEFINE p == q.ask.path
           a == q.tmp
           target == Rebased(x, p, a)
<1>1. /\ p \in Seq(Segs) /\ a \in Seq(Segs) /\ x \in Seq(Segs) /\ x # <<>>
      /\ DOMAIN t \subseteq Seq(Segs)
  BY PathFacts, StagedFacts DEF TreeOK
<1>2. \A y \in DOMAIN t : Within(p, y) => ~Hidden(y) /\ Clean(y)
  <2>1. Staging({a}, t) /\ p \in Paths /\ \A b \in {a} : b \in Staged /\ ~Within(p, b)
    OBVIOUS
  <2> DEFINE places == {a}
  <2>2. Staging(places, t) /\ \A b \in places : b \in Staged /\ ~Within(p, b)
    BY <2>1
  <2> HIDE DEF p, a, places
  <2> QED
    BY <1>1, <2>1, <2>2, SeenBelow
<1>3. /\ target \in Seq(Segs) /\ Within(a, target) /\ Beyond(a, target)
      /\ Rebased(target, a, p) = x
  BY <1>1, <1>2, RebasedBack, BeyondRebased, CleanIsBeyond
<1>4. /\ DOMAIN u = DOMAIN t \cup {target} /\ u[target] = node
      /\ \A y \in DOMAIN t : y # target => u[y] = t[y]
  BY DEF With
<1> HIDE DEF target
<1>5. Hidden(target)
  BY <1>3, StagedHidden
<1>6. ~Within(p, target)
  <2>1. ~Within(a, p)
    BY <1>1, StagedHidden, PathsClean
  <2> QED
    BY <1>1, <1>3, <2>1, Apart
<1>7. \A y \in DOMAIN t : Within(p, y) => y # target /\ u[y] = t[y]
  BY <1>4, <1>6
<1>8. Originals(z, u) = Originals(q, t)
  BY <1>4, <1>6 DEF Originals, Under
<1>9. ASSUME NEW y \in Originals(q, t)
      PROVE  y \in DOMAIN t /\ Within(p, y) /\ y \in Seq(Segs) /\ (~q.ask.deep => y = x)
  BY <1>1, <1>9, WithinFacts DEF Originals, Under, CopyOK
<1>10. x \in Originals(q, t)
  BY DEF Originals, Under, CopyOK
<1>11. \A y \in z.todo : y = x \/ y \in q.todo \/ (q.ask.deep /\ Parent(y) = x)
  BY DEF MembersOf
<1>12. \A y \in q.todo : y # x => y \in z.todo
  OBVIOUS
<1>13. ASSUME NEW y \in Originals(q, t)
       PROVE  \/ \E w \in z.todo : Within(w, y)
              \/ /\ Rebased(y, p, a) \in DOMAIN u
                 /\ SameContent(u[y], u[Rebased(y, p, a)])
              \/ z.phase = "fill" /\ Filling(z, u, u, y)
  <2>1. y \in DOMAIN t /\ Within(p, y) /\ y \in Seq(Segs) /\ (~q.ask.deep => y = x) /\ u[y] = t[y]
    BY <1>7, <1>9
  <2>2. CASE y = x
    <3>1. Rebased(y, p, a) \in DOMAIN u /\ u[Rebased(y, p, a)] = node /\ u[y] = t[x]
      BY <1>4, <2>1, <2>2 DEF target
    <3> QED
      BY <3>1 DEF Filling
  <2>3. CASE y # x /\ Within(x, y)
    <3>1. PICK m \in Seq(Segs) : m # <<>> /\ Parent(m) = x /\ Within(m, y)
      BY <1>1, <2>1, <2>3, ChildOn
    <3>2. m \in DOMAIN t
      BY <2>1, <3>1 DEF TreeOK, Closed, IsCollection
    <3>3. IsCollection(t, x) /\ q.ask.deep
      BY <1>1, <2>1, <2>3 DEF TreeOK, Closed
    <3>4. m \in z.todo
      BY <1>1, <3>1, <3>2, <3>3 DEF MembersOf, IsCollection
    <3> QED
      BY <3>1, <3>4
  <2>4. CASE ~Within(x, y) /\ \E w \in q.todo : Within(w, y)
    BY <1>12, <2>4
  <2>5. CASE /\ y # x /\ Rebased(y, p, a) \in DOMAIN t
             /\ SameContent(t[y], t[Rebased(y, p, a)])
    <3>1. Rebased(Rebased(y, p, a), a, p) = y
      BY <1>1, <2>1, RebasedBack
    <3>2. Rebased(y, p, a) # target
      BY <1>3, <2>5, <3>1
    <3> QED
      BY <1>4, <2>1, <2>5, <3>2
  <2>6. \/ \E w \in q.todo : Within(w, y)
        \/ /\ Rebased(y, p, a) \in DOMAIN t
           /\ SameContent(t[y], t[Rebased(y, p, a)])
    BY DEF CopyOK
  <2> QED
    BY <2>2, <2>3, <2>4, <2>5, <2>6
<1>14. ASSUME NEW w \in DOMAIN u, Within(a, w)
       PROVE  Rebased(w, a, p) \in Originals(q, t)
  <2>1. CASE w = target
    BY <1>3, <1>10, <2>1
  <2>2. CASE w # target
    BY <1>4, <1>14, <2>2 DEF CopyOK
  <2> QED
    BY <2>1, <2>2
<1>15. p \in DOMAIN u /\ (~q.ask.deep => z.todo \subseteq {p})
  BY <1>4 DEF CopyOK
<1>16. ASSUME z.phase = "fill"
       PROVE  z.from.body # Partial /\ \E y \in Originals(z, u) : Filling(z, u, u, y)
  <2>1. z.from = t[x] /\ z.ino = node.ino /\ t[x].body # Partial
    BY <1>16
  <2>2. Rebased(x, p, a) \in DOMAIN u /\ u[Rebased(x, p, a)] = node /\ u[x] = t[x]
    BY <1>4, <1>7 DEF target
  <2>3. Filling(z, u, u, x)
    BY <2>1, <2>2 DEF Filling
  <2> QED
    BY <1>8, <1>10, <2>1, <2>3
<1>18. CopyOK(z, u, u)
  BY <1>8, <1>13, <1>14, <1>15, <1>16 DEF CopyOK
<1>17. Staging({a}, u)
  BY <1>3, StagingWith DEF target
<1> QED
  BY <1>17, <1>18

(* The copy of an entry is made. *)
LEMMA CopyEntry ==
  ASSUME ShapeInv, NEW r \in Requests, AloneInv(req[r], fs), In(r, "COPY", "copy"),
         NEW x \in req[r].todo, x \in DOMAIN fs,
         NEW node, fs' = With(fs, Rebased(x, req[r].ask.path, req[r].tmp), node),
         NEW q \in Request, req' = [req EXCEPT ![r] = q],
         q.ask = req[r].ask, q.tmp = req[r].tmp, q.existed = req[r].existed,
         q.todo = (req[r].todo \ {x})
                    \cup IF req[r].ask.deep /\ ~fs[x].file THEN MembersOf(fs, x) ELSE {},
         \/ q.phase = "copy" /\ SameContent(fs[x], node)
         \/ q.phase = "fill" /\ q.from = fs[x] /\ q.ino = node.ino /\ fs[x].body # Partial
  PROVE  AloneInv(req'[r], fs')
<1> DEFINE ask == req[r].ask
           target == Rebased(x, ask.path, req[r].tmp)
<1>1. req[r] # Nil /\ ask.op = "COPY" /\ req[r].phase = "copy"
  BY DEF In
<1>2. /\ req[r].tmp \in Staged /\ ask.path \in Paths /\ ask.dst \in Paths
      /\ inos \in Nat /\ TreeOK(fs, inos)
  BY <1>1, ServedFacts
<1>3. /\ Staging({req[r].tmp}, fs) /\ TransferOK(req[r], fs)
      /\ CopyOK(req[r], fs, View(req[r], fs)) /\ View(req[r], fs) = fs
  BY <1>1, AloneFacts, PlacesOf DEF View
<1>4. target \in Seq(Segs) /\ Within(req[r].tmp, target) /\ Within(ask.path, x)
  BY WalkFacts
<1>5. ~Within(ask.path, req[r].tmp)
  BY <1>1, <1>2, <1>3, NotAbove DEF TransferOK
<1>6. CopyOK(q, fs', fs') /\ Staging({req[r].tmp}, fs')
  BY <1>1, <1>2, <1>3, <1>4, <1>5, CopyStep
<1>7. ask.dst \in DOMAIN fs' <=> ask.dst \in DOMAIN fs
  <2>1. target # ask.dst
    BY <1>2, <1>4, StagedHidden, PathsClean
  <2> QED
    BY <2>1 DEF With
<1> HIDE DEF target
<1>8. TransferOK(q, fs')
  BY <1>1, <1>3, <1>7 DEF TransferOK
<1>9. Staging(Places(q), fs')
  BY <1>1, <1>6, PlacesOf
<1>10. View(q, fs') = fs'
  BY DEF View
<1>11. AloneInv(q, fs')
  BY <1>1, <1>6, <1>8, <1>9, <1>10, TransferAlone
<1> QED
  BY <1>11, Becomes

(* What one entry of the walk makes of the request. *)
Entry(r, x, q, node) ==
  /\ x \in DOMAIN fs
  /\ fs' = With(fs, Rebased(x, req[r].ask.path, req[r].tmp), node)
  /\ req' = [req EXCEPT ![r] = q]
  /\ q.ask = req[r].ask /\ q.tmp = req[r].tmp /\ q.existed = req[r].existed
  /\ q.todo = (req[r].todo \ {x})
                 \cup IF req[r].ask.deep /\ ~fs[x].file THEN MembersOf(fs, x) ELSE {}
  /\ \/ q.phase = "copy" /\ SameContent(fs[x], node)
     \/ q.phase = "fill" /\ q.from = fs[x] /\ q.ino = node.ino /\ fs[x].file

LEMMA EntryIs ==
  ASSUME ShapeInv, NEW r \in Requests, copyTree(r)
  PROVE  \/ GoTo(r, "cleanup") /\ fs' = fs
         \/ \E x \in req[r].todo, q \in Request :
              \E node \in {Collection(inos + 1), File(inos + 1, Partial)} : Entry(r, x, q, node)
<1> DEFINE ask == req[r].ask
           Target(x) == Rebased(x, ask.path, req[r].tmp)
           More(x) == IF ask.deep THEN MembersOf(fs, x) ELSE {}
<1>1. req[r] # Nil /\ ask.op = "COPY" /\ req[r].phase = "copy" /\ In(r, "COPY", "copy")
  BY DEF copyTree, In
<1>2. /\ req[r] \in Request /\ inos \in Nat /\ TreeOK(fs, inos)
      /\ DOMAIN fs \subseteq Seq(Segs) \ {<<>>}
  BY <1>1, ServedFacts
<1>3. ASSUME NEW x \in req[r].todo, CanCopy(x, Target(x)),
             ~fs[x].file, fs' = With(fs, Target(x), Collection(inos + 1)),
             req' = [req EXCEPT ![r].todo = (@ \ {x}) \cup More(x)]
      PROVE  \E q \in Request : Entry(r, x, q, Collection(inos + 1))
  <2> DEFINE node == Collection(inos + 1)
             more == More(x)
             q == [req[r] EXCEPT !.todo = (@ \ {x}) \cup more]
  <2>1. x \in DOMAIN fs /\ WellFormed(fs[x], inos)
    BY <1>2, <1>3 DEF CanCopy, TreeOK
  <2>2. fs[x] = Collection(fs[x].ino)
    <3>1. \A c, d : c = d => c.file = d.file
      OBVIOUS
    <3>2. File(fs[x].ino, fs[x].body).file = TRUE
      BY NodeIs
    <3>3. fs[x] # File(fs[x].ino, fs[x].body)
      BY <1>3, <3>1, <3>2
    <3> QED
      BY <2>1, <3>3 DEF WellFormed
  <2>3. \A i : Collection(i).body = Nil /\ Collection(i).file = FALSE
    BY DEF Collection
  <2>4. fs[x].body = Nil /\ fs[x].file = FALSE
    BY <2>2, <2>3, Zenon
  <2>5. SameContent(fs[x], node)
    BY <2>3, <2>4 DEF SameContent
  <2>6. fs' = With(fs, Target(x), node)
    BY <1>3
  <2> HIDE DEF node
  <2>7. more = IF ask.deep /\ ~fs[x].file THEN MembersOf(fs, x) ELSE {}
    BY <1>3
  <2>8. more \subseteq Seq(Segs)
    BY <1>2 DEF MembersOf
  <2>9. req' = [req EXCEPT ![r] = q]
    BY <1>3
  <2> HIDE DEF more
  <2>10. /\ q \in Request /\ q.ask = ask /\ q.phase = "copy" /\ q.tmp = req[r].tmp
         /\ q.existed = req[r].existed /\ q.todo = (req[r].todo \ {x}) \cup more
    BY <1>1, <1>2, <2>8 DEF Request
  <2> HIDE DEF q
  <2>11. Entry(r, x, q, node)
    BY <2>1, <2>5, <2>6, <2>7, <2>9, <2>10 DEF Entry
  <2> QED
    BY <2>10, <2>11 DEF node
<1>4. ASSUME NEW x \in req[r].todo, CanCopy(x, Target(x)),
             fs[x].file, fs' = With(fs, Target(x), File(inos + 1, Partial)),
             req' = [req EXCEPT ![r].todo = @ \ {x}, ![r].phase = "fill",
                                ![r].ino = inos + 1, ![r].from = fs[x]]
      PROVE  \E q \in Request : Entry(r, x, q, File(inos + 1, Partial))
  <2> DEFINE node == File(inos + 1, Partial)
             q == [req[r] EXCEPT !.todo = @ \ {x}, !.phase = "fill",
                                 !.ino = inos + 1, !.from = fs[x]]
  <2>1. x \in DOMAIN fs
    BY <1>4 DEF CanCopy
  <2>3. fs[x] \in OpenFile
    BY <1>2, <1>4, <2>1, OpenedIs
  <2>4. req' = [req EXCEPT ![r] = q]
    BY <1>4
  <2>5. /\ q \in Request /\ q.ask = ask /\ q.phase = "fill" /\ q.tmp = req[r].tmp
        /\ q.existed = req[r].existed /\ q.todo = req[r].todo \ {x}
        /\ q.ino = inos + 1 /\ q.from = fs[x]
    <3>1. inos + 1 \in Nat /\ "fill" \in Phases
      BY <1>2 DEF Phases
    <3> QED
      BY <1>2, <2>3, <3>1 DEF Request, OpenFile
  <2>6. node.ino = inos + 1
    BY NodeIs
  <2>7. fs' = With(fs, Target(x), node)
    BY <1>4
  <2> HIDE DEF q, node
  <2>8. q.todo = (req[r].todo \ {x})
                   \cup IF ask.deep /\ ~fs[x].file THEN MembersOf(fs, x) ELSE {}
    BY <1>4, <2>5
  <2>9. Entry(r, x, q, node)
    BY <1>4, <2>1, <2>4, <2>5, <2>6, <2>7, <2>8 DEF Entry
  <2> QED
    BY <2>5, <2>9 DEF node
<1> QED
  BY <1>3, <1>4 DEF copyTree

LEMMA copyTreeAlone ==
  ASSUME ShapeInv, NoPartialResource, NEW r \in Requests, AloneInv(req[r], fs), copyTree(r)
  PROVE  AloneInv(req'[r], fs')
<1> DEFINE ask == req[r].ask
<1>1. req[r] # Nil /\ ask.op = "COPY" /\ req[r].phase = "copy" /\ In(r, "COPY", "copy")
  BY DEF copyTree, In
<1>2. /\ req[r].tmp \in Staged /\ ask.path \in Paths /\ ask.dst \in Paths
      /\ DOMAIN fs \subseteq Seq(Segs)
  BY <1>1, ServedFacts
<1>3. Staging({req[r].tmp}, fs) /\ TransferOK(req[r], fs)
  BY <1>1, AloneFacts, PlacesOf
<1>4. CASE GoTo(r, "cleanup") /\ fs' = fs
  BY <1>1, <1>3, <1>4, CleanupNextAlone
<1>5. CASE \E x \in req[r].todo, q \in Request :
             \E node \in {Collection(inos + 1), File(inos + 1, Partial)} : Entry(r, x, q, node)
  <2>1. PICK x \in req[r].todo, q \in Request,
             node \in {Collection(inos + 1), File(inos + 1, Partial)} : Entry(r, x, q, node)
    BY <1>5
  <2>2. x \in DOMAIN fs /\ Within(ask.path, x)
    BY <1>1, <2>1, WalkFacts DEF Entry
  <2>3. fs[x].file => fs[x].body # Partial
    <3>1. ~Within(ask.path, req[r].tmp)
      BY <1>1, <1>2, <1>3, NotAbove DEF TransferOK
    <3> DEFINE places == {req[r].tmp}
    <3>2. Staging(places, fs) /\ \A b \in places : b \in Staged /\ ~Within(ask.path, b)
      BY <1>2, <1>3, <3>1
    <3> HIDE DEF places
    <3>3. ~Hidden(x)
      BY <1>2, <2>2, <3>2, SeenBelow
    <3> QED
      BY <2>2, <3>3 DEF NoPartialResource
  <2> HIDE DEF ask
  <2> QED
    BY <1>1, <2>1, <2>3, CopyEntry DEF Entry
<1> QED
  BY <1>4, <1>5, EntryIs

(* The copy is filled: clients see nothing of it. *)
LEMMA FillIs ==
  ASSUME ShapeInv, NEW r \in Requests, AloneInv(req[r], fs), copyRegularFile(r)
  PROVE  LET z == req'[r] IN
         /\ req[r] # Nil /\ req[r].ask.op = "COPY" /\ req[r].phase = "fill"
         /\ z \in Request /\ z.ask = req[r].ask /\ z.tmp = req[r].tmp
         /\ z.existed = req[r].existed /\ z.todo = req[r].todo
         /\ DOMAIN fs' = DOMAIN fs
         /\ \A x \in DOMAIN fs : fs[x].ino # req[r].ino => fs'[x] = fs[x]
         /\ \/ z.phase = "cleanup" /\ fs' = fs
            \/ /\ z.phase = "copy"
               /\ \A x \in DOMAIN fs : fs[x].ino = req[r].ino =>
                    fs'[x].file = TRUE /\ fs'[x].body = req[r].from.body
<1> DEFINE q == req[r]
<1>1. q # Nil /\ q.ask.op = "COPY" /\ q.phase = "fill"
  BY DEF copyRegularFile, In
<1>2. q \in Request /\ q.tmp \in Staged /\ q.ask.path \in Paths /\ inos \in Nat /\ TreeOK(fs, inos)
  BY <1>1, ServedFacts
<1>3. PICK phase \in {"copy", "cleanup"} :
        /\ \/ phase = "copy" /\ \E body \in Read(r) : fs' = Filled(r, body)
           \/ phase = "cleanup" /\ MayFail("copy") /\ UNCHANGED fs
        /\ req' = [req EXCEPT ![r].phase = phase, ![r].ino = 0, ![r].from = Nil]
  BY DEF copyRegularFile
<1> DEFINE z == [q EXCEPT !.phase = phase, !.ino = 0, !.from = Nil]
<1>4. req' = [req EXCEPT ![r] = z]
  BY <1>3
<1>5. /\ z \in Request /\ z.ask = q.ask /\ z.tmp = q.tmp /\ z.existed = q.existed
      /\ z.todo = q.todo /\ z.phase = phase
  BY <1>2, <1>3 DEF Request, Phases
<1> HIDE DEF z
<1>6. req'[r] = z
  BY <1>4, Becomes
<1>7. CASE phase = "copy"
  <2>1. PICK body \in Read(r) : fs' = Filled(r, body)
    BY <1>3, <1>7
  <2>2. body = q.from.body
    <3>1. View(q, fs) = fs /\ CopyOK(q, fs, View(q, fs))
      BY <1>1, AloneFacts DEF View
    <3>2. PICK y \in Originals(q, fs) : Filling(q, fs, fs, y)
      BY <1>1, <3>1 DEF CopyOK
    <3>3. y \in DOMAIN fs /\ fs[y] = q.from /\ q.from.body # Partial
      BY <1>1, <3>1, <3>2 DEF CopyOK, Originals, Under, Filling
    <3>4. \A x \in DOMAIN fs : fs[x].ino = q.from.ino => x = y
      BY <1>2, <3>3 DEF TreeOK
    <3>5. \A b \in {fs[x].body : x \in {x \in DOMAIN fs : fs[x].file /\ fs[x].ino = q.from.ino}} :
            b = q.from.body
      BY <3>3, <3>4
    <3> QED
      BY <3>3, <3>5 DEF Read
  <2>3. /\ DOMAIN fs' = DOMAIN fs
        /\ \A x \in DOMAIN fs :
             fs'[x] = IF fs[x].ino = q.ino THEN File(fs[x].ino, q.from.body) ELSE fs[x]
    BY <2>1, <2>2 DEF Filled
  <2>4. ASSUME NEW x \in DOMAIN fs, fs[x].ino = q.ino
        PROVE  fs'[x].file = TRUE /\ fs'[x].body = q.from.body
    <3>1. PICK m, b : m = q.ino /\ b = q.from.body
      OBVIOUS
    <3>2. File(m, b).file = TRUE /\ File(m, b).body = b
      BY DEF File
    <3>3. fs'[x] = File(m, b)
      BY <2>3, <2>4, <3>1
    <3>4. fs'[x].file = TRUE /\ fs'[x].body = b
      BY <3>2, <3>3
    <3> QED
      BY <3>1, <3>4
  <2> QED
    BY <1>1, <1>5, <1>6, <1>7, <2>3, <2>4
<1>8. CASE phase = "cleanup"
  BY <1>1, <1>3, <1>5, <1>6, <1>8
<1> QED
  BY <1>3, <1>7, <1>8

(* What the copy of a file is, before and after it is filled. *)
LEMMA FillStep ==
  ASSUME NEW t, NEW n \in Nat, TreeOK(t, n), NEW q, q.ask.op = "COPY", q.phase = "fill",
         CopyOK(q, t, t), Staging({q.tmp}, t), q.tmp \in Staged, q.ask.path \in Paths,
         ~Within(q.ask.path, q.tmp), q.from \in OpenFile,
         NEW u, DOMAIN u = DOMAIN t,
         \A x \in DOMAIN t : t[x].ino # q.ino => u[x] = t[x],
         \A x \in DOMAIN t : t[x].ino = q.ino => u[x].file = TRUE /\ u[x].body = q.from.body,
         NEW z, z.ask = q.ask, z.tmp = q.tmp, z.todo = q.todo, z.phase = "copy"
  PROVE  CopyOK(z, u, u)
<1> DEFINE p == q.ask.path
           a == q.tmp
<1>1. p \in Seq(Segs) /\ a \in Seq(Segs) /\ DOMAIN t \subseteq Seq(Segs)
  BY PathFacts, StagedFacts DEF TreeOK
<1>2. PICK y \in Originals(q, t) : Filling(q, t, t, y)
  BY DEF CopyOK
<1> DEFINE copy == Rebased(y, p, a)
<1>3. /\ Originals(z, u) = Originals(q, t) /\ p \in DOMAIN t
      /\ \A x \in Originals(q, t) : x \in DOMAIN t /\ Within(p, x)
  BY <1>1, WithinFacts, PathFacts DEF Originals, Under, CopyOK
<1>4. \A x \in DOMAIN t : Within(p, x) => ~Hidden(x)
  <2> DEFINE places == {a}
  <2>1. Staging(places, t) /\ \A b \in places : b \in Staged /\ ~Within(p, b)
    OBVIOUS
  <2> HIDE DEF places
  <2> QED
    BY <1>1, <2>1, SeenBelow
<1>5. \A x \in Originals(q, t) :
        /\ x \in Seq(Segs)
        /\ Rebased(Rebased(x, p, a), a, p) = x
        /\ Rebased(x, p, a) \in Seq(Segs) /\ Within(a, Rebased(x, p, a))
  BY <1>1, <1>3, RebasedBack
<1>6. copy \in DOMAIN t /\ t[copy].ino = q.ino /\ t[y] = q.from
  BY <1>2 DEF Filling
<1>7. \A x \in DOMAIN t : t[x].ino = q.ino <=> x = copy
  BY <1>6 DEF TreeOK
<1>8. Hidden(copy)
  BY <1>2, <1>5, StagedHidden
<1> HIDE DEF copy
<1>9. ASSUME NEW x \in Originals(q, t)
      PROVE  u[x] = t[x]
  <2>1. x # copy
    BY <1>3, <1>4, <1>8
  <2> QED
    BY <1>3, <1>7, <2>1
<1>10. u[copy].file = TRUE /\ u[copy].body = q.from.body
  BY <1>6
<1>11. ASSUME NEW x \in Originals(q, t)
       PROVE  \/ \E w \in z.todo : Within(w, x)
              \/ Rebased(x, p, a) \in DOMAIN u /\ SameContent(u[x], u[Rebased(x, p, a)])
  <2>1. CASE Rebased(x, p, a) = copy
    <3>1. x = y
      BY <1>2, <1>5, <2>1 DEF copy
    <3>2. u[x] = q.from /\ q.from.file = TRUE
      BY <1>6, <1>9, <3>1 DEF OpenFile
    <3> QED
      BY <1>6, <1>10, <2>1, <3>2 DEF SameContent
  <2>2. CASE Rebased(x, p, a) # copy
    <3>1. CASE Rebased(x, p, a) \in DOMAIN t /\ SameContent(t[x], t[Rebased(x, p, a)])
      BY <1>7, <1>9, <2>2, <3>1
    <3>2. CASE Filling(q, t, t, x)
      BY <1>7, <2>2, <3>2 DEF Filling
    <3> QED
      BY <3>1, <3>2 DEF CopyOK
  <2> QED
    BY <2>1, <2>2
<1>12. \A x \in DOMAIN u : Within(a, x) => Rebased(x, a, p) \in Originals(q, t)
  BY DEF CopyOK
<1>13. p \in DOMAIN u /\ (~q.ask.deep => z.todo \subseteq {p})
  BY <1>3 DEF CopyOK
<1> QED
  BY <1>3, <1>11, <1>12, <1>13 DEF CopyOK

LEMMA copyRegularFileAlone ==
  ASSUME ShapeInv, NEW r \in Requests, AloneInv(req[r], fs), copyRegularFile(r)
  PROVE  AloneInv(req'[r], fs')
<1> DEFINE q == req[r]
           z == req'[r]
           t == fs
           u == fs'
<1>1. /\ q # Nil /\ q.ask.op = "COPY" /\ q.phase = "fill"
      /\ z \in Request /\ z.ask = q.ask /\ z.tmp = q.tmp /\ z.existed = q.existed
      /\ z.todo = q.todo /\ DOMAIN u = DOMAIN t
      /\ \A x \in DOMAIN t : t[x].ino # q.ino => u[x] = t[x]
      /\ \/ z.phase = "cleanup" /\ u = t
         \/ /\ z.phase = "copy"
            /\ \A x \in DOMAIN t : t[x].ino = q.ino =>
                 u[x].file = TRUE /\ u[x].body = q.from.body
  BY FillIs
<1>2. /\ q.tmp \in Staged /\ q.ask.path \in Paths /\ q.ask.dst \in Paths
      /\ inos \in Nat /\ TreeOK(t, inos) /\ q.from \in OpenFile
  BY <1>1, ServedFacts DEF RequestOK
<1>3. /\ Staging({q.tmp}, t) /\ TransferOK(q, t) /\ CopyOK(q, t, t)
  <2>1. View(q, t) = t
    BY <1>1 DEF View
  <2> QED
    BY <1>1, <2>1, AloneFacts, PlacesOf
<1> HIDE DEF q, z, t, u
<1>4. Staging({q.tmp}, u)
  BY <1>1, <1>3, StagingPart
<1>5. Staging(Places(z), u)
  BY <1>1, <1>4, PlacesOf
<1>6. TransferOK(z, u)
  BY <1>1, <1>3 DEF TransferOK
<1>7. CopyOK(z, u, View(z, u))
  <2>1. CASE z.phase = "cleanup"
    BY <2>1 DEF CopyOK
  <2>2. CASE z.phase = "copy"
    <3>1. View(z, u) = u
      BY <2>2 DEF View
    <3>2. ~Within(q.ask.path, q.tmp)
      BY <1>1, <1>2, <1>3, NotAbove DEF TransferOK
    <3>3. CopyOK(z, u, u)
      BY <1>1, <1>2, <1>3, <2>2, <3>2, FillStep
    <3> QED
      BY <3>1, <3>3
  <2> QED
    BY <1>1, <2>1, <2>2
<1>8. AloneInv(z, u)
  BY <1>1, <1>5, <1>6, <1>7, TransferAlone
<1> QED
  BY <1>8 DEF z, u

(* What swapTree finds. *)
LEMMA SwapAlone ==
  ASSUME ShapeInv, NEW r \in Requests, AloneInv(req[r], fs),
         ReadyToSwap(r) \/ (req[r] # Nil /\ req[r].phase \in {"swapIn", "restore", "discard"})
  PROVE  /\ req[r] # Nil /\ req[r] \in Request /\ req[r].ask.op \in {"COPY", "MOVE"}
         /\ req[r].ask.path \in Paths /\ req[r].ask.dst \in Paths
         /\ req[r].phase \in {"copy", "swap", "swapIn", "restore", "discard"}
         /\ req[r].ask.op = "COPY" => req[r].tmp \in Staged
         /\ DOMAIN fs \subseteq Seq(Segs) /\ inos \in Nat /\ TreeOK(fs, inos)
         /\ Staging(Places(req[r]), fs)
         /\ TransferOK(req[r], fs) /\ CopyOK(req[r], fs, View(req[r], fs))
         /\ req[r].phase \in {"swapIn", "restore", "discard"} => req[r].aside \in Staged
<1>1. req[r] # Nil /\ req[r].ask.op \in {"COPY", "MOVE"}
  BY SwapIsTransfer
<1>2. req[r].phase \in {"copy", "swap", "swapIn", "restore", "discard"}
  BY DEF ReadyToSwap, In
<1> QED
  BY <1>1, <1>2, ServedFacts, AloneFacts

LEMMA AbandonAlone ==
  ASSUME ShapeInv, NEW r \in Requests, AloneInv(req[r], fs), req[r] # Nil,
         req[r].ask.op \in {"COPY", "MOVE"}, Abandon(r),
         req[r].ask.op = "COPY" => Staging({req[r].tmp}, fs'),
         req[r].ask.op = "MOVE" => Staging({}, fs')
  PROVE  AloneInv(req'[r], fs')
<1>1. CASE req[r].ask.op = "COPY"
  <2>1. GoTo(r, "cleanup") /\ req[r].phase # "create"
    BY <1>1, ServedFacts, PhaseFacts DEF Abandon
  <2> QED
    BY <1>1, <2>1, CleanupNextAlone
<1>2. CASE req[r].ask.op = "MOVE"
  BY <1>2, FinishAlone DEF Abandon
<1> QED
  BY <1>1, <1>2

LEMMA RenameNewAlone ==
  ASSUME ShapeInv, NEW r \in Requests, AloneInv(req[r], fs), RenameNew(r)
  PROVE  AloneInv(req'[r], fs')
<1> DEFINE dst == req[r].ask.dst
           tmp == req[r].tmp
           src == req[r].ask.path
<1>1. ReadyToSwap(r)
  BY DEF RenameNew
<1>2. /\ req[r] # Nil /\ req[r].ask.op \in {"COPY", "MOVE"} /\ src \in Paths /\ dst \in Paths
      /\ DOMAIN fs \subseteq Seq(Segs) /\ (req[r].ask.op = "COPY" => tmp \in Staged)
      /\ Staging(Places(req[r]), fs)
  BY <1>1, SwapAlone
<1>3. /\ req[r].ask.op = "COPY" => Staging({tmp}, fs)
      /\ req[r].ask.op = "MOVE" => Staging({}, fs)
  BY <1>1, <1>2, PlacesOf DEF ReadyToSwap, In
<1>4. CASE fs' = Moved(fs, NewTree(r), dst) /\ Finish(r)
  <2>1. CASE req[r].ask.op = "COPY"
    <3>1. Staging({tmp} \ {tmp}, fs')
      BY <1>2, <1>3, <1>4, <2>1, MovedIn DEF NewTree
    <3> QED
      BY <1>4, <3>1, StagingMore, FinishAlone
  <2>2. CASE req[r].ask.op = "MOVE"
    <3>1. Staging({}, fs')
      BY <1>2, <1>3, <1>4, <2>2, MovedAcross DEF NewTree
    <3> QED
      BY <1>4, <3>1, FinishAlone
  <2> QED
    BY <1>2, <2>1, <2>2
<1>5. CASE Abandon(r) /\ UNCHANGED fs
  BY <1>2, <1>3, <1>5, AbandonAlone
<1> QED
  BY <1>4, <1>5 DEF RenameNew

(* The copies stay while the old tree is set aside. *)
LEMMA CopyKept ==
  ASSUME NEW q, NEW t, CopyOK(q, t, t), q.ask.op = "COPY", q.phase = "copy", q.todo = {},
         NEW w, SameTree(w, t),
         NEW u, \A x : Within(q.tmp, x) =>
                  /\ x \in DOMAIN t => x \in DOMAIN u /\ u[x] = t[x]
                  /\ x \in DOMAIN u => x \in DOMAIN t,
         \A y \in DOMAIN t : Within(q.ask.path, y) => Within(q.tmp, Rebased(y, q.ask.path, q.tmp)),
         Within(q.ask.path, q.ask.path),
         NEW z, z.ask = q.ask, z.tmp = q.tmp, z.todo = q.todo, z.phase # "fill"
  PROVE  CopyOK(z, u, w)
<1> DEFINE p == q.ask.path
           a == q.tmp
<1>1. Originals(z, w) = Originals(q, t)
  BY DEF Originals, Under, SameTree
<1>2. p \in DOMAIN w /\ p \in DOMAIN t
  BY DEF CopyOK, SameTree
<1>3. ASSUME NEW y \in Originals(q, t)
      PROVE  Rebased(y, p, a) \in DOMAIN u /\ SameContent(w[y], u[Rebased(y, p, a)])
  <2>1. y \in DOMAIN t /\ Within(p, y)
    BY <1>2 DEF Originals, Under
  <2>2. Rebased(y, p, a) \in DOMAIN t /\ SameContent(t[y], t[Rebased(y, p, a)])
    BY DEF CopyOK
  <2> QED
    BY <2>1, <2>2 DEF SameTree
<1>4. ASSUME NEW x \in DOMAIN u, Within(a, x)
      PROVE  Rebased(x, a, p) \in Originals(q, t)
  BY <1>4 DEF CopyOK
<1> QED
  BY <1>1, <1>2, <1>3, <1>4 DEF CopyOK

LEMMA SetAsideAlone ==
  ASSUME ShapeInv, NEW r \in Requests, AloneInv(req[r], fs), SetAside(r)
  PROVE  AloneInv(req'[r], fs')
<1> DEFINE dst == req[r].ask.dst
           tmp == req[r].tmp
           src == req[r].ask.path
<1>1. ReadyToSwap(r) /\ req[r].existed
  BY DEF SetAside
<1>2. /\ req[r] # Nil /\ req[r] \in Request /\ req[r].ask.op \in {"COPY", "MOVE"}
      /\ src \in Paths /\ dst \in Paths
      /\ DOMAIN fs \subseteq Seq(Segs) /\ (req[r].ask.op = "COPY" => tmp \in Staged)
      /\ Staging(Places(req[r]), fs) /\ TransferOK(req[r], fs)
      /\ CopyOK(req[r], fs, View(req[r], fs))
  BY <1>1, SwapAlone
<1>3. /\ req[r].ask.op = "COPY" => req[r].phase = "copy" /\ req[r].todo = {} /\ Places(req[r]) = {tmp}
      /\ req[r].ask.op = "MOVE" => req[r].phase = "swap" /\ Places(req[r]) = {}
  BY <1>1, <1>2, PlacesOf DEF ReadyToSwap, In
<1>4. CASE \E aside \in Fresh(Parent(dst)) :
             /\ CanRename(fs, dst, aside)
             /\ fs' = Moved(fs, dst, aside)
             /\ req' = [req EXCEPT ![r].aside = aside, ![r].phase = "swapIn"]
  <2>1. PICK aside \in Fresh(Parent(dst)) :
             /\ CanRename(fs, dst, aside)
             /\ fs' = Moved(fs, dst, aside)
             /\ req' = [req EXCEPT ![r].aside = aside, ![r].phase = "swapIn"]
    BY <1>4
  <2> DEFINE q == [req[r] EXCEPT !.aside = aside, !.phase = "swapIn"]
  <2>2. /\ aside \in Staged /\ Parent(aside) = Parent(dst)
        /\ \A x \in DOMAIN fs : \A i \in 1..Len(x) : x[i] # Token(aside)
        /\ tmp # Nil => Token(tmp) # Token(aside)
    BY <1>2, FreshFacts DEF Live
  <2>3. /\ q.ask = req[r].ask /\ q.phase = "swapIn" /\ q.aside = aside /\ q.tmp = tmp
        /\ q.todo = req[r].todo
    BY <1>2 DEF Request
  <2>4. q \in Request
    <3>1. aside \in Staged \cup {Nil} /\ "swapIn" \in Phases
      BY <2>2 DEF Phases
    <3> QED
      BY <1>2, <3>1 DEF Request
  <2>5. req' = [req EXCEPT ![r] = q]
    BY <2>1
  <2> HIDE DEF q
  <2>6. /\ dst \in Seq(Segs) /\ dst # <<>> /\ aside \in Seq(Segs) /\ Clean(dst) /\ ~Hidden(dst)
        /\ Len(aside) \in 1..Len(aside)
    BY <1>2, <2>2, PathFacts, StagedFacts, PathsClean
  <2>7. ~Within(dst, aside) /\ ~Within(aside, dst)
    BY <2>2, <2>6, StagedApart
  <2>8. \A x \in DOMAIN fs : ~Within(aside, x)
    BY <1>2, <2>2, <2>6, LenProperties DEF Within, Token
  <2>9. Renames(fs, fs', dst, aside)
    BY <1>2, <2>1, <2>6, MovedRenames
  <2>10. Within(dst, dst) /\ Rebased(dst, dst, aside) = aside
    BY <2>6, WithinFacts, RebasedSelf
  <2>11. dst \in DOMAIN fs
    BY <2>1 DEF CanRename
  <2>12. aside \in DOMAIN fs' /\ dst \notin DOMAIN fs'
    BY <2>7, <2>9, <2>10, <2>11 DEF Renames
  <2>13. req[r].ask.op = "COPY" =>
           /\ tmp \in Staged /\ tmp \in Seq(Segs) /\ Parent(tmp) = Parent(dst) /\ tmp # Nil /\ tmp # <<>>
           /\ Token(aside) # Token(tmp)
           /\ ~Within(dst, tmp) /\ ~Within(tmp, dst)
           /\ ~Within(aside, tmp) /\ ~Within(tmp, aside)
    <3> SUFFICES ASSUME req[r].ask.op = "COPY"
                 PROVE  /\ tmp \in Staged /\ tmp \in Seq(Segs) /\ Parent(tmp) = Parent(dst) /\ tmp # Nil /\ tmp # <<>>
                        /\ Token(aside) # Token(tmp)
                        /\ ~Within(dst, tmp) /\ ~Within(tmp, dst)
                        /\ ~Within(aside, tmp) /\ ~Within(tmp, aside)
      OBVIOUS
    <3>1. tmp \in Staged /\ tmp \in Seq(Segs) /\ tmp # <<>> /\ tmp # Nil /\ Parent(tmp) = Parent(dst)
      BY <1>2, StagedFacts DEF TransferOK
    <3>2. Token(aside) # Token(tmp)
      BY <2>2, <3>1
    <3>3. ~Within(dst, tmp) /\ ~Within(tmp, dst)
      BY <2>6, <3>1, StagedApart
    <3>4. ~Within(aside, tmp) /\ ~Within(tmp, aside)
      BY <2>2, <2>6, <3>1, <3>2, StagedApart
    <3> QED
      BY <3>1, <3>2, <3>3, <3>4
  <2>14. TransferOK(q, fs')
    BY <1>1, <1>2, <1>3, <2>2, <2>3, <2>12, <2>13 DEF TransferOK
  <2>15. Staging(Places(q), fs')
    <3>1. \A b \in Places(req[r]) : b \in Staged /\ ~Within(dst, b)
      BY <1>2, <1>3, <2>13
    <3>2. Staging(Places(req[r]) \cup {aside}, fs')
      BY <1>2, <2>1, <2>2, <3>1, MovedAside
    <3>3. Places(req[r]) \cup {aside} \subseteq Places(q)
      BY <1>2, <1>3, <2>3, PlacesOf
    <3> QED
      BY <3>2, <3>3, StagingMore
  <2>16. SameTree(Moved(fs', aside, dst), fs)
    BY <1>2, <2>1, <2>6, <2>7, <2>8, MovedBack
  <2>17. View(q, fs') = Moved(fs', aside, dst)
    BY <2>3, <2>4, RequestAssumption DEF View
  <2>18. CopyOK(q, fs', View(q, fs'))
    <3>1. CASE req[r].ask.op = "COPY"
      <4>1. CopyOK(req[r], fs, fs)
        BY <1>2, <1>3, <3>1 DEF View
      <4>2. src \in Seq(Segs) /\ Within(src, src)
        BY <1>2, PathFacts, WithinFacts
      <4>3. \A y \in DOMAIN fs : Within(src, y) => Within(tmp, Rebased(y, src, tmp))
        BY <1>2, <2>13, <3>1, <4>2, RebasedBack
      <4>4. ASSUME NEW x, Within(tmp, x)
            PROVE  /\ x \in DOMAIN fs => x \in DOMAIN fs' /\ fs'[x] = fs[x]
                   /\ x \in DOMAIN fs' => x \in DOMAIN fs
        <5>1. x \in Seq(Segs) => ~Within(dst, x) /\ ~Within(aside, x)
          BY <2>6, <2>13, <3>1, <4>4, Apart
        <5>2. DOMAIN fs' \subseteq Seq(Segs)
          BY <1>2, <2>9 DEF Renames
        <5> QED
          BY <1>2, <2>9, <5>1, <5>2 DEF Renames
      <4> DEFINE t == fs
                 u == fs'
                 w == Moved(fs', aside, dst)
      <4>5. SameTree(w, t)
        BY <2>16
      <4>6. /\ CopyOK(req[r], t, t)
            /\ \A x : Within(tmp, x) => /\ x \in DOMAIN t => x \in DOMAIN u /\ u[x] = t[x]
                                        /\ x \in DOMAIN u => x \in DOMAIN t
            /\ \A y \in DOMAIN t : Within(src, y) => Within(tmp, Rebased(y, src, tmp))
        BY <4>1, <4>3, <4>4
      <4> HIDE DEF t, u, w
      <4>7. CopyOK(q, u, w)
        BY <1>3, <2>3, <3>1, <4>2, <4>5, <4>6, CopyKept
      <4> QED
        BY <2>17, <4>7 DEF u, w
    <3>2. CASE req[r].ask.op = "MOVE"
      BY <2>3, <3>2 DEF CopyOK
    <3> QED
      BY <1>2, <3>1, <3>2
  <2>19. AloneInv(q, fs')
    BY <1>2, <2>3, <2>4, <2>14, <2>15, <2>18, TransferAlone
  <2> QED
    BY <2>5, <2>19, Becomes
<1>5. CASE Abandon(r) /\ UNCHANGED fs
  BY <1>2, <1>3, <1>5, AbandonAlone
<1> QED
  BY <1>4, <1>5 DEF SetAside

(* What is staged while the trees are swapped. *)
LEMMA SwapPlaces ==
  ASSUME ShapeInv, NEW r \in Requests, AloneInv(req[r], fs), req[r] # Nil,
         req[r].phase \in {"swapIn", "restore"}
  PROVE  LET dst == req[r].ask.dst  tmp == req[r].tmp  aside == req[r].aside IN
         /\ aside \in Staged /\ aside \in DOMAIN fs /\ aside \in Seq(Segs) /\ aside # <<>>
         /\ dst \in Paths /\ dst \notin DOMAIN fs
         /\ Parent(aside) = Parent(dst) /\ ~Within(aside, dst) /\ ~Within(dst, aside)
         /\ req[r].ask.op = "COPY" =>
              /\ Places(req[r]) = {tmp, aside} /\ tmp \in Staged /\ tmp # aside
              /\ ~Within(tmp, aside) /\ ~Within(aside, tmp)
              /\ ~Within(tmp, dst) /\ ~Within(dst, tmp)
         /\ req[r].ask.op = "MOVE" => Places(req[r]) = {aside} /\ ~Within(req[r].ask.path, aside)
<1> DEFINE dst == req[r].ask.dst
           tmp == req[r].tmp
           aside == req[r].aside
<1>1. /\ req[r] \in Request /\ req[r].ask.op \in {"COPY", "MOVE"} /\ req[r].ask.path \in Paths
      /\ dst \in Paths /\ (req[r].ask.op = "COPY" => tmp \in Staged) /\ aside \in Staged
      /\ TransferOK(req[r], fs)
  BY SwapAlone
<1>2. /\ Parent(aside) = Parent(dst) /\ aside \in DOMAIN fs /\ dst \notin DOMAIN fs
      /\ ~Within(req[r].ask.path, dst)
      /\ req[r].ask.op = "COPY" => Token(aside) # Token(tmp) /\ Parent(tmp) = Parent(dst)
  BY <1>1 DEF TransferOK
<1>3. dst \in Seq(Segs) /\ dst # <<>> /\ Clean(dst) /\ aside \in Seq(Segs) /\ aside # <<>>
  BY <1>1, PathFacts, StagedFacts, PathsClean
<1>4. ~Within(aside, dst) /\ ~Within(dst, aside)
  BY <1>1, <1>2, <1>3, StagedApart
<1>5. CASE req[r].ask.op = "COPY"
  <2>1. tmp \in Staged /\ tmp \in Seq(Segs) /\ tmp # <<>>
    BY <1>1, <1>5, StagedFacts
  <2>2. ~Within(tmp, dst) /\ ~Within(dst, tmp)
    BY <1>2, <1>3, <1>5, <2>1, StagedApart
  <2>3. ~Within(tmp, aside) /\ ~Within(aside, tmp)
    BY <1>1, <1>2, <1>3, <1>5, <2>1, StagedApart
  <2>4. Places(req[r]) = {tmp, aside}
    BY <1>5, PlacesOf
  <2> QED
    BY <1>1, <1>2, <1>3, <1>4, <1>5, <2>1, <2>2, <2>3, <2>4
<1>6. CASE req[r].ask.op = "MOVE"
  <2>1. Places(req[r]) = {aside}
    BY <1>6, PlacesOf
  <2>2. ~Within(req[r].ask.path, aside)
    BY <1>1, <1>2, NotAbove
  <2> QED
    BY <1>1, <1>2, <1>3, <1>4, <1>6, <2>1, <2>2
<1> QED
  BY <1>1, <1>5, <1>6

LEMMA SwapInAlone ==
  ASSUME ShapeInv, NEW r \in Requests, AloneInv(req[r], fs), SwapIn(r)
  PROVE  AloneInv(req'[r], fs')
<1> DEFINE dst == req[r].ask.dst
           tmp == req[r].tmp
           aside == req[r].aside
           src == req[r].ask.path
           z == req'[r]
<1>1. req[r] # Nil /\ req[r].phase = "swapIn"
  BY DEF SwapIn
<1>2. /\ req[r].ask.op \in {"COPY", "MOVE"} /\ src \in Paths /\ dst \in Paths
      /\ DOMAIN fs \subseteq Seq(Segs)
      /\ Staging(Places(req[r]), fs) /\ TransferOK(req[r], fs)
  BY <1>1, SwapAlone
<1>3. /\ aside \in Staged /\ aside \in DOMAIN fs /\ dst \notin DOMAIN fs
      /\ req[r].ask.op = "COPY" =>
           /\ Places(req[r]) = {tmp, aside} /\ tmp \in Staged /\ tmp # aside
           /\ ~Within(tmp, aside) /\ ~Within(aside, tmp)
      /\ req[r].ask.op = "MOVE" => Places(req[r]) = {aside} /\ ~Within(src, aside)
  BY <1>1, SwapPlaces
<1>4. CASE fs' = Moved(fs, NewTree(r), dst) /\ GoTo(r, "discard")
  <2>1. Staging({aside}, fs')
    <3>1. CASE req[r].ask.op = "COPY"
      <4>1. Staging({tmp, aside} \ {tmp}, fs')
        BY <1>2, <1>3, <1>4, <3>1, MovedIn DEF NewTree
      <4> QED
        BY <4>1, StagingMore
    <3>2. CASE req[r].ask.op = "MOVE"
      BY <1>2, <1>3, <1>4, <3>2, MovedAcross DEF NewTree
    <3> QED
      BY <1>2, <3>1, <3>2
  <2>2. Continues(req[r], z, "discard")
    BY <1>1, <1>4, GoToIs DEF Phases
  <2> HIDE DEF z
  <2>3. z \in Request /\ z.phase = "discard" /\ z.ask = req[r].ask /\ z.tmp = tmp /\ z.aside = aside
    BY <2>2 DEF Continues
  <2>4. Staging(Places(z), fs')
    BY <1>2, <2>1, <2>3, PlacesOf
  <2>5. TransferOK(z, fs')
    BY <1>1, <1>2, <2>3 DEF TransferOK
  <2>6. CopyOK(z, fs', View(z, fs'))
    BY <2>3 DEF CopyOK
  <2> QED
    BY <1>2, <2>3, <2>4, <2>5, <2>6, TransferAlone DEF z
<1>5. CASE GoTo(r, "restore") /\ UNCHANGED fs
  <2>2. Continues(req[r], z, "restore")
    BY <1>1, <1>5, GoToIs DEF Phases
  <2> HIDE DEF z
  <2>3. z \in Request /\ z.phase = "restore" /\ z.ask = req[r].ask /\ z.tmp = tmp /\ z.aside = aside
    BY <2>2 DEF Continues
  <2>4. Places(z) = Places(req[r])
    BY <1>1, <1>2, <2>3, PlacesOf
  <2>5. TransferOK(z, fs')
    BY <1>1, <1>2, <1>5, <2>3 DEF TransferOK
  <2>6. CopyOK(z, fs', View(z, fs'))
    BY <2>3 DEF CopyOK
  <2> QED
    BY <1>2, <1>5, <2>3, <2>4, <2>5, <2>6, TransferAlone DEF z
<1> QED
  BY <1>4, <1>5 DEF SwapIn

(* What was set aside can be brought back. *)
LEMMA CanRestore ==
  ASSUME ShapeInv, NEW r \in Requests, AloneInv(req[r], fs), req[r] # Nil,
         req[r].phase \in {"swapIn", "restore"}
  PROVE  CanRename(fs, req[r].aside, req[r].ask.dst)
<1> DEFINE aside == req[r].aside
           dst == req[r].ask.dst
<1>1. /\ aside \in DOMAIN fs /\ aside \in Seq(Segs) /\ aside # <<>> /\ dst \notin DOMAIN fs
      /\ Parent(aside) = Parent(dst) /\ ~Within(aside, dst)
  BY SwapPlaces
<1>2. TreeOK(fs, inos)
  BY TreeStays
<1>3. Parent(aside) \in Seq(Segs) /\ Within(Parent(aside), aside) /\ Parent(aside) # aside
  BY <1>1, ParentFacts, ParentWithin, WithinFacts
<1>4. IsCollection(fs, Parent(dst))
  BY <1>1, <1>2, <1>3 DEF TreeOK, Closed
<1> QED
  BY <1>1, <1>4 DEF CanRename

LEMMA RestoreAlone ==
  ASSUME ShapeInv, NEW r \in Requests, AloneInv(req[r], fs), Restore(r), "restore" \notin Faults
  PROVE  AloneInv(req'[r], fs')
<1> DEFINE dst == req[r].ask.dst
           tmp == req[r].tmp
           aside == req[r].aside
<1>1. req[r] # Nil /\ req[r].phase = "restore" /\ Abandon(r)
  BY DEF Restore
<1>2. fs' = Moved(fs, aside, dst)
  BY <1>1, CanRestore DEF Restore, MayFail
<1>3. /\ req[r].ask.op \in {"COPY", "MOVE"} /\ dst \in Paths /\ DOMAIN fs \subseteq Seq(Segs)
      /\ Staging(Places(req[r]), fs)
  BY <1>1, SwapAlone
<1>4. /\ aside \in Staged
      /\ req[r].ask.op = "COPY" =>
           /\ Places(req[r]) = {tmp, aside} /\ tmp \in Staged /\ tmp # aside
           /\ ~Within(tmp, aside) /\ ~Within(aside, tmp)
      /\ req[r].ask.op = "MOVE" => Places(req[r]) = {aside}
  BY <1>1, SwapPlaces
<1>5. Staging(Places(req[r]) \ {aside}, fs')
  BY <1>2, <1>3, <1>4, MovedIn
<1>6. /\ req[r].ask.op = "COPY" => Staging({tmp}, fs')
      /\ req[r].ask.op = "MOVE" => Staging({}, fs')
  BY <1>4, <1>5, StagingMore
<1> QED
  BY <1>1, <1>3, <1>6, AbandonAlone

LEMMA DiscardAlone ==
  ASSUME ShapeInv, NEW r \in Requests, AloneInv(req[r], fs), Discard(r), "discard" \notin Faults
  PROVE  AloneInv(req'[r], fs')
<1>1. /\ req[r] # Nil /\ req[r].phase = "discard" /\ Finish(r)
      /\ fs' = Without(fs, req[r].aside)
  BY DEF Discard, MayFail
<1>2. req[r].ask.op \in {"COPY", "MOVE"} /\ Staging(Places(req[r]), fs)
  BY <1>1, SwapAlone
<1>3. Staging({req[r].aside}, fs)
  BY <1>1, <1>2, PlacesOf
<1>4. Staging({}, fs')
  BY <1>1, <1>3, StagingWithout, StagingMore
<1> QED
  BY <1>1, <1>4, FinishAlone

LEMMA AloneNext ==
  ASSUME ShapeInv, ShapeInv', NoPartialResource,
         NEW r, Undisturbed(r), AloneInv(req[r], fs), [Next]_vars
  PROVE  AloneInv(req'[r], fs')
<1> USE DEF Undisturbed
<1>1. r \in Requests
  OBVIOUS
<1>2. CASE Begin(r)
  <2>1. PICK p \in Paths :
          \/ \E ifMatch \in Headers, ifNoneMatch \in Headers :
               \/ \E body \in Bodies : Create(r, p, ifMatch, ifNoneMatch, body)
               \/ RemoveAll(r, p, ifMatch, ifNoneMatch)
          \/ \E dst \in Paths, overwrite \in BOOLEAN :
               \/ \E deep \in BOOLEAN : Copy(r, p, dst, deep, overwrite)
               \/ Move(r, p, dst, overwrite)
          \/ Mkdir(r, p)
    BY <1>2 DEF Begin
  <2>2. CASE Mkdir(r, p)
    BY <1>1, <2>2, MkdirAlone
  <2>3. CASE \E ifMatch \in Headers, ifNoneMatch \in Headers :
               \/ \E body \in Bodies : Create(r, p, ifMatch, ifNoneMatch, body)
               \/ RemoveAll(r, p, ifMatch, ifNoneMatch)
    BY <1>1, <2>3, CreateAlone, RemoveAllAlone
  <2>4. CASE \E dst \in Paths, overwrite \in BOOLEAN :
               \/ \E deep \in BOOLEAN : Copy(r, p, dst, deep, overwrite)
               \/ Move(r, p, dst, overwrite)
    BY <1>1, <2>4, CopyAlone, MoveAlone
  <2> QED
    BY <2>1, <2>2, <2>3, <2>4
<1>3. CASE createSibling(r) \/ WriteBody(r) \/ BodyBreaks(r) \/ RenameTemp(r)
  BY <1>1, <1>3, createSiblingAlone, WriteBodyAlone, BodyBreaksAlone, RenameTempAlone
<1>4. CASE Remove(r) \/ RemoveMember(r) \/ RemoveEmptied(r) \/ RemoveFails(r)
  BY <1>1, <1>4, RemoveAlone, RemoveMemberAlone, RemoveEmptiedAlone, RemoveFailsAlone
<1>5. CASE copyTree(r) \/ copyRegularFile(r) \/ RenameNew(r) \/ SetAside(r) \/ SwapIn(r)
  BY <1>1, <1>5, copyTreeAlone, copyRegularFileAlone, RenameNewAlone, SetAsideAlone, SwapInAlone
<1>6. CASE Restore(r) \/ Discard(r) \/ Cleanup(r)
  BY <1>1, <1>6, RestoreAlone, DiscardAlone, CleanupAlone
<1>7. CASE UNCHANGED vars
  BY <1>7 DEF vars
<1> QED
  BY <1>2, <1>3, <1>4, <1>5, <1>6, <1>7 DEF Next, Crash, Continue

LEMMA AloneInit ==
  ASSUME NEW r, Undisturbed(r), Init
  PROVE  AloneInv(req[r], fs)
<1>1. req[r] = Nil /\ DOMAIN fs = {}
  BY DEF Init, Undisturbed
<1>2. Staging({}, fs)
  BY <1>1 DEF Staging
<1> QED
  BY <1>1, <1>2, Idle

LEMMA Alone ==
  ASSUME NEW r, Undisturbed(r)
  PROVE  Spec => []AloneInv(req[r], fs)
<1>1. Init => AloneInv(req[r], fs)
  BY AloneInit
<1>2. ShapeInv /\ ShapeInv' /\ NoPartialResource /\ AloneInv(req[r], fs) /\ [Next]_vars
        => AloneInv(req[r], fs)'
  BY AloneNext
<1> QED
  BY <1>1, <1>2, Shape, NoHalfWrittenResource, PTL DEF Spec

(* When no request is served, no temporary name is left, whichever calls   *)
(* failed but three, which nothing undoes: the removals deferred by Create *)
(* and Copy (fs_local.go:194, :330), swapTree's restore and its removal of *)
(* the old tree.  Of requests served one at a time.                        *)
THEOREM NoStraysLeft ==
  ASSUME NEW r, Undisturbed(r)
  PROVE  Spec => []NoStrays
<1>1. AloneInv(req[r], fs) => NoStrays
  BY DEF AloneInv, NoStrays, Staging, Undisturbed
<1> QED
  BY <1>1, Alone, PTL

---------------------------------------------------------------------------
(* Each step is one of AtomicTree, as clients see it.                      *)

(* AtomicTree's trees are those of LocalFS. *)
LEMMA AtomicPaths ==
  /\ \A p, q : Atomic!Within(p, q) <=> Within(p, q)
  /\ \A p : Atomic!Parent(p) = Parent(p)
  /\ \A p, q, x : Atomic!Rebased(x, p, q) = Rebased(x, p, q)
  /\ \A i, b : Atomic!File(i, b) = File(i, b)
  /\ \A i : Atomic!Collection(i) = Collection(i)
<1>1. \A p, q : Atomic!Within(p, q) <=> Within(p, q)
  BY DEF Atomic!Within, Within
<1>2. \A p : Atomic!Parent(p) = Parent(p)
  BY DEF Atomic!Parent, Parent
<1>3. \A p, q, x : Atomic!Rebased(x, p, q) = Rebased(x, p, q)
  BY DEF Atomic!Rebased, Rebased
<1>4. \A i, b : Atomic!File(i, b) = File(i, b)
  BY DEF Atomic!File, File
<1>5. \A i : Atomic!Collection(i) = Collection(i)
  BY DEF Atomic!Collection, Collection
<1> QED
  BY <1>1, <1>2, <1>3, <1>4, <1>5

LEMMA AtomicTrees ==
  /\ \A t, p : Atomic!Under(t, p) = Under(t, p)
  /\ \A t, p : Atomic!MembersOf(t, p) = MembersOf(t, p)
  /\ \A t, p : Atomic!IsCollection(t, p) <=> IsCollection(t, p)
  /\ \A t, p : Atomic!Without(t, p) = Without(t, p)
  /\ \A t, p, n : Atomic!With(t, p, n) = With(t, p, n)
  /\ \A t, p, q : Atomic!Moved(t, p, q) = Moved(t, p, q)
  /\ \A t, p : Atomic!ETagAt(t, p) = ETagAt(t, p)
<1>1. \A t, p : Atomic!Under(t, p) = Under(t, p)
  BY AtomicPaths DEF Atomic!Under, Under
<1>2. \A t, p : Atomic!MembersOf(t, p) = MembersOf(t, p)
  BY AtomicPaths DEF Atomic!MembersOf, MembersOf
<1>3. \A t, p : Atomic!IsCollection(t, p) <=> IsCollection(t, p)
  BY DEF Atomic!IsCollection, IsCollection
<1>4. \A t, p : Atomic!Without(t, p) = Without(t, p)
  BY <1>1 DEF Atomic!Without, Without
<1>5. \A t, p, n : Atomic!With(t, p, n) = With(t, p, n)
  BY DEF Atomic!With, With
<1>6. \A t, p, q : Atomic!Moved(t, p, q) = Moved(t, p, q)
  BY <1>1, AtomicPaths DEF Atomic!Moved, Moved
<1>7. \A t, p : Atomic!ETagAt(t, p) = ETagAt(t, p)
  BY DEF Atomic!ETagAt, ETagAt
<1> QED
  BY <1>1, <1>2, <1>3, <1>4, <1>5, <1>6, <1>7

(* What of a request is still to be decided. *)
Asked(q) == IF q = Nil \/ q.phase \in {"cleanup", "restore", "discard"} THEN Nil ELSE q.ask

(* The refinement mapping, of the one request there is. *)
LEMMA Shown ==
  ASSUME NEW r, Requests = {r}
  PROVE  /\ Resources = Visible(View(req[r], fs))
         /\ Resources' = Visible(View(req'[r], fs'))
<1>1. Resources = Visible(View(req[r], fs))
  BY DEF Resources, Swapping, Visible, View
<1>2. Resources' = Visible(View(req'[r], fs'))
  BY DEF Resources, Swapping, Visible, View
<1> QED
  BY <1>1, <1>2

LEMMA PendingIs ==
  ASSUME NEW r, Requests = {r}
  PROVE  /\ Pending[r] = Asked(req[r])
         /\ Pending' = [Pending EXCEPT ![r] = Asked(req'[r])]
         /\ Pending'[r] = Asked(req'[r])
         /\ Asked(req'[r]) = Asked(req[r]) => Pending' = Pending
<1>1. Pending = [s \in {r} |-> Asked(req[s])]
  BY DEF Pending, Asked
<1>2. Pending' = [s \in {r} |-> Asked(req'[s])]
  BY DEF Pending, Asked
<1> QED
  BY <1>1, <1>2

(* What the mapped state must do in each action of AtomicTree. *)
LEMMA StutterStep ==
  ASSUME NEW r, Requests = {r}, Resources' = Resources, Asked(req'[r]) = Asked(req[r])
  PROVE  [Atomic!Next]_(Atomic!vars)
<1>1. Pending' = Pending
  BY PendingIs
<1> QED
  BY <1>1 DEF Atomic!vars

LEMMA RefuseStep ==
  ASSUME NEW r, Requests = {r}, Resources' = Resources, Asked(req[r]) # Nil, Asked(req'[r]) = Nil
  PROVE  [Atomic!Next]_(Atomic!vars)
<1>1. Atomic!Refuse(r)
  BY PendingIs DEF Atomic!Refuse, Atomic!Answered
<1> QED
  BY <1>1 DEF Atomic!Next

LEMMA AcceptStep ==
  ASSUME NEW r, Requests = {r}, Resources' = Resources,
         Asked(req[r]) = Nil, Asked(req'[r]) # Nil,
         LET ask == Asked(req'[r]) IN
         ask.op = "DELETE" => /\ ask.path \in DOMAIN Resources
                              /\ Atomic!Permitted(ask, Resources[ask.path].ino)
  PROVE  [Atomic!Next]_(Atomic!vars)
<1>1. Atomic!Accept(r)
  BY PendingIs DEF Atomic!Accept
<1> QED
  BY <1>1 DEF Atomic!Next

LEMMA PutStep ==
  ASSUME NEW r, Requests = {r}, Asked(req'[r]) = Nil,
         NEW ask, Asked(req[r]) = ask, ask # Nil, ask.op = "PUT",
         Atomic!Permitted(ask, ETagAt(Resources, ask.path)),
         IsCollection(Resources, Parent(ask.path)), ~IsCollection(Resources, ask.path),
         NEW ino, ino \notin {Resources[x].ino : x \in DOMAIN Resources},
         Resources' = With(Resources, ask.path, File(ino, ask.body))
  PROVE  [Atomic!Next]_(Atomic!vars)
<1>1. ask.path \in DOMAIN Resources' /\ Resources'[ask.path] = File(ino, ask.body)
  BY DEF With
<1> DEFINE node == Resources'[ask.path]
<1>2. node.ino = ino
  <2>1. File(ino, ask.body).ino = ino
    BY NodeIs
  <2> HIDE DEF node
  <2>2. node = File(ino, ask.body)
    BY <1>1 DEF node
  <2> QED
    BY <2>1, <2>2, Zenon
<1>3. Atomic!Put(r)
  BY <1>1, <1>2, PendingIs, AtomicPaths, AtomicTrees
  DEF Atomic!Put, Atomic!Answered, Atomic!Inos
<1> QED
  BY <1>3 DEF Atomic!Next

LEMMA DeleteStep ==
  ASSUME NEW r, Requests = {r}, NEW ask, Asked(req[r]) = ask, ask # Nil, ask.op = "DELETE",
         NEW p \in DOMAIN Resources, Within(ask.path, p), MembersOf(Resources, p) = {},
         Resources' = Without(Resources, p),
         IF p = ask.path THEN Asked(req'[r]) = Nil ELSE Asked(req'[r]) = Asked(req[r])
  PROVE  [Atomic!Next]_(Atomic!vars)
<1>1. p \in Under(Resources, ask.path)
  BY DEF Under
<1>2. Atomic!Delete(r)
  BY <1>1, PendingIs, AtomicPaths, AtomicTrees DEF Atomic!Delete, Atomic!Answered
<1> QED
  BY <1>2 DEF Atomic!Next

LEMMA MkcolStep ==
  ASSUME NEW r, Requests = {r}, Asked(req'[r]) = Asked(req[r]),
         NEW p, p \notin DOMAIN Resources, IsCollection(Resources, Parent(p)),
         NEW ino, ino \notin {Resources[x].ino : x \in DOMAIN Resources},
         Resources' = With(Resources, p, Collection(ino))
  PROVE  [Atomic!Next]_(Atomic!vars)
<1>1. p \in DOMAIN Resources' /\ Resources'[p] = Collection(ino)
  BY DEF With
<1>2. Resources'[p].ino = ino
  BY <1>1, NodeIs, Zenon
<1>3. Atomic!Mkcol(p)
  BY <1>1, <1>2, PendingIs, AtomicPaths, AtomicTrees DEF Atomic!Mkcol, Atomic!Inos
<1> QED
  BY <1>1, <1>3 DEF Atomic!Next

(* The destination has a place. *)
Placeable(ask, tree) ==
  /\ ask.path \in DOMAIN tree
  /\ ~Within(ask.path, ask.dst)
  /\ IsCollection(tree, Parent(ask.dst))
  /\ ask.dst \in DOMAIN tree => ask.overwrite

LEMMA MoveStep ==
  ASSUME NEW r, Requests = {r}, Asked(req'[r]) = Nil,
         NEW ask, Asked(req[r]) = ask, ask # Nil, ask.op = "MOVE",
         Placeable(ask, Resources), Resources' = Moved(Resources, ask.path, ask.dst)
  PROVE  [Atomic!Next]_(Atomic!vars)
<1>1. Atomic!Move(r)
  BY PendingIs, AtomicPaths, AtomicTrees
  DEF Atomic!Move, Atomic!CanPlace, Placeable, Atomic!Answered
<1> QED
  BY <1>1 DEF Atomic!Next

LEMMA CopiedStep ==
  ASSUME NEW r, Requests = {r}, Asked(req'[r]) = Nil,
         NEW ask, Asked(req[r]) = ask, ask # Nil, ask.op = "COPY",
         Placeable(ask, Resources),
         Copied(Resources, Resources', ask.path, ask.dst,
                IF ask.deep THEN Under(Resources, ask.path) ELSE {ask.path})
  PROVE  [Atomic!Next]_(Atomic!vars)
<1>1. Atomic!Copy(r)
  BY PendingIs, AtomicPaths, AtomicTrees
  DEF Atomic!Copy, Atomic!CanPlace, Placeable, Atomic!Answered, Atomic!Inos, Copied, SameContent
<1> QED
  BY <1>1 DEF Atomic!Next

(* What the phases say of the mapped state. *)
LEMMA AskedAsk ==
  ASSUME ShapeInv, NEW r \in Requests, req[r] # Nil,
         req[r].phase \notin {"cleanup", "restore", "discard"}
  PROVE  Asked(req[r]) = req[r].ask /\ req[r].ask # Nil
BY LiveFacts, RequestAssumption DEF Asked

LEMMA Ends ==
  ASSUME ShapeInv, NEW r \in Requests, req[r] # Nil,
         \/ Finish(r)
         \/ GoTo(r, "cleanup")
         \/ Abandon(r) /\ req[r].ask.op \in {"COPY", "MOVE"}
  PROVE  Asked(req'[r]) = Nil /\ View(req'[r], fs') = fs'
<1>1. CASE Finish(r)
  <2>1. req'[r] = Nil
    BY <1>1, Becomes DEF Finish
  <2> QED
    BY <2>1 DEF Asked, View
<1>2. CASE GoTo(r, "cleanup")
  <2>1. req'[r].phase = "cleanup"
    BY <1>2, GoToIs DEF Phases, Continues
  <2> QED
    BY <2>1 DEF Asked, View
<1> QED
  BY <1>1, <1>2 DEF Abandon

(* A failure without effect, at any point before the answer is decided. *)
LEMMA RefusedHere ==
  ASSUME ShapeInv, NEW r, Requests = {r}, req[r] # Nil,
         req[r].phase \notin {"cleanup", "restore", "discard", "swapIn"},
         \/ Finish(r)
         \/ GoTo(r, "cleanup")
         \/ Abandon(r) /\ req[r].ask.op \in {"COPY", "MOVE"},
         Visible(fs') = Visible(fs)
  PROVE  [Atomic!Next]_(Atomic!vars)
<1>1. r \in Requests
  OBVIOUS
<1>2. Asked(req'[r]) = Nil /\ View(req'[r], fs') = fs'
  BY <1>1, Ends
<1>3. Asked(req[r]) # Nil /\ View(req[r], fs) = fs
  BY <1>1, AskedAsk DEF View
<1>4. Resources' = Resources
  BY <1>2, <1>3, Shown
<1> QED
  BY <1>2, <1>3, <1>4, RefuseStep

(* A step clients do not see. *)
LEMMA UnseenHere ==
  ASSUME ShapeInv, NEW r, Requests = {r}, req[r] # Nil,
         req[r].phase \notin {"cleanup", "restore", "discard"},
         req'[r] # Nil, req'[r].ask = req[r].ask,
         req'[r].phase \notin {"cleanup", "restore", "discard"},
         Visible(View(req'[r], fs')) = Visible(View(req[r], fs))
  PROVE  [Atomic!Next]_(Atomic!vars)
BY AskedAsk, Shown, StutterStep DEF Asked

(* A request is accepted. *)
LEMMA AcceptedHere ==
  ASSUME ShapeInv, NEW r, Requests = {r}, req[r] = Nil, fs' = fs,
         NEW q, req' = [req EXCEPT ![r] = q], q \in Request,
         q.phase \notin {"cleanup", "restore", "discard", "swapIn"},
         q.ask.op = "DELETE" => /\ q.ask.path \in DOMAIN Visible(fs)
                                /\ Atomic!Permitted(q.ask, Visible(fs)[q.ask.path].ino)
  PROVE  [Atomic!Next]_(Atomic!vars)
<1>1. req'[r] = q /\ q # Nil
  BY Becomes, RequestAssumption
<1>2. q.ask # Nil
  BY RequestAssumption DEF Request
<1>3. Asked(req[r]) = Nil /\ Asked(req'[r]) = q.ask
  BY <1>1 DEF Asked
<1>4. Resources = Visible(fs) /\ Resources' = Visible(fs)
  BY <1>1, Shown DEF View
<1> QED
  BY <1>2, <1>3, <1>4, AcceptStep

(* The conditions are judged alike. *)
LEMMA Judged ==
  ASSUME NEW ask, ask.ifMatch \in Headers, ask.ifNoneMatch \in Headers, NEW etag \in Nat,
         checkConditionalMatches(etag, ask.ifMatch, ask.ifNoneMatch)
  PROVE  Atomic!Permitted(ask, etag)
<1>1. \A h \in Headers : h.tags \subseteq Nat \ {0}
  BY RequestAssumption
<1>2. \A h \in Headers : MatchETag(h, etag) <=> etag \in Atomic!Named(h)
  BY <1>1 DEF MatchETag, Atomic!Named
<1> QED
  BY <1>2 DEF Atomic!Permitted, checkConditionalMatches

LEMMA CreateAtomic ==
  ASSUME ShapeInv, NEW r, Requests = {r}, NEW p \in Paths,
         NEW ifMatch \in Headers, NEW ifNoneMatch \in Headers, NEW body \in Bodies,
         Create(r, p, ifMatch, ifNoneMatch, body)
  PROVE  [Atomic!Next]_(Atomic!vars)
<1> DEFINE ask == [op |-> "PUT", path |-> p, body |-> body,
                   ifMatch |-> ifMatch, ifNoneMatch |-> ifNoneMatch]
           existed == p \in DOMAIN fs
           q == Serving(ask, "create", existed)
<1>1. ask \in Asks /\ ask.op = "PUT"
  BY DEF Asks
<1>2. req' = [req EXCEPT ![r] = q] /\ fs' = fs /\ req[r] = Nil
  BY DEF Create
<1>3. existed \in BOOLEAN
  OBVIOUS
<1> HIDE DEF ask, existed
<1>4. q \in Request /\ q.ask = ask /\ q.phase = "create"
  <2>1. RequestOK(q)
    BY <1>1, <1>3, PhaseFacts, ServingOK
  <2> QED
    BY <2>1 DEF RequestOK, Serving
<1> HIDE DEF q
<1> QED
  BY <1>1, <1>2, <1>4, AcceptedHere

LEMMA RemoveAllAtomic ==
  ASSUME ShapeInv, NEW r, Requests = {r}, NEW p \in Paths,
         NEW ifMatch \in Headers, NEW ifNoneMatch \in Headers,
         RemoveAll(r, p, ifMatch, ifNoneMatch)
  PROVE  [Atomic!Next]_(Atomic!vars)
<1> DEFINE ask == [op |-> "DELETE", path |-> p,
                   ifMatch |-> ifMatch, ifNoneMatch |-> ifNoneMatch]
           q == Serving(ask, "remove", TRUE)
<1>1. /\ ask \in Asks /\ ask.op = "DELETE" /\ ask.path = p
      /\ ask.ifMatch = ifMatch /\ ask.ifNoneMatch = ifNoneMatch
  BY DEF Asks
<1>2. /\ req' = [req EXCEPT ![r] = q] /\ fs' = fs /\ req[r] = Nil /\ p \in DOMAIN fs
      /\ checkConditionalMatches(fs[p].ino, ifMatch, ifNoneMatch)
  BY DEF RemoveAll
<1> HIDE DEF ask
<1>3. q \in Request /\ q.ask = ask /\ q.phase = "remove"
  <2>1. RequestOK(q)
    BY <1>1, PhaseFacts, ServingOK
  <2> QED
    BY <2>1 DEF RequestOK, Serving
<1> HIDE DEF q
<1>4. fs[p].ino \in Nat
  BY <1>2, TreeStays, NodeFacts DEF TreeOK
<1>5. Atomic!Permitted(ask, fs[p].ino)
  BY <1>1, <1>2, <1>4, Judged
<1>6. p \in DOMAIN Visible(fs) /\ Visible(fs)[p] = fs[p]
  BY <1>2, PathsClean, VisibleFacts
<1> QED
  BY <1>1, <1>2, <1>3, <1>5, <1>6, AcceptedHere

LEMMA MoveAtomic ==
  ASSUME ShapeInv, NEW r, Requests = {r}, NEW src \in Paths,
         NEW dst \in Paths, NEW overwrite \in BOOLEAN, Move(r, src, dst, overwrite)
  PROVE  [Atomic!Next]_(Atomic!vars)
<1> DEFINE ask == [op |-> "MOVE", path |-> src, dst |-> dst, overwrite |-> overwrite]
           existed == dst \in DOMAIN fs
           q == Serving(ask, "swap", existed)
<1>1. ask \in Asks /\ ask.op = "MOVE"
  BY DEF Asks
<1>2. req' = [req EXCEPT ![r] = q] /\ fs' = fs /\ req[r] = Nil
  BY DEF Move
<1>3. existed \in BOOLEAN
  OBVIOUS
<1> HIDE DEF ask, existed
<1>4. q \in Request /\ q.ask = ask /\ q.phase = "swap"
  <2>1. RequestOK(q)
    BY <1>1, <1>3, PhaseFacts, ServingOK
  <2> QED
    BY <2>1 DEF RequestOK, Serving
<1> HIDE DEF q
<1> QED
  BY <1>1, <1>2, <1>4, AcceptedHere

LEMMA MkdirAtomic ==
  ASSUME ShapeInv, NEW r, Requests = {r}, NEW p \in Paths, Mkdir(r, p)
  PROVE  [Atomic!Next]_(Atomic!vars)
<1>1. /\ req[r] = Nil /\ req' = req /\ p \notin DOMAIN fs /\ IsCollection(fs, Parent(p))
      /\ fs' = With(fs, p, Collection(inos + 1))
  BY DEF Mkdir
<1>2. Resources = Visible(fs) /\ Resources' = Visible(fs')
  BY <1>1, Shown DEF View
<1>3. ~Hidden(p) /\ ~Hidden(Parent(p))
  BY PathsClean, PathFacts, ParentWithin, CleanAbove, WithinFacts, HiddenIs
<1>4. Visible(fs') = With(Visible(fs), p, Collection(inos + 1))
  BY <1>1, <1>3, VisibleWith
<1>5. p \notin DOMAIN Visible(fs) /\ IsCollection(Visible(fs), Parent(p))
  BY <1>1, <1>3, VisibleFacts, VisibleCollection
<1>6. inos + 1 \notin {Visible(fs)[x].ino : x \in DOMAIN Visible(fs)}
  <2>1. \A x \in DOMAIN Visible(fs) : Visible(fs)[x].ino \in 1..inos
    BY TreeStays, NodeFacts, VisibleFacts DEF TreeOK
  <2>2. inos \in Nat
    BY TreeStays
  <2> QED
    BY <2>1, <2>2
<1>7. Asked(req'[r]) = Asked(req[r])
  BY <1>1
<1> QED
  BY <1>2, <1>4, <1>5, <1>6, <1>7, MkcolStep

LEMMA CopyAtomic ==
  ASSUME ShapeInv, NEW r, Requests = {r}, NEW src \in Paths,
         NEW dst \in Paths, NEW deep \in BOOLEAN, NEW overwrite \in BOOLEAN,
         Copy(r, src, dst, deep, overwrite)
  PROVE  [Atomic!Next]_(Atomic!vars)
<1> DEFINE ask == [op |-> "COPY", path |-> src, dst |-> dst, deep |-> deep,
                   overwrite |-> overwrite]
           existed == dst \in DOMAIN fs
<1>1. ask \in Asks /\ ask.op = "COPY"
  BY DEF Asks
<1>2. PICK tmp \in Fresh(Parent(dst)) :
        req' = [req EXCEPT ![r] =
          [Serving(ask, "copy", existed) EXCEPT !.tmp = tmp, !.todo = {src}]]
  BY DEF Copy
<1> DEFINE q == [Serving(ask, "copy", existed) EXCEPT !.tmp = tmp, !.todo = {src}]
<1>3. req[r] = Nil /\ fs' = fs /\ existed \in BOOLEAN
  BY DEF Copy
<1>4. tmp \in Staged /\ src \in Seq(Segs)
  BY FreshFacts, PathFacts
<1> HIDE DEF ask, existed
<1>5. q.ask = ask /\ q.phase = "copy"
  BY DEF Serving
<1>6. q \in Request
  <2>1. "copy" \in Phases /\ tmp \in Staged \cup {Nil} /\ Nil \in Staged \cup {Nil}
        /\ {src} \in SUBSET (Seq(Segs) \cup Segs) /\ 0 \in Nat
    BY <1>4 DEF Phases
  <2> QED
    BY <1>1, <1>3, <2>1 DEF Serving, Request
<1>7. req' = [req EXCEPT ![r] = q]
  BY <1>2
<1> HIDE DEF q
<1> QED
  BY <1>1, <1>3, <1>5, <1>6, <1>7, AcceptedHere

LEMMA createSiblingAtomic ==
  ASSUME ShapeInv, NEW r, Requests = {r}, createSibling(r)
  PROVE  [Atomic!Next]_(Atomic!vars)
<1> DEFINE p == req[r].ask.path
<1>1. req[r] # Nil /\ req[r].ask.op = "PUT" /\ req[r].phase = "create" /\ r \in Requests
  BY DEF createSibling, In
<1>2. p \in Paths /\ req[r] \in Request /\ inos \in Nat
  BY <1>1, ServedFacts
<1>3. CASE Finish(r) /\ UNCHANGED fs
  BY <1>1, <1>3, RefusedHere
<1>4. CASE \E tmp \in Fresh(Parent(p)) :
             /\ fs' = With(fs, tmp, File(inos + 1, Partial))
             /\ req' = [req EXCEPT ![r].tmp = tmp, ![r].ino = inos + 1,
                                   ![r].phase = "write"]
  <2>1. PICK tmp \in Fresh(Parent(p)) :
             /\ fs' = With(fs, tmp, File(inos + 1, Partial))
             /\ req' = [req EXCEPT ![r].tmp = tmp, ![r].ino = inos + 1,
                                   ![r].phase = "write"]
    BY <1>4
  <2> DEFINE q == [req[r] EXCEPT !.tmp = tmp, !.ino = inos + 1, !.phase = "write"]
  <2>2. tmp \in Staged
    BY <1>2, FreshFacts
  <2>3. Hidden(tmp)
    BY <2>2, StagedFacts, StagedHidden, WithinFacts
  <2>4. q \in Request /\ q.ask = req[r].ask /\ q.phase = "write"
    <3>1. inos + 1 \in Nat /\ "write" \in Phases /\ tmp \in Staged \cup {Nil}
      BY <1>2, <2>2 DEF Phases
    <3> QED
      BY <1>2, <3>1 DEF Request
  <2>5. req'[r] = q
    <3>1. req' = [req EXCEPT ![r] = q]
      BY <2>1
    <3> QED
      BY <1>1, <3>1, Becomes
  <2> HIDE DEF q
  <2>6. Visible(fs') = Visible(fs)
    BY <2>1, <2>3, VisibleWith
  <2>7. View(req'[r], fs') = fs' /\ View(req[r], fs) = fs
    BY <1>1, <2>4, <2>5 DEF View
  <2>8. req'[r] # Nil
    BY <2>4, <2>5, RequestAssumption
  <2> QED
    BY <1>1, <2>4, <2>5, <2>6, <2>7, <2>8, UnseenHere
<1> QED
  BY <1>3, <1>4 DEF createSibling

(* A step to another phase that clients do not see. *)
LEMMA GoesOn ==
  ASSUME ShapeInv, NEW r, Requests = {r}, req[r] # Nil,
         req[r].phase \notin {"cleanup", "restore", "discard", "swapIn"},
         NEW phase \in Phases, GoTo(r, phase),
         phase \notin {"cleanup", "restore", "discard", "swapIn"},
         Visible(fs') = Visible(fs)
  PROVE  [Atomic!Next]_(Atomic!vars)
<1>1. Continues(req[r], req'[r], phase)
  BY GoToIs
<1>2. req'[r] # Nil /\ req'[r].ask = req[r].ask /\ req'[r].phase = phase
  BY <1>1, RequestAssumption DEF Continues
<1>3. View(req'[r], fs') = fs' /\ View(req[r], fs) = fs
  BY <1>2 DEF View
<1> QED
  BY <1>2, <1>3, UnseenHere

LEMMA WriteBodyAtomic ==
  ASSUME ShapeInv, NEW r, Requests = {r}, AloneInv(req[r], fs), WriteBody(r)
  PROVE  [Atomic!Next]_(Atomic!vars)
<1> DEFINE tmp == req[r].tmp
           ino == req[r].ino
<1>1. /\ req[r] # Nil /\ req[r].ask.op = "PUT" /\ req[r].phase = "write"
      /\ GoTo(r, "rename") /\ r \in Requests
  BY DEF WriteBody, In
<1>2. tmp \in Staged /\ TreeOK(fs, inos) /\ PutOK(req[r], fs)
  BY <1>1, ServedFacts, AloneFacts
<1>3. /\ DOMAIN fs' = DOMAIN fs
      /\ \A x \in DOMAIN fs : fs[x].ino # ino => fs'[x] = fs[x]
  BY DEF WriteBody, Filled
<1>4. tmp \in DOMAIN fs /\ fs[tmp].ino = ino /\ Hidden(tmp)
  BY <1>1, <1>2, StagedFacts, StagedHidden, WithinFacts DEF PutOK
<1>5. \A x \in DOMAIN fs : ~Hidden(x) => fs[x].ino # ino
  BY <1>2, <1>4 DEF TreeOK
<1>6. Visible(fs') = Visible(fs)
  <2> DEFINE t == fs
             u == fs'
  <2>1. \A x : ~Hidden(x) => /\ x \in DOMAIN u <=> x \in DOMAIN t
                             /\ x \in DOMAIN u => u[x] = t[x]
    BY <1>3, <1>5
  <2> HIDE DEF t, u
  <2>2. Visible(u) = Visible(t)
    BY <2>1, VisibleSame
  <2> QED
    BY <2>2 DEF t, u
<1> QED
  BY <1>1, <1>6, GoesOn DEF Phases

LEMMA BodyBreaksAtomic ==
  ASSUME ShapeInv, NEW r, Requests = {r}, BodyBreaks(r)
  PROVE  [Atomic!Next]_(Atomic!vars)
<1>1. req[r] # Nil /\ req[r].phase = "write" /\ GoTo(r, "cleanup") /\ fs' = fs
  BY DEF BodyBreaks, In
<1> QED
  BY <1>1, RefusedHere

LEMMA CleanupAtomic ==
  ASSUME ShapeInv, NEW r, Requests = {r}, Cleanup(r), "cleanup" \notin Faults
  PROVE  [Atomic!Next]_(Atomic!vars)
<1>1. /\ req[r] # Nil /\ req[r].phase = "cleanup" /\ fs' = Without(fs, req[r].tmp) /\ Finish(r)
      /\ r \in Requests
  BY DEF Cleanup, MayFail
<1>2. req[r].tmp \in Staged /\ DOMAIN fs \subseteq Seq(Segs)
  BY <1>1, ServedFacts
<1>3. Visible(fs') = Visible(fs)
  BY <1>1, <1>2, VisibleDiscarded
<1>4. Asked(req'[r]) = Nil /\ View(req'[r], fs') = fs'
  BY <1>1, Ends
<1>5. Asked(req[r]) = Nil /\ View(req[r], fs) = fs
  BY <1>1 DEF Asked, View
<1> QED
  BY <1>3, <1>4, <1>5, Shown, StutterStep

(* A file that is renamed takes the place of another, or a new one. *)
LEMMA VisiblePut ==
  ASSUME ShapeInv, NEW a \in Staged, NEW p \in Paths, CanRename(fs, a, p), fs[a].file
  PROVE  Visible(Moved(fs, a, p)) = With(Visible(fs), p, fs[a])
<1> DEFINE u == Moved(fs, a, p)
           s == Visible(u)
           w == With(Visible(fs), p, fs[a])
<1>1. /\ a \in DOMAIN fs /\ a \in Seq(Segs) /\ p \in Seq(Segs) \ {<<>>} /\ ~Hidden(p)
      /\ TreeOK(fs, inos) /\ DOMAIN fs \subseteq Seq(Segs)
      /\ Within(a, a) /\ Within(p, p)
  BY StagedFacts, PathFacts, PathsClean, TreeStays, WithinFacts DEF CanRename
<1>2. Renames(fs, u, a, p)
  BY <1>1, MovedRenames
<1>3. \A y \in DOMAIN fs : Within(a, y) => y = a /\ Hidden(y)
  BY <1>1, FileIsLeaf, StagedHidden
<1>4. ASSUME NEW y \in DOMAIN fs, Within(p, y)
      PROVE  y = p
  <2>1. CASE p \in DOMAIN fs
    BY <1>1, <1>4, <2>1, FileIsLeaf DEF CanRename
  <2>2. CASE p \notin DOMAIN fs
    BY <1>1, <1>4, <2>2 DEF TreeOK, Closed, IsCollection
  <2> QED
    BY <2>1, <2>2
<1>5. p \in DOMAIN u /\ u[p] = fs[a]
  BY <1>1, <1>2, RebasedSelf DEF Renames
<1>6. /\ DOMAIN s = {x \in DOMAIN u : ~Hidden(x)} /\ \A x \in DOMAIN s : s[x] = u[x]
  BY VisibleFacts
<1>7. /\ DOMAIN w = {x \in DOMAIN fs : ~Hidden(x)} \cup {p} /\ w[p] = fs[a]
      /\ \A x \in DOMAIN w : x # p => w[x] = fs[x]
  BY VisibleFacts DEF With
<1>8. IsTree(s) /\ IsTree(w)
  BY TreesAre
<1> HIDE DEF u, s, w
<1>9. ASSUME NEW x \in DOMAIN s
      PROVE  x \in DOMAIN w /\ s[x] = w[x]
  <2>1. CASE Within(p, x)
    <3>1. x = Rebased(a, a, p)
      BY <1>2, <1>3, <1>6, <2>1 DEF Renames
    <3>2. x = p
      BY <1>1, <3>1, RebasedSelf
    <3> QED
      BY <1>5, <1>6, <1>7, <3>2
  <2>2. CASE ~Within(p, x)
    BY <1>1, <1>2, <1>6, <1>7, <2>2 DEF Renames
  <2> QED
    BY <2>1, <2>2
<1>10. ASSUME NEW x \in DOMAIN w
       PROVE  x \in DOMAIN s
  <2>1. CASE x = p
    BY <1>1, <1>5, <1>6, <2>1
  <2>2. CASE x # p
    BY <1>2, <1>3, <1>4, <1>6, <1>7, <2>2 DEF Renames
  <2> QED
    BY <2>1, <2>2
<1>11. SameTree(s, w)
  BY <1>9, <1>10 DEF SameTree
<1>12. s = w
  BY <1>8, <1>11, Extensional
<1> QED
  BY <1>12 DEF s, w, u

LEMMA RenameTempAtomic ==
  ASSUME ShapeInv, NEW r, Requests = {r}, AloneInv(req[r], fs), RenameTemp(r)
  PROVE  [Atomic!Next]_(Atomic!vars)
<1> DEFINE ask == req[r].ask
           tmp == req[r].tmp
           p == ask.path
           body == ask.body
           ino == fs[tmp].ino
<1>1. req[r] # Nil /\ ask.op = "PUT" /\ req[r].phase = "rename" /\ r \in Requests
  BY DEF RenameTemp, In
<1>2. /\ p \in Paths /\ tmp \in Staged /\ TreeOK(fs, inos) /\ DOMAIN fs \subseteq Seq(Segs)
      /\ PutOK(req[r], fs) /\ ask \in Asks
  BY <1>1, ServedFacts, AloneFacts, LiveFacts
<1>3. CASE CanRename(fs, tmp, p) /\ fs' = Moved(fs, tmp, p) /\ Finish(r)
  <2>1. /\ checkConditionalMatches(ETagAt(fs, p), ask.ifMatch, ask.ifNoneMatch)
        /\ tmp \in DOMAIN fs /\ fs[tmp] = File(ino, body)
    BY <1>1, <1>2 DEF PutOK
  <2>2. /\ ~Hidden(p) /\ ~Hidden(Parent(p)) /\ Hidden(tmp) /\ p # <<>>
    BY <1>2, PathsClean, PathFacts, ParentWithin, CleanAbove, WithinFacts, HiddenIs,
       StagedFacts, StagedHidden
  <2>3. Resources = Visible(fs) /\ Resources' = Visible(fs')
    BY <1>1, <1>3, Ends, Shown DEF View
  <2>4. fs[tmp].file
    <3> DEFINE node == fs[tmp]
    <3>1. File(ino, body).file = TRUE
      BY NodeIs
    <3>2. node = File(ino, body)
      BY <2>1
    <3> HIDE DEF node, ino, body
    <3>3. node.file = TRUE
      BY <3>1, <3>2, Zenon
    <3> QED
      BY <3>3 DEF node
  <2>5. Visible(fs') = With(Visible(fs), p, File(ino, body))
    BY <1>2, <1>3, <2>1, <2>4, VisiblePut
  <2>6. Atomic!Permitted(ask, ETagAt(Visible(fs), p))
    <3>1. ETagAt(Visible(fs), p) = ETagAt(fs, p)
      BY <2>2, VisibleFacts DEF ETagAt
    <3>2. ETagAt(fs, p) \in Nat
      BY <1>2, TreeStays, NodeFacts DEF TreeOK, ETagAt
    <3>3. ask.ifMatch \in Headers /\ ask.ifNoneMatch \in Headers
      BY <1>1, <1>2 DEF Asks
    <3> QED
      BY <2>1, <3>1, <3>2, <3>3, Judged
  <2>7. IsCollection(Visible(fs), Parent(p)) /\ ~IsCollection(Visible(fs), p)
    <3>1. IsCollection(fs, Parent(p)) /\ ~IsCollection(fs, p)
      BY <1>3, <2>2 DEF CanRename, IsCollection
    <3> QED
      BY <2>2, <3>1, VisibleCollection
  <2>8. ino \notin {Visible(fs)[x].ino : x \in DOMAIN Visible(fs)}
    <3>1. ASSUME NEW x \in DOMAIN Visible(fs)
          PROVE  Visible(fs)[x].ino # ino
      <4>1. x \in DOMAIN fs /\ x # tmp /\ Visible(fs)[x] = fs[x]
        <5>1. x \in DOMAIN fs /\ ~Hidden(x) /\ Visible(fs)[x] = fs[x]
          BY VisibleFacts
        <5> QED
          BY <2>2, <5>1
      <4>2. tmp \in DOMAIN fs
        BY <2>1
      <4>3. fs[x].ino # fs[tmp].ino
        BY <1>2, <4>1, <4>2 DEF TreeOK
      <4> QED
        BY <4>1, <4>3
    <3> QED
      BY <3>1
  <2>9. Asked(req'[r]) = Nil /\ Asked(req[r]) = ask /\ ask # Nil
    BY <1>1, <1>3, Ends, AskedAsk
  <2> HIDE DEF ino, body, p, ask
  <2> QED
    BY <1>1, <2>3, <2>5, <2>6, <2>7, <2>8, <2>9, PutStep DEF p, body
<1>4. CASE GoTo(r, "cleanup") /\ UNCHANGED fs
  BY <1>1, <1>4, RefusedHere
<1> QED
  BY <1>3, <1>4 DEF RenameTemp

LEMMA RemoveFailsAtomic ==
  ASSUME ShapeInv, NEW r, Requests = {r}, RemoveFails(r)
  PROVE  [Atomic!Next]_(Atomic!vars)
<1>1. req[r] # Nil /\ req[r].phase \in {"remove", "empty"} /\ Finish(r) /\ fs' = fs
  BY DEF RemoveFails, In
<1> QED
  BY <1>1, RefusedHere

(* A DELETE removes a leaf that clients see. *)
LEMMA LeafGoes ==
  ASSUME ShapeInv, NEW r, Requests = {r}, req[r] # Nil, req[r].ask.op = "DELETE",
         req[r].phase \in {"remove", "empty"},
         NEW leaf \in DOMAIN fs, ~Hidden(leaf), Within(req[r].ask.path, leaf),
         MembersOf(fs, leaf) = {}, fs' = Without(fs, leaf),
         IF leaf = req[r].ask.path THEN Finish(r) ELSE UNCHANGED req
  PROVE  [Atomic!Next]_(Atomic!vars)
<1>1. r \in Requests
  OBVIOUS
<1>2. Asked(req[r]) = req[r].ask /\ req[r].ask # Nil
  BY <1>1, AskedAsk
<1>3. /\ View(req[r], fs) = fs /\ View(req'[r], fs') = fs'
      /\ IF leaf = req[r].ask.path THEN Asked(req'[r]) = Nil ELSE Asked(req'[r]) = Asked(req[r])
  BY <1>1, Ends DEF View
<1>4. Resources = Visible(fs) /\ Resources' = Visible(fs')
  BY <1>3, Shown
<1>5. Resources' = Without(Resources, leaf)
  BY <1>4, VisibleWithout
<1>6. leaf \in DOMAIN Resources /\ MembersOf(Resources, leaf) = {}
  BY <1>4, VisibleFacts DEF MembersOf
<1> QED
  BY <1>2, <1>3, <1>5, <1>6, DeleteStep

LEMMA RemoveAtomic ==
  ASSUME ShapeInv, NEW r, Requests = {r}, Remove(r)
  PROVE  [Atomic!Next]_(Atomic!vars)
<1> DEFINE p == req[r].ask.path
           names == {m[Len(m)] : m \in MembersOf(fs, p)}
<1>1. req[r] # Nil /\ req[r].ask.op = "DELETE" /\ req[r].phase = "remove" /\ r \in Requests
  BY DEF Remove, In
<1>2. p \in Paths /\ req[r] \in Request /\ TreeOK(fs, inos) /\ DOMAIN fs \subseteq Seq(Segs)
  BY <1>1, ServedFacts
<1>3. p \in Seq(Segs) /\ p # <<>> /\ ~Hidden(p) /\ Within(p, p)
  BY <1>2, PathFacts, PathsClean, WithinFacts
<1>4. CASE p \notin DOMAIN fs /\ fs' = Without(fs, p) /\ Finish(r)
  <2>1. \A x \in DOMAIN fs : ~Within(p, x)
    BY <1>2, <1>3, <1>4 DEF TreeOK, Closed, IsCollection
  <2> DEFINE u == Without(fs, p)
  <2>2. SameTree(u, fs)
    BY <2>1 DEF SameTree, Without, Under
  <2> HIDE DEF u
  <2>3. Visible(u) = Visible(fs)
    BY <2>2, SameVisible
  <2> QED
    BY <1>1, <1>4, <2>3, RefusedHere DEF u
<1>5. CASE p \in DOMAIN fs /\ MembersOf(fs, p) = {} /\ fs' = Without(fs, p) /\ Finish(r)
  BY <1>1, <1>3, <1>5, LeafGoes
<1>6. CASE /\ p \in DOMAIN fs /\ MembersOf(fs, p) # {}
           /\ req' = [req EXCEPT ![r].phase = "empty", ![r].ino = fs[p].ino,
                                 ![r].todo = names]
           /\ UNCHANGED fs
  <2> DEFINE q == [req[r] EXCEPT !.phase = "empty", !.ino = fs[p].ino, !.todo = names]
  <2>1. req' = [req EXCEPT ![r] = q]
    BY <1>6
  <2>2. q.ask = req[r].ask /\ q.phase = "empty"
    BY <1>2 DEF Request
  <2>3. q # Nil
    <3>1. names \in SUBSET (Seq(Segs) \cup Segs)
      <4>1. ASSUME NEW m \in MembersOf(fs, p)
            PROVE  m[Len(m)] \in Segs
        <5>1. m \in Seq(Segs) /\ m # <<>>
          BY <1>2 DEF MembersOf, TreeOK
        <5>2. Len(m) \in 1..Len(m)
          BY <5>1, ParentFacts
        <5> QED
          BY <5>1, <5>2, ElementOfSeq
      <4> QED
        BY <4>1
    <3>2. fs[p].ino \in Nat
      BY <1>2, <1>6, TreeStays, NodeFacts DEF TreeOK
    <3>3. "empty" \in Phases
      BY DEF Phases
    <3> HIDE DEF names
    <3>4. q \in Request
      BY <1>2, <3>1, <3>2, <3>3 DEF Request
    <3> QED
      BY <3>4, RequestAssumption
  <2> HIDE DEF q
  <2>4. req'[r] = q
    BY <1>1, <2>1, Becomes
  <2>5. View(req'[r], fs') = fs' /\ View(req[r], fs) = fs
    BY <1>1, <2>2, <2>4 DEF View
  <2> QED
    BY <1>1, <1>6, <2>2, <2>3, <2>4, <2>5, UnseenHere
<1> QED
  BY <1>4, <1>5, <1>6 DEF Remove

LEMMA RemoveMemberAtomic ==
  ASSUME ShapeInv, NEW r, Requests = {r}, AloneInv(req[r], fs), RemoveMember(r)
  PROVE  [Atomic!Next]_(Atomic!vars)
<1> DEFINE p == req[r].ask.path
<1>1. /\ req[r] # Nil /\ req[r].ask.op = "DELETE" /\ req[r].phase = "empty"
      /\ In(r, "DELETE", "empty") /\ r \in Requests
  BY DEF RemoveMember, In
<1>2. /\ req[r] \in Request /\ Staging({}, fs) /\ p \in Paths /\ DOMAIN fs \subseteq Seq(Segs)
      /\ DeleteOK(req[r], fs)
  BY <1>1, ServedFacts, AloneFacts, PlacesOf
<1>3. p \in DOMAIN fs /\ p \in Seq(Segs)
  BY <1>1, <1>2 DEF DeleteOK
<1>4. PICK name \in req[r].todo :
        LET members == {d \o <<name>> : d \in {d \in DOMAIN fs : fs[d].ino = req[r].ino}}
                         \cap DOMAIN fs IN
        \/ /\ \E m \in members : \E leaf \in Under(fs, m) :
                /\ MembersOf(fs, leaf) = {}
                /\ fs' = Without(fs, leaf)
           /\ UNCHANGED req
        \/ /\ req' = [req EXCEPT ![r].todo = @ \ {name}]
           /\ UNCHANGED fs
  BY DEF RemoveMember
<1>5. CASE /\ UNCHANGED req
           /\ \E d \in DOMAIN fs : \E leaf \in DOMAIN fs :
                /\ fs[d].ino = req[r].ino /\ d \o <<name>> \in DOMAIN fs
                /\ Within(d \o <<name>>, leaf)
                /\ MembersOf(fs, leaf) = {}
                /\ fs' = Without(fs, leaf)
  <2>1. PICK leaf \in DOMAIN fs : /\ p \o <<name>> \in DOMAIN fs
                                  /\ Within(p \o <<name>>, leaf)
                                  /\ MembersOf(fs, leaf) = {}
                                  /\ fs' = Without(fs, leaf)
    BY <1>1, <1>5, EmptyingHere
  <2> DEFINE m == p \o <<name>>
  <2>2. Within(p, m) /\ m # p /\ m \in Seq(Segs)
    <3>1. p \in Seq(Segs \cup {name}) /\ Len(p) \in Nat
      BY <1>3, SeqMonotonic, LenProperties
    <3>2. m \in Seq(Segs)
      BY <1>2, <2>1
    <3> DEFINE S == Segs \cup {name}
    <3>3. p \in Seq(S) /\ name \in S
      BY <3>1
    <3> HIDE DEF S
    <3>4. <<name>> \in Seq(S) /\ Len(<<name>>) = 1
      BY <3>3
    <3>5. Len(m) = Len(p) + 1 /\ \A i \in 1..Len(p) : m[i] = p[i]
      BY <3>3, <3>4, ConcatProperties
    <3>6. Within(p, m)
      BY <3>1, <3>5 DEF Within
    <3>7. m # p
      BY <3>1, <3>5
    <3> QED
      BY <3>2, <3>6, <3>7
  <2> HIDE DEF m
  <2>3. Within(p, leaf) /\ leaf # p
    <3>1. Within(m, leaf) /\ leaf \in Seq(Segs)
      BY <1>2, <2>1 DEF m
    <3> QED
      BY <1>3, <2>2, <3>1, WithinFacts
  <2>4. ~Hidden(leaf)
    BY <1>2 DEF Staging
  <2> QED
    BY <1>1, <1>5, <2>1, <2>3, <2>4, LeafGoes
<1>6. CASE req' = [req EXCEPT ![r].todo = @ \ {name}] /\ UNCHANGED fs
  <2> DEFINE q == [req[r] EXCEPT !.todo = @ \ {name}]
  <2>1. req' = [req EXCEPT ![r] = q]
    BY <1>6
  <2>2. q.ask = req[r].ask /\ q.phase = "empty" /\ q # Nil
    <3>1. q \in Request
      BY <1>2 DEF Request
    <3> QED
      BY <1>1, <1>2, <3>1, RequestAssumption DEF Request
  <2> HIDE DEF q
  <2>3. req'[r] = q
    BY <1>1, <2>1, Becomes
  <2>4. View(req'[r], fs') = fs' /\ View(req[r], fs) = fs
    BY <1>1, <2>2, <2>3 DEF View
  <2> QED
    BY <1>1, <1>6, <2>2, <2>3, <2>4, UnseenHere
<1> QED
  BY <1>4, <1>5, <1>6 DEF Under

LEMMA RemoveEmptiedAtomic ==
  ASSUME ShapeInv, NEW r, Requests = {r}, RemoveEmptied(r)
  PROVE  [Atomic!Next]_(Atomic!vars)
<1> DEFINE p == req[r].ask.path
<1>1. /\ req[r] # Nil /\ req[r].ask.op = "DELETE" /\ req[r].phase = "empty" /\ Finish(r)
      /\ r \in Requests
  BY DEF RemoveEmptied, In
<1>2. p # <<>> /\ ~Hidden(p) /\ Within(p, p)
  BY <1>1, ServedFacts, PathFacts, PathsClean, WithinFacts
<1>3. CASE IsCollection(fs, p) /\ MembersOf(fs, p) = {} /\ fs' = Without(fs, p)
  BY <1>1, <1>2, <1>3, LeafGoes DEF IsCollection
<1>4. CASE fs' = fs
  BY <1>1, <1>4, RefusedHere
<1> QED
  BY <1>3, <1>4 DEF RemoveEmptied

LEMMA copyTreeAtomic ==
  ASSUME ShapeInv, NEW r, Requests = {r}, copyTree(r)
  PROVE  [Atomic!Next]_(Atomic!vars)
<1>1. /\ req[r] # Nil /\ req[r].ask.op = "COPY" /\ req[r].phase = "copy" /\ r \in Requests
      /\ In(r, "COPY", "copy")
  BY DEF copyTree, In
<1>2. req[r].tmp \in Staged
  BY <1>1, ServedFacts
<1>3. CASE GoTo(r, "cleanup") /\ fs' = fs
  BY <1>1, <1>3, RefusedHere
<1>4. CASE \E x \in req[r].todo, q \in Request :
             \E node \in {Collection(inos + 1), File(inos + 1, Partial)} : Entry(r, x, q, node)
  <2>1. PICK x \in req[r].todo, q \in Request,
             node \in {Collection(inos + 1), File(inos + 1, Partial)} : Entry(r, x, q, node)
    BY <1>4
  <2>2. req'[r] = q /\ q # Nil /\ q.ask = req[r].ask /\ (q.phase = "copy" \/ q.phase = "fill")
    BY <1>1, <2>1, Becomes, RequestAssumption DEF Entry
  <2> DEFINE target == Rebased(x, req[r].ask.path, req[r].tmp)
  <2>3. Hidden(target) /\ fs' = With(fs, target, node)
    BY <1>1, <1>2, <2>1, WalkFacts, StagedHidden DEF Entry
  <2> HIDE DEF target
  <2>4. Visible(fs') = Visible(fs)
    BY <2>3, VisibleWith
  <2>5. View(req'[r], fs') = fs' /\ View(req[r], fs) = fs
    BY <1>1, <2>2 DEF View
  <2> QED
    BY <1>1, <2>2, <2>4, <2>5, UnseenHere
<1> QED
  BY <1>1, <1>3, <1>4, EntryIs

LEMMA copyRegularFileAtomic ==
  ASSUME ShapeInv, NEW r, Requests = {r}, AloneInv(req[r], fs), copyRegularFile(r)
  PROVE  [Atomic!Next]_(Atomic!vars)
<1> DEFINE q == req[r]
           z == req'[r]
<1>1. /\ r \in Requests /\ q # Nil /\ q.ask.op = "COPY" /\ q.phase = "fill"
      /\ z \in Request /\ z.ask = q.ask /\ DOMAIN fs' = DOMAIN fs
      /\ \A x \in DOMAIN fs : fs[x].ino # q.ino => fs'[x] = fs[x]
      /\ z.phase = "cleanup" \/ z.phase = "copy"
  BY FillIs
<1>2. q.tmp \in Staged /\ TreeOK(fs, inos) /\ View(q, fs) = fs /\ View(z, fs') = fs' /\ z # Nil
  BY <1>1, ServedFacts, RequestAssumption DEF View
<1>3. CopyOK(q, fs, fs)
  BY <1>1, <1>2, AloneFacts
<1>4. /\ Asked(q) # Nil
      /\ z.phase = "cleanup" => Asked(z) = Nil
  BY <1>1, AskedAsk DEF Asked
<1>5. q.ask.path \in Paths
  BY <1>1, ServedFacts
<1>6. PICK y \in Originals(q, fs) : Filling(q, fs, fs, y)
  BY <1>1, <1>3 DEF CopyOK
<1> DEFINE copy == Rebased(y, q.ask.path, q.tmp)
<1>7. copy \in DOMAIN fs /\ fs[copy].ino = q.ino
  BY <1>6 DEF Filling
<1>8. Hidden(copy)
  <2>1. q.ask.path \in Seq(Segs) /\ q.tmp \in Seq(Segs) /\ DOMAIN fs \subseteq Seq(Segs)
    BY <1>2, <1>5, PathFacts, StagedFacts DEF TreeOK
  <2>2. q.ask.path \in DOMAIN fs
    BY <1>1, <1>3 DEF CopyOK
  <2>3. y \in DOMAIN fs /\ Within(q.ask.path, y)
    BY <1>6, <2>1, <2>2, WithinFacts DEF Originals, Under
  <2> QED
    BY <1>2, <2>1, <2>3, RebasedBack, StagedHidden
<1> HIDE DEF copy
<1>9. \A x \in DOMAIN fs : ~Hidden(x) => fs[x].ino # q.ino
  BY <1>2, <1>7, <1>8 DEF TreeOK
<1>10. /\ DOMAIN fs' = DOMAIN fs
       /\ \A x \in DOMAIN fs : ~Hidden(x) => fs'[x] = fs[x]
  BY <1>1, <1>9
<1>11. Visible(fs') = Visible(fs)
  <2> DEFINE t == fs
             u == fs'
  <2>1. \A x : ~Hidden(x) => /\ x \in DOMAIN u <=> x \in DOMAIN t
                             /\ x \in DOMAIN u => u[x] = t[x]
    BY <1>10
  <2> HIDE DEF t, u
  <2>2. Visible(u) = Visible(t)
    BY <2>1, VisibleSame
  <2> QED
    BY <2>2 DEF t, u
<1>12. Resources' = Resources
  BY <1>2, <1>11, Shown
<1>13. CASE z.phase = "cleanup"
  BY <1>4, <1>12, <1>13, RefuseStep
<1>14. CASE z.phase = "copy"
  BY <1>1, <1>2, <1>11, <1>14, UnseenHere
<1> QED
  BY <1>1, <1>13, <1>14

LEMMA DiscardAtomic ==
  ASSUME ShapeInv, NEW r, Requests = {r}, Discard(r)
  PROVE  [Atomic!Next]_(Atomic!vars)
<1>1. req[r] # Nil /\ req[r].phase = "discard" /\ Finish(r) /\ r \in Requests
  BY DEF Discard
<1>2. req[r].aside \in Staged /\ DOMAIN fs \subseteq Seq(Segs)
  BY <1>1, ServedFacts
<1>3. Visible(fs') = Visible(fs)
  BY <1>2, VisibleDiscarded DEF Discard
<1>4. Asked(req'[r]) = Nil /\ View(req'[r], fs') = fs'
  BY <1>1, Ends
<1>5. Asked(req[r]) = Nil /\ View(req[r], fs) = fs
  BY <1>1 DEF Asked, View
<1> QED
  BY <1>3, <1>4, <1>5, Shown, StutterStep

LEMMA RestoreAtomic ==
  ASSUME ShapeInv, NEW r, Requests = {r}, AloneInv(req[r], fs), Restore(r),
         "restore" \notin Faults
  PROVE  [Atomic!Next]_(Atomic!vars)
<1>1. req[r] # Nil /\ req[r].phase = "restore" /\ Abandon(r) /\ r \in Requests
  BY DEF Restore
<1>2. fs' = Moved(fs, req[r].aside, req[r].ask.dst)
  BY <1>1, CanRestore DEF Restore, MayFail
<1>3. req[r].ask.op \in {"COPY", "MOVE"}
  BY <1>1, SwapAlone
<1>4. Asked(req'[r]) = Nil /\ View(req'[r], fs') = fs'
  BY <1>1, <1>3, Ends
<1>5. Asked(req[r]) = Nil /\ View(req[r], fs) = Moved(fs, req[r].aside, req[r].ask.dst)
  BY <1>1 DEF Asked, View
<1> QED
  BY <1>2, <1>4, <1>5, Shown, StutterStep

LEMMA SetAsideAtomic ==
  ASSUME ShapeInv, NEW r, Requests = {r}, AloneInv(req[r], fs), SetAside(r)
  PROVE  [Atomic!Next]_(Atomic!vars)
<1> DEFINE dst == req[r].ask.dst
<1>1. ReadyToSwap(r) /\ r \in Requests
  BY DEF SetAside
<1>2. /\ req[r] # Nil /\ req[r] \in Request /\ req[r].ask.op \in {"COPY", "MOVE"}
      /\ dst \in Paths /\ DOMAIN fs \subseteq Seq(Segs)
  BY <1>1, SwapAlone
<1>3. req[r].phase \in {"copy", "swap"}
  BY <1>1 DEF ReadyToSwap, In
<1>4. CASE \E aside \in Fresh(Parent(dst)) :
             /\ CanRename(fs, dst, aside)
             /\ fs' = Moved(fs, dst, aside)
             /\ req' = [req EXCEPT ![r].aside = aside, ![r].phase = "swapIn"]
  <2>1. PICK aside \in Fresh(Parent(dst)) :
             /\ CanRename(fs, dst, aside)
             /\ fs' = Moved(fs, dst, aside)
             /\ req' = [req EXCEPT ![r].aside = aside, ![r].phase = "swapIn"]
    BY <1>4
  <2> DEFINE q == [req[r] EXCEPT !.aside = aside, !.phase = "swapIn"]
  <2>2. /\ aside \in Staged /\ Parent(aside) = Parent(dst)
        /\ \A x \in DOMAIN fs : \A i \in 1..Len(x) : x[i] # Token(aside)
    BY <1>2, FreshFacts
  <2>3. q.ask = req[r].ask /\ q.phase = "swapIn" /\ q.aside = aside /\ q \in Request
    <3>1. aside \in Staged \cup {Nil} /\ "swapIn" \in Phases
      BY <2>2 DEF Phases
    <3> QED
      BY <1>2, <3>1 DEF Request
  <2>4. req' = [req EXCEPT ![r] = q]
    BY <2>1
  <2> HIDE DEF q
  <2>5. req'[r] = q /\ q # Nil
    BY <1>1, <2>3, <2>4, Becomes, RequestAssumption
  <2>6. /\ dst \in Seq(Segs) /\ dst # <<>> /\ aside \in Seq(Segs) /\ Clean(dst)
        /\ Len(aside) \in 1..Len(aside)
    BY <1>2, <2>2, PathFacts, StagedFacts, PathsClean
  <2>7. ~Within(dst, aside) /\ ~Within(aside, dst)
    BY <2>2, <2>6, StagedApart
  <2>8. \A x \in DOMAIN fs : ~Within(aside, x)
    BY <1>2, <2>2, <2>6, LenProperties DEF Within, Token
  <2>9. SameTree(Moved(fs', aside, dst), fs)
    BY <1>2, <2>1, <2>6, <2>7, <2>8, MovedBack
  <2> DEFINE v == View(req'[r], fs')
             t == fs
  <2>10. SameTree(v, t)
    BY <2>3, <2>5, <2>9 DEF View
  <2>11. View(req[r], fs) = t
    BY <1>3 DEF View
  <2> HIDE DEF v, t
  <2>12. Visible(v) = Visible(t)
    BY <2>10, SameVisible
  <2> QED
    BY <1>1, <1>2, <1>3, <2>3, <2>5, <2>11, <2>12, UnseenHere DEF v
<1>5. CASE Abandon(r) /\ UNCHANGED fs
  BY <1>2, <1>3, <1>5, RefusedHere
<1> QED
  BY <1>4, <1>5 DEF SetAside

LEMMA ParentSeen ==
  ASSUME NEW p \in Paths
  PROVE  ~Hidden(Parent(p))
BY PathsClean, PathFacts, ParentWithin, CleanAbove, WithinFacts, HiddenIs

(* The copies that a COPY made, put in their place. *)
LEMMA CopiesSeen ==
  ASSUME NEW q, NEW t, NEW n \in Nat, TreeOK(t, n), NEW v, DOMAIN v \subseteq Seq(Segs),
         q.ask.op = "COPY", q.phase \in {"copy", "swapIn"}, q.todo = {},
         q.tmp \in Staged, q.ask.path \in Paths, q.ask.dst \in Paths,
         CopyOK(q, t, v), AgreesBut(v, t, q.ask.dst), OutsideOf(v, t, q.tmp)
  PROVE  /\ q.ask.path \in DOMAIN Visible(v)
         /\ Copied(Visible(v), Visible(Moved(t, q.tmp, q.ask.dst)), q.ask.path, q.ask.dst,
                   IF q.ask.deep THEN Under(Visible(v), q.ask.path) ELSE {q.ask.path})
<1> DEFINE p == q.ask.path
           a == q.tmp
           dst == q.ask.dst
           originals == Originals(q, v)
           seen == {y \in originals : ~Hidden(y)}
<1>1. p \in Seq(Segs) /\ Within(p, p) /\ ~Hidden(p) /\ p \in DOMAIN v
  BY PathFacts, WithinFacts, PathsClean DEF CopyOK
<1>2. \A y \in originals : y \in DOMAIN v /\ Within(p, y)
  BY <1>1 DEF Originals, Under
<1>3. \A y \in originals : /\ Rebased(y, p, a) \in DOMAIN t
                           /\ SameContent(v[y], t[Rebased(y, p, a)])
  BY DEF CopyOK
<1>4. \A x \in DOMAIN t : Within(a, x) => Rebased(x, a, p) \in originals
  BY DEF CopyOK
<1>5. p \in DOMAIN Visible(v)
  BY <1>1, VisibleFacts
<1>6. seen = IF q.ask.deep THEN Under(Visible(v), p) ELSE {p}
  <2>1. DOMAIN Visible(v) = {x \in DOMAIN v : ~Hidden(x)}
    BY VisibleFacts
  <2> QED
    BY <1>1, <2>1 DEF Originals, Under
<1> HIDE DEF originals
<1>7. CopiesAt(t, v, p, a, originals)
  BY <1>2, <1>3, <1>4 DEF CopiesAt
<1> HIDE DEF p, a, dst
<1>8. Copied(Visible(v), Visible(Moved(t, a, dst)), p, dst, seen)
  BY <1>7, CopyPlaced DEF p, a, dst
<1> QED
  BY <1>5, <1>6, <1>8 DEF p, a, dst

LEMMA RenameNewAtomic ==
  ASSUME ShapeInv, NEW r, Requests = {r}, AloneInv(req[r], fs), RenameNew(r)
  PROVE  [Atomic!Next]_(Atomic!vars)
<1> DEFINE q == req[r]
           ask == q.ask
           dst == ask.dst
           src == ask.path
<1>1. ReadyToSwap(r) /\ r \in Requests /\ ~q.existed
  BY DEF RenameNew
<1>2. /\ q # Nil /\ ask.op \in {"COPY", "MOVE"} /\ src \in Paths /\ dst \in Paths
      /\ DOMAIN fs \subseteq Seq(Segs) /\ inos \in Nat /\ TreeOK(fs, inos)
      /\ (ask.op = "COPY" => q.tmp \in Staged)
      /\ TransferOK(q, fs) /\ CopyOK(q, fs, View(q, fs))
  BY <1>1, SwapAlone
<1>3. /\ q.phase \in {"copy", "swap"}
      /\ ask.op = "COPY" => q.phase = "copy" /\ q.todo = {}
  BY <1>1, <1>2 DEF ReadyToSwap, In
<1>4. dst \notin DOMAIN fs /\ ~Within(src, dst)
  BY <1>1, <1>2, <1>3 DEF TransferOK
<1>5. CASE CanRename(fs, NewTree(r), dst) /\ fs' = Moved(fs, NewTree(r), dst) /\ Finish(r)
  <2>1. Asked(q) = ask /\ ask # Nil /\ View(q, fs) = fs
    BY <1>1, <1>2, <1>3, AskedAsk DEF View
  <2>2. Asked(req'[r]) = Nil /\ View(req'[r], fs') = fs'
    BY <1>1, <1>2, <1>5, Ends
  <2>3. Resources = Visible(fs) /\ Resources' = Visible(fs')
    BY <2>1, <2>2, Shown
  <2>4. IsCollection(Resources, Parent(dst)) /\ dst \notin DOMAIN Resources
    <3>1. IsCollection(fs, Parent(dst))
      BY <1>5 DEF CanRename
    <3> QED
      BY <1>2, <1>4, <2>3, <3>1, ParentSeen, VisibleCollection, VisibleFacts
  <2>5. CASE ask.op = "MOVE"
    <3>1. src \in DOMAIN Resources
      BY <1>2, <1>5, <2>3, <2>5, PathsClean, VisibleFacts DEF CanRename, NewTree
    <3>2. Resources' = Moved(Resources, src, dst)
      BY <1>2, <1>5, <2>3, <2>5, PathFacts, PathsClean, VisibleMoved DEF NewTree
    <3>3. Placeable(ask, Resources)
      BY <1>4, <2>4, <3>1 DEF Placeable
    <3> QED
      BY <2>1, <2>2, <2>5, <3>2, <3>3, MoveStep
  <2>6. CASE ask.op = "COPY"
    <3> DEFINE t == fs
               v == View(q, fs)
    <3>1. v = t
      BY <2>1
    <3>2. CopyOK(q, t, v) /\ DOMAIN v \subseteq Seq(Segs) /\ TreeOK(t, inos)
      BY <1>2, <3>1
    <3> HIDE DEF v
    <3>3. AgreesBut(v, t, dst)
      BY <3>1 DEF AgreesBut
    <3>4. OutsideOf(v, t, q.tmp)
      <4>1. \A z \in DOMAIN t : ~Hidden(z) => ~Within(q.tmp, z)
        BY <1>2, <2>6, StagedHidden
      <4> HIDE DEF t
      <4> QED
        BY <3>1, <4>1 DEF OutsideOf
    <3> DEFINE originals == IF ask.deep THEN Under(Visible(v), src) ELSE {src}
    <3> HIDE DEF t
    <3>5. /\ src \in DOMAIN Visible(v)
          /\ Copied(Visible(v), Visible(Moved(t, q.tmp, dst)), src, dst, originals)
      BY <1>2, <1>3, <2>6, <3>2, <3>3, <3>4, CopiesSeen
    <3>6. Visible(v) = Resources /\ Visible(Moved(t, q.tmp, dst)) = Resources'
      BY <1>5, <2>3, <2>6, <3>1 DEF NewTree, t
    <3>7. Placeable(ask, Resources)
      BY <1>4, <2>4, <3>5, <3>6 DEF Placeable
    <3> QED
      BY <2>1, <2>2, <2>6, <3>5, <3>6, <3>7, CopiedStep
  <2> QED
    BY <1>2, <2>5, <2>6
<1>6. CASE Abandon(r) /\ UNCHANGED fs
  BY <1>2, <1>3, <1>6, RefusedHere
<1> QED
  BY <1>5, <1>6 DEF RenameNew

(* The tree as clients see it while a destination is set aside. *)
LEMMA SetAsideSeen ==
  ASSUME NEW t, NEW n \in Nat, TreeOK(t, n), NEW aside \in Staged, NEW dst \in Paths,
         dst \notin DOMAIN t, CanRename(t, aside, dst)
  PROVE  LET v == Moved(t, aside, dst) IN
         /\ DOMAIN v \subseteq Seq(Segs)
         /\ AgreesBut(v, t, dst)
         /\ \A tmp \in Staged : ~Within(tmp, aside) /\ ~Within(aside, tmp) => OutsideOf(v, t, tmp)
         /\ \A x \in DOMAIN t : ~Hidden(x) => x \in DOMAIN v
         /\ \A p \in Seq(Segs) : ~Hidden(p) /\ IsCollection(t, p) => IsCollection(v, p)
<1> DEFINE v == Moved(t, aside, dst)
<1>1. /\ DOMAIN t \subseteq Seq(Segs) /\ aside \in Seq(Segs) /\ dst \in Seq(Segs) /\ dst # <<>>
      /\ Closed(t)
  BY StagedFacts, PathFacts DEF TreeOK
<1>2. Renames(t, v, aside, dst)
  BY <1>1, MovedRenames
<1> HIDE DEF v
<1>3. \A x \in DOMAIN t : ~Within(dst, x)
  BY <1>1 DEF Closed, IsCollection, TreeOK
<1>4. \A x \in DOMAIN t : ~Hidden(x) => ~Within(aside, x)
  BY <1>1, StagedHidden
<1>5. DOMAIN v \subseteq Seq(Segs)
  BY <1>1, <1>2 DEF Renames
<1>6. \A x \in DOMAIN t : ~Hidden(x) => x \in DOMAIN v /\ v[x] = t[x]
  BY <1>2, <1>3, <1>4 DEF Renames
<1>7. AgreesBut(v, t, dst)
  BY <1>2, <1>6 DEF AgreesBut, Renames
<1>8. ASSUME NEW tmp \in Staged, ~Within(tmp, aside), ~Within(aside, tmp)
      PROVE  OutsideOf(v, t, tmp)
  <2> SUFFICES ASSUME NEW z \in DOMAIN v, ~Hidden(z)
               PROVE  \E y \in DOMAIN t : ~Within(tmp, y) /\ v[z] = t[y]
    BY DEF OutsideOf
  <2>1. tmp \in Seq(Segs)
    BY StagedFacts
  <2>2. CASE Within(dst, z)
    <3> DEFINE y == Rebased(z, dst, aside)
    <3>1. y \in DOMAIN t /\ Within(aside, y) /\ v[z] = t[y]
      BY <1>2, <2>2 DEF Renames
    <3> HIDE DEF y
    <3>2. ~Within(tmp, y)
      BY <1>1, <1>8, <2>1, <3>1, Apart
    <3> QED
      BY <3>1, <3>2
  <2>3. CASE ~Within(dst, z)
    <3>1. z \in DOMAIN t /\ v[z] = t[z]
      BY <1>2, <2>3 DEF Renames
    <3>2. ~Within(tmp, z)
      BY <1>1, <3>1, StagedHidden
    <3> QED
      BY <3>1, <3>2
  <2> QED
    BY <2>2, <2>3
<1>9. \A p \in Seq(Segs) : ~Hidden(p) /\ IsCollection(t, p) => IsCollection(v, p)
  BY <1>6 DEF IsCollection
<1> QED
  BY <1>5, <1>6, <1>7, <1>8, <1>9 DEF v

LEMMA SwapInAtomic ==
  ASSUME ShapeInv, NEW r, Requests = {r}, AloneInv(req[r], fs), SwapIn(r)
  PROVE  [Atomic!Next]_(Atomic!vars)
<1> DEFINE q == req[r]
           ask == q.ask
           dst == ask.dst
           src == ask.path
           v == Moved(fs, q.aside, dst)
<1>1. q # Nil /\ q.phase = "swapIn" /\ r \in Requests
  BY DEF SwapIn
<1>2. /\ ask.op \in {"COPY", "MOVE"} /\ src \in Paths /\ dst \in Paths
      /\ DOMAIN fs \subseteq Seq(Segs) /\ inos \in Nat /\ TreeOK(fs, inos)
      /\ TransferOK(q, fs) /\ CopyOK(q, fs, View(q, fs))
  BY <1>1, SwapAlone
<1>3. View(q, fs) = v
  BY <1>1 DEF View
<1>4. Asked(q) = ask /\ ask # Nil
  BY <1>1, AskedAsk
<1>5. CASE CanRename(fs, NewTree(r), dst) /\ fs' = Moved(fs, NewTree(r), dst) /\ GoTo(r, "discard")
  <2>1. req'[r].phase = "discard"
    BY <1>1, <1>5, GoToIs DEF Phases, Continues
  <2>2. Asked(req'[r]) = Nil /\ View(req'[r], fs') = fs'
    BY <2>1 DEF Asked, View
  <2>3. Resources = Visible(v) /\ Resources' = Visible(fs')
    BY <1>3, <2>2, Shown
  <2>4. ~Within(src, dst) /\ ask.overwrite
    BY <1>1, <1>2 DEF TransferOK
  <2>5. /\ q.aside \in Staged /\ dst \notin DOMAIN fs /\ CanRename(fs, q.aside, dst)
        /\ ask.op = "COPY" => /\ q.tmp \in Staged
                              /\ ~Within(q.tmp, q.aside) /\ ~Within(q.aside, q.tmp)
    BY <1>1, SwapPlaces, CanRestore
  <2>6. /\ DOMAIN v \subseteq Seq(Segs)
        /\ AgreesBut(v, fs, dst)
        /\ ask.op = "COPY" => OutsideOf(v, fs, q.tmp)
        /\ \A x \in DOMAIN fs : ~Hidden(x) => x \in DOMAIN v
        /\ \A p \in Seq(Segs) : ~Hidden(p) /\ IsCollection(fs, p) => IsCollection(v, p)
    BY <1>2, <2>5, SetAsideSeen
  <2>7. IsCollection(Resources, Parent(dst))
    <3>1. IsCollection(fs, Parent(dst))
      BY <1>5 DEF CanRename
    <3> HIDE DEF v
    <3> QED
      BY <1>2, <2>3, <2>6, <3>1, ParentSeen, PathFacts, VisibleCollection
  <2>8. CASE ask.op = "MOVE"
    <3>1. src \in DOMAIN fs /\ CanRename(fs, src, dst) /\ fs' = Moved(fs, src, dst)
      BY <1>5, <2>8 DEF CanRename, NewTree
    <3>2. Visible(Moved(fs, src, dst)) = Moved(Visible(v), src, dst)
      BY <1>2, <2>5, <3>1, VisibleSwap
    <3>3. src \in DOMAIN Resources
      <4> HIDE DEF v
      <4> QED
        BY <1>2, <2>3, <2>6, <3>1, PathsClean, VisibleFacts
    <3>4. Placeable(ask, Resources)
      BY <2>4, <2>7, <3>3 DEF Placeable
    <3>5. Resources' = Moved(Resources, src, dst)
      BY <2>3, <3>1, <3>2
    <3> QED
      BY <1>4, <2>2, <2>8, <3>4, <3>5, MoveStep
  <2>9. CASE ask.op = "COPY"
    <3> DEFINE t == fs
    <3>1. q.todo = {}
      BY <1>1, <1>2, <2>9 DEF CopyOK
    <3>2. CopyOK(q, t, v) /\ TreeOK(t, inos)
      BY <1>2, <1>3
    <3>3. AgreesBut(v, t, dst) /\ OutsideOf(v, t, q.tmp) /\ DOMAIN v \subseteq Seq(Segs)
      BY <2>6, <2>9
    <3> DEFINE originals == IF ask.deep THEN Under(Visible(v), src) ELSE {src}
    <3> HIDE DEF t, v
    <3>4. /\ src \in DOMAIN Visible(v)
          /\ Copied(Visible(v), Visible(Moved(t, q.tmp, dst)), src, dst, originals)
      BY <1>1, <1>2, <2>5, <2>9, <3>1, <3>2, <3>3, CopiesSeen
    <3>5. Visible(v) = Resources /\ Visible(Moved(t, q.tmp, dst)) = Resources'
      BY <1>5, <2>3, <2>9 DEF NewTree, t
    <3>6. Placeable(ask, Resources)
      BY <2>4, <2>7, <3>4, <3>5 DEF Placeable
    <3> QED
      BY <1>4, <2>2, <2>9, <3>4, <3>5, <3>6, CopiedStep
  <2> QED
    BY <1>2, <2>8, <2>9
<1>6. CASE GoTo(r, "restore") /\ UNCHANGED fs
  <2>1. Continues(q, req'[r], "restore")
    BY <1>1, <1>6, GoToIs DEF Phases
  <2>2. Asked(req'[r]) = Nil /\ View(req'[r], fs') = Moved(fs', q.aside, dst)
    BY <2>1, RequestAssumption DEF Asked, View, Continues
  <2>3. Resources' = Resources
    BY <1>3, <1>6, <2>2, Shown
  <2> QED
    BY <1>4, <2>2, <2>3, RefuseStep
<1> QED
  BY <1>5, <1>6 DEF SwapIn

LEMMA AtomicNext ==
  ASSUME ShapeInv, NEW r, Undisturbed(r), AloneInv(req[r], fs), [Next]_vars
  PROVE  [Atomic!Next]_(Atomic!vars)
<1> USE DEF Undisturbed
<1>1. CASE Begin(r)
  <2>1. PICK p \in Paths :
          \/ \E ifMatch \in Headers, ifNoneMatch \in Headers :
               \/ \E body \in Bodies : Create(r, p, ifMatch, ifNoneMatch, body)
               \/ RemoveAll(r, p, ifMatch, ifNoneMatch)
          \/ \E dst \in Paths, overwrite \in BOOLEAN :
               \/ \E deep \in BOOLEAN : Copy(r, p, dst, deep, overwrite)
               \/ Move(r, p, dst, overwrite)
          \/ Mkdir(r, p)
    BY <1>1 DEF Begin
  <2>2. CASE Mkdir(r, p)
    BY <2>2, MkdirAtomic
  <2>3. CASE \E ifMatch \in Headers, ifNoneMatch \in Headers :
               \/ \E body \in Bodies : Create(r, p, ifMatch, ifNoneMatch, body)
               \/ RemoveAll(r, p, ifMatch, ifNoneMatch)
    BY <2>3, CreateAtomic, RemoveAllAtomic
  <2>4. CASE \E dst \in Paths, overwrite \in BOOLEAN :
               \/ \E deep \in BOOLEAN : Copy(r, p, dst, deep, overwrite)
               \/ Move(r, p, dst, overwrite)
    BY <2>4, CopyAtomic, MoveAtomic
  <2> QED
    BY <2>1, <2>2, <2>3, <2>4
<1>2. CASE createSibling(r) \/ WriteBody(r) \/ BodyBreaks(r) \/ RenameTemp(r)
  BY <1>2, createSiblingAtomic, WriteBodyAtomic, BodyBreaksAtomic, RenameTempAtomic
<1>3. CASE Remove(r) \/ RemoveMember(r) \/ RemoveEmptied(r) \/ RemoveFails(r)
  BY <1>3, RemoveAtomic, RemoveMemberAtomic, RemoveEmptiedAtomic, RemoveFailsAtomic
<1>4. CASE copyTree(r) \/ copyRegularFile(r) \/ RenameNew(r) \/ SetAside(r) \/ SwapIn(r)
  BY <1>4, copyTreeAtomic, copyRegularFileAtomic, RenameNewAtomic, SetAsideAtomic, SwapInAtomic
<1>5. CASE Restore(r) \/ Discard(r) \/ Cleanup(r)
  BY <1>5, RestoreAtomic, DiscardAtomic, CleanupAtomic
<1>6. CASE UNCHANGED vars
  <2>1. Resources' = Resources
    BY <1>6, Shown DEF vars
  <2>2. Asked(req'[r]) = Asked(req[r])
    BY <1>6 DEF vars
  <2> QED
    BY <2>1, <2>2, StutterStep
<1> QED
  BY <1>1, <1>2, <1>3, <1>4, <1>5, <1>6 DEF Next, Crash, Continue

LEMMA AtomicInit ==
  ASSUME NEW r, Undisturbed(r), Init
  PROVE  Atomic!Init
<1>1. fs = <<>> /\ req = [s \in Requests |-> Nil]
  BY DEF Init
<1>2. Requests = {r} /\ req[r] = Nil
  BY <1>1 DEF Undisturbed
<1>3. View(req[r], fs) = <<>>
  BY <1>1, <1>2 DEF View
<1>4. Visible(<<>>) = <<>>
  BY DEF Visible
<1>5. Resources = <<>>
  BY <1>2, <1>3, <1>4, Shown
<1>6. Pending = [s \in Requests |-> Nil]
  BY <1>1 DEF Pending
<1> QED
  BY <1>5, <1>6 DEF Atomic!Init

(* Served one at a time, the requests of LocalFS are those of AtomicTree:  *)
(* PUT, COPY and MOVE take effect whole and at one moment, under their     *)
(* conditions, or not at all, whichever calls fail but the three that      *)
(* NoStraysLeft excepts; DELETE removes leaves one by one (Create,         *)
(* RemoveAll, Copy, Move, Mkdir and swapTree of fs_local.go).              *)
THEOREM ServedAtomically ==
  ASSUME NEW r, Undisturbed(r)
  PROVE  Spec => Implements
<1>1. Init => Atomic!Init
  BY AtomicInit
<1>2. ShapeInv /\ AloneInv(req[r], fs) /\ [Next]_vars => [Atomic!Next]_(Atomic!vars)
  BY AtomicNext
<1> QED
  BY <1>1, <1>2, Shape, Alone, PTL DEF Spec, Implements, Atomic!Spec
=============================================================================
