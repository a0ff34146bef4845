--------------------------- MODULE LocalFSProofs ---------------------------
(***************************************************************************)
(* Proofs about LocalFS: the tree stays a tree, no complete file is lost,  *)
(* and no half-written body gets a client's name, for any number of        *)
(* requests, paths and temporary names, with failures and crashes between  *)
(* any two system calls.                                                   *)
(***************************************************************************)
EXTENDS LocalFS, SequenceTheorems, TLAPS

---------------------------------------------------------------------------
(* The invariant.                                                          *)

(* Every path has all its collections. *)
Closed(tree) ==
  \A x \in DOMAIN tree : \A z \in Seq(Segs) :
    Within(z, x) /\ z # x => IsCollection(tree, z)

WellFormed(node, n) ==
  /\ node = File(node.ino, node.body) \/ node = Collection(node.ino)
  /\ node.ino \in 1..n
  /\ node.file => node.body \in Bodies \cup {Partial, Torn}

TreeOK(tree, n) ==
  /\ DOMAIN tree \subseteq Seq(Segs) \ {<<>>}
  /\ \A x \in DOMAIN tree : WellFormed(tree[x], n)
  /\ \A x, y \in DOMAIN tree : tree[x].ino = tree[y].ino => x = y
  /\ Closed(tree)

PhasesOf(op) ==
  CASE op = "PUT"    -> {"create", "write", "rename", "cleanup"}
    [] op = "DELETE" -> {"remove", "empty"}
    [] op = "COPY"   -> {"copy", "fill", "swapIn", "restore", "discard", "cleanup"}
    [] op = "MOVE"   -> {"swap", "swapIn", "restore", "discard"}

OpenFile == [file : {TRUE}, ino : Nat, body : Bodies \cup {Partial, Torn}]

(* What a request holds goes with what it does. *)
RequestOK(q) ==
  /\ q \in Request
  /\ q.phase \in PhasesOf(q.ask.op)
  /\ q.ask.op = "COPY" \/ q.phase \in {"write", "rename", "cleanup"} => q.tmp # Nil
  /\ q.phase \in {"swapIn", "restore", "discard"} => q.aside # Nil
  /\ q.phase \in {"copy", "fill"} =>
       q.todo \subseteq {x \in Seq(Segs) : Within(q.ask.path, x)}
  /\ q.phase = "fill" => q.from \in OpenFile

(* What a PUT or a COPY writes is a file. *)
WriterOK(q, tree, n) ==
  q.phase \in {"write", "fill"} =>
    /\ q.ino \in 1..n
    /\ \A x \in DOMAIN tree : tree[x].ino = q.ino => tree[x].file

Live == {r \in Requests : req[r] # Nil}

ShapeInv ==
  /\ inos \in 0..MaxInos
  /\ TreeOK(fs, inos)
  /\ req \in [Requests -> Request \cup {Nil}]
  /\ \A r \in Live : RequestOK(req[r]) /\ WriterOK(req[r], fs, inos)

(* The random name in a temporary path. *)
Token(p) == p[Len(p)]

(* t is a temporary name on the way to x. *)
Tagged(x, t) == \E i \in 1..Len(x) : x[i] = t

(* A PUT or a COPY whose temporary file or tree need not be complete. *)
Unfinished(q) ==
  \/ q.ask.op = "PUT" /\ q.phase \in {"write", "cleanup"}
  \/ q.ask.op = "COPY" /\ q.phase \in {"fill", "cleanup"}

(* The request is not going to rename a path marked by t to a client's     *)
(* name, unless that is the file it is still writing.                      *)
HarmlessTo(q, t, ino) ==
  /\ q.aside # Nil => Token(q.aside) # t
  /\ q.tmp # Nil /\ ~Unfinished(q) => Token(q.tmp) # t
  /\ q.phase \in {"write", "fill"} /\ Token(q.tmp) = t => q.ino = ino

Harmless(t, ino) == \A r \in Live : HarmlessTo(req[r], t, ino)

IsPartial(node) == node.file /\ node.body = Partial

PartialInv ==
  \A x \in DOMAIN fs :
    IsPartial(fs[x]) => \E t \in Temps : Tagged(x, t) /\ Harmless(t, fs[x].ino)

(* No two requests hold one temporary name, nor one request twice. *)
TokensApart ==
  \A r, s \in Live :
    req[r].tmp # Nil =>
      /\ r # s /\ req[s].tmp # Nil => Token(req[r].tmp) # Token(req[s].tmp)
      /\ req[s].aside # Nil => Token(req[r].tmp) # Token(req[s].aside)

---------------------------------------------------------------------------
(* Paths.                                                                  *)

LEMMA ParentFacts ==
  ASSUME NEW S, NEW x \in Seq(S), x # <<>>
  PROVE  /\ Parent(x) \in Seq(S)
         /\ Len(x) \in Nat /\ Len(x) > 0
         /\ Len(Parent(x)) = Len(x) - 1
         /\ \A i \in 1..Len(x) - 1 : Parent(x)[i] = x[i]
<1>1. Len(x) \in Nat /\ Len(x) > 0
  BY EmptySeq
<1> DEFINE n == Len(x) - 1
<1>2. n \in Nat /\ \A i \in 1..n : x[i] \in S
  BY <1>1, ElementOfSeq
<1> HIDE DEF n
<1>3. /\ SubSeq(x, 1, n) \in Seq(S)
      /\ Len(SubSeq(x, 1, n)) = IF 1 <= n THEN n - 1 + 1 ELSE 0
      /\ \A i \in 1..n - 1 + 1 : SubSeq(x, 1, n)[i] = x[1 + i - 1]
  BY <1>2, SubSeqProperties
<1>4. Len(SubSeq(x, 1, n)) = n /\ \A i \in 1..n : SubSeq(x, 1, n)[i] = x[i]
  BY <1>2, <1>3
<1> QED
  BY <1>1, <1>3, <1>4 DEF Parent, n

(* z is q followed by what x has after p. *)
Spliced(z, x, p, q) ==
  /\ Len(z) = Len(q) + Len(x) - Len(p)
  /\ \A i \in 1..Len(q) : z[i] = q[i]
  /\ \A i \in Len(q) + 1..Len(q) + Len(x) - Len(p) : z[i] = x[i - Len(q) + Len(p)]
  /\ Len(x) \in Nat /\ Len(p) \in Nat /\ Len(q) \in Nat
  /\ Len(p) <= Len(x)

LEMMA RebasedFacts ==
  ASSUME NEW S, NEW x \in Seq(S), NEW p \in Seq(S), NEW q \in Seq(S), Within(p, x)
  PROVE  /\ Rebased(x, p, q) \in Seq(S)
         /\ Spliced(Rebased(x, p, q), x, p, q)
<1> DEFINE rest == SubSeq(x, Len(p) + 1, Len(x))
<1>1. Len(x) \in Nat /\ Len(p) \in Nat /\ Len(q) \in Nat /\ Len(p) <= Len(x)
  BY LenProperties DEF Within
<1>2. \A i \in Len(p) + 1..Len(x) : x[i] \in S
  BY <1>1, ElementOfSeq
<1>3. /\ rest \in Seq(S)
      /\ Len(rest) = Len(x) - Len(p)
      /\ \A i \in 1..Len(x) - Len(p) : rest[i] = x[Len(p) + i]
  <2>1. /\ rest \in Seq(S)
        /\ Len(rest) = IF Len(p) + 1 <= Len(x) THEN Len(x) - (Len(p) + 1) + 1 ELSE 0
        /\ \A i \in 1..Len(x) - (Len(p) + 1) + 1 : rest[i] = x[Len(p) + 1 + i - 1]
    <3> HIDE DEF rest
    <3>1. rest \in Seq(S) /\ Len(rest) = IF Len(p) + 1 <= Len(x) THEN Len(x) - (Len(p) + 1) + 1 ELSE 0
      BY <1>1, <1>2, SubSeqProperties DEF rest
    <3>2. \A i \in 1..Len(x) - (Len(p) + 1) + 1 : rest[i] = x[Len(p) + 1 + i - 1]
      BY <1>1, <1>2, SubSeqProperties DEF rest
    <3> QED
      BY <3>1, <3>2
  <2> HIDE DEF rest
  <2> QED
    BY <1>1, <2>1
<1>4. Rebased(x, p, q) = q \o rest
  BY DEF Rebased
<1> HIDE DEF rest
<1>5. /\ q \o rest \in Seq(S)
      /\ Len(q \o rest) = Len(q) + Len(rest)
      /\ \A i \in 1..Len(q) + Len(rest) :
           (q \o rest)[i] = IF i <= Len(q) THEN q[i] ELSE rest[i - Len(q)]
  BY <1>3, ConcatProperties
<1>6. \A i \in 1..Len(q) : (q \o rest)[i] = q[i]
  BY <1>1, <1>3, <1>5
<1>7. ASSUME NEW i \in Len(q) + 1..Len(q) + Len(x) - Len(p)
      PROVE  (q \o rest)[i] = x[i - Len(q) + Len(p)]
  <2>1. i \in 1..Len(q) + Len(rest) /\ ~(i <= Len(q)) /\ i - Len(q) \in 1..Len(x) - Len(p)
    BY <1>1, <1>3
  <2>2. (q \o rest)[i] = rest[i - Len(q)]
    BY <1>5, <2>1
  <2>3. rest[i - Len(q)] = x[Len(p) + (i - Len(q))]
    BY <1>3, <2>1
  <2>4. Len(p) + (i - Len(q)) = i - Len(q) + Len(p)
    BY <1>1, <2>1
  <2> QED
    BY <2>2, <2>3, <2>4
<1> QED
  BY <1>1, <1>3, <1>4, <1>5, <1>6, <1>7 DEF Spliced

(* Rebasing there and back is no change. *)
LEMMA RebasedBack ==
  ASSUME NEW S, NEW x \in Seq(S), NEW p \in Seq(S), NEW q \in Seq(S), Within(p, x)
  PROVE  /\ Rebased(x, p, q) \in Seq(S)
         /\ Within(q, Rebased(x, p, q))
         /\ Rebased(Rebased(x, p, q), q, p) = x
<1> DEFINE y == Rebased(x, p, q)
           z == Rebased(y, q, p)
<1>1. /\ y \in Seq(S)
      /\ Len(y) = Len(q) + Len(x) - Len(p)
      /\ \A i \in 1..Len(q) : y[i] = q[i]
      /\ \A i \in Len(q) + 1..Len(q) + Len(x) - Len(p) : y[i] = x[i - Len(q) + Len(p)]
      /\ Len(x) \in Nat /\ Len(p) \in Nat /\ Len(q) \in Nat
      /\ Len(p) <= Len(x)
  <2> HIDE DEF z
  <2> QED
    BY RebasedFacts DEF Spliced
<1> HIDE DEF y
<1>2. Within(q, y)
  BY <1>1 DEF Within
<1>3. /\ z \in Seq(S)
      /\ Len(z) = Len(p) + Len(y) - Len(q)
      /\ \A i \in 1..Len(p) : z[i] = p[i]
      /\ \A i \in Len(p) + 1..Len(p) + Len(y) - Len(q) : z[i] = y[i - Len(p) + Len(q)]
  <2>1. z \in Seq(S) /\ Spliced(z, y, q, p)
    BY <1>1, <1>2, RebasedFacts
  <2> HIDE DEF z
  <2> QED
    BY <2>1 DEF Spliced
<1> HIDE DEF z
<1>4. Len(z) = Len(x)
  BY <1>1, <1>3
<1>5. ASSUME NEW i \in 1..Len(x)
      PROVE  z[i] = x[i]
  <2>1. CASE i <= Len(p)
    BY <1>1, <1>3, <2>1 DEF Within
  <2>2. CASE ~(i <= Len(p))
    <3>1. /\ i \in Len(p) + 1..Len(p) + Len(y) - Len(q)
          /\ i - Len(p) + Len(q) \in Len(q) + 1..Len(q) + Len(x) - Len(p)
          /\ i - Len(p) + Len(q) - Len(q) + Len(p) = i
      BY <1>1, <2>2
    <3>2. z[i] = y[i - Len(p) + Len(q)]
      BY <1>3, <3>1
    <3>3. y[i - Len(p) + Len(q)] = x[i - Len(p) + Len(q) - Len(q) + Len(p)]
      BY <1>1, <3>1
    <3> QED
      BY <3>1, <3>2, <3>3
  <2> QED
    BY <2>1, <2>2
<1>6. z = x
  BY <1>3, <1>4, <1>5, SeqEqual
<1> QED
  BY <1>1, <1>2, <1>6 DEF y, z

LEMMA RebasedSelf ==
  ASSUME NEW S, NEW p \in Seq(S), NEW q \in Seq(S)
  PROVE  Rebased(p, p, q) = q
<1>1. Len(p) \in Nat /\ Within(p, p)
  BY LenProperties DEF Within
<1>2. /\ Rebased(p, p, q) \in Seq(S)
      /\ Len(Rebased(p, p, q)) = Len(q) + Len(p) - Len(p)
      /\ \A i \in 1..Len(q) : Rebased(p, p, q)[i] = q[i]
      /\ Len(q) \in Nat
  BY <1>1, RebasedFacts DEF Spliced
<1>3. Len(Rebased(p, p, q)) = Len(q)
  BY <1>1, <1>2
<1> QED
  BY <1>2, <1>3, SeqEqual

LEMMA WithinFacts ==
  ASSUME NEW S, NEW x \in Seq(S), NEW y \in Seq(S), NEW z \in Seq(S)
  PROVE  /\ Within(x, x)
         /\ Within(x, y) /\ Within(y, z) => Within(x, z)
         /\ Within(x, y) /\ Within(y, x) => x = y
         /\ Within(x, z) /\ Within(y, z) => Within(x, y) \/ Within(y, x)
         /\ Within(x, y) => Len(x) <= Len(y)
         /\ Within(x, y) /\ Len(x) = Len(y) => x = y
         /\ Len(x) \in Nat /\ Len(y) \in Nat /\ Len(z) \in Nat
<1>1. Len(x) \in Nat /\ Len(y) \in Nat /\ Len(z) \in Nat
  BY LenProperties
<1>2. Within(x, y) /\ Len(x) = Len(y) => x = y
  BY <1>1, SeqEqual DEF Within
<1>3. Within(x, y) /\ Within(y, x) => x = y
  BY <1>1, <1>2 DEF Within
<1>4. Within(x, y) /\ Within(y, z) => Within(x, z)
  BY <1>1 DEF Within
<1>5. Within(x, z) /\ Within(y, z) => Within(x, y) \/ Within(y, x)
  BY <1>1 DEF Within
<1> QED
  BY <1>1, <1>2, <1>3, <1>4, <1>5 DEF Within

LEMMA WithinRoot ==
  ASSUME NEW S, NEW x \in Seq(S), Within(x, <<>>)
  PROVE  x = <<>>
<1>1. <<>> \in Seq(S) /\ Len(<<>>) = 0 /\ Len(x) \in Nat
  BY EmptySeq, LenProperties
<1>2. Len(x) = 0
  BY <1>1 DEF Within
<1> QED
  BY <1>1, <1>2, EmptySeq

(* The collections above a path. *)
LEMMA ParentWithin ==
  ASSUME NEW S, NEW x \in Seq(S), x # <<>>, NEW z \in Seq(S)
  PROVE  /\ Within(z, Parent(x)) => Within(z, x) /\ z # x
         /\ Within(z, x) /\ z # x => Within(z, Parent(x))
<1>1. /\ Parent(x) \in Seq(S)
      /\ Len(x) \in Nat /\ Len(x) > 0 /\ Len(z) \in Nat
      /\ Len(Parent(x)) = Len(x) - 1
      /\ \A i \in 1..Len(x) - 1 : Parent(x)[i] = x[i]
  BY ParentFacts, LenProperties
<1>2. ASSUME Within(z, Parent(x))
      PROVE  Within(z, x) /\ z # x
  BY <1>1, <1>2 DEF Within
<1>3. ASSUME Within(z, x), z # x
      PROVE  Within(z, Parent(x))
  <2>1. Len(z) < Len(x)
    BY <1>1, <1>3, WithinFacts DEF Within
  <2> QED
    BY <1>1, <1>3, <2>1 DEF Within
<1> QED
  BY <1>2, <1>3

(* Rebasing keeps what is within what. *)
LEMMA RebasedWithin ==
  ASSUME NEW S, NEW x \in Seq(S), NEW y \in Seq(S), NEW p \in Seq(S), NEW q \in Seq(S),
         Within(p, x), Within(x, y)
  PROVE  Within(Rebased(x, p, q), Rebased(y, p, q))
<1> DEFINE u == Rebased(x, p, q)
           v == Rebased(y, p, q)
<1>1. Within(p, y)
  BY WithinFacts
<1>2. Spliced(u, x, p, q)
  BY RebasedFacts
<1>3. Spliced(v, y, p, q)
  BY <1>1, RebasedFacts
<1> HIDE DEF u, v
<1>4. Len(x) <= Len(y) /\ \A i \in 1..Len(x) : y[i] = x[i]
  BY DEF Within
<1>5. ASSUME NEW i \in 1..Len(u)
      PROVE  v[i] = u[i]
  <2>1. CASE i <= Len(q)
    BY <1>2, <1>3, <2>1 DEF Spliced
  <2>2. CASE ~(i <= Len(q))
    <3>1. /\ i \in Len(q) + 1..Len(q) + Len(x) - Len(p)
          /\ i \in Len(q) + 1..Len(q) + Len(y) - Len(p)
          /\ i - Len(q) + Len(p) \in 1..Len(x)
      BY <1>2, <1>3, <1>4, <2>2 DEF Spliced
    <3> QED
      BY <1>2, <1>3, <1>4, <3>1 DEF Spliced
  <2> QED
    BY <2>1, <2>2
<1>6. Len(u) <= Len(v)
  BY <1>2, <1>3, <1>4 DEF Spliced
<1>7. Within(u, v)
  BY <1>5, <1>6 DEF Within
<1> QED
  BY <1>7 DEF u, v

---------------------------------------------------------------------------
(* Trees.                                                                  *)

LEMMA NodeIs ==
  ASSUME NEW i, NEW b
  PROVE  /\ File(i, b).file = TRUE /\ File(i, b).ino = i /\ File(i, b).body = b
         /\ Collection(i).file = FALSE /\ Collection(i).ino = i
BY DEF File, Collection

LEMMA NodeFacts ==
  ASSUME NEW node, NEW n, WellFormed(node, n)
  PROVE  node.file \in BOOLEAN /\ node.ino \in 1..n
<1>1. CASE node = File(node.ino, node.body)
  <2>1. \A a, b : a = b => a.file = b.file
    OBVIOUS
  <2>2. node.file = TRUE
    <3>1. File(node.ino, node.body).file = TRUE
      BY NodeIs
    <3> QED
      BY <1>1, <2>1, <3>1
  <2> QED
    BY <2>2 DEF WellFormed
<1>2. CASE node = Collection(node.ino)
  <2>1. node.file = FALSE
    BY <1>2, NodeIs, Zenon
  <2> QED
    BY <2>1 DEF WellFormed
<1> QED
  BY <1>1, <1>2 DEF WellFormed

LEMMA WithoutTree ==
  ASSUME NEW t, NEW n \in Nat, TreeOK(t, n), NEW p \in Seq(Segs)
  PROVE  TreeOK(Without(t, p), n)
<1> DEFINE u == Without(t, p)
<1>1. /\ DOMAIN u = {x \in DOMAIN t : ~Within(p, x)}
      /\ \A x \in DOMAIN u : u[x] = t[x]
  BY DEF Without, Under
<1> HIDE DEF u
<1>2. DOMAIN u \subseteq Seq(Segs) \ {<<>>}
  BY <1>1 DEF TreeOK
<1>3. \A x \in DOMAIN u : WellFormed(u[x], n)
  BY <1>1 DEF TreeOK
<1>4. \A x, y \in DOMAIN u : u[x].ino = u[y].ino => x = y
  BY <1>1 DEF TreeOK
<1>5. ASSUME NEW x \in DOMAIN u, NEW z \in Seq(Segs), Within(z, x), z # x
      PROVE  IsCollection(u, z)
  <2>1. IsCollection(t, z)
    BY <1>1, <1>5 DEF TreeOK, Closed
  <2>2. ~Within(p, z)
    BY <1>1, <1>2, <1>5, WithinFacts
  <2> QED
    BY <1>1, <2>1, <2>2 DEF IsCollection
<1> QED
  BY <1>2, <1>3, <1>4, <1>5 DEF TreeOK, Closed, u

LEMMA WithTree ==
  ASSUME NEW t, NEW n \in Nat, TreeOK(t, n),
         NEW p \in Seq(Segs) \ {<<>>}, IsCollection(t, Parent(p)),
         NEW node, WellFormed(node, n + 1), node.ino = n + 1,
         p \in DOMAIN t => t[p].file /\ node.file
  PROVE  TreeOK(With(t, p, node), n + 1)
<1> DEFINE u == With(t, p, node)
<1>1. /\ DOMAIN u = DOMAIN t \cup {p}
      /\ u[p] = node
      /\ \A x \in DOMAIN u : x # p => x \in DOMAIN t /\ u[x] = t[x]
  BY DEF With
<1> HIDE DEF u
<1>2. DOMAIN u \subseteq Seq(Segs) \ {<<>>}
  BY <1>1 DEF TreeOK
<1>3. \A x \in DOMAIN t : WellFormed(t[x], n) /\ t[x].ino \in 1..n
  BY DEF TreeOK, WellFormed
<1>4. \A x \in DOMAIN u : WellFormed(u[x], n + 1)
  BY <1>1, <1>3 DEF WellFormed
<1>5. \A x, y \in DOMAIN u : u[x].ino = u[y].ino => x = y
  <2>1. \A x \in DOMAIN u : x # p => u[x].ino # n + 1
    BY <1>1, <1>3
  <2> QED
    BY <1>1, <2>1 DEF TreeOK
<1>6. ASSUME NEW x \in DOMAIN u, NEW z \in Seq(Segs), Within(z, x), z # x
      PROVE  IsCollection(u, z)
  <2>1. IsCollection(t, z)
    <3>1. CASE x # p
      BY <1>1, <1>6, <3>1 DEF TreeOK, Closed
    <3>2. CASE x = p
      <4>1. Within(z, Parent(p)) /\ Parent(p) \in Seq(Segs)
        BY <1>6, <3>2, ParentWithin, ParentFacts
      <4>2. CASE z = Parent(p)
        BY <4>2
      <4>3. CASE z # Parent(p)
        <5>1. CASE Parent(p) = <<>>
          BY <4>1, <4>3, <5>1, WithinRoot
        <5>2. CASE Parent(p) \in DOMAIN t
          BY <4>1, <4>3, <5>2 DEF TreeOK, Closed
        <5> QED
          BY <5>1, <5>2 DEF IsCollection
      <4> QED
        BY <4>2, <4>3
    <3> QED
      BY <3>1, <3>2
  <2>2. CASE z = p
    <3>1. x \in DOMAIN t
      BY <1>1, <1>6, <2>2
    <3>2. z # <<>> => z \in DOMAIN t /\ ~t[z].file
      BY <2>1 DEF IsCollection
    <3> QED
      BY <2>2, <3>2
  <2>3. CASE z # p
    BY <1>1, <2>1, <2>3 DEF IsCollection
  <2> QED
    BY <2>2, <2>3
<1> QED
  BY <1>2, <1>4, <1>5, <1>6 DEF TreeOK, Closed, u

(* What rename(2) does: u is t with p renamed to q. *)
Renames(t, u, p, q) ==
  /\ \A x \in DOMAIN u :
       \/ /\ Within(q, x)
          /\ Rebased(x, q, p) \in DOMAIN t /\ Within(p, Rebased(x, q, p))
          /\ x = Rebased(Rebased(x, q, p), p, q)
          /\ x \in Seq(Segs) /\ u[x] = t[Rebased(x, q, p)]
       \/ /\ ~Within(q, x) /\ ~Within(p, x)
          /\ x \in DOMAIN t /\ u[x] = t[x]
  /\ \A y \in DOMAIN t :
       Within(p, y) => Rebased(y, p, q) \in DOMAIN u /\ u[Rebased(y, p, q)] = t[y]
  /\ \A y \in DOMAIN t :
       ~Within(p, y) /\ ~Within(q, y) => y \in DOMAIN u /\ u[y] = t[y]

LEMMA MovedRenames ==
  ASSUME NEW t, DOMAIN t \subseteq Seq(Segs),
         NEW p \in Seq(Segs), NEW q \in Seq(Segs)
  PROVE  Renames(t, Moved(t, p, q), p, q)
<1> DEFINE u == Moved(t, p, q)
           Brought == {Rebased(y, p, q) : y \in Under(t, p)}
           Left == DOMAIN t \ (Under(t, p) \cup Under(t, q))
<1>1. /\ DOMAIN u = Brought \cup Left
      /\ \A x \in DOMAIN u : u[x] = IF Within(q, x) THEN t[Rebased(x, q, p)] ELSE t[x]
  BY DEF Moved
<1>2. ASSUME NEW y \in Under(t, p)
      PROVE  /\ Rebased(y, p, q) \in Seq(Segs)
             /\ Within(q, Rebased(y, p, q))
             /\ Rebased(Rebased(y, p, q), q, p) = y
  BY RebasedBack DEF Under
<1>3. \A x \in Left : x \in DOMAIN t /\ ~Within(p, x) /\ ~Within(q, x)
  BY DEF Under
<1>4. \A y \in DOMAIN t : ~Within(p, y) /\ ~Within(q, y) => y \in Left
  BY DEF Under
<1>5. \A y \in DOMAIN t : Within(p, y) <=> y \in Under(t, p)
  BY DEF Under
<1>6. \A y \in Under(t, p) : y \in DOMAIN t /\ Rebased(y, p, q) \in Brought
  BY DEF Under
<1>7. ASSUME NEW x \in Brought
      PROVE  /\ Within(q, x)
             /\ Rebased(x, q, p) \in DOMAIN t /\ Within(p, Rebased(x, q, p))
             /\ x = Rebased(Rebased(x, q, p), p, q)
             /\ x \in Seq(Segs)
  <2>1. PICK y \in Under(t, p) : x = Rebased(y, p, q)
    BY <1>7
  <2> QED
    BY <1>2, <1>5, <1>6, <2>1
<1> HIDE DEF u, Brought, Left
<1>8. ASSUME NEW x \in DOMAIN u
      PROVE  \/ /\ Within(q, x)
                /\ Rebased(x, q, p) \in DOMAIN t /\ Within(p, Rebased(x, q, p))
                /\ x = Rebased(Rebased(x, q, p), p, q)
                /\ x \in Seq(Segs) /\ u[x] = t[Rebased(x, q, p)]
             \/ /\ ~Within(q, x) /\ ~Within(p, x)
                /\ x \in DOMAIN t /\ u[x] = t[x]
  <2>1. CASE x \in Brought
    BY <1>1, <1>7, <2>1
  <2>2. CASE x \in Left
    BY <1>1, <1>3, <2>2
  <2> QED
    BY <1>1, <2>1, <2>2
<1>9. ASSUME NEW y \in DOMAIN t, Within(p, y)
      PROVE  Rebased(y, p, q) \in DOMAIN u /\ u[Rebased(y, p, q)] = t[y]
  BY <1>1, <1>2, <1>5, <1>6, <1>9
<1>10. ASSUME NEW y \in DOMAIN t, ~Within(p, y), ~Within(q, y)
       PROVE  y \in DOMAIN u /\ u[y] = t[y]
  BY <1>1, <1>4, <1>10
<1> QED
  BY <1>8, <1>9, <1>10 DEF Renames, u

LEMMA MovedTree ==
  ASSUME NEW t, NEW n \in Nat, TreeOK(t, n),
         NEW p \in Seq(Segs) \ {<<>>}, NEW q \in Seq(Segs) \ {<<>>}, CanRename(t, p, q)
  PROVE  TreeOK(Moved(t, p, q), n)
<1> DEFINE u == Moved(t, p, q)
           Orig(x) == IF Within(q, x) THEN Rebased(x, q, p) ELSE x
<1>1. DOMAIN t \subseteq Seq(Segs) \ {<<>>}
  BY DEF TreeOK
<1>2. Renames(t, u, p, q)
  BY <1>1, MovedRenames
<1> HIDE DEF u
<1>3. Within(q, <<>>) => q = <<>>
  BY EmptySeq, WithinFacts DEF Within
<1>4. ASSUME NEW x \in DOMAIN u
      PROVE  /\ x \in Seq(Segs) \ {<<>>}
             /\ Orig(x) \in DOMAIN t /\ u[x] = t[Orig(x)]
  BY <1>1, <1>2, <1>3 DEF Renames
<1>5. \A x \in DOMAIN u : WellFormed(u[x], n)
  BY <1>4 DEF TreeOK
<1>6. ASSUME NEW x \in DOMAIN u, NEW y \in DOMAIN u, u[x].ino = u[y].ino
      PROVE  x = y
  <2>1. Orig(x) = Orig(y)
    BY <1>4, <1>6 DEF TreeOK
  <2>2. CASE Within(q, x) /\ Within(q, y)
    BY <1>2, <2>1, <2>2 DEF Renames
  <2>3. CASE Within(q, x) /\ ~Within(q, y)
    BY <1>2, <2>1, <2>3 DEF Renames
  <2>4. CASE ~Within(q, x) /\ Within(q, y)
    BY <1>2, <2>1, <2>4 DEF Renames
  <2>5. CASE ~Within(q, x) /\ ~Within(q, y)
    BY <2>1, <2>5
  <2> QED
    BY <2>2, <2>3, <2>4, <2>5
<1> HIDE DEF Orig
<1>7. ASSUME NEW x \in DOMAIN u, NEW z \in Seq(Segs), Within(z, x), z # x
      PROVE  IsCollection(u, z)
  <2>1. CASE Within(q, x)
    <3> DEFINE y == Rebased(x, q, p)
    <3>1. y \in DOMAIN t /\ Within(p, y) /\ x = Rebased(y, p, q) /\ x \in Seq(Segs)
      BY <1>2, <2>1 DEF Renames
    <3>2. CASE Within(q, z)
      <4> DEFINE w == Rebased(z, q, p)
      <4>1. w \in Seq(Segs) /\ Within(p, w) /\ Rebased(w, p, q) = z
        BY <3>2, RebasedBack
      <4>2. Within(w, y)
        BY <1>7, <3>1, <3>2, RebasedWithin
      <4>3. w # y
        BY <1>7, <3>1, <4>1
      <4> HIDE DEF w, y
      <4>4. IsCollection(t, w)
        BY <1>1, <3>1, <4>1, <4>2, <4>3 DEF TreeOK, Closed
      <4>5. w # <<>>
        <5>1. Len(p) > 0 /\ Len(p) <= Len(w)
          BY <4>1, WithinFacts, EmptySeq
        <5> QED
          BY <5>1, EmptySeq
      <4> QED
        BY <1>2, <4>1, <4>4, <4>5 DEF IsCollection, Renames
    <3>3. CASE ~Within(q, z)
      <4>1. Within(z, q)
        BY <1>4, <1>7, <2>1, <3>3, WithinFacts
      <4>2. z # q
        BY <3>3, WithinFacts
      <4>3. Within(z, Parent(q)) /\ Parent(q) \in Seq(Segs)
        BY <4>1, <4>2, ParentWithin, ParentFacts
      <4>4. IsCollection(t, z)
        <5>1. CASE Parent(q) = <<>>
          BY <4>3, <5>1, WithinRoot DEF IsCollection
        <5>2. CASE Parent(q) \in DOMAIN t /\ ~t[Parent(q)].file
          BY <4>3, <5>2 DEF TreeOK, Closed, IsCollection
        <5> QED
          BY <5>1, <5>2 DEF CanRename, IsCollection
      <4>5. ~Within(p, z)
        BY <4>1, WithinFacts DEF CanRename
      <4> QED
        BY <1>2, <3>3, <4>4, <4>5 DEF IsCollection, Renames
    <3> QED
      BY <3>2, <3>3
  <2>2. CASE ~Within(q, x)
    <3>1. x \in DOMAIN t /\ ~Within(p, x)
      BY <1>2, <2>2 DEF Renames
    <3>2. IsCollection(t, z)
      BY <1>7, <3>1 DEF TreeOK, Closed
    <3>3. ~Within(p, z) /\ ~Within(q, z)
      BY <1>4, <1>7, <2>2, <3>1, WithinFacts
    <3> QED
      BY <1>2, <3>2, <3>3 DEF IsCollection, Renames
  <2> QED
    BY <2>1, <2>2
<1>8. DOMAIN u \subseteq Seq(Segs) \ {<<>>}
  BY <1>4
<1> QED
  BY <1>5, <1>6, <1>7, <1>8 DEF TreeOK, Closed, u

---------------------------------------------------------------------------
(* The tree stays a tree.                                                  *)

LEMMA StagedFacts ==
  ASSUME NEW x \in Staged
  PROVE  /\ x \in Seq(Segs) \ {<<>>} /\ x # Nil
         /\ Len(x) \in Nat /\ Len(x) > 0
         /\ Token(x) \in Temps
         /\ \A i \in 1..Len(x) - 1 : x[i] \notin Temps
<1>1. PICK p \in Paths, t \in Temps : x = Parent(p) \o <<t>>
  BY DEF Staged
<1>2. p \in Seq(Segments) /\ p # <<>>
  BY LocalFSAssumption
<1>3. Parent(p) \in Seq(Segments)
  BY <1>2, ParentFacts
<1>4. Parent(p) \in Seq(Segs) /\ <<t>> \in Seq(Segs)
  BY <1>3, SeqMonotonic DEF Segs
<1>5. /\ x \in Seq(Segs)
      /\ Len(x) = Len(Parent(p)) + 1
      /\ \A i \in 1..Len(Parent(p)) + 1 :
           x[i] = IF i <= Len(Parent(p)) THEN Parent(p)[i] ELSE <<t>>[i - Len(Parent(p))]
  BY <1>1, <1>4, ConcatProperties
<1>6. Len(Parent(p)) \in Nat /\ \A i \in 1..Len(Parent(p)) : Parent(p)[i] \in Segments
  BY <1>3, ElementOfSeq, LenProperties
<1>7. x[Len(x)] = t
  <2>1. /\ Len(x) \in 1..Len(Parent(p)) + 1
        /\ ~(Len(x) <= Len(Parent(p)))
        /\ Len(x) - Len(Parent(p)) = 1
    BY <1>5, <1>6
  <2> QED
    BY <1>5, <2>1
<1>8. \A i \in 1..Len(x) - 1 : x[i] \in Segments
  BY <1>5, <1>6
<1>9. x # <<>> /\ Len(x) \in Nat /\ Len(x) > 0
  BY <1>5, <1>6, EmptySeq
<1> QED
  BY <1>5, <1>7, <1>8, <1>9, LocalFSAssumption DEF Token, Segs

LEMMA PathFacts ==
  ASSUME NEW p \in Paths
  PROVE  p \in Seq(Segs) \ {<<>>} /\ Parent(p) \in Seq(Segs)
<1>1. p \in Seq(Segments) /\ p # <<>>
  BY LocalFSAssumption
<1>2. p \in Seq(Segs)
  BY <1>1, SeqMonotonic DEF Segs
<1> QED
  BY <1>1, <1>2, ParentFacts

(* A fresh name is nowhere on the disk nor with a request. *)
LEMMA FreshFacts ==
  ASSUME ShapeInv, NEW p \in Paths, NEW tmp \in Fresh(Parent(p))
  PROVE  /\ tmp \in Staged
         /\ Parent(tmp) = Parent(p)
         /\ Token(tmp) \in Temps
         /\ \A x \in DOMAIN fs : \A i \in 1..Len(x) : x[i] # Token(tmp)
         /\ tmp \notin DOMAIN fs
         /\ \A r \in Live :
              /\ req[r].tmp # Nil => Token(req[r].tmp) # Token(tmp)
              /\ req[r].aside # Nil => Token(req[r].aside) # Token(tmp)
<1>1. PICK t \in Temps :
        /\ tmp = Parent(p) \o <<t>>
        /\ \A x \in InUse \ {Nil} : \A i \in 1..Len(x) : x[i] # t
  BY DEF Fresh
<1>2. tmp \in Staged
  BY <1>1 DEF Staged
<1>3. /\ tmp \in Seq(Segs) \ {<<>>} /\ Len(tmp) \in Nat /\ Len(tmp) > 0 /\ Token(tmp) \in Temps
  BY <1>2, StagedFacts
<1>4. Parent(p) \in Seq(Segs) /\ <<t>> \in Seq(Segs) /\ Len(<<t>>) = 1 /\ Len(Parent(p)) \in Nat
  BY PathFacts, LenProperties DEF Segs
<1>5. /\ Len(tmp) = Len(Parent(p)) + 1
      /\ \A i \in 1..Len(Parent(p)) + 1 :
           tmp[i] = IF i <= Len(Parent(p)) THEN Parent(p)[i] ELSE <<t>>[i - Len(Parent(p))]
  BY <1>1, <1>4, ConcatProperties
<1>6. Token(tmp) = t
  <2>1. /\ Len(tmp) \in 1..Len(Parent(p)) + 1
        /\ ~(Len(tmp) <= Len(Parent(p)))
        /\ Len(tmp) - Len(Parent(p)) = 1
    BY <1>4, <1>5
  <2> QED
    BY <1>5, <2>1 DEF Token
<1>7. Parent(tmp) = Parent(p)
  <2>1. /\ Parent(tmp) \in Seq(Segs)
        /\ Len(Parent(tmp)) = Len(tmp) - 1
        /\ \A i \in 1..Len(tmp) - 1 : Parent(tmp)[i] = tmp[i]
    BY <1>3, ParentFacts
  <2>2. Len(Parent(tmp)) = Len(Parent(p))
    BY <1>4, <1>5, <2>1
  <2>3. \A i \in 1..Len(Parent(tmp)) : Parent(tmp)[i] = Parent(p)[i]
    BY <1>4, <1>5, <2>1, <2>2
  <2> QED
    BY <1>4, <2>1, <2>2, <2>3, SeqEqual
<1>8. \A x \in DOMAIN fs : x \in InUse \ {Nil}
  BY LocalFSAssumption DEF ShapeInv, TreeOK, InUse, Segs
<1>9. ASSUME NEW x \in DOMAIN fs, NEW i \in 1..Len(x)
      PROVE  x[i] # Token(tmp)
  BY <1>1, <1>6, <1>8
<1>10. tmp \notin DOMAIN fs
  BY <1>3, <1>9 DEF Token
<1>11. ASSUME NEW r \in Live, NEW h \in {req[r].tmp, req[r].aside}, h # Nil
       PROVE  Token(h) # Token(tmp)
  <2>0. req[r] \in Request
    BY <1>11 DEF ShapeInv, RequestOK
  <2>1. h \in Staged
    BY <1>11, <2>0 DEF Request
  <2>2. Len(h) \in 1..Len(h)
    BY <2>1, StagedFacts
  <2>3. h \in InUse \ {Nil}
    BY <1>11 DEF InUse, Live
  <2> QED
    BY <1>1, <1>6, <2>2, <2>3 DEF Token
<1> QED
  BY <1>2, <1>3, <1>7, <1>9, <1>10, <1>11

(* Every node of u is new, or one of t under whatever name and body. *)
Derives(t, u, n) ==
  \A x \in DOMAIN u :
    \/ u[x].ino = n + 1
    \/ \E y \in DOMAIN t : u[x].ino = t[y].ino /\ u[x].file = t[y].file

LEMMA DerivesWithout ==
  ASSUME NEW t, NEW n, NEW p
  PROVE  Derives(t, Without(t, p), n)
BY DEF Derives, Without

LEMMA DerivesWith ==
  ASSUME NEW t, NEW n, NEW p, NEW node, node.ino = n + 1
  PROVE  Derives(t, With(t, p, node), n)
BY DEF Derives, With

LEMMA DerivesMoved ==
  ASSUME NEW t, NEW n, DOMAIN t \subseteq Seq(Segs),
         NEW p \in Seq(Segs), NEW q \in Seq(Segs)
  PROVE  Derives(t, Moved(t, p, q), n)
<1>1. Renames(t, Moved(t, p, q), p, q)
  BY MovedRenames
<1> DEFINE u == Moved(t, p, q)
<1> HIDE DEF u
<1>2. \A x \in DOMAIN u : \E y \in DOMAIN t : u[x] = t[y]
  BY <1>1 DEF Renames, u
<1> QED
  BY <1>2 DEF Derives, u

LEMMA WriterStays ==
  ASSUME NEW q, NEW t, NEW u, NEW n \in Nat, NEW m \in {n, n + 1},
         WriterOK(q, t, n), Derives(t, u, n)
  PROVE  WriterOK(q, u, m)
BY DEF WriterOK, Derives

(* What it takes for a step of a request to keep the shape. *)
LEMMA ShapeStep ==
  ASSUME ShapeInv, NEW r \in Requests, NEW q,
         req' = [req EXCEPT ![r] = q],
         inos' \in {inos, inos + 1}, inos' <= MaxInos,
         TreeOK(fs', inos'), Derives(fs, fs', inos),
         q = Nil \/ (RequestOK(q) /\ WriterOK(q, fs', inos'))
  PROVE  ShapeInv'
<1>1. inos \in Nat /\ MaxInos \in Nat
  BY LocalFSAssumption DEF ShapeInv
<1>2. inos' \in 0..MaxInos
  BY <1>1
<1>3. req' \in [Requests -> Request \cup {Nil}] /\ req'[r] = q
  BY DEF ShapeInv, RequestOK
<1>4. ASSUME NEW s \in Requests, req'[s] # Nil
      PROVE  RequestOK(req'[s]) /\ WriterOK(req'[s], fs', inos')
  <2>1. CASE s = r
    BY <1>3, <1>4, <2>1
  <2>2. CASE s # r
    <3>1. req'[s] = req[s] /\ s \in Live
      BY <1>4, <2>2 DEF ShapeInv, Live
    <3>2. RequestOK(req[s]) /\ WriterOK(req[s], fs, inos)
      BY <3>1 DEF ShapeInv
    <3> QED
      BY <1>1, <3>1, <3>2, WriterStays
  <2> QED
    BY <2>1, <2>2
<1>5. \A s \in Live' : RequestOK(req'[s]) /\ WriterOK(req'[s], fs', inos')
  BY <1>4 DEF Live
<1> QED
  BY <1>2, <1>3, <1>5 DEF ShapeInv

(* The same when the tree stays as it is. *)
LEMMA ShapeQuiet ==
  ASSUME ShapeInv, NEW r \in Requests, NEW q,
         req' = [req EXCEPT ![r] = q],
         UNCHANGED <<fs, inos>>,
         q = Nil \/ (RequestOK(q) /\ WriterOK(q, fs, inos))
  PROVE  ShapeInv'
<1>1. inos \in Nat /\ MaxInos \in Nat /\ inos <= MaxInos
  BY LocalFSAssumption DEF ShapeInv
<1>2. TreeOK(fs', inos') /\ Derives(fs, fs', inos)
  BY DEF ShapeInv, Derives
<1>3. q = Nil \/ (RequestOK(q) /\ WriterOK(q, fs', inos'))
  OBVIOUS
<1> QED
  BY <1>1, <1>2, <1>3, ShapeStep

(* What a request is, by what was asked. *)
LEMMA AskFacts ==
  ASSUME NEW ask \in Asks
  PROVE  /\ ask.path \in Paths
         /\ ask.op \in {"PUT", "DELETE", "COPY", "MOVE"}
         /\ ask.op = "PUT" => ask.body \in Bodies
         /\ ask.op \in {"COPY", "MOVE"} => ask.dst \in Paths
         /\ ask.op = "COPY" => ask.deep \in BOOLEAN
BY DEF Asks

LEMMA LiveFacts ==
  ASSUME ShapeInv, NEW r \in Requests, req[r] # Nil
  PROVE  /\ r \in Live
         /\ RequestOK(req[r]) /\ WriterOK(req[r], fs, inos)
         /\ req[r] \in Request
         /\ req[r].ask \in Asks
         /\ req[r].phase \in PhasesOf(req[r].ask.op)
BY DEF ShapeInv, Live, RequestOK, Request

LEMMA PhaseFacts ==
  ASSUME NEW op \in {"PUT", "DELETE", "COPY", "MOVE"}
  PROVE  /\ PhasesOf("PUT") = {"create", "write", "rename", "cleanup"}
         /\ PhasesOf("DELETE") = {"remove", "empty"}
         /\ PhasesOf("COPY") = {"copy", "fill", "swapIn", "restore", "discard", "cleanup"}
         /\ PhasesOf("MOVE") = {"swap", "swapIn", "restore", "discard"}
         /\ PhasesOf(op) \subseteq Phases
BY DEF PhasesOf, Phases

(* A request goes on to another call. *)
LEMMA PhaseStep ==
  ASSUME NEW q, RequestOK(q), NEW phase \in PhasesOf(q.ask.op),
         phase # "copy", phase # "write", phase # "fill",
         phase \in {"rename", "cleanup"} => q.tmp # Nil,
         phase \in {"swapIn", "restore", "discard"} => q.aside # Nil
  PROVE  /\ RequestOK([q EXCEPT !.phase = phase])
         /\ \A t, n : WriterOK([q EXCEPT !.phase = phase], t, n)
<1> DEFINE z == [q EXCEPT !.phase = phase]
<1>1. q \in Request /\ q.ask \in Asks
  BY DEF RequestOK, Request
<1>2. phase \in Phases
  BY <1>1, AskFacts, PhaseFacts
<1>3. /\ z \in Request /\ z.ask = q.ask /\ z.phase = phase /\ z.tmp = q.tmp
      /\ z.aside = q.aside
  BY <1>1, <1>2 DEF Request
<1> HIDE DEF z
<1>4. RequestOK(z) /\ \A t, n : WriterOK(z, t, n)
  BY <1>3 DEF RequestOK, WriterOK
<1> QED
  BY <1>4 DEF z

LEMMA ServingOK ==
  ASSUME NEW ask \in Asks, NEW phase \in PhasesOf(ask.op), NEW existed \in BOOLEAN,
         phase \in {"create", "remove", "swap"}, ask.op # "COPY"
  PROVE  /\ RequestOK(Serving(ask, phase, existed))
         /\ \A t, n : WriterOK(Serving(ask, phase, existed), t, n)
<1> DEFINE q == Serving(ask, phase, existed)
<1>1. phase \in Phases
  BY AskFacts, PhaseFacts
<1>2. /\ q \in Request /\ q.ask = ask /\ q.phase = phase /\ q.tmp = Nil /\ q.aside = Nil
  BY <1>1 DEF Serving, Request
<1> HIDE DEF q
<1>3. RequestOK(q) /\ \A t, n : WriterOK(q, t, n)
  BY <1>2 DEF RequestOK, WriterOK
<1> QED
  BY <1>3 DEF q

LEMMA CreateShape ==
  ASSUME ShapeInv, NEW r \in Requests, NEW p \in Paths,
         NEW ifMatch \in Headers, NEW ifNoneMatch \in Headers, NEW body \in Bodies,
         Create(r, p, ifMatch, ifNoneMatch, body)
  PROVE  ShapeInv'
<1> DEFINE existed == p \in DOMAIN fs
           ask == [op |-> "PUT", path |-> p, body |-> body,
                   ifMatch |-> ifMatch, ifNoneMatch |-> ifNoneMatch]
           q == Serving(ask, "create", existed)
<1>1. ask \in Asks /\ ask.op = "PUT"
  BY DEF Asks
<1>2. req' = [req EXCEPT ![r] = q] /\ UNCHANGED <<fs, inos>>
  BY DEF Create
<1>3. existed \in BOOLEAN
  OBVIOUS
<1> HIDE DEF ask, existed
<1>4. RequestOK(q) /\ WriterOK(q, fs, inos)
  BY <1>1, <1>3, PhaseFacts, ServingOK
<1> HIDE DEF q
<1> QED
  BY <1>2, <1>4, ShapeQuiet

LEMMA RemoveAllShape ==
  ASSUME ShapeInv, NEW r \in Requests, NEW p \in Paths,
         NEW ifMatch \in Headers, NEW ifNoneMatch \in Headers,
         RemoveAll(r, p, ifMatch, ifNoneMatch)
  PROVE  ShapeInv'
<1> DEFINE ask == [op |-> "DELETE", path |-> p,
                   ifMatch |-> ifMatch, ifNoneMatch |-> ifNoneMatch]
           q == Serving(ask, "remove", TRUE)
<1>1. ask \in Asks /\ ask.op = "DELETE"
  BY DEF Asks
<1>2. req' = [req EXCEPT ![r] = q] /\ UNCHANGED <<fs, inos>>
  BY DEF RemoveAll
<1> HIDE DEF ask
<1>3. RequestOK(q) /\ WriterOK(q, fs, inos)
  BY <1>1, PhaseFacts, ServingOK
<1> HIDE DEF q
<1> QED
  BY <1>2, <1>3, ShapeQuiet

LEMMA MoveShape ==
  ASSUME ShapeInv, NEW r \in Requests, NEW src \in Paths, NEW dst \in Paths,
         NEW overwrite \in BOOLEAN, Move(r, src, dst, overwrite)
  PROVE  ShapeInv'
<1> DEFINE existed == dst \in DOMAIN fs
           ask == [op |-> "MOVE", path |-> src, dst |-> dst, overwrite |-> overwrite]
           q == Serving(ask, "swap", existed)
<1>1. ask \in Asks /\ ask.op = "MOVE"
  BY DEF Asks
<1>2. req' = [req EXCEPT ![r] = q] /\ UNCHANGED <<fs, inos>>
  BY DEF Move
<1>3. existed \in BOOLEAN
  OBVIOUS
<1> HIDE DEF ask, existed
<1>4. RequestOK(q) /\ WriterOK(q, fs, inos)
  BY <1>1, <1>3, PhaseFacts, ServingOK
<1> HIDE DEF q
<1> QED
  BY <1>2, <1>4, ShapeQuiet

LEMMA CopyShape ==
  ASSUME ShapeInv, NEW r \in Requests, NEW src \in Paths, NEW dst \in Paths,
         NEW deep \in BOOLEAN, NEW overwrite \in BOOLEAN,
         Copy(r, src, dst, deep, overwrite)
  PROVE  ShapeInv'
<1> DEFINE ask == [op |-> "COPY", path |-> src, dst |-> dst, deep |-> deep,
                   overwrite |-> overwrite]
<1>1. ask \in Asks /\ ask.op = "COPY" /\ ask.path = src
  BY DEF Asks
<1>2. PICK tmp \in Fresh(Parent(dst)) :
        req' = [req EXCEPT ![r] =
          [Serving(ask, "copy", dst \in DOMAIN fs) EXCEPT !.tmp = tmp, !.todo = {src}]]
  BY DEF Copy
<1> DEFINE q == [Serving(ask, "copy", dst \in DOMAIN fs) EXCEPT !.tmp = tmp, !.todo = {src}]
<1>3. UNCHANGED <<fs, inos>>
  BY DEF Copy
<1>4. tmp \in Staged /\ tmp # Nil
  BY FreshFacts, StagedFacts
<1>5. src \in Seq(Segs) /\ Within(src, src)
  BY PathFacts, WithinFacts
<1> DEFINE existed == dst \in DOMAIN fs
<1> HIDE DEF ask, existed
<1>6. existed \in BOOLEAN
  BY DEF existed
<1>7. /\ q \in Request /\ q.ask = ask /\ q.phase = "copy" /\ q.tmp = tmp /\ q.todo = {src}
  <2> DEFINE z == [Serving(ask, "copy", existed) EXCEPT !.tmp = tmp, !.todo = {src}]
  <2>1. /\ z \in Request /\ z.ask = ask /\ z.phase = "copy" /\ z.tmp = tmp /\ z.todo = {src}
    BY <1>1, <1>4, <1>5, <1>6 DEF Serving, Request, Phases
  <2>2. q = z
    BY DEF existed
  <2> HIDE DEF q, z
  <2> QED
    BY <2>1, <2>2
<1> HIDE DEF q
<1>8. RequestOK(q) /\ WriterOK(q, fs, inos)
  BY <1>1, <1>4, <1>5, <1>7, PhaseFacts DEF RequestOK, WriterOK
<1>9. req' = [req EXCEPT ![r] = q]
  BY <1>2 DEF q
<1> QED
  BY <1>3, <1>8, <1>9, ShapeQuiet

LEMMA MkdirShape ==
  ASSUME ShapeInv, NEW r \in Requests, NEW p \in Paths, Mkdir(r, p)
  PROVE  ShapeInv'
<1> DEFINE node == Collection(inos + 1)
<1>1. /\ inos' = inos + 1 /\ inos' <= MaxInos
      /\ fs' = With(fs, p, node) /\ req' = req
      /\ p \notin DOMAIN fs /\ IsCollection(fs, Parent(p))
  BY LocalFSAssumption DEF Mkdir, Room, ShapeInv
<1>2. inos \in Nat /\ TreeOK(fs, inos)
  BY DEF ShapeInv
<1>3. WellFormed(node, inos + 1) /\ node.ino = inos + 1
  BY <1>2 DEF WellFormed, Collection
<1> HIDE DEF node
<1>4. TreeOK(fs', inos')
  BY <1>1, <1>2, <1>3, PathFacts, WithTree
<1>5. Derives(fs, fs', inos)
  BY <1>1, <1>3, DerivesWith
<1>6. req' = [req EXCEPT ![r] = req[r]]
  BY <1>1 DEF ShapeInv
<1>7. req[r] = Nil \/ (RequestOK(req[r]) /\ WriterOK(req[r], fs', inos'))
  BY <1>1, <1>2, <1>5, LiveFacts, WriterStays
<1> QED
  BY <1>1, <1>4, <1>5, <1>6, <1>7, ShapeStep

LEMMA FinishShape ==
  ASSUME ShapeInv, NEW r \in Requests, Finish(r),
         inos' = inos, TreeOK(fs', inos), Derives(fs, fs', inos)
  PROVE  ShapeInv'
<1>1. inos' \in {inos, inos + 1} /\ inos' <= MaxInos
  BY LocalFSAssumption DEF ShapeInv
<1>2. req' = [req EXCEPT ![r] = Nil] /\ TreeOK(fs', inos')
  BY DEF Finish
<1> QED
  BY <1>1, <1>2, ShapeStep

LEMMA TreeStays ==
  ASSUME ShapeInv
  PROVE  /\ inos \in Nat /\ TreeOK(fs, inos) /\ Derives(fs, fs, inos)
         /\ DOMAIN fs \subseteq Seq(Segs) \ {<<>>}
BY DEF ShapeInv, Derives, TreeOK

(* A request goes on, and the tree may have changed with it. *)
LEMMA GoToShape ==
  ASSUME ShapeInv, NEW r \in Requests, req[r] # Nil,
         NEW phase \in PhasesOf(req[r].ask.op), GoTo(r, phase),
         phase # "copy", phase # "write", phase # "fill",
         phase \in {"rename", "cleanup"} => req[r].tmp # Nil,
         phase \in {"swapIn", "restore", "discard"} => req[r].aside # Nil,
         inos' = inos, TreeOK(fs', inos), Derives(fs, fs', inos)
  PROVE  ShapeInv'
<1> DEFINE q == [req[r] EXCEPT !.phase = phase]
<1>1. RequestOK(q) /\ WriterOK(q, fs', inos')
  BY LiveFacts, PhaseStep
<1>2. req' = [req EXCEPT ![r] = q]
  BY DEF GoTo
<1> HIDE DEF q
<1>3. inos' \in {inos, inos + 1} /\ inos' <= MaxInos
  BY LocalFSAssumption DEF ShapeInv
<1>4. TreeOK(fs', inos')
  OBVIOUS
<1> QED
  BY <1>1, <1>2, <1>3, <1>4, ShapeStep

(* A failed PUT or COPY turns to its cleanup. *)
LEMMA CleanupNext ==
  ASSUME ShapeInv, NEW r \in Requests, req[r] # Nil,
         \/ req[r].ask.op = "PUT" /\ req[r].phase \in {"write", "rename"}
         \/ req[r].ask.op = "COPY",
         GoTo(r, "cleanup"), UNCHANGED <<fs, inos>>
  PROVE  ShapeInv'
<1>1. "cleanup" \in PhasesOf(req[r].ask.op) /\ req[r].tmp # Nil
  BY LiveFacts, PhaseFacts DEF RequestOK
<1> QED
  BY <1>1, GoToShape, TreeStays

LEMMA AbandonShape ==
  ASSUME ShapeInv, NEW r \in Requests, req[r] # Nil,
         req[r].ask.op \in {"COPY", "MOVE"}, Abandon(r),
         inos' = inos, TreeOK(fs', inos), Derives(fs, fs', inos)
  PROVE  ShapeInv'
<1>1. CASE req[r].ask.op = "COPY"
  <2>1. GoTo(r, "cleanup")
    BY <1>1 DEF Abandon
  <2>2. "cleanup" \in PhasesOf(req[r].ask.op) /\ req[r].tmp # Nil
    BY <1>1, LiveFacts, PhaseFacts DEF RequestOK
  <2> QED
    BY <2>1, <2>2, GoToShape
<1>2. CASE req[r].ask.op # "COPY"
  <2>1. Finish(r)
    BY <1>2 DEF Abandon
  <2> QED
    BY <2>1, FinishShape
<1> QED
  BY <1>1, <1>2

LEMMA createSiblingShape ==
  ASSUME ShapeInv, NEW r \in Requests, createSibling(r)
  PROVE  ShapeInv'
<1> DEFINE p == req[r].ask.path
<1>1. req[r] # Nil /\ req[r].ask.op = "PUT" /\ req[r].phase = "create"
  BY DEF createSibling, In
<1>2. req[r] \in Request /\ p \in Paths /\ inos \in Nat /\ TreeOK(fs, inos)
  BY <1>1, LiveFacts, AskFacts, TreeStays
<1>3. CASE Finish(r) /\ UNCHANGED <<fs, inos>>
  BY <1>3, FinishShape, TreeStays
<1>4. CASE /\ IsCollection(fs, Parent(p)) /\ Room /\ inos' = inos + 1
           /\ \E tmp \in Fresh(Parent(p)) :
                /\ fs' = With(fs, tmp, File(inos + 1, Partial))
                /\ req' = [req EXCEPT ![r].tmp = tmp, ![r].ino = inos + 1,
                                      ![r].phase = "write"]
  <2> DEFINE node == File(inos + 1, Partial)
  <2>1. PICK tmp \in Fresh(Parent(p)) :
          /\ fs' = With(fs, tmp, node)
          /\ req' = [req EXCEPT ![r].tmp = tmp, ![r].ino = inos + 1, ![r].phase = "write"]
    BY <1>4
  <2> DEFINE q == [req[r] EXCEPT !.tmp = tmp, !.ino = inos + 1, !.phase = "write"]
  <2>2. /\ tmp \in Staged /\ Parent(tmp) = Parent(p) /\ tmp \notin DOMAIN fs
        /\ tmp \in Seq(Segs) \ {<<>>} /\ tmp # Nil
    BY <1>2, FreshFacts, StagedFacts
  <2>3. req' = [req EXCEPT ![r] = q]
    BY <2>1
  <2>4. inos' \in {inos, inos + 1} /\ inos' <= MaxInos
    BY <1>2, <1>4, LocalFSAssumption DEF Room, ShapeInv
  <2>5. WellFormed(node, inos + 1) /\ node.ino = inos + 1 /\ node.file
    BY <1>2 DEF WellFormed, File
  <2> HIDE DEF node
  <2>6. TreeOK(fs', inos')
    BY <1>2, <1>4, <2>1, <2>2, <2>5, WithTree
  <2>7. Derives(fs, fs', inos)
    BY <2>1, <2>5, DerivesWith
  <2>8. /\ q \in Request /\ q.ask = req[r].ask /\ q.phase = "write"
        /\ q.tmp = tmp /\ q.ino = inos + 1
    <3>1. inos + 1 \in Nat /\ "write" \in Phases /\ tmp \in Staged \cup {Nil}
      BY <1>2, <2>2 DEF Phases
    <3> QED
      BY <1>2, <3>1 DEF Request
  <2> HIDE DEF q
  <2>9. RequestOK(q)
    BY <1>1, <2>2, <2>8, PhaseFacts DEF RequestOK
  <2>10. \A x \in DOMAIN fs' : fs'[x].ino = inos + 1 => fs'[x].file
    BY <1>2, <2>1, <2>5 DEF With, TreeOK, WellFormed
  <2>11. WriterOK(q, fs', inos')
    BY <1>2, <1>4, <2>8, <2>10 DEF WriterOK
  <2> QED
    BY <2>3, <2>4, <2>6, <2>7, <2>9, <2>11, ShapeStep
<1> QED
  BY <1>3, <1>4 DEF createSibling

(* The bytes get into the file that is being written. *)
LEMMA FilledShape ==
  ASSUME ShapeInv, NEW r \in Requests, req[r] # Nil, req[r].phase \in {"write", "fill"},
         NEW body \in Bodies \cup {Torn}, fs' = Filled(r, body)
  PROVE  TreeOK(fs', inos) /\ Derives(fs, fs', inos)
<1>2. WriterOK(req[r], fs, inos) /\ inos \in Nat /\ TreeOK(fs, inos)
  BY LiveFacts, TreeStays
<1> DEFINE ino == req[r].ino
<1>3. /\ DOMAIN fs' = DOMAIN fs
      /\ \A x \in DOMAIN fs : fs'[x] = IF fs[x].ino = ino THEN File(fs[x].ino, body) ELSE fs[x]
  BY DEF Filled
<1>4. \A x \in DOMAIN fs : fs[x].ino = ino => fs[x].file
  BY <1>2 DEF WriterOK
<1> HIDE DEF ino
<1>5. \A x \in DOMAIN fs : fs'[x].ino = fs[x].ino /\ fs'[x].file = fs[x].file
  <2> SUFFICES ASSUME NEW x \in DOMAIN fs
               PROVE  fs'[x].ino = fs[x].ino /\ fs'[x].file = fs[x].file
    OBVIOUS
  <2>1. fs[x].file \in BOOLEAN
    BY <1>2, NodeFacts DEF TreeOK
  <2>2. CASE fs[x].ino = ino
    <3>1. fs'[x] = File(fs[x].ino, body) /\ fs[x].file = TRUE
      BY <1>3, <1>4, <2>1, <2>2
    <3>2. \A a, b : a = b => a.file = b.file /\ a.ino = b.ino
      OBVIOUS
    <3>3. File(fs[x].ino, body).file = TRUE /\ File(fs[x].ino, body).ino = fs[x].ino
      BY NodeIs
    <3>4. fs'[x].file = File(fs[x].ino, body).file /\ fs'[x].ino = File(fs[x].ino, body).ino
      BY <3>1, <3>2
    <3> QED
      BY <3>1, <3>3, <3>4
  <2>3. CASE fs[x].ino # ino
    BY <1>3, <2>3
  <2> QED
    BY <2>2, <2>3
<1>6. Derives(fs, fs', inos)
  BY <1>3, <1>5 DEF Derives
<1>7. \A x \in DOMAIN fs : WellFormed(fs'[x], inos)
  BY <1>2, <1>3, <1>4 DEF WellFormed, TreeOK, File
<1>8. TreeOK(fs', inos)
  BY <1>2, <1>3, <1>5, <1>7 DEF TreeOK, Closed, IsCollection
<1> QED
  BY <1>6, <1>8

LEMMA WriteBodyShape ==
  ASSUME ShapeInv, NEW r \in Requests, WriteBody(r)
  PROVE  ShapeInv'
<1>1. /\ req[r] # Nil /\ req[r].ask.op = "PUT" /\ req[r].phase = "write"
      /\ GoTo(r, "rename") /\ inos' = inos /\ fs' = Filled(r, req[r].ask.body)
  BY DEF WriteBody, In
<1>2. RequestOK(req[r]) /\ req[r].ask.body \in Bodies
  BY <1>1, LiveFacts, AskFacts
<1>3. TreeOK(fs', inos) /\ Derives(fs, fs', inos)
  BY <1>1, <1>2, FilledShape
<1>4. "rename" \in PhasesOf(req[r].ask.op) /\ req[r].tmp # Nil
  BY <1>1, <1>2, PhaseFacts DEF RequestOK
<1> QED
  BY <1>1, <1>3, <1>4, GoToShape

LEMMA BodyBreaksShape ==
  ASSUME ShapeInv, NEW r \in Requests, BodyBreaks(r)
  PROVE  ShapeInv'
BY CleanupNext DEF BodyBreaks, In

(* A rename within the tree. *)
LEMMA RenameTree ==
  ASSUME ShapeInv, NEW p \in Seq(Segs) \ {<<>>}, NEW q \in Seq(Segs) \ {<<>>},
         CanRename(fs, p, q), fs' = Moved(fs, p, q)
  PROVE  TreeOK(fs', inos) /\ Derives(fs, fs', inos)
BY TreeStays, MovedTree, DerivesMoved

LEMMA RenameTempShape ==
  ASSUME ShapeInv, NEW r \in Requests, RenameTemp(r)
  PROVE  ShapeInv'
<1> DEFINE tmp == req[r].tmp
           p == req[r].ask.path
<1>1. req[r] # Nil /\ req[r].ask.op = "PUT" /\ req[r].phase = "rename" /\ inos' = inos
  BY DEF RenameTemp, In
<1>2. tmp \in Seq(Segs) \ {<<>>} /\ p \in Seq(Segs) \ {<<>>}
  BY <1>1, LiveFacts, AskFacts, PathFacts, StagedFacts DEF RequestOK, Request
<1>3. CASE CanRename(fs, tmp, p) /\ fs' = Moved(fs, tmp, p) /\ Finish(r)
  BY <1>1, <1>2, <1>3, RenameTree, FinishShape
<1>4. CASE GoTo(r, "cleanup") /\ UNCHANGED fs
  BY <1>1, <1>4, CleanupNext
<1> QED
  BY <1>3, <1>4 DEF RenameTemp

LEMMA CleanupShape ==
  ASSUME ShapeInv, NEW r \in Requests, Cleanup(r)
  PROVE  ShapeInv'
<1>1. /\ req[r] # Nil /\ req[r].phase = "cleanup" /\ Finish(r) /\ inos' = inos
      /\ fs' = Without(fs, req[r].tmp) \/ fs' = fs
  BY DEF Cleanup
<1>2. req[r].tmp \in Seq(Segs)
  BY <1>1, LiveFacts, StagedFacts DEF RequestOK, Request
<1>3. TreeOK(fs', inos) /\ Derives(fs, fs', inos)
  BY <1>1, <1>2, TreeStays, WithoutTree, DerivesWithout
<1> QED
  BY <1>1, <1>3, FinishShape

LEMMA RemovalShape ==
  ASSUME ShapeInv, NEW p \in Seq(Segs)
  PROVE  /\ TreeOK(Without(fs, p), inos)
         /\ Derives(fs, Without(fs, p), inos)
BY TreeStays, WithoutTree, DerivesWithout

LEMMA RemoveShape ==
  ASSUME ShapeInv, NEW r \in Requests, Remove(r)
  PROVE  ShapeInv'
<1> DEFINE p == req[r].ask.path
           names == {m[Len(m)] : m \in MembersOf(fs, p)}
<1>1. req[r] # Nil /\ req[r].ask.op = "DELETE" /\ req[r].phase = "remove" /\ inos' = inos
  BY DEF Remove, In
<1>2. req[r] \in Request /\ RequestOK(req[r]) /\ p \in Seq(Segs) \ {<<>>}
  BY <1>1, LiveFacts, AskFacts, PathFacts
<1>3. CASE fs' = Without(fs, p) /\ Finish(r)
  BY <1>1, <1>2, <1>3, RemovalShape, FinishShape
<1>4. CASE /\ p \in DOMAIN fs
           /\ req' = [req EXCEPT ![r].phase = "empty", ![r].ino = fs[p].ino,
                                 ![r].todo = names]
           /\ UNCHANGED fs
  <2> DEFINE q == [req[r] EXCEPT !.phase = "empty", !.ino = fs[p].ino, !.todo = names]
  <2>1. fs[p].ino \in Nat
    <3>1. WellFormed(fs[p], inos) /\ inos \in Nat
      BY <1>4, TreeStays DEF TreeOK
    <3> QED
      BY <3>1, NodeFacts
  <2>2. names \subseteq Segs
    <3> SUFFICES ASSUME NEW m \in MembersOf(fs, p)
                 PROVE  m[Len(m)] \in Segs
      OBVIOUS
    <3>1. m \in Seq(Segs) /\ m # <<>>
      BY TreeStays DEF MembersOf
    <3>2. Len(m) \in 1..Len(m)
      BY <3>1, EmptySeq
    <3> QED
      BY <3>1, <3>2, ElementOfSeq
  <2>3. req' = [req EXCEPT ![r] = q]
    BY <1>4
  <2> HIDE DEF p, names
  <2>4. q \in Request /\ q.ask = req[r].ask /\ q.phase = "empty"
    <3>1. "empty" \in Phases /\ names \in SUBSET (Seq(Segs) \cup Segs)
      BY <2>2 DEF Phases
    <3> QED
      BY <1>2, <2>1, <3>1 DEF Request
  <2> HIDE DEF q
  <2>5. RequestOK(q) /\ WriterOK(q, fs, inos)
    BY <1>1, <2>4, PhaseFacts DEF RequestOK, WriterOK
  <2> QED
    BY <1>1, <1>4, <2>3, <2>5, ShapeQuiet
<1> QED
  BY <1>3, <1>4 DEF Remove

LEMMA RemoveMemberShape ==
  ASSUME ShapeInv, NEW r \in Requests, RemoveMember(r)
  PROVE  ShapeInv'
<1>1. req[r] # Nil /\ req[r].ask.op = "DELETE" /\ req[r].phase = "empty" /\ inos' = inos
  BY DEF RemoveMember, In
<1>2. req[r] \in Request /\ RequestOK(req[r]) /\ WriterOK(req[r], fs, inos)
  BY <1>1, LiveFacts
<1>3. CASE (\E leaf \in DOMAIN fs : fs' = Without(fs, leaf)) /\ UNCHANGED req
  <2>1. PICK leaf \in DOMAIN fs : fs' = Without(fs, leaf)
    BY <1>3
  <2>2. TreeOK(fs', inos) /\ Derives(fs, fs', inos)
    BY <2>1, TreeStays, RemovalShape
  <2>3. req' = [req EXCEPT ![r] = req[r]]
    BY <1>3 DEF ShapeInv
  <2>4. WriterOK(req[r], fs', inos')
    BY <1>1, <1>2, <2>2, TreeStays, WriterStays
  <2>5. inos' \in {inos, inos + 1} /\ inos' <= MaxInos /\ TreeOK(fs', inos')
    BY <1>1, <2>2, LocalFSAssumption DEF ShapeInv
  <2> QED
    BY <1>2, <2>2, <2>3, <2>4, <2>5, ShapeStep
<1>4. CASE /\ \E name \in req[r].todo : req' = [req EXCEPT ![r].todo = @ \ {name}]
           /\ UNCHANGED fs
  <2>1. PICK name \in req[r].todo : req' = [req EXCEPT ![r].todo = @ \ {name}]
    BY <1>4
  <2> DEFINE q == [req[r] EXCEPT !.todo = @ \ {name}]
  <2>2. req' = [req EXCEPT ![r] = q]
    BY <2>1
  <2>3. q \in Request /\ q.ask = req[r].ask /\ q.phase = "empty"
    BY <1>1, <1>2 DEF Request
  <2> HIDE DEF q
  <2>4. RequestOK(q) /\ WriterOK(q, fs, inos)
    BY <1>1, <2>3, PhaseFacts DEF RequestOK, WriterOK
  <2> QED
    BY <1>1, <1>4, <2>2, <2>4, ShapeQuiet
<1> QED
  BY <1>3, <1>4 DEF RemoveMember, Under

LEMMA RemoveEmptiedShape ==
  ASSUME ShapeInv, NEW r \in Requests, RemoveEmptied(r)
  PROVE  ShapeInv'
<1> DEFINE p == req[r].ask.path
<1>1. /\ req[r] # Nil /\ Finish(r) /\ inos' = inos
      /\ fs' = Without(fs, p) \/ fs' = fs
  BY DEF RemoveEmptied, In
<1>2. p \in Seq(Segs)
  BY <1>1, LiveFacts, AskFacts, PathFacts
<1>3. TreeOK(fs', inos) /\ Derives(fs, fs', inos)
  BY <1>1, <1>2, RemovalShape, TreeStays
<1> QED
  BY <1>1, <1>3, FinishShape

LEMMA RemoveFailsShape ==
  ASSUME ShapeInv, NEW r \in Requests, RemoveFails(r)
  PROVE  ShapeInv'
BY FinishShape, TreeStays DEF RemoveFails

(* Where the walk puts the copy of an entry, and what it copies next. *)
LEMMA WalkFacts ==
  ASSUME ShapeInv, NEW r \in Requests, In(r, "COPY", "copy"), NEW x \in req[r].todo,
         x \in DOMAIN fs
  PROVE  LET target == Rebased(x, req[r].ask.path, req[r].tmp) IN
         /\ x \in Seq(Segs) /\ Within(req[r].ask.path, x)
         /\ target \in Seq(Segs) \ {<<>>} /\ Within(req[r].tmp, target)
         /\ \A z \in MembersOf(fs, x) : z \in Seq(Segs) /\ Within(req[r].ask.path, z)
<1> DEFINE target == Rebased(x, req[r].ask.path, req[r].tmp)
<1>1. /\ req[r] \in Request /\ RequestOK(req[r]) /\ req[r].tmp \in Staged
      /\ req[r].ask.path \in Paths /\ DOMAIN fs \subseteq Seq(Segs) \ {<<>>}
  BY LiveFacts, AskFacts, TreeStays DEF In, RequestOK, Request
<1>2. x \in Seq(Segs) /\ Within(req[r].ask.path, x)
  BY <1>1 DEF RequestOK, In
<1>3. /\ req[r].ask.path \in Seq(Segs) /\ req[r].tmp \in Seq(Segs)
      /\ Len(req[r].tmp) \in Nat /\ Len(req[r].tmp) > 0
  BY <1>1, PathFacts, StagedFacts
<1>4. target \in Seq(Segs) /\ Within(req[r].tmp, target)
  BY <1>2, <1>3, RebasedBack
<1> HIDE DEF target
<1>5. target # <<>>
  BY <1>3, <1>4, WithinRoot, EmptySeq
<1>6. ASSUME NEW z \in MembersOf(fs, x)
      PROVE  z \in Seq(Segs) /\ Within(req[r].ask.path, z)
  <2>1. z \in Seq(Segs) /\ z # <<>> /\ Parent(z) = x
    BY <1>1, <1>6 DEF MembersOf
  <2>2. Within(req[r].ask.path, z)
    BY <1>2, <1>3, <2>1, ParentWithin
  <2> QED
    BY <2>1, <2>2
<1> QED
  BY <1>2, <1>4, <1>5, <1>6 DEF target

(* A file of the tree, as a COPY opens it. *)
LEMMA OpenedIs ==
  ASSUME NEW t, NEW n \in Nat, TreeOK(t, n), NEW x \in DOMAIN t, t[x].file
  PROVE  t[x] \in OpenFile
<1> DEFINE node == t[x]
<1>1. WellFormed(node, n)
  BY DEF TreeOK
<1>2. node.file
  OBVIOUS
<1> HIDE DEF node
<1>3. node = File(node.ino, node.body)
  <2>1. CASE node = Collection(node.ino)
    <3>1. \A c, d : c = d => c.file = d.file
      OBVIOUS
    <3>2. Collection(node.ino).file = FALSE
      BY NodeIs
    <3> QED
      BY <1>2, <2>1, <3>1, <3>2
  <2> QED
    BY <1>1, <2>1 DEF WellFormed
<1>4. node.ino \in Nat /\ node.body \in Bodies \cup {Partial, Torn}
  BY <1>1, <1>2 DEF WellFormed
<1>5. File(node.ino, node.body) \in OpenFile
  BY <1>4 DEF File, OpenFile
<1> QED
  BY <1>3, <1>5 DEF node

LEMMA copyTreeShape ==
  ASSUME ShapeInv, NEW r \in Requests, copyTree(r)
  PROVE  ShapeInv'
<1> DEFINE ask == req[r].ask
           Target(x) == Rebased(x, ask.path, req[r].tmp)
           More(x) == IF ask.deep THEN MembersOf(fs, x) ELSE {}
<1>1. req[r] # Nil /\ ask.op = "COPY" /\ req[r].phase = "copy" /\ In(r, "COPY", "copy")
  BY DEF copyTree, In
<1>2. /\ req[r] \in Request /\ RequestOK(req[r]) /\ req[r].tmp # Nil
      /\ inos \in Nat /\ TreeOK(fs, inos)
  BY <1>1, LiveFacts, TreeStays DEF RequestOK
<1>3. CASE GoTo(r, "cleanup") /\ UNCHANGED <<fs, inos>>
  BY <1>1, <1>3, CleanupNext
<1>4. ASSUME NEW x \in req[r].todo, CanCopy(x, Target(x)), Room, inos' = inos + 1,
             NEW node, WellFormed(node, inos + 1), node.ino = inos + 1,
             Target(x) \in DOMAIN fs => node.file,
             fs' = With(fs, Target(x), node)
      PROVE  /\ inos' \in {inos, inos + 1} /\ inos' <= MaxInos
             /\ TreeOK(fs', inos') /\ Derives(fs, fs', inos)
  <2> DEFINE target == Target(x)
  <2>1. target \in Seq(Segs) \ {<<>>}
    BY <1>1, <1>4, WalkFacts DEF CanCopy
  <2> HIDE DEF target
  <2>2. /\ IsCollection(fs, Parent(target)) /\ fs' = With(fs, target, node)
        /\ target \in DOMAIN fs => fs[target].file /\ node.file
    BY <1>4 DEF CanCopy, target
  <2>3. inos' \in {inos, inos + 1} /\ inos' <= MaxInos
    BY <1>2, <1>4, LocalFSAssumption DEF Room, ShapeInv
  <2> QED
    BY <1>2, <1>4, <2>1, <2>2, <2>3, WithTree, DerivesWith
<1>5. ASSUME NEW x \in req[r].todo, CanCopy(x, Target(x)), Room, inos' = inos + 1,
             ~fs[x].file, fs' = With(fs, Target(x), Collection(inos + 1)),
             req' = [req EXCEPT ![r].todo = (@ \ {x}) \cup More(x)]
      PROVE  ShapeInv'
  <2> DEFINE node == Collection(inos + 1)
             more == More(x)
             q == [req[r] EXCEPT !.todo = (@ \ {x}) \cup more]
  <2>1. WellFormed(node, inos + 1) /\ node.ino = inos + 1
    BY <1>2 DEF WellFormed, Collection
  <2>2. Target(x) \notin DOMAIN fs
    BY <1>5 DEF CanCopy
  <2>3. fs' = With(fs, Target(x), node)
    BY <1>5
  <2> HIDE DEF node
  <2>4. /\ inos' \in {inos, inos + 1} /\ inos' <= MaxInos
        /\ TreeOK(fs', inos') /\ Derives(fs, fs', inos)
    BY <1>4, <1>5, <2>1, <2>2, <2>3
  <2>5. more \subseteq {z \in Seq(Segs) : Within(ask.path, z)}
    BY <1>1, <1>5, WalkFacts DEF CanCopy
  <2>6. req' = [req EXCEPT ![r] = q]
    BY <1>5
  <2> HIDE DEF more
  <2>7. /\ q \in Request /\ q.ask = ask /\ q.phase = "copy" /\ q.tmp = req[r].tmp
        /\ q.todo = (req[r].todo \ {x}) \cup more
    BY <1>1, <1>2, <2>5 DEF Request
  <2> HIDE DEF q
  <2>8. q.todo \subseteq {z \in Seq(Segs) : Within(q.ask.path, z)}
    BY <1>1, <1>2, <2>5, <2>7 DEF RequestOK
  <2>9. RequestOK(q) /\ WriterOK(q, fs', inos')
    BY <1>1, <1>2, <2>7, <2>8, PhaseFacts DEF RequestOK, WriterOK
  <2> QED
    BY <2>4, <2>6, <2>9, ShapeStep
<1>6. ASSUME NEW x \in req[r].todo, CanCopy(x, Target(x)), Room, inos' = inos + 1,
             fs[x].file, fs' = With(fs, Target(x), File(inos + 1, Partial)),
             req' = [req EXCEPT ![r].todo = @ \ {x}, ![r].phase = "fill",
                                ![r].ino = inos + 1, ![r].from = fs[x]]
      PROVE  ShapeInv'
  <2> DEFINE node == File(inos + 1, Partial)
             target == Target(x)
             q == [req[r] EXCEPT !.todo = @ \ {x}, !.phase = "fill",
                                 !.ino = inos + 1, !.from = fs[x]]
  <2>1. WellFormed(node, inos + 1) /\ node.ino = inos + 1 /\ node.file
    BY <1>2 DEF WellFormed, File
  <2>2. fs' = With(fs, target, node)
    BY <1>6
  <2> HIDE DEF node
  <2>3. /\ inos' \in {inos, inos + 1} /\ inos' <= MaxInos
        /\ TreeOK(fs', inos') /\ Derives(fs, fs', inos)
    BY <1>4, <1>6, <2>1, <2>2
  <2>4. fs[x] \in OpenFile
    BY <1>2, <1>6, OpenedIs DEF CanCopy
  <2>5. req' = [req EXCEPT ![r] = q]
    BY <1>6
  <2>6. /\ q \in Request /\ q.ask = ask /\ q.phase = "fill" /\ q.tmp = req[r].tmp
        /\ q.todo = req[r].todo \ {x} /\ q.ino = inos + 1 /\ q.from = fs[x]
    <3>1. inos + 1 \in Nat /\ "fill" \in Phases
      BY <1>2 DEF Phases
    <3> QED
      BY <1>2, <2>4, <3>1 DEF Request, OpenFile
  <2> HIDE DEF q, target
  <2>7. q.todo \subseteq {z \in Seq(Segs) : Within(q.ask.path, z)}
    BY <1>1, <1>2, <2>6 DEF RequestOK
  <2>8. RequestOK(q)
    BY <1>1, <1>2, <2>4, <2>6, <2>7, PhaseFacts DEF RequestOK
  <2>9. \A y \in DOMAIN fs' : fs'[y].ino = inos + 1 => fs'[y].file
    BY <1>2, <2>1, <2>2 DEF With, TreeOK, WellFormed
  <2>10. WriterOK(q, fs', inos')
    BY <1>2, <1>6, <2>6, <2>9 DEF WriterOK
  <2> QED
    BY <2>3, <2>5, <2>8, <2>10, ShapeStep
<1> QED
  BY <1>3, <1>5, <1>6 DEF copyTree

LEMMA ReadFacts ==
  ASSUME ShapeInv, NEW r \in Requests, req[r] # Nil, req[r].phase = "fill",
         NEW body \in Read(r)
  PROVE  body \in Bodies \cup {Torn}
<1>1. req[r].from \in OpenFile
  BY LiveFacts DEF RequestOK
<1>2. \A q \in DOMAIN fs : fs[q].file => fs[q].body \in Bodies \cup {Partial, Torn}
  BY TreeStays DEF TreeOK, WellFormed
<1>3. PICK b \in {req[r].from.body} \cup
                 {fs[q].body : q \in {q \in DOMAIN fs : fs[q].file /\ fs[q].ino = req[r].from.ino}} :
        body = IF b = Partial THEN Torn ELSE b
  BY DEF Read
<1>4. req[r].from.body \in Bodies \cup {Partial, Torn}
  BY <1>1 DEF OpenFile
<1>5. b \in Bodies \cup {Partial, Torn}
  BY <1>2, <1>3, <1>4
<1> QED
  BY <1>3, <1>5

LEMMA copyRegularFileShape ==
  ASSUME ShapeInv, NEW r \in Requests, copyRegularFile(r)
  PROVE  ShapeInv'
<1>1. req[r] # Nil /\ req[r].ask.op = "COPY" /\ req[r].phase = "fill" /\ inos' = inos
  BY DEF copyRegularFile, In
<1>2. RequestOK(req[r]) /\ req[r] \in Request
  BY <1>1, LiveFacts
<1>3. PICK phase \in {"copy", "cleanup"} :
        /\ fs' = fs \/ \E body \in Read(r) : fs' = Filled(r, body)
        /\ req' = [req EXCEPT ![r].phase = phase, ![r].ino = 0, ![r].from = Nil]
  BY DEF copyRegularFile
<1>4. TreeOK(fs', inos) /\ Derives(fs, fs', inos)
  BY <1>1, <1>3, ReadFacts, FilledShape, TreeStays
<1>5. inos' \in {inos, inos + 1} /\ inos' <= MaxInos /\ TreeOK(fs', inos')
  BY <1>1, <1>4, LocalFSAssumption DEF ShapeInv
<1> DEFINE q == [req[r] EXCEPT !.phase = phase, !.ino = 0, !.from = Nil]
<1>6. req' = [req EXCEPT ![r] = q]
  BY <1>3
<1>7. /\ q \in Request /\ q.ask = req[r].ask /\ q.phase = phase /\ q.tmp = req[r].tmp
      /\ q.todo = req[r].todo
  BY <1>2, <1>3 DEF Request, Phases
<1> HIDE DEF q
<1>8. RequestOK(q) /\ WriterOK(q, fs', inos')
  BY <1>1, <1>2, <1>3, <1>7, PhaseFacts DEF RequestOK, WriterOK
<1> QED
  BY <1>4, <1>5, <1>6, <1>8, ShapeStep

(* The paths swapTree renames. *)
LEMMA SwapFacts ==
  ASSUME ShapeInv, NEW r \in Requests, req[r] # Nil, req[r].ask.op \in {"COPY", "MOVE"}
  PROVE  /\ req[r].ask.dst \in Paths /\ req[r].ask.path \in Paths
         /\ req[r].ask.dst \in Seq(Segs) \ {<<>>}
         /\ NewTree(r) \in Seq(Segs) \ {<<>>}
         /\ req[r] \in Request
<1>1. /\ req[r].ask.dst \in Paths /\ req[r].ask.path \in Paths
      /\ req[r] \in Request
      /\ req[r].ask.op = "COPY" => req[r].tmp \in Staged
  BY LiveFacts, AskFacts DEF RequestOK, Request
<1>2. NewTree(r) \in Seq(Segs) \ {<<>>}
  BY <1>1, PathFacts, StagedFacts DEF NewTree
<1> QED
  BY <1>1, <1>2, PathFacts

LEMMA SwapIsTransfer ==
  ASSUME ShapeInv, NEW r \in Requests,
         \/ ReadyToSwap(r)
         \/ req[r] # Nil /\ req[r].phase \in {"swapIn", "restore", "discard"}
  PROVE  req[r] # Nil /\ req[r].ask.op \in {"COPY", "MOVE"} /\ ~Unfinished(req[r])
BY LiveFacts, AskFacts, PhaseFacts DEF ReadyToSwap, In, Unfinished

LEMMA RenameNewShape ==
  ASSUME ShapeInv, NEW r \in Requests, RenameNew(r)
  PROVE  ShapeInv'
<1> DEFINE dst == req[r].ask.dst
<1>1. req[r] # Nil /\ req[r].ask.op \in {"COPY", "MOVE"} /\ inos' = inos
  BY SwapIsTransfer DEF RenameNew
<1>2. CASE CanRename(fs, NewTree(r), dst) /\ fs' = Moved(fs, NewTree(r), dst) /\ Finish(r)
  BY <1>1, <1>2, SwapFacts, RenameTree, FinishShape
<1>3. CASE Abandon(r) /\ UNCHANGED fs
  BY <1>1, <1>3, AbandonShape, TreeStays
<1> QED
  BY <1>2, <1>3 DEF RenameNew

LEMMA SetAsideShape ==
  ASSUME ShapeInv, NEW r \in Requests, SetAside(r)
  PROVE  ShapeInv'
<1> DEFINE dst == req[r].ask.dst
<1>1. req[r] # Nil /\ req[r].ask.op \in {"COPY", "MOVE"} /\ inos' = inos
  BY SwapIsTransfer DEF SetAside
<1>2. req[r] \in Request /\ dst \in Paths /\ dst \in Seq(Segs) \ {<<>>} /\ RequestOK(req[r])
  BY <1>1, SwapFacts, LiveFacts
<1>3. CASE \E aside \in Fresh(Parent(dst)) :
             /\ CanRename(fs, dst, aside)
             /\ fs' = Moved(fs, dst, aside)
             /\ req' = [req EXCEPT ![r].aside = aside, ![r].phase = "swapIn"]
  <2>1. PICK aside \in Fresh(Parent(dst)) :
             /\ CanRename(fs, dst, aside)
             /\ fs' = Moved(fs, dst, aside)
             /\ req' = [req EXCEPT ![r].aside = aside, ![r].phase = "swapIn"]
    BY <1>3
  <2> DEFINE q == [req[r] EXCEPT !.aside = aside, !.phase = "swapIn"]
  <2>2. aside \in Staged /\ aside \in Seq(Segs) \ {<<>>} /\ aside # Nil
    BY <1>2, FreshFacts, StagedFacts
  <2>3. TreeOK(fs', inos) /\ Derives(fs, fs', inos)
    BY <1>2, <2>1, <2>2, RenameTree
  <2>4. req' = [req EXCEPT ![r] = q]
    BY <2>1
  <2>5. /\ q \in Request /\ q.ask = req[r].ask /\ q.phase = "swapIn"
        /\ q.aside = aside /\ q.tmp = req[r].tmp
    BY <1>2, <2>2 DEF Request, Phases
  <2> HIDE DEF q, dst
  <2>6. RequestOK(q) /\ WriterOK(q, fs', inos')
    BY <1>1, <1>2, <2>2, <2>5, PhaseFacts DEF RequestOK, WriterOK
  <2>7. inos' \in {inos, inos + 1} /\ inos' <= MaxInos /\ TreeOK(fs', inos')
    BY <1>1, <2>3, LocalFSAssumption DEF ShapeInv
  <2> QED
    BY <2>3, <2>4, <2>6, <2>7, ShapeStep
<1>4. CASE Abandon(r) /\ UNCHANGED fs
  BY <1>1, <1>4, AbandonShape, TreeStays
<1> QED
  BY <1>3, <1>4 DEF SetAside

LEMMA SwapInShape ==
  ASSUME ShapeInv, NEW r \in Requests, SwapIn(r)
  PROVE  ShapeInv'
<1> DEFINE dst == req[r].ask.dst
<1>1. /\ req[r] # Nil /\ req[r].ask.op \in {"COPY", "MOVE"} /\ inos' = inos
      /\ req[r].phase = "swapIn"
  BY SwapIsTransfer DEF SwapIn
<1>2. /\ req[r].aside # Nil
      /\ "discard" \in PhasesOf(req[r].ask.op) /\ "restore" \in PhasesOf(req[r].ask.op)
  BY <1>1, LiveFacts, PhaseFacts DEF RequestOK
<1>3. CASE CanRename(fs, NewTree(r), dst) /\ fs' = Moved(fs, NewTree(r), dst) /\ GoTo(r, "discard")
  BY <1>1, <1>2, <1>3, SwapFacts, RenameTree, GoToShape
<1>4. CASE GoTo(r, "restore") /\ UNCHANGED fs
  BY <1>1, <1>2, <1>4, GoToShape, TreeStays
<1> QED
  BY <1>3, <1>4 DEF SwapIn

LEMMA RestoreShape ==
  ASSUME ShapeInv, NEW r \in Requests, Restore(r)
  PROVE  ShapeInv'
<1> DEFINE dst == req[r].ask.dst
           aside == req[r].aside
<1>1. /\ req[r] # Nil /\ req[r].ask.op \in {"COPY", "MOVE"} /\ inos' = inos
      /\ req[r].phase = "restore" /\ Abandon(r)
  BY SwapIsTransfer DEF Restore
<1>2. dst \in Seq(Segs) \ {<<>>} /\ aside \in Seq(Segs) \ {<<>>}
  BY <1>1, LiveFacts, SwapFacts, StagedFacts DEF RequestOK, Request
<1>3. \/ CanRename(fs, aside, dst) /\ fs' = Moved(fs, aside, dst)
      \/ UNCHANGED fs
  BY DEF Restore
<1>4. TreeOK(fs', inos) /\ Derives(fs, fs', inos)
  BY <1>2, <1>3, RenameTree, TreeStays
<1> QED
  BY <1>1, <1>4, AbandonShape

LEMMA DiscardShape ==
  ASSUME ShapeInv, NEW r \in Requests, Discard(r)
  PROVE  ShapeInv'
<1>1. /\ req[r] # Nil /\ req[r].phase = "discard" /\ Finish(r) /\ inos' = inos
      /\ fs' = Without(fs, req[r].aside) \/ fs' = fs
  BY DEF Discard
<1>2. req[r].aside \in Seq(Segs)
  BY <1>1, LiveFacts, StagedFacts DEF RequestOK, Request
<1>3. TreeOK(fs', inos) /\ Derives(fs, fs', inos)
  BY <1>1, <1>2, RemovalShape, TreeStays
<1> QED
  BY <1>1, <1>3, FinishShape

LEMMA CrashShape ==
  ASSUME ShapeInv, Crash
  PROVE  ShapeInv'
BY DEF ShapeInv, Crash, Live

LEMMA ShapeInit == Init => ShapeInv
<1> SUFFICES ASSUME Init PROVE ShapeInv
  OBVIOUS
<1>1. DOMAIN fs = {}
  BY DEF Init
<1>2. TreeOK(fs, inos)
  BY <1>1 DEF TreeOK, Closed
<1> QED
  BY <1>2, LocalFSAssumption DEF Init, ShapeInv, Live

LEMMA ShapeNext == ShapeInv /\ [Next]_vars => ShapeInv'
<1> SUFFICES ASSUME ShapeInv, [Next]_vars
             PROVE  ShapeInv'
  OBVIOUS
<1>1. ASSUME NEW r \in Requests, Begin(r)
      PROVE  ShapeInv'
  <2>1. PICK p \in Paths :
          \/ \E ifMatch \in Headers, ifNoneMatch \in Headers :
               \/ \E body \in Bodies : Create(r, p, ifMatch, ifNoneMatch, body)
               \/ RemoveAll(r, p, ifMatch, ifNoneMatch)
          \/ \E dst \in Paths, overwrite \in BOOLEAN :
               \/ \E deep \in BOOLEAN : Copy(r, p, dst, deep, overwrite)
               \/ Move(r, p, dst, overwrite)
          \/ Mkdir(r, p)
    BY <1>1 DEF Begin
  <2> QED
    BY <2>1, CreateShape, RemoveAllShape, CopyShape, MoveShape, MkdirShape
<1>2. ASSUME NEW r \in Requests, Continue(r)
      PROVE  ShapeInv'
  BY <1>2, createSiblingShape, WriteBodyShape, BodyBreaksShape, RenameTempShape,
     RemoveShape, RemoveMemberShape, RemoveEmptiedShape, RemoveFailsShape,
     copyTreeShape, copyRegularFileShape, RenameNewShape, SetAsideShape, SwapInShape, RestoreShape,
     DiscardShape, CleanupShape DEF Continue
<1>3. CASE UNCHANGED vars
  BY <1>3 DEF vars, ShapeInv, Live
<1> QED
  BY <1>1, <1>2, <1>3, CrashShape DEF Next

LEMMA Shape == Spec => []ShapeInv
BY ShapeInit, ShapeNext, PTL DEF Spec

---------------------------------------------------------------------------
(* Nothing is lost.                                                        *)

(* The file at p is still somewhere, or its name is taken by a file. *)
Spared(p) ==
  \/ p \in DOMAIN fs' /\ fs'[p].file
  \/ \E q \in DOMAIN fs' : fs'[q].ino = fs[p].ino

(* r may be removing what is at p. *)
Removing(r, p) ==
  /\ req[r] # Nil
  /\ \/ req[r].ask.op = "DELETE"
     \/ req[r].phase = "discard" /\ Within(req[r].aside, p)
     \/ req[r].phase = "cleanup" /\ Within(req[r].tmp, p)

Safe == \A p \in DOMAIN fs : fs[p].file => Spared(p) \/ \E r \in Requests : Removing(r, p)

LEMMA SafeUnchanged == UNCHANGED fs => Safe
BY DEF Safe, Spared

LEMMA SafeWith ==
  ASSUME NEW x, NEW node, fs' = With(fs, x, node), x \in DOMAIN fs => node.file
  PROVE  Safe
<1> SUFFICES ASSUME NEW p \in DOMAIN fs
             PROVE  Spared(p)
  BY DEF Safe
<1>1. CASE p = x
  BY <1>1 DEF With, Spared
<1>2. CASE p # x
  BY <1>2 DEF With, Spared
<1> QED
  BY <1>1, <1>2

(* A file has nothing below it. *)
LEMMA FileIsLeaf ==
  ASSUME ShapeInv, NEW x \in DOMAIN fs, fs[x].file, NEW y \in DOMAIN fs, Within(x, y)
  PROVE  y = x
BY TreeStays DEF TreeOK, Closed, IsCollection

LEMMA SafeMoved ==
  ASSUME ShapeInv, NEW a \in Seq(Segs) \ {<<>>}, NEW b \in Seq(Segs) \ {<<>>},
         CanRename(fs, a, b), fs' = Moved(fs, a, b)
  PROVE  Safe
<1>1. Renames(fs, fs', a, b)
  BY TreeStays, MovedRenames
<1> SUFFICES ASSUME NEW p \in DOMAIN fs
             PROVE  Spared(p)
  BY DEF Safe
<1>2. CASE Within(a, p)
  BY <1>1, <1>2 DEF Renames, Spared
<1>3. CASE ~Within(a, p) /\ ~Within(b, p)
  BY <1>1, <1>3 DEF Renames, Spared
<1>4. CASE Within(b, p)
  <2>1. b \in DOMAIN fs
    BY <1>4, TreeStays DEF TreeOK, Closed, IsCollection
  <2>2. fs[a].file /\ fs[b].file /\ a \in DOMAIN fs
    BY <2>1 DEF CanRename
  <2>3. p = b
    BY <1>4, <2>1, <2>2, FileIsLeaf
  <2>4. Within(a, a) /\ Rebased(a, a, b) = b
    BY WithinFacts, RebasedSelf
  <2>5. b \in DOMAIN fs' /\ fs'[b] = fs[a]
    BY <1>1, <2>2, <2>4 DEF Renames
  <2> QED
    BY <2>2, <2>3, <2>5 DEF Spared
<1> QED
  BY <1>2, <1>3, <1>4

LEMMA SafeWithout ==
  ASSUME NEW a, fs' = Without(fs, a), NEW r \in Requests,
         \A p \in DOMAIN fs : Within(a, p) => Removing(r, p)
  PROVE  Safe
BY DEF Safe, Spared, Without, Under

LEMMA SafeNext ==
  ASSUME ShapeInv, [Next]_vars
  PROVE  Safe
<1>1. ASSUME NEW r \in Requests, Begin(r)
      PROVE  Safe
  <2>1. CASE UNCHANGED fs
    BY <2>1, SafeUnchanged
  <2>2. CASE \E p \in Paths : Mkdir(r, p)
    BY <2>2, SafeWith DEF Mkdir
  <2> QED
    BY <1>1, <2>1, <2>2 DEF Begin, Create, RemoveAll, Copy, Move
<1>2. ASSUME NEW r \in Requests, createSibling(r)
      PROVE  Safe
  <2>1. CASE UNCHANGED fs
    BY <2>1, SafeUnchanged
  <2>2. CASE \E tmp \in Fresh(Parent(req[r].ask.path)) :
               fs' = With(fs, tmp, File(inos + 1, Partial))
    <3>1. PICK tmp \in Fresh(Parent(req[r].ask.path)) :
                 fs' = With(fs, tmp, File(inos + 1, Partial))
      BY <2>2
    <3>2. File(inos + 1, Partial).file
      BY NodeIs
    <3> QED
      BY <3>1, <3>2, SafeWith
  <2> QED
    BY <1>2, <2>1, <2>2 DEF createSibling
<1>3. ASSUME NEW r \in Requests, WriteBody(r) \/ copyRegularFile(r)
      PROVE  Safe
  <2>1. ASSUME NEW body, fs' = Filled(r, body)
        PROVE  Safe
    <3>1. \A p \in DOMAIN fs : p \in DOMAIN fs' /\ fs'[p].ino = fs[p].ino
      BY <2>1 DEF Filled, File
    <3> QED
      BY <3>1 DEF Safe, Spared
  <2> QED
    BY <1>3, <2>1, SafeUnchanged DEF WriteBody, copyRegularFile
<1>4. ASSUME NEW r \in Requests, RenameTemp(r)
      PROVE  Safe
  <2>1. req[r] # Nil /\ req[r].ask.op = "PUT" /\ req[r].phase = "rename"
    BY <1>4 DEF RenameTemp, In
  <2>2. req[r].tmp \in Seq(Segs) \ {<<>>} /\ req[r].ask.path \in Seq(Segs) \ {<<>>}
    BY <2>1, LiveFacts, AskFacts, PathFacts, StagedFacts DEF RequestOK, Request
  <2> QED
    BY <1>4, <2>2, SafeUnchanged, SafeMoved DEF RenameTemp
<1>5. ASSUME NEW r \in Requests, Remove(r) \/ RemoveMember(r) \/ RemoveEmptied(r) \/ RemoveFails(r)
      PROVE  Safe
  <2>1. req[r] # Nil /\ req[r].ask.op = "DELETE"
    BY <1>5 DEF Remove, RemoveMember, RemoveEmptied, RemoveFails, In
  <2>2. fs' = fs \/ \E a : fs' = Without(fs, a)
    BY <1>5 DEF Remove, RemoveMember, RemoveEmptied, RemoveFails
  <2> QED
    BY <2>1, <2>2, SafeUnchanged, SafeWithout DEF Removing
<1>6. ASSUME NEW r \in Requests, copyTree(r)
      PROVE  Safe
  <2>1. ASSUME NEW x, NEW target, CanCopy(x, target), ~fs[x].file,
               fs' = With(fs, target, Collection(inos + 1))
        PROVE  Safe
    BY <2>1, SafeWith DEF CanCopy
  <2>2. ASSUME NEW target, fs' = With(fs, target, File(inos + 1, Partial))
        PROVE  Safe
    <3>1. File(inos + 1, Partial).file
      BY NodeIs
    <3> QED
      BY <2>2, <3>1, SafeWith
  <2> QED
    BY <1>6, <2>1, <2>2, SafeUnchanged DEF copyTree
<1>7. ASSUME NEW r \in Requests, RenameNew(r) \/ SwapIn(r)
      PROVE  Safe
  <2>1. req[r] # Nil /\ req[r].ask.op \in {"COPY", "MOVE"}
    BY <1>7, SwapIsTransfer DEF RenameNew, SwapIn
  <2>2. NewTree(r) \in Seq(Segs) \ {<<>>} /\ req[r].ask.dst \in Seq(Segs) \ {<<>>}
    BY <2>1, SwapFacts
  <2> QED
    BY <1>7, <2>2, SafeUnchanged, SafeMoved DEF RenameNew, SwapIn
<1>8. ASSUME NEW r \in Requests, SetAside(r)
      PROVE  Safe
  <2>1. req[r] # Nil /\ req[r].ask.op \in {"COPY", "MOVE"}
    BY <1>8, SwapIsTransfer DEF SetAside
  <2>2. req[r].ask.dst \in Paths /\ req[r].ask.dst \in Seq(Segs) \ {<<>>}
    BY <2>1, SwapFacts
  <2>3. \A aside \in Fresh(Parent(req[r].ask.dst)) : aside \in Seq(Segs) \ {<<>>}
    BY <2>2, FreshFacts, StagedFacts
  <2> QED
    BY <1>8, <2>2, <2>3, SafeUnchanged, SafeMoved DEF SetAside
<1>9. ASSUME NEW r \in Requests, Restore(r)
      PROVE  Safe
  <2>1. req[r] # Nil /\ req[r].ask.op \in {"COPY", "MOVE"} /\ req[r].phase = "restore"
    BY <1>9, SwapIsTransfer DEF Restore
  <2>2. req[r].aside \in Seq(Segs) \ {<<>>} /\ req[r].ask.dst \in Seq(Segs) \ {<<>>}
    BY <2>1, LiveFacts, SwapFacts, StagedFacts DEF RequestOK, Request
  <2> QED
    BY <1>9, <2>2, SafeUnchanged, SafeMoved DEF Restore
<1>10. ASSUME NEW r \in Requests, Discard(r)
       PROVE  Safe
  BY <1>10, SafeUnchanged, SafeWithout DEF Discard, Removing
<1>11. ASSUME NEW r \in Requests, Cleanup(r)
       PROVE  Safe
  BY <1>11, SafeUnchanged, SafeWithout DEF Cleanup, Removing
<1>12. ASSUME NEW r \in Requests, BodyBreaks(r)
       PROVE  Safe
  BY <1>12, SafeUnchanged DEF BodyBreaks
<1>13. CASE Crash \/ UNCHANGED vars
  BY <1>13, SafeUnchanged DEF Crash, vars
<1> QED
  BY <1>1, <1>2, <1>3, <1>4, <1>5, <1>6, <1>7, <1>8, <1>9, <1>10, <1>11, <1>12, <1>13
     DEF Next, Continue

(* A complete file leaves the disk only by a DELETE, by a file that takes  *)
(* its name, or after its replacement is in place: no interleaving, no     *)
(* failed call and no crash loses one.                                     *)
THEOREM NoFileIsLost == Spec => NothingLost
<1>1. ShapeInv /\ [Next]_vars =>
        [\A p \in DOMAIN fs :
           /\ fs[p].file /\ fs[p].body # Partial
           /\ \A q \in DOMAIN fs' : fs'[q].ino # fs[p].ino
           => \/ p \in DOMAIN fs' /\ fs'[p].file
              \/ \E r \in Requests :
                   /\ req[r] # Nil
                   /\ \/ req[r].ask.op = "DELETE"
                      \/ req[r].phase = "discard" /\ Within(req[r].aside, p)
                      \/ req[r].phase = "cleanup" /\ Within(req[r].tmp, p)]_vars
  BY SafeNext DEF Safe, Spared, Removing
<1> QED
  BY <1>1, Shape, PTL DEF Spec, NothingLost

---------------------------------------------------------------------------
(* No half-written body gets a client's name.                              *)

(* A tag that is not on the way to a stays when a is renamed. *)
LEMMA TagRebased ==
  ASSUME NEW y \in Seq(Segs), NEW a \in Seq(Segs), NEW b \in Seq(Segs), Within(a, y),
         NEW t \in Temps, Tagged(y, t), \A i \in 1..Len(a) : a[i] # t
  PROVE  Tagged(Rebased(y, a, b), t)
<1> DEFINE z == Rebased(y, a, b)
<1>1. Spliced(z, y, a, b)
  BY RebasedFacts
<1> HIDE DEF z
<1>2. PICK i \in 1..Len(y) : y[i] = t
  BY DEF Tagged
<1>3. \A k \in 1..Len(a) : y[k] # t
  BY DEF Within
<1>4. Len(y) \in Nat /\ Len(a) \in Nat /\ Len(b) \in Nat /\ Len(a) <= Len(y) /\ i > Len(a)
  BY <1>1, <1>2, <1>3 DEF Spliced
<1> DEFINE j == i - Len(a) + Len(b)
<1>5. /\ j \in Len(b) + 1..Len(b) + Len(y) - Len(a)
      /\ j \in 1..Len(z)
      /\ j - Len(b) + Len(a) = i
  BY <1>1, <1>2, <1>4 DEF Spliced
<1>6. z[j] = t
  BY <1>1, <1>2, <1>5 DEF Spliced
<1> QED
  BY <1>5, <1>6 DEF Tagged, z

(* No harmless tag is on the way to a. *)
Untagged(a) ==
  \A t \in Temps : \A n : Harmless(t, n) => \A i \in 1..Len(a) : a[i] # t

LEMMA PathUntagged ==
  ASSUME NEW p \in Paths
  PROVE  Untagged(p)
<1>1. p \in Seq(Segments)
  BY LocalFSAssumption
<1>2. \A i \in 1..Len(p) : p[i] \in Segments
  BY <1>1, ElementOfSeq
<1> QED
  BY <1>2, LocalFSAssumption DEF Untagged

LEMMA HeldUntagged ==
  ASSUME NEW a \in Staged, \A t \in Temps : \A n : Harmless(t, n) => Token(a) # t
  PROVE  Untagged(a)
<1> SUFFICES ASSUME NEW t \in Temps, NEW n, Harmless(t, n), NEW i \in 1..Len(a)
             PROVE  a[i] # t
  BY DEF Untagged
<1>1. Len(a) \in Nat /\ Len(a) > 0 /\ \A k \in 1..Len(a) - 1 : a[k] \notin Temps
  BY StagedFacts
<1>2. CASE i = Len(a)
  BY <1>2 DEF Token
<1>3. CASE i # Len(a)
  BY <1>1, <1>3
<1> QED
  BY <1>2, <1>3

(* A half-written file was one before, and its tags are still on its path. *)
Carries ==
  \A x \in DOMAIN fs' : IsPartial(fs'[x]) =>
    \E y \in DOMAIN fs :
      /\ IsPartial(fs[y]) /\ fs'[x].ino = fs[y].ino
      /\ \A t \in Temps : Tagged(y, t) /\ Harmless(t, fs[y].ino) => Tagged(x, t)

LEMMA CarriesUnchanged == UNCHANGED fs => Carries
BY DEF Carries

LEMMA CarriesWithout == ASSUME NEW a, fs' = Without(fs, a) PROVE Carries
BY DEF Carries, Without

LEMMA CarriesWith ==
  ASSUME NEW x, NEW node, fs' = With(fs, x, node), ~IsPartial(node)
  PROVE  Carries
<1>1. \A y \in DOMAIN fs' : y = x \/ (y \in DOMAIN fs /\ fs'[y] = fs[y])
  BY DEF With
<1>2. x \in DOMAIN fs' /\ fs'[x] = node
  BY DEF With
<1> QED
  BY <1>1, <1>2 DEF Carries

LEMMA CarriesMoved ==
  ASSUME ShapeInv, NEW a \in Seq(Segs), NEW b \in Seq(Segs), fs' = Moved(fs, a, b),
         Untagged(a)
  PROVE  Carries
<1>1. Renames(fs, fs', a, b)
  BY TreeStays, MovedRenames
<1> SUFFICES ASSUME NEW x \in DOMAIN fs', IsPartial(fs'[x])
             PROVE  \E y \in DOMAIN fs :
                      /\ IsPartial(fs[y]) /\ fs'[x].ino = fs[y].ino
                      /\ \A t \in Temps : Tagged(y, t) /\ Harmless(t, fs[y].ino) => Tagged(x, t)
  BY DEF Carries
<1>2. CASE ~Within(b, x)
  <2>1. x \in DOMAIN fs /\ fs'[x] = fs[x]
    BY <1>1, <1>2 DEF Renames
  <2> QED
    BY <2>1
<1>3. CASE Within(b, x)
  <2> DEFINE y == Rebased(x, b, a)
  <2>1. /\ y \in DOMAIN fs /\ Within(a, y) /\ x = Rebased(y, a, b)
        /\ fs'[x] = fs[y]
    BY <1>1, <1>3 DEF Renames
  <2> HIDE DEF y
  <2>2. y \in Seq(Segs)
    BY <2>1, TreeStays
  <2>3. \A t \in Temps : Tagged(y, t) /\ Harmless(t, fs[y].ino) => Tagged(x, t)
    BY <2>1, <2>2, TagRebased DEF Untagged
  <2> QED
    BY <2>1, <2>3
<1> QED
  BY <1>2, <1>3

(* t is a harmless tag of a file that is half written after the step. *)
Marking(t, n) ==
  /\ t \in Temps /\ Harmless(t, n)
  /\ \E y \in DOMAIN fs : y \in Seq(Segs) /\ Tagged(y, t)
  /\ \E x \in DOMAIN fs' : IsPartial(fs'[x]) /\ fs'[x].ino = n

LEMMA HarmlessStep ==
  ASSUME ShapeInv, NEW r \in Requests, NEW q, req' = [req EXCEPT ![r] = q],
         NEW t, NEW n, Harmless(t, n), q = Nil \/ HarmlessTo(q, t, n)
  PROVE  Harmless(t, n)'
<1>1. req'[r] = q /\ \A s \in Requests : s # r => req'[s] = req[s]
  BY DEF ShapeInv
<1>2. \A s \in Requests : req'[s] # Nil => HarmlessTo(req'[s], t, n)
  BY <1>1 DEF Harmless, Live
<1> QED
  BY <1>2 DEF Harmless, Live

LEMMA PartialStep ==
  ASSUME ShapeInv, PartialInv, Carries,
         NEW r \in Requests, NEW q, req' = [req EXCEPT ![r] = q],
         \A t, n : Marking(t, n) => q = Nil \/ HarmlessTo(q, t, n)
  PROVE  PartialInv'
<1> SUFFICES ASSUME NEW x \in DOMAIN fs', IsPartial(fs'[x])
             PROVE  (\E t \in Temps : Tagged(x, t) /\ Harmless(t, fs[x].ino))'
  BY DEF PartialInv
<1>1. PICK y \in DOMAIN fs :
        /\ IsPartial(fs[y]) /\ fs'[x].ino = fs[y].ino
        /\ \A t \in Temps : Tagged(y, t) /\ Harmless(t, fs[y].ino) => Tagged(x, t)
  BY DEF Carries
<1>2. PICK t \in Temps : Tagged(y, t) /\ Harmless(t, fs[y].ino)
  BY <1>1 DEF PartialInv
<1> DEFINE n == fs[y].ino
<1>3. Marking(t, n)
  BY <1>1, <1>2, TreeStays DEF Marking
<1>4. PICK m : m = fs[y].ino
  OBVIOUS
<1>5. Harmless(t, m) /\ (q = Nil \/ HarmlessTo(q, t, m))
  BY <1>2, <1>3, <1>4
<1>6. Harmless(t, m)'
  BY <1>5, HarmlessStep
<1>7. Tagged(x, t) /\ fs'[x].ino = m
  BY <1>1, <1>2, <1>4
<1> QED
  BY <1>6, <1>7 DEF Harmless

LEMMA FinishPartial ==
  ASSUME ShapeInv, PartialInv, NEW r \in Requests, Finish(r), Carries
  PROVE  PartialInv'
<1>1. req' = [req EXCEPT ![r] = Nil]
  BY DEF Finish
<1> QED
  BY <1>1, PartialStep

(* A request that keeps its temporary paths is as harmless as it was. *)
LEMMA SamePaths ==
  ASSUME NEW p, NEW q, NEW t, NEW n, HarmlessTo(p, t, n),
         q.tmp = p.tmp, q.aside = p.aside, Unfinished(p) => Unfinished(q),
         q.phase \in {"write", "fill"} => p.phase = q.phase /\ q.ino = p.ino
  PROVE  HarmlessTo(q, t, n)
BY DEF HarmlessTo

LEMMA MarkingHarmless ==
  ASSUME NEW r \in Requests, req[r] # Nil, NEW t, NEW n, Marking(t, n)
  PROVE  HarmlessTo(req[r], t, n)
BY DEF Marking, Harmless, Live

LEMMA GoToPartial ==
  ASSUME ShapeInv, PartialInv, NEW r \in Requests, req[r] # Nil,
         NEW phase, GoTo(r, phase), phase \notin {"write", "fill"},
         Unfinished(req[r]) => phase = "cleanup", Carries
  PROVE  PartialInv'
<1> DEFINE q == [req[r] EXCEPT !.phase = phase]
<1>1. req' = [req EXCEPT ![r] = q]
  BY DEF GoTo
<1>2. /\ q.tmp = req[r].tmp /\ q.aside = req[r].aside /\ q.phase = phase
      /\ q.ask = req[r].ask
  BY LiveFacts DEF Request
<1> HIDE DEF q
<1>3. Unfinished(req[r]) => Unfinished(q)
  BY <1>2 DEF Unfinished
<1>4. \A t, n : Marking(t, n) => HarmlessTo(q, t, n)
  BY <1>2, <1>3, SamePaths, MarkingHarmless
<1> QED
  BY <1>1, <1>4, PartialStep

LEMMA AbandonPartial ==
  ASSUME ShapeInv, PartialInv, NEW r \in Requests, req[r] # Nil, Abandon(r), Carries
  PROVE  PartialInv'
BY FinishPartial, GoToPartial DEF Abandon

(* A request begins. *)
LEMMA ServingPartial ==
  ASSUME ShapeInv, PartialInv, NEW r \in Requests, NEW ask, NEW phase, NEW existed,
         phase # "write", phase # "fill", UNCHANGED fs,
         req' = [req EXCEPT ![r] = Serving(ask, phase, existed)]
  PROVE  PartialInv'
<1> DEFINE q == Serving(ask, phase, existed)
<1>1. q.tmp = Nil /\ q.aside = Nil /\ q.phase = phase
  BY DEF Serving
<1>2. req' = [req EXCEPT ![r] = q]
  OBVIOUS
<1> HIDE DEF q
<1>3. \A t, n : HarmlessTo(q, t, n)
  BY <1>1 DEF HarmlessTo
<1> QED
  BY <1>2, <1>3, CarriesUnchanged, PartialStep

(* A fresh name marks no half-written file. *)
LEMMA FreshUnmarked ==
  ASSUME ShapeInv, NEW p \in Paths, NEW h \in Fresh(Parent(p)), NEW t, NEW n, Marking(t, n)
  PROVE  Token(h) # t
BY FreshFacts DEF Marking, Tagged

LEMMA CopyPartial ==
  ASSUME ShapeInv, PartialInv, NEW r \in Requests, NEW src \in Paths, NEW dst \in Paths,
         NEW deep \in BOOLEAN, NEW overwrite \in BOOLEAN,
         Copy(r, src, dst, deep, overwrite)
  PROVE  PartialInv'
<1> DEFINE ask == [op |-> "COPY", path |-> src, dst |-> dst, deep |-> deep,
                   overwrite |-> overwrite]
           existed == dst \in DOMAIN fs
<1>1. PICK tmp \in Fresh(Parent(dst)) :
        req' = [req EXCEPT ![r] =
          [Serving(ask, "copy", existed) EXCEPT !.tmp = tmp, !.todo = {src}]]
  BY DEF Copy
<1> DEFINE q == [Serving(ask, "copy", existed) EXCEPT !.tmp = tmp, !.todo = {src}]
<1> HIDE DEF ask, existed
<1>2. q.tmp = tmp /\ q.aside = Nil /\ q.phase = "copy"
  BY DEF Serving
<1>3. req' = [req EXCEPT ![r] = q]
  BY <1>1
<1> HIDE DEF q
<1>4. \A t, n : Marking(t, n) => HarmlessTo(q, t, n)
  BY <1>2, FreshUnmarked DEF HarmlessTo
<1>5. Carries
  BY CarriesUnchanged DEF Copy
<1> QED
  BY <1>3, <1>4, <1>5, PartialStep

LEMMA SameRequests ==
  ASSUME ShapeInv, PartialInv, Carries, UNCHANGED req, NEW r \in Requests
  PROVE  PartialInv'
<1>1. req' = [req EXCEPT ![r] = req[r]]
  BY DEF ShapeInv
<1>2. \A t, n : Marking(t, n) => req[r] = Nil \/ HarmlessTo(req[r], t, n)
  BY MarkingHarmless
<1> QED
  BY <1>1, <1>2, PartialStep

LEMMA CollectionWhole == ASSUME NEW n PROVE ~IsPartial(Collection(n))
BY NodeIs DEF IsPartial

LEMMA BeginPartial ==
  ASSUME ShapeInv, PartialInv, NEW r \in Requests, Begin(r)
  PROVE  PartialInv'
<1>1. PICK p \in Paths :
        \/ \E ifMatch \in Headers, ifNoneMatch \in Headers :
             \/ \E body \in Bodies : Create(r, p, ifMatch, ifNoneMatch, body)
             \/ RemoveAll(r, p, ifMatch, ifNoneMatch)
        \/ \E dst \in Paths, overwrite \in BOOLEAN :
             \/ \E deep \in BOOLEAN : Copy(r, p, dst, deep, overwrite)
             \/ Move(r, p, dst, overwrite)
        \/ Mkdir(r, p)
  BY DEF Begin
<1>2. ASSUME NEW ifMatch, NEW ifNoneMatch, NEW body, Create(r, p, ifMatch, ifNoneMatch, body)
      PROVE  PartialInv'
  BY <1>2, ServingPartial DEF Create
<1>3. ASSUME NEW ifMatch, NEW ifNoneMatch, RemoveAll(r, p, ifMatch, ifNoneMatch)
      PROVE  PartialInv'
  BY <1>3, ServingPartial DEF RemoveAll
<1>4. ASSUME NEW dst, NEW overwrite, Move(r, p, dst, overwrite)
      PROVE  PartialInv'
  BY <1>4, ServingPartial DEF Move
<1>5. ASSUME Mkdir(r, p)
      PROVE  PartialInv'
  <2>1. fs' = With(fs, p, Collection(inos + 1)) /\ UNCHANGED req
    BY <1>5 DEF Mkdir
  <2> QED
    BY <2>1, CollectionWhole, CarriesWith, SameRequests
<1> QED
  BY <1>1, <1>2, <1>3, <1>4, <1>5, CopyPartial

LEMMA OwnTag ==
  ASSUME NEW tmp \in Staged, NEW x \in Seq(Segs), Within(tmp, x)
  PROVE  Tagged(x, Token(tmp))
<1>1. Len(tmp) \in Nat /\ Len(tmp) > 0 /\ Len(x) \in Nat
  BY StagedFacts, LenProperties
<1>2. Len(tmp) \in 1..Len(x) /\ x[Len(tmp)] = tmp[Len(tmp)]
  BY <1>1 DEF Within
<1> QED
  BY <1>2 DEF Tagged, Token

(* A half-written file is made where only its own request will rename it.  *)
LEMMA NewPartial ==
  ASSUME ShapeInv, PartialInv, NEW r \in Requests, NEW q, req' = [req EXCEPT ![r] = q],
         NEW x, fs' = With(fs, x, File(inos + 1, Partial)),
         NEW mark \in Temps, Tagged(x, mark), HarmlessTo(q, mark, inos + 1),
         \A s \in Requests : s # r /\ req[s] # Nil => HarmlessTo(req[s], mark, inos + 1),
         \A t, n : t \in Temps /\ Harmless(t, n) /\ (\E y \in DOMAIN fs : Tagged(y, t))
                     => HarmlessTo(q, t, n)
  PROVE  PartialInv'
<1>1. PICK m : m = inos + 1
  OBVIOUS
<1>2. /\ \A y \in DOMAIN fs' : y = x \/ (y \in DOMAIN fs /\ fs'[y] = fs[y])
      /\ fs'[x].ino = m
  BY <1>1, NodeIs DEF With
<1>3. req'[r] = q /\ \A s \in Requests : s # r => req'[s] = req[s]
  BY DEF ShapeInv
<1>4. Harmless(mark, m)'
  <2>1. HarmlessTo(q, mark, m) /\ \A s \in Requests : s # r /\ req[s] # Nil => HarmlessTo(req[s], mark, m)
    BY <1>1
  <2>2. \A s \in Requests : req'[s] # Nil => HarmlessTo(req'[s], mark, m)
    BY <1>3, <2>1
  <2> QED
    BY <2>2 DEF Harmless, Live
<1>5. ASSUME NEW y \in DOMAIN fs, y \in DOMAIN fs', fs'[y] = fs[y], IsPartial(fs[y])
      PROVE  (\E t \in Temps : Tagged(y, t) /\ Harmless(t, fs[y].ino))'
  <2>1. PICK t \in Temps : Tagged(y, t) /\ Harmless(t, fs[y].ino)
    BY <1>5 DEF PartialInv
  <2>2. PICK n : n = fs[y].ino
    OBVIOUS
  <2>3. Harmless(t, n) /\ HarmlessTo(q, t, n)
    BY <2>1, <2>2
  <2>4. Harmless(t, n)'
    BY <2>3, HarmlessStep
  <2> QED
    BY <1>5, <2>1, <2>2, <2>4 DEF Harmless
<1>6. ASSUME x \in DOMAIN fs'
      PROVE  (\E t \in Temps : Tagged(x, t) /\ Harmless(t, fs[x].ino))'
  BY <1>2, <1>4 DEF Harmless
<1>7. ASSUME NEW y \in DOMAIN fs', IsPartial(fs'[y])
      PROVE  (\E t \in Temps : Tagged(y, t) /\ Harmless(t, fs[y].ino))'
  <2>1. CASE y = x
    BY <1>6, <1>7, <2>1
  <2>2. CASE y \in DOMAIN fs /\ fs'[y] = fs[y]
    BY <1>5, <1>7, <2>2
  <2> QED
    BY <1>2, <2>1, <2>2
<1> QED
  BY <1>7 DEF PartialInv

LEMMA createSiblingPartial ==
  ASSUME ShapeInv, PartialInv, NEW r \in Requests, createSibling(r)
  PROVE  PartialInv'
<1> DEFINE p == req[r].ask.path
<1>1. req[r] # Nil /\ req[r].ask.op = "PUT"
  BY DEF createSibling, In
<1>2. req[r] \in Request /\ p \in Paths
  BY <1>1, LiveFacts, AskFacts
<1>3. CASE Finish(r) /\ UNCHANGED <<fs, inos>>
  BY <1>3, FinishPartial, CarriesUnchanged
<1>4. CASE \E tmp \in Fresh(Parent(p)) :
             /\ fs' = With(fs, tmp, File(inos + 1, Partial))
             /\ req' = [req EXCEPT ![r].tmp = tmp, ![r].ino = inos + 1,
                                   ![r].phase = "write"]
  <2>1. PICK tmp \in Fresh(Parent(p)) :
             /\ fs' = With(fs, tmp, File(inos + 1, Partial))
             /\ req' = [req EXCEPT ![r].tmp = tmp, ![r].ino = inos + 1, ![r].phase = "write"]
    BY <1>4
  <2> DEFINE q == [req[r] EXCEPT !.tmp = tmp, !.ino = inos + 1, !.phase = "write"]
  <2>2. req' = [req EXCEPT ![r] = q]
    BY <2>1
  <2>3. /\ q.ask = req[r].ask /\ q.phase = "write" /\ q.tmp = tmp /\ q.ino = inos + 1
        /\ q.aside = req[r].aside
    BY <1>2 DEF Request
  <2> HIDE DEF q
  <2>4. Unfinished(q)
    BY <1>1, <2>3 DEF Unfinished
  <2>5. /\ tmp \in Staged /\ Token(tmp) \in Temps
        /\ \A x \in DOMAIN fs : \A i \in 1..Len(x) : x[i] # Token(tmp)
        /\ \A s \in Live : /\ req[s].tmp # Nil => Token(req[s].tmp) # Token(tmp)
                           /\ req[s].aside # Nil => Token(req[s].aside) # Token(tmp)
    BY <1>2, FreshFacts
  <2>6. HarmlessTo(q, Token(tmp), inos + 1)
    BY <1>1, <2>3, <2>4, <2>5 DEF HarmlessTo, Live
  <2>7. \A s \in Requests : s # r /\ req[s] # Nil => HarmlessTo(req[s], Token(tmp), inos + 1)
    <3> SUFFICES ASSUME NEW s \in Requests, req[s] # Nil
                 PROVE  HarmlessTo(req[s], Token(tmp), inos + 1)
      OBVIOUS
    <3>1. req[s].phase \in {"write", "fill"} => req[s].tmp # Nil
      BY LiveFacts, AskFacts, PhaseFacts DEF RequestOK
    <3> QED
      BY <2>5, <3>1 DEF HarmlessTo, Live
  <2>8. ASSUME NEW t \in Temps, NEW n, Harmless(t, n), NEW y \in DOMAIN fs, Tagged(y, t)
        PROVE  HarmlessTo(q, t, n)
    <3>1. Token(tmp) # t
      BY <2>5, <2>8 DEF Tagged
    <3> QED
      BY <1>1, <2>3, <2>4, <2>8, <3>1 DEF HarmlessTo, Harmless, Live
  <2>9. Tagged(tmp, Token(tmp))
    BY <2>5, OwnTag, StagedFacts, WithinFacts
  <2> QED
    BY <2>1, <2>2, <2>5, <2>6, <2>7, <2>8, <2>9, NewPartial
<1> QED
  BY <1>3, <1>4 DEF createSibling

(* When its bytes are there, nothing the request writes is half written.   *)
LEMMA FilledPartial ==
  ASSUME ShapeInv, PartialInv, NEW r \in Requests, req[r] # Nil,
         req[r].phase \in {"write", "fill"},
         NEW body \in Bodies \cup {Torn}, fs' = Filled(r, body),
         NEW q, req' = [req EXCEPT ![r] = q],
         q.tmp = req[r].tmp, q.aside = req[r].aside, q.phase \notin {"write", "fill"}
  PROVE  PartialInv'
<1> DEFINE ino == req[r].ino
<1>1. /\ DOMAIN fs' = DOMAIN fs
      /\ \A x \in DOMAIN fs : fs'[x] = IF fs[x].ino = ino THEN File(fs[x].ino, body) ELSE fs[x]
  BY DEF Filled
<1> HIDE DEF ino
<1>2. ~IsPartial(File(ino, body)) /\ File(ino, body).ino = ino
  <2>1. File(ino, body).body = body /\ File(ino, body).ino = ino
    BY DEF File
  <2> QED
    BY <2>1, LocalFSAssumption DEF IsPartial
<1>3. \A x \in DOMAIN fs' : IsPartial(fs'[x]) => fs'[x] = fs[x] /\ fs'[x].ino # ino
  <2> SUFFICES ASSUME NEW x \in DOMAIN fs, IsPartial(fs'[x])
               PROVE  fs'[x] = fs[x] /\ fs'[x].ino # ino
    BY <1>1
  <2>1. CASE fs[x].ino = ino
    BY <1>1, <1>2, <2>1
  <2>2. CASE fs[x].ino # ino
    BY <1>1, <2>2
  <2> QED
    BY <2>1, <2>2
<1>4. Carries
  BY <1>1, <1>3 DEF Carries
<1>5. ASSUME NEW t, NEW n, Marking(t, n)
      PROVE  HarmlessTo(q, t, n)
  <2>1. n # ino /\ HarmlessTo(req[r], t, n)
    BY <1>3, <1>5, MarkingHarmless DEF Marking
  <2>2. Token(req[r].tmp) # t
    BY <2>1 DEF HarmlessTo, ino
  <2> QED
    BY <2>1, <2>2 DEF HarmlessTo
<1> QED
  BY <1>4, <1>5, PartialStep

LEMMA WriteBodyPartial ==
  ASSUME ShapeInv, PartialInv, NEW r \in Requests, WriteBody(r)
  PROVE  PartialInv'
<1> DEFINE body == req[r].ask.body
           q == [req[r] EXCEPT !.phase = "rename"]
<1>1. /\ req[r] # Nil /\ req[r].ask.op = "PUT" /\ req[r].phase = "write"
      /\ GoTo(r, "rename") /\ fs' = Filled(r, body)
  BY DEF WriteBody, In
<1>2. req[r] \in Request /\ body \in Bodies
  BY <1>1, LiveFacts, AskFacts
<1> HIDE DEF body
<1>3. req' = [req EXCEPT ![r] = q]
  BY <1>1 DEF GoTo
<1>4. /\ q.tmp = req[r].tmp /\ q.aside = req[r].aside /\ q.phase = "rename"
  BY <1>2 DEF Request
<1> HIDE DEF q
<1> QED
  BY <1>1, <1>2, <1>3, <1>4, FilledPartial

LEMMA copyRegularFilePartial ==
  ASSUME ShapeInv, PartialInv, NEW r \in Requests, copyRegularFile(r)
  PROVE  PartialInv'
<1>1. req[r] # Nil /\ req[r].ask.op = "COPY" /\ req[r].phase = "fill"
  BY DEF copyRegularFile, In
<1>2. req[r] \in Request
  BY <1>1, LiveFacts
<1>3. PICK phase \in {"copy", "cleanup"} :
        /\ \/ \E body \in Read(r) : fs' = Filled(r, body)
           \/ phase = "cleanup" /\ UNCHANGED fs
        /\ req' = [req EXCEPT ![r].phase = phase, ![r].ino = 0, ![r].from = Nil]
  BY DEF copyRegularFile
<1> DEFINE q == [req[r] EXCEPT !.phase = phase, !.ino = 0, !.from = Nil]
<1>4. req' = [req EXCEPT ![r] = q]
  BY <1>3
<1>5. /\ q.tmp = req[r].tmp /\ q.aside = req[r].aside /\ q.phase = phase /\ q.ask = req[r].ask
  BY <1>2 DEF Request
<1> HIDE DEF q
<1>6. CASE \E body \in Read(r) : fs' = Filled(r, body)
  BY <1>1, <1>4, <1>5, <1>6, ReadFacts, FilledPartial
<1>7. CASE phase = "cleanup" /\ UNCHANGED fs
  <2>1. Unfinished(q)
    BY <1>1, <1>5, <1>7 DEF Unfinished
  <2>2. \A t, n : Marking(t, n) => HarmlessTo(q, t, n)
    BY <1>1, <1>5, <1>7, <2>1, SamePaths, MarkingHarmless
  <2> QED
    BY <1>4, <1>7, <2>2, CarriesUnchanged, PartialStep
<1> QED
  BY <1>3, <1>6, <1>7

LEMMA TempUntagged ==
  ASSUME ShapeInv, NEW r \in Requests, req[r] # Nil, req[r].tmp # Nil, ~Unfinished(req[r])
  PROVE  Untagged(req[r].tmp) /\ req[r].tmp \in Seq(Segs) \ {<<>>}
<1>1. req[r].tmp \in Staged
  BY LiveFacts DEF Request
<1>2. \A t \in Temps : \A n : Harmless(t, n) => Token(req[r].tmp) # t
  BY DEF Harmless, HarmlessTo, Live
<1> QED
  BY <1>1, <1>2, HeldUntagged, StagedFacts

LEMMA AsideUntagged ==
  ASSUME ShapeInv, NEW r \in Requests, req[r] # Nil, req[r].aside # Nil
  PROVE  Untagged(req[r].aside) /\ req[r].aside \in Seq(Segs) \ {<<>>}
<1>1. req[r].aside \in Staged
  BY LiveFacts DEF Request
<1>2. \A t \in Temps : \A n : Harmless(t, n) => Token(req[r].aside) # t
  BY DEF Harmless, HarmlessTo, Live
<1> QED
  BY <1>1, <1>2, HeldUntagged, StagedFacts

(* A new tree holds no half-written file that its own name hides. *)
LEMMA NewTreeUntagged ==
  ASSUME ShapeInv, NEW r \in Requests, req[r] # Nil, req[r].ask.op \in {"COPY", "MOVE"},
         ~Unfinished(req[r])
  PROVE  Untagged(NewTree(r))
<1>1. CASE req[r].ask.op = "COPY"
  <2>1. req[r].tmp # Nil
    BY <1>1, LiveFacts DEF RequestOK
  <2> QED
    BY <1>1, <2>1, TempUntagged DEF NewTree
<1>2. CASE req[r].ask.op = "MOVE"
  BY <1>2, SwapFacts, PathUntagged DEF NewTree
<1> QED
  BY <1>1, <1>2

LEMMA RenameTempPartial ==
  ASSUME ShapeInv, PartialInv, NEW r \in Requests, RenameTemp(r)
  PROVE  PartialInv'
<1> DEFINE tmp == req[r].tmp
           p == req[r].ask.path
<1>1. req[r] # Nil /\ req[r].ask.op = "PUT" /\ req[r].phase = "rename"
  BY DEF RenameTemp, In
<1>2. p \in Seq(Segs) /\ tmp # Nil /\ ~Unfinished(req[r])
  BY <1>1, LiveFacts, AskFacts, PathFacts DEF RequestOK, Unfinished
<1>3. CASE fs' = Moved(fs, tmp, p) /\ Finish(r)
  BY <1>1, <1>2, <1>3, TempUntagged, CarriesMoved, FinishPartial
<1>4. CASE GoTo(r, "cleanup") /\ UNCHANGED fs
  BY <1>1, <1>4, CarriesUnchanged, GoToPartial
<1> QED
  BY <1>3, <1>4 DEF RenameTemp

LEMMA RemovePartial ==
  ASSUME ShapeInv, PartialInv, NEW r \in Requests,
         Remove(r) \/ RemoveMember(r) \/ RemoveEmptied(r) \/ RemoveFails(r)
  PROVE  PartialInv'
<1>1. req[r] # Nil /\ req[r].ask.op = "DELETE" /\ req[r] \in Request
  BY LiveFacts DEF Remove, RemoveMember, RemoveEmptied, RemoveFails, In
<1>2. Carries
  <2>1. fs' = fs \/ \E a : fs' = Without(fs, a)
    BY DEF Remove, RemoveMember, RemoveEmptied, RemoveFails
  <2> QED
    BY <2>1, CarriesUnchanged, CarriesWithout
<1>3. CASE Finish(r)
  BY <1>2, <1>3, FinishPartial
<1>4. CASE UNCHANGED req
  BY <1>2, <1>4, SameRequests
<1>5. ASSUME NEW ino, NEW todo,
             req' = [req EXCEPT ![r].phase = "empty", ![r].ino = ino, ![r].todo = todo]
      PROVE  PartialInv'
  <2> DEFINE q == [req[r] EXCEPT !.phase = "empty", !.ino = ino, !.todo = todo]
  <2>1. req' = [req EXCEPT ![r] = q]
    BY <1>5
  <2>2. q.tmp = req[r].tmp /\ q.aside = req[r].aside /\ q.phase = "empty" /\ q.ask = req[r].ask
    BY <1>1 DEF Request
  <2> HIDE DEF q
  <2>3. ~Unfinished(req[r])
    BY <1>1 DEF Unfinished
  <2>4. \A t, n : Marking(t, n) => HarmlessTo(q, t, n)
    BY <1>1, <2>2, <2>3, SamePaths, MarkingHarmless
  <2> QED
    BY <1>2, <2>1, <2>4, PartialStep
<1>6. ASSUME NEW todo, req' = [req EXCEPT ![r].todo = todo]
      PROVE  PartialInv'
  <2> DEFINE q == [req[r] EXCEPT !.todo = todo]
  <2>1. req' = [req EXCEPT ![r] = q]
    BY <1>6
  <2>2. /\ q.tmp = req[r].tmp /\ q.aside = req[r].aside /\ q.phase = req[r].phase
        /\ q.ask = req[r].ask /\ q.ino = req[r].ino
    BY <1>1 DEF Request
  <2> HIDE DEF q
  <2>3. ~Unfinished(req[r])
    BY <1>1 DEF Unfinished
  <2>4. \A t, n : Marking(t, n) => HarmlessTo(q, t, n)
    BY <1>1, <2>2, <2>3, SamePaths, MarkingHarmless
  <2> QED
    BY <1>2, <2>1, <2>4, PartialStep
<1> QED
  BY <1>3, <1>4, <1>5, <1>6 DEF Remove, RemoveMember, RemoveEmptied, RemoveFails

LEMMA copyTreePartial ==
  ASSUME ShapeInv, PartialInv, TokensApart, NEW r \in Requests, copyTree(r)
  PROVE  PartialInv'
<1> DEFINE ask == req[r].ask
           Target(x) == Rebased(x, ask.path, req[r].tmp)
<1>1. /\ req[r] # Nil /\ ask.op = "COPY" /\ req[r].phase = "copy" /\ In(r, "COPY", "copy")
  BY DEF copyTree, In
<1>2. /\ req[r] \in Request /\ ~Unfinished(req[r]) /\ req[r].tmp \in Staged
  BY <1>1, LiveFacts DEF RequestOK, Request, Unfinished
<1>3. CASE GoTo(r, "cleanup") /\ UNCHANGED <<fs, inos>>
  BY <1>1, <1>3, CarriesUnchanged, GoToPartial
<1>4. ASSUME NEW target, fs' = With(fs, target, Collection(inos + 1)),
             NEW todo, req' = [req EXCEPT ![r].todo = todo]
      PROVE  PartialInv'
  <2> DEFINE q == [req[r] EXCEPT !.todo = todo]
  <2>1. req' = [req EXCEPT ![r] = q]
    BY <1>4
  <2>2. /\ q.tmp = req[r].tmp /\ q.aside = req[r].aside /\ q.phase = req[r].phase
        /\ q.ask = ask /\ q.ino = req[r].ino
    BY <1>2 DEF Request
  <2> HIDE DEF q
  <2>3. \A t, n : Marking(t, n) => HarmlessTo(q, t, n)
    BY <1>1, <1>2, <2>2, SamePaths, MarkingHarmless
  <2> QED
    BY <1>4, <2>1, <2>3, CollectionWhole, CarriesWith, PartialStep
<1>5. ASSUME NEW x \in req[r].todo, CanCopy(x, Target(x)),
             fs' = With(fs, Target(x), File(inos + 1, Partial)),
             NEW todo, NEW from,
             req' = [req EXCEPT ![r].todo = todo, ![r].phase = "fill",
                                ![r].ino = inos + 1, ![r].from = from]
      PROVE  PartialInv'
  <2> DEFINE q == [req[r] EXCEPT !.todo = todo, !.phase = "fill",
                                 !.ino = inos + 1, !.from = from]
             target == Target(x)
             mark == Token(req[r].tmp)
  <2>1. req' = [req EXCEPT ![r] = q]
    BY <1>5
  <2>2. /\ q.tmp = req[r].tmp /\ q.aside = req[r].aside /\ q.phase = "fill"
        /\ q.ask = ask /\ q.ino = inos + 1
    BY <1>2 DEF Request
  <2> HIDE DEF q
  <2>3. fs' = With(fs, target, File(inos + 1, Partial))
    BY <1>5
  <2>4. target \in Seq(Segs) /\ Within(req[r].tmp, target)
    BY <1>1, <1>5, WalkFacts DEF CanCopy
  <2> HIDE DEF target
  <2>5. Tagged(target, mark) /\ mark \in Temps /\ req[r].tmp # Nil
    BY <1>2, <2>4, OwnTag, StagedFacts
  <2>6. Unfinished(q)
    BY <1>1, <2>2 DEF Unfinished
  <2>7. \A s \in Requests : req[s] # Nil => (req[s].aside # Nil => Token(req[s].aside) # mark)
    BY <1>1, <2>5 DEF TokensApart, Live
  <2>8. HarmlessTo(q, mark, inos + 1)
    BY <1>1, <2>2, <2>6, <2>7 DEF HarmlessTo
  <2>9. ASSUME NEW s \in Requests, s # r, req[s] # Nil
        PROVE  HarmlessTo(req[s], mark, inos + 1)
    <3>1. req[s].tmp # Nil => Token(req[s].tmp) # mark
      BY <1>1, <2>5, <2>9 DEF TokensApart, Live
    <3>2. req[s].phase \in {"write", "fill"} => req[s].tmp # Nil
      BY <2>9, LiveFacts, AskFacts, PhaseFacts DEF RequestOK
    <3> QED
      BY <2>7, <2>9, <3>1, <3>2 DEF HarmlessTo
  <2>10. ASSUME NEW t, NEW n, Harmless(t, n)
         PROVE  HarmlessTo(q, t, n)
    <3>1. HarmlessTo(req[r], t, n)
      BY <1>1, <2>10 DEF Harmless, Live
    <3> QED
      BY <1>2, <2>2, <2>5, <3>1 DEF HarmlessTo
  <2> HIDE DEF mark
  <2> QED
    BY <2>1, <2>3, <2>5, <2>8, <2>9, <2>10, NewPartial
<1> QED
  BY <1>3, <1>4, <1>5 DEF copyTree

LEMMA SetAsidePartial ==
  ASSUME ShapeInv, PartialInv, NEW r \in Requests, SetAside(r)
  PROVE  PartialInv'
<1> DEFINE dst == req[r].ask.dst
<1>1. req[r] # Nil /\ req[r].ask.op \in {"COPY", "MOVE"} /\ ~Unfinished(req[r])
  BY SwapIsTransfer DEF SetAside
<1>2. req[r] \in Request /\ dst \in Paths /\ dst \in Seq(Segs)
  BY <1>1, SwapFacts
<1>3. CASE \E aside \in Fresh(Parent(dst)) :
             /\ fs' = Moved(fs, dst, aside)
             /\ req' = [req EXCEPT ![r].aside = aside, ![r].phase = "swapIn"]
  <2>1. PICK aside \in Fresh(Parent(dst)) :
             /\ fs' = Moved(fs, dst, aside)
             /\ req' = [req EXCEPT ![r].aside = aside, ![r].phase = "swapIn"]
    BY <1>3
  <2> DEFINE q == [req[r] EXCEPT !.aside = aside, !.phase = "swapIn"]
  <2>2. aside \in Seq(Segs)
    BY <1>2, FreshFacts, StagedFacts
  <2>3. Carries
    BY <1>2, <2>1, <2>2, PathUntagged, CarriesMoved
  <2>4. req' = [req EXCEPT ![r] = q]
    BY <2>1
  <2>5. q.tmp = req[r].tmp /\ q.aside = aside /\ q.phase = "swapIn" /\ q.ask = req[r].ask
    BY <1>2 DEF Request
  <2> HIDE DEF q, dst
  <2>6. \A t, n : Marking(t, n) => HarmlessTo(q, t, n)
    BY <1>1, <1>2, <2>5, FreshUnmarked, MarkingHarmless DEF HarmlessTo
  <2> QED
    BY <2>3, <2>4, <2>6, PartialStep
<1>4. CASE Abandon(r) /\ UNCHANGED fs
  BY <1>1, <1>4, AbandonPartial, CarriesUnchanged
<1> QED
  BY <1>3, <1>4 DEF SetAside

LEMMA SwapPartial ==
  ASSUME ShapeInv, PartialInv, NEW r \in Requests, RenameNew(r) \/ SwapIn(r)
  PROVE  PartialInv'
<1>1. req[r] # Nil /\ req[r].ask.op \in {"COPY", "MOVE"} /\ ~Unfinished(req[r])
  BY SwapIsTransfer DEF RenameNew, SwapIn
<1>2. /\ NewTree(r) \in Seq(Segs) /\ req[r].ask.dst \in Seq(Segs)
      /\ Untagged(NewTree(r))
  BY <1>1, SwapFacts, NewTreeUntagged
<1>3. fs' = fs \/ fs' = Moved(fs, NewTree(r), req[r].ask.dst)
  BY DEF RenameNew, SwapIn
<1>4. Carries
  BY <1>2, <1>3, CarriesUnchanged, CarriesMoved
<1>5. Finish(r) \/ Abandon(r) \/ GoTo(r, "discard") \/ GoTo(r, "restore")
  BY DEF RenameNew, SwapIn
<1> QED
  BY <1>1, <1>2, <1>4, <1>5, FinishPartial, AbandonPartial, GoToPartial

LEMMA RestorePartial ==
  ASSUME ShapeInv, PartialInv, NEW r \in Requests, Restore(r)
  PROVE  PartialInv'
<1>1. /\ req[r] # Nil /\ req[r].ask.op \in {"COPY", "MOVE"}
      /\ req[r].phase = "restore" /\ Abandon(r)
  BY SwapIsTransfer DEF Restore
<1>2. req[r].aside # Nil /\ req[r].ask.dst \in Seq(Segs)
  BY <1>1, LiveFacts, SwapFacts DEF RequestOK
<1>3. fs' = fs \/ fs' = Moved(fs, req[r].aside, req[r].ask.dst)
  BY DEF Restore
<1>4. Carries
  BY <1>1, <1>2, <1>3, CarriesUnchanged, AsideUntagged, CarriesMoved
<1> QED
  BY <1>1, <1>4, AbandonPartial

LEMMA ContinuePartial ==
  ASSUME ShapeInv, PartialInv, TokensApart, NEW r \in Requests, Continue(r)
  PROVE  PartialInv'
<1>1. CASE Cleanup(r) \/ Discard(r)
  BY <1>1, FinishPartial, CarriesWithout, CarriesUnchanged DEF Cleanup, Discard
<1>2. CASE BodyBreaks(r)
  BY <1>2, CarriesUnchanged, GoToPartial DEF BodyBreaks, In, Unfinished
<1> QED
  BY <1>1, <1>2, createSiblingPartial, WriteBodyPartial, RenameTempPartial, RemovePartial,
     copyTreePartial, copyRegularFilePartial, SetAsidePartial, SwapPartial, RestorePartial
     DEF Continue

LEMMA PartialNext ==
  ASSUME ShapeInv, PartialInv, TokensApart, [Next]_vars
  PROVE  PartialInv'
<1>1. CASE Crash
  <2>1. fs' = fs /\ \A r \in Requests : req'[r] = Nil
    BY <1>1 DEF Crash
  <2> QED
    BY <2>1 DEF PartialInv, Harmless, Live
<1>2. CASE UNCHANGED vars
  BY <1>2 DEF vars, PartialInv, Harmless, Live
<1> QED
  BY <1>1, <1>2, BeginPartial, ContinuePartial DEF Next

---------------------------------------------------------------------------
(* Temporary names stay apart.                                             *)

(* The request holds what it held. *)
Keeps(q, p) ==
  \/ q = Nil
  \/ q.tmp = Nil /\ q.aside = Nil
  \/ p # Nil /\ q.tmp = p.tmp /\ q.aside = p.aside

LEMMA ApartKept ==
  ASSUME TokensApart, \A r \in Requests : Keeps(req'[r], req[r])
  PROVE  TokensApart'
BY DEF TokensApart, Keeps, Live

LEMMA ApartStep ==
  ASSUME ShapeInv, TokensApart, NEW r \in Requests, NEW q, req' = [req EXCEPT ![r] = q],
         Keeps(q, req[r])
  PROVE  TokensApart'
<1>1. req'[r] = q /\ \A s \in Requests : s # r => req'[s] = req[s]
  BY DEF ShapeInv
<1>2. \A s \in Requests : Keeps(req'[s], req[s])
  BY <1>1 DEF Keeps
<1> QED
  BY <1>2, ApartKept

(* The one new name is fresh. *)
LEMMA ApartFresh ==
  ASSUME ShapeInv, TokensApart, NEW r \in Requests, NEW q, req' = [req EXCEPT ![r] = q],
         NEW p \in Paths, NEW h \in Fresh(Parent(p)),
         \/ q.tmp = h /\ (q.aside = Nil \/ (req[r] # Nil /\ q.aside = req[r].aside))
         \/ q.aside = h /\ req[r] # Nil /\ q.tmp = req[r].tmp
  PROVE  TokensApart'
<1>1. req'[r] = q /\ \A s \in Requests : s # r => req'[s] = req[s]
  BY DEF ShapeInv
<1>2. \A s \in Live : /\ req[s].tmp # Nil => Token(req[s].tmp) # Token(h)
                      /\ req[s].aside # Nil => Token(req[s].aside) # Token(h)
  BY FreshFacts
<1>3. CASE q.tmp = h /\ (q.aside = Nil \/ (req[r] # Nil /\ q.aside = req[r].aside))
  BY <1>1, <1>2, <1>3 DEF TokensApart, Live
<1>4. CASE q.aside = h /\ req[r] # Nil /\ q.tmp = req[r].tmp
  BY <1>1, <1>2, <1>4 DEF TokensApart, Live
<1> QED
  BY <1>3, <1>4

LEMMA ApartBegin ==
  ASSUME ShapeInv, TokensApart, NEW r \in Requests, Begin(r)
  PROVE  TokensApart'
<1>1. PICK p \in Paths :
        \/ \E ifMatch \in Headers, ifNoneMatch \in Headers :
             \/ \E body \in Bodies : Create(r, p, ifMatch, ifNoneMatch, body)
             \/ RemoveAll(r, p, ifMatch, ifNoneMatch)
        \/ \E dst \in Paths, overwrite \in BOOLEAN :
             \/ \E deep \in BOOLEAN : Copy(r, p, dst, deep, overwrite)
             \/ Move(r, p, dst, overwrite)
        \/ Mkdir(r, p)
  BY DEF Begin
<1>2. ASSUME NEW ask, NEW phase, NEW existed,
             req' = [req EXCEPT ![r] = Serving(ask, phase, existed)]
      PROVE  TokensApart'
  <2> DEFINE q == Serving(ask, phase, existed)
  <2>1. q.tmp = Nil /\ q.aside = Nil
    BY DEF Serving
  <2>2. req' = [req EXCEPT ![r] = q]
    BY <1>2
  <2> HIDE DEF q
  <2> QED
    BY <2>1, <2>2, ApartStep DEF Keeps
<1>3. ASSUME NEW dst \in Paths, NEW deep, NEW overwrite, Copy(r, p, dst, deep, overwrite)
      PROVE  TokensApart'
  <2> DEFINE ask == [op |-> "COPY", path |-> p, dst |-> dst, deep |-> deep,
                     overwrite |-> overwrite]
             existed == dst \in DOMAIN fs
  <2>1. PICK tmp \in Fresh(Parent(dst)) :
          req' = [req EXCEPT ![r] =
            [Serving(ask, "copy", existed) EXCEPT !.tmp = tmp, !.todo = {p}]]
    BY <1>3 DEF Copy
  <2> DEFINE q == [Serving(ask, "copy", existed) EXCEPT !.tmp = tmp, !.todo = {p}]
  <2> HIDE DEF ask, existed
  <2>2. q.tmp = tmp /\ q.aside = Nil
    BY DEF Serving
  <2>3. req' = [req EXCEPT ![r] = q]
    BY <2>1
  <2> HIDE DEF q
  <2> QED
    BY <2>2, <2>3, ApartFresh
<1>4. ASSUME Mkdir(r, p)
      PROVE  TokensApart'
  BY <1>4 DEF Mkdir, TokensApart, Live
<1> QED
  BY <1>1, <1>2, <1>3, <1>4 DEF Create, RemoveAll, Move

(* Most calls leave the request what it holds. *)
LEMMA ApartSame ==
  ASSUME ShapeInv, TokensApart, NEW r \in Requests, req[r] # Nil,
         NEW phase, NEW ino, NEW todo, NEW from,
         \/ Finish(r)
         \/ GoTo(r, phase)
         \/ req' = [req EXCEPT ![r].todo = todo]
         \/ req' = [req EXCEPT ![r].phase = phase, ![r].ino = ino, ![r].todo = todo]
         \/ req' = [req EXCEPT ![r].todo = todo, ![r].phase = phase, ![r].ino = ino,
                               ![r].from = from]
         \/ req' = [req EXCEPT ![r].phase = phase, ![r].ino = ino, ![r].from = from]
  PROVE  TokensApart'
<1>1. req[r] \in Request
  BY LiveFacts
<1>2. ASSUME NEW q, req' = [req EXCEPT ![r] = q], q.tmp = req[r].tmp, q.aside = req[r].aside
      PROVE  TokensApart'
  BY <1>2, ApartStep DEF Keeps
<1>3. CASE Finish(r)
  BY <1>3, ApartStep DEF Finish, Keeps
<1>4. CASE GoTo(r, phase)
  <2> DEFINE q == [req[r] EXCEPT !.phase = phase]
  <2>1. req' = [req EXCEPT ![r] = q] /\ q.tmp = req[r].tmp /\ q.aside = req[r].aside
    BY <1>1, <1>4 DEF GoTo, Request
  <2> HIDE DEF q
  <2> QED
    BY <1>2, <2>1
<1>5. CASE req' = [req EXCEPT ![r].todo = todo]
  <2> DEFINE q == [req[r] EXCEPT !.todo = todo]
  <2>1. req' = [req EXCEPT ![r] = q] /\ q.tmp = req[r].tmp /\ q.aside = req[r].aside
    BY <1>1, <1>5 DEF Request
  <2> HIDE DEF q
  <2> QED
    BY <1>2, <2>1
<1>6. CASE req' = [req EXCEPT ![r].phase = phase, ![r].ino = ino, ![r].todo = todo]
  <2> DEFINE q == [req[r] EXCEPT !.phase = phase, !.ino = ino, !.todo = todo]
  <2>1. req' = [req EXCEPT ![r] = q] /\ q.tmp = req[r].tmp /\ q.aside = req[r].aside
    BY <1>1, <1>6 DEF Request
  <2> HIDE DEF q
  <2> QED
    BY <1>2, <2>1
<1>7. CASE req' = [req EXCEPT ![r].todo = todo, ![r].phase = phase, ![r].ino = ino,
                              ![r].from = from]
  <2> DEFINE q == [req[r] EXCEPT !.todo = todo, !.phase = phase, !.ino = ino, !.from = from]
  <2>1. req' = [req EXCEPT ![r] = q] /\ q.tmp = req[r].tmp /\ q.aside = req[r].aside
    BY <1>1, <1>7 DEF Request
  <2> HIDE DEF q
  <2> QED
    BY <1>2, <2>1
<1>8. CASE req' = [req EXCEPT ![r].phase = phase, ![r].ino = ino, ![r].from = from]
  <2> DEFINE q == [req[r] EXCEPT !.phase = phase, !.ino = ino, !.from = from]
  <2>1. req' = [req EXCEPT ![r] = q] /\ q.tmp = req[r].tmp /\ q.aside = req[r].aside
    BY <1>1, <1>8 DEF Request
  <2> HIDE DEF q
  <2> QED
    BY <1>2, <2>1
<1> QED
  BY <1>3, <1>4, <1>5, <1>6, <1>7, <1>8

LEMMA ApartContinue ==
  ASSUME ShapeInv, TokensApart, NEW r \in Requests, Continue(r)
  PROVE  TokensApart'
<1>1. CASE createSibling(r)
  <2> DEFINE p == req[r].ask.path
  <2>1. req[r] # Nil /\ req[r].ask.op = "PUT" /\ req[r].phase = "create"
    BY <1>1 DEF createSibling, In
  <2>2. req[r] \in Request /\ p \in Paths
    BY <2>1, LiveFacts, AskFacts
  <2>3. CASE Finish(r)
    BY <2>1, <2>3, ApartSame
  <2>4. ASSUME NEW tmp \in Fresh(Parent(p)),
               req' = [req EXCEPT ![r].tmp = tmp, ![r].ino = inos + 1, ![r].phase = "write"]
        PROVE  TokensApart'
    <3> DEFINE q == [req[r] EXCEPT !.tmp = tmp, !.ino = inos + 1, !.phase = "write"]
    <3>1. req' = [req EXCEPT ![r] = q] /\ q.tmp = tmp /\ q.aside = req[r].aside
      BY <2>2, <2>4 DEF Request
    <3> HIDE DEF q
    <3> QED
      BY <2>1, <2>2, <2>4, <3>1, ApartFresh
  <2> QED
    BY <1>1, <2>3, <2>4 DEF createSibling
<1>2. CASE SetAside(r)
  <2> DEFINE dst == req[r].ask.dst
  <2>1. req[r] # Nil /\ req[r].ask.op \in {"COPY", "MOVE"}
    BY <1>2, SwapIsTransfer DEF SetAside
  <2>2. req[r] \in Request /\ dst \in Paths
    BY <2>1, SwapFacts
  <2>3. CASE Abandon(r)
    BY <2>1, <2>3, ApartSame DEF Abandon
  <2>4. ASSUME NEW aside \in Fresh(Parent(dst)),
               req' = [req EXCEPT ![r].aside = aside, ![r].phase = "swapIn"]
        PROVE  TokensApart'
    <3> DEFINE q == [req[r] EXCEPT !.aside = aside, !.phase = "swapIn"]
    <3>1. req' = [req EXCEPT ![r] = q] /\ q.aside = aside /\ q.tmp = req[r].tmp
      BY <2>2, <2>4 DEF Request
    <3> HIDE DEF q
    <3> QED
      BY <2>1, <2>2, <2>4, <3>1, ApartFresh
  <2> QED
    BY <1>2, <2>3, <2>4 DEF SetAside
<1>3. CASE RemoveMember(r)
  <2>1. CASE UNCHANGED req
    BY <2>1 DEF TokensApart, Live
  <2>2. CASE \E todo : req' = [req EXCEPT ![r].todo = todo]
    BY <1>3, <2>2, ApartSame DEF RemoveMember, In
  <2>3. UNCHANGED req \/ \E name : req' = [req EXCEPT ![r].todo = @ \ {name}]
    BY <1>3 DEF RemoveMember
  <2> QED
    BY <2>1, <2>2, <2>3
<1>4. CASE copyTree(r)
  <2>1. req[r] # Nil
    BY <1>4 DEF copyTree, In
  <2>2. \/ GoTo(r, "cleanup")
        \/ \E x : req' = [req EXCEPT ![r].todo =
             (@ \ {x}) \cup IF req[r].ask.deep THEN MembersOf(fs, x) ELSE {}]
        \/ \E x : req' = [req EXCEPT ![r].todo = @ \ {x}, ![r].phase = "fill",
                                     ![r].ino = inos + 1, ![r].from = fs[x]]
    BY <1>4 DEF copyTree
  <2>3. ASSUME NEW x, req' = [req EXCEPT ![r].todo =
                        (@ \ {x}) \cup IF req[r].ask.deep THEN MembersOf(fs, x) ELSE {}]
        PROVE  TokensApart'
    BY <2>1, <2>3, ApartSame
  <2>4. ASSUME NEW x, req' = [req EXCEPT ![r].todo = @ \ {x}, ![r].phase = "fill",
                                         ![r].ino = inos + 1, ![r].from = fs[x]]
        PROVE  TokensApart'
    BY <2>1, <2>4, ApartSame
  <2> QED
    BY <2>1, <2>2, <2>3, <2>4, ApartSame
<1>5. CASE Remove(r) \/ copyRegularFile(r)
  <2>1. req[r] # Nil
    BY <1>5 DEF Remove, copyRegularFile, In
  <2>2. \/ Finish(r)
        \/ \E ino, todo : req' = [req EXCEPT ![r].phase = "empty", ![r].ino = ino, ![r].todo = todo]
        \/ \E phase : req' = [req EXCEPT ![r].phase = phase, ![r].ino = 0, ![r].from = Nil]
    BY <1>5 DEF Remove, copyRegularFile
  <2>3. ASSUME NEW ino, NEW todo,
               req' = [req EXCEPT ![r].phase = "empty", ![r].ino = ino, ![r].todo = todo]
        PROVE  TokensApart'
    BY <2>1, <2>3, ApartSame
  <2>4. ASSUME NEW phase, req' = [req EXCEPT ![r].phase = phase, ![r].ino = 0, ![r].from = Nil]
        PROVE  TokensApart'
    BY <2>1, <2>4, ApartSame
  <2> QED
    BY <2>1, <2>2, <2>3, <2>4, ApartSame
<1>6. CASE WriteBody(r) \/ BodyBreaks(r) \/ RenameTemp(r) \/ RemoveEmptied(r) \/ RemoveFails(r)
  BY <1>6, ApartSame DEF WriteBody, BodyBreaks, RenameTemp, RemoveEmptied, RemoveFails, In
<1>7. CASE RenameNew(r) \/ SwapIn(r) \/ Restore(r) \/ Discard(r) \/ Cleanup(r)
  BY <1>7, ApartSame, SwapIsTransfer DEF RenameNew, SwapIn, Restore, Discard, Cleanup, Abandon
<1> QED
  BY <1>1, <1>2, <1>3, <1>4, <1>5, <1>6, <1>7 DEF Continue

LEMMA ApartNext ==
  ASSUME ShapeInv, TokensApart, [Next]_vars
  PROVE  TokensApart'
<1>1. CASE Crash \/ UNCHANGED vars
  BY <1>1 DEF Crash, vars, TokensApart, Live
<1> QED
  BY <1>1, ApartBegin, ApartContinue DEF Next

(* No client ever finds a file that a request began to write and has not   *)
(* finished under a name it could ask for: a temporary file may be moved   *)
(* with the collection it is in, or left there by a crash, and stays       *)
(* hidden, for a request that renames by a temporary name has filled what  *)
(* it made there.                                                          *)
THEOREM NoHalfWrittenResource == Spec => []NoPartialResource
<1>1. Init => ShapeInv /\ PartialInv /\ TokensApart
  <2>1. Init => DOMAIN fs = {}
    BY DEF Init
  <2> QED
    BY <2>1, ShapeInit DEF PartialInv, TokensApart, Live, Init
<1>2. ShapeInv /\ PartialInv /\ TokensApart /\ [Next]_vars
        => (ShapeInv /\ PartialInv /\ TokensApart)'
  BY ShapeNext, PartialNext, ApartNext
<1>3. ShapeInv /\ PartialInv => NoPartialResource
  <2> SUFFICES ASSUME ShapeInv, PartialInv, NEW p \in DOMAIN fs,
                      fs[p].file, fs[p].body = Partial
               PROVE  Hidden(p)
    BY DEF NoPartialResource
  <2>1. PICK t \in Temps : Tagged(p, t)
    BY DEF PartialInv, IsPartial
  <2>2. p # Nil
    BY TreeStays, LocalFSAssumption DEF Segs
  <2> QED
    BY <2>1, <2>2 DEF Hidden, Tagged
<1> QED
  BY <1>1, <1>2, <1>3, PTL DEF Spec
=============================================================================
