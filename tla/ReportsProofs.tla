--------------------------- MODULE ReportsProofs ---------------------------
(***************************************************************************)
(* What a client gets from a REPORT or a listing, for every collection,    *)
(* every budget and every moment at which the connection may break.        *)
(*                                                                         *)
(* First the writer: what each of its methods makes of a document under    *)
(* way (Open) and of one that is complete (Ended), whoever calls it.  Then *)
(* the handlers: what has been matched, and what has been written of it.   *)
(***************************************************************************)
EXTENDS Reports, FiniteSetTheorems, WellFoundedInduction, TLAPS

(* What the rows of a document are about, and that no two are about the    *)
(* same.                                                                   *)
SentIn(d) == {d.wire[i].of : i \in At(d, "row")}

OnceIn(d) == \A i, j \in At(d, "row") : d.wire[i].of = d.wire[j].of => i = j

Marked(d) == At(d, "marker") # {}

(* A document under way: nothing, or the open tag, rows, and a marker if a *)
(* budget ran out.  When start could not write, there is no encoder and no *)
(* connection.                                                             *)
Open(d) ==
  /\ d \in Writer
  /\ \A i \in DOMAIN d.wire :
       /\ d.wire[i].kind \in {"open", "row", "marker"}
       /\ d.wire[i].kind = "open" <=> i = 1
       /\ d.wire[i].kind = "marker" => i = Len(d.wire) /\ d.exhausted
  /\ RowsWithinLimit(d)
  /\ ~d.closed
  /\ d.status = IF d.started THEN "207" ELSE "none"
  /\ d.ready <=> d.wire # <<>>
  /\ ~d.started => ~d.ready /\ ~d.exhausted /\ d.bytes = 0
  /\ d.started /\ d.up => d.ready
  /\ d.exhausted /\ d.up => Marked(d)

(* A document that was closed or given up. *)
Ended(d) ==
  /\ d \in Writer
  /\ WellFormed(d)
  /\ RowsWithinLimit(d)
  /\ At(d, "error text") = {}
  /\ d.status \in {"207", "error"}
  /\ d.status = "error" => d.wire = <<>>
  /\ d.up /\ d.status # "error" => d.wire # <<>> /\ Last(d.wire).kind = "close"

LEMMA OpenIsWellFormed ==
  ASSUME NEW d, Open(d)
  PROVE  /\ WellFormed(d) /\ RowsWithinLimit(d)
         /\ At(d, "error text") = {} /\ At(d, "token") = {} /\ At(d, "failure") = {}
         /\ d.status # "error"
<1>1. d.wire \in Seq(Piece)
  BY DEF Open, Writer
<1>2. \A i \in DOMAIN d.wire : d.wire[i].kind \in {"open", "row", "marker"}
  BY DEF Open
<1>3. At(d, "close") = {} /\ At(d, "token") = {} /\ At(d, "error text") = {} /\ At(d, "failure") = {}
  BY <1>2 DEF At
<1>4. \A i \in At(d, "marker"), j \in At(d, "row") : j < i
  BY <1>1 DEF Open, At
<1>5. \A i \in DOMAIN d.wire : d.wire[i].kind = "open" <=> i = 1
  BY DEF Open
<1> QED
  BY <1>3, <1>4, <1>5 DEF Open, WellFormed

LEMMA NewWriterOpen ==
  ASSUME NEW limit \in Int, NEW echoSize \in Nat, NEW echoLimit \in Int
  PROVE  LET n == NewWriter(limit, echoSize, echoLimit) IN
         /\ Open(n) /\ ~n.started /\ n.up /\ n.token = Nil
         /\ ~n.exhausted /\ ~n.declared /\ n.echoLimit = echoLimit
         /\ SentIn(n) = {} /\ OnceIn(n)
<1> DEFINE n == NewWriter(limit, echoSize, echoLimit)
<1>1. n.wire = <<>> /\ DOMAIN n.wire = {}
  BY DEF NewWriter
<1>2. n \in Writer
  BY DEF NewWriter, Writer
<1>3. \A kind : At(n, kind) = {}
  BY <1>1 DEF At
<1>4. /\ ~n.closed /\ n.token = Nil /\ n.status = "none" /\ ~n.started /\ ~n.ready
      /\ ~n.exhausted /\ n.bytes = 0 /\ n.up /\ ~n.declared /\ n.echoLimit = echoLimit
  BY DEF NewWriter
<1> HIDE DEF n
<1>5. Open(n)
  BY <1>1, <1>2, <1>3, <1>4 DEF Open, RowsWithinLimit
<1> QED
  BY <1>3, <1>4, <1>5 DEF n, SentIn, OnceIn

(* Two states of a writer that differ in what is on the wire alone. *)
SameWriter(d, e) ==
  /\ e.up = d.up /\ e.status = d.status /\ e.limit = d.limit
  /\ e.echoSize = d.echoSize /\ e.echoLimit = d.echoLimit
  /\ e.token = d.token /\ e.written = d.written /\ e.started = d.started
  /\ e.ready = d.ready /\ e.closed = d.closed /\ e.exhausted = d.exhausted
  /\ e.declared = d.declared

(* One document was made of the other: the writer has the same limits, the *)
(* same token and the same connection.                                     *)
Continues(d, e) ==
  /\ e.up = d.up /\ e.limit = d.limit /\ e.token = d.token
  /\ e.echoSize = d.echoSize /\ e.echoLimit = d.echoLimit

LEMMA BrokenOpen ==
  ASSUME NEW d, Open(d)
  PROVE  LET b == Broken(d) IN
         /\ Open(b) /\ b.started = d.started /\ ~b.up
         /\ b.token = d.token /\ b.echoLimit = d.echoLimit
         /\ b.exhausted = d.exhausted /\ b.declared = d.declared
         /\ SentIn(b) = SentIn(d)
         /\ OnceIn(d) => OnceIn(b)
<1> DEFINE b == Broken(d)
<1>1. d \in Writer
  BY DEF Open
<1>2. b \in Writer
  BY <1>1 DEF Broken, Writer
<1>3. /\ b.status = d.status /\ b.limit = d.limit /\ b.bytes = d.bytes
      /\ b.token = d.token /\ b.started = d.started /\ b.ready = d.ready
      /\ b.closed = d.closed /\ b.exhausted = d.exhausted /\ b.wire = d.wire /\ ~b.up
      /\ b.echoLimit = d.echoLimit /\ b.declared = d.declared
  BY <1>1 DEF Broken, Writer
<1>4. \A kind : At(b, kind) = At(d, kind)
  BY <1>3 DEF At
<1> HIDE DEF b
<1>5. Open(b)
  BY <1>2, <1>3, <1>4 DEF Open, RowsWithinLimit
<1> QED
  BY <1>3, <1>4, <1>5 DEF b, SentIn, OnceIn

---------------------------------------------------------------------------
(* What one more piece does to a document. *)

NewPiece(d, kind, of, size) == [kind |-> kind, of |-> of, upto |-> d.bytes + size]

LEMMA SendFacts ==
  ASSUME NEW d, d \in Writer, d.up, NEW kind \in Kinds, NEW of \in Nat, NEW size \in Nat
  PROVE  LET e == Send(d, kind, of, size) IN
         /\ e \in Writer
         /\ SameWriter(d, e)
         /\ e.wire = Append(d.wire, NewPiece(d, kind, of, size))
         /\ e.bytes = d.bytes + size
<1> DEFINE e == Send(d, kind, of, size)
           p == NewPiece(d, kind, of, size)
<1>1. d.bytes \in Nat /\ d.wire \in Seq(Piece)
  BY DEF Writer
<1>2. p \in Piece
  BY <1>1 DEF NewPiece, Piece
<1>3. Append(d.wire, p) \in Seq(Piece) /\ d.bytes + size \in Nat
  BY <1>1, <1>2
<1>4. e = [d EXCEPT !.bytes = d.bytes + size, !.wire = Append(d.wire, p)]
  BY DEF Send, NewPiece
<1> HIDE DEF p, e
<1>5. e \in Writer
  BY <1>3, <1>4 DEF Writer
<1>6. e.wire = Append(d.wire, p) /\ e.bytes = d.bytes + size
  BY <1>4 DEF Writer
<1>7. SameWriter(d, e)
  BY <1>4 DEF Writer, SameWriter
<1> QED
  BY <1>5, <1>6, <1>7 DEF p, e

(* A piece at the end changes what is found of its own kind alone. *)
Longer(d, e, p) ==
  /\ DOMAIN d.wire = 1..Len(d.wire) /\ Len(d.wire) \in Nat
  /\ DOMAIN e.wire = 1..Len(d.wire) + 1
  /\ Len(e.wire) = Len(d.wire) + 1
  /\ e.wire[Len(d.wire) + 1] = p
  /\ \A i \in 1..Len(d.wire) : e.wire[i] = d.wire[i]
  /\ At(e, p.kind) = At(d, p.kind) \cup {Len(d.wire) + 1}
  /\ \A kind : kind # p.kind => At(e, kind) = At(d, kind)

LEMMA AppendAt ==
  ASSUME NEW d, NEW e, NEW p, d.wire \in Seq(Piece), p \in Piece,
         e.wire = Append(d.wire, p)
  PROVE  Longer(d, e, p)
<1>1. /\ DOMAIN d.wire = 1..Len(d.wire) /\ Len(d.wire) \in Nat
      /\ DOMAIN e.wire = 1..Len(d.wire) + 1
      /\ Len(e.wire) = Len(d.wire) + 1
      /\ e.wire[Len(d.wire) + 1] = p
      /\ \A i \in 1..Len(d.wire) : e.wire[i] = d.wire[i]
  OBVIOUS
<1>2. At(e, p.kind) = At(d, p.kind) \cup {Len(d.wire) + 1}
  BY <1>1 DEF At
<1>3. \A kind : kind # p.kind => At(e, kind) = At(d, kind)
  BY <1>1 DEF At
<1> QED
  BY <1>1, <1>2, <1>3 DEF Longer

LEMMA StartOpen ==
  ASSUME NEW d, Open(d)
  PROVE  LET s == Start(d) IN
         /\ Open(s) /\ s.started
         /\ Continues(d, s)
         /\ s.exhausted = d.exhausted /\ s.declared = d.declared
         /\ SentIn(s) = SentIn(d)
         /\ OnceIn(d) => OnceIn(s)
         /\ Marked(s) <=> Marked(d)
<1> USE SizesAssumption
<1>0. CASE d.started
  BY <1>0 DEF Start, Continues
<1>1. CASE ~d.started
  <2> DEFINE b == [d EXCEPT !.started = TRUE, !.status = "207", !.ready = d.up]
             s == Start(d)
  <2>1. d \in Writer /\ d.wire = <<>> /\ d.bytes = 0 /\ ~d.exhausted /\ ~d.closed
    BY <1>1 DEF Open
  <2>2. b \in Writer
    BY <2>1 DEF Writer
  <2>3. /\ b.wire = <<>> /\ b.bytes = 0 /\ b.up = d.up /\ b.limit = d.limit
        /\ ~b.exhausted /\ b.echoSize = d.echoSize /\ b.echoLimit = d.echoLimit
        /\ b.written = d.written /\ b.declared = d.declared /\ b.started
        /\ ~b.closed /\ b.token = d.token /\ b.status = "207" /\ b.ready = d.up
    BY <2>1 DEF Writer
  <2>4. s = Send(b, "open", 0, HeaderBytes)
    BY <1>1 DEF Start
  <2>5. \A kind : At(d, kind) = {}
    BY <2>1 DEF At
  <2> HIDE DEF b, s
  <2>6. CASE d.up
    <3> DEFINE p == NewPiece(b, "open", 0, HeaderBytes)
    <3>0. b.up /\ "open" \in Kinds /\ 0 \in Nat /\ HeaderBytes \in Nat
      BY <2>3, <2>6 DEF Kinds
    <3>1. s \in Writer /\ SameWriter(b, s) /\ s.wire = Append(b.wire, p)
      BY <2>2, <2>4, <3>0, SendFacts
    <3>2. p \in Piece /\ p.kind = "open"
      BY <2>3 DEF NewPiece, Piece, Kinds
    <3> HIDE DEF p
    <3>3. DOMAIN s.wire = {1} /\ Len(s.wire) = 1 /\ s.wire[1] = p
      BY <2>3, <3>1
    <3>4. \A kind : kind # "open" => At(s, kind) = {}
      BY <3>2, <3>3 DEF At
    <3>5. Open(s)
      BY <2>3, <2>6, <3>1, <3>2, <3>3, <3>4 DEF Open, SameWriter, RowsWithinLimit
    <3>6. /\ At(s, "row") = {} /\ At(s, "marker") = {}
          /\ At(d, "row") = {} /\ At(d, "marker") = {}
      BY <2>5, <3>4
    <3>7. SentIn(s) = SentIn(d) /\ OnceIn(s) /\ (Marked(s) <=> Marked(d))
      BY <3>6 DEF SentIn, OnceIn, Marked
    <3>8. s.exhausted = d.exhausted
      BY <2>1, <2>3, <3>1, <3>5 DEF SameWriter, Writer
    <3> QED
      BY <2>3, <3>1, <3>5, <3>7, <3>8 DEF s, SameWriter, Continues
  <2>7. CASE ~d.up
    <3>1. s = b
      BY <2>3, <2>4, <2>7 DEF Send
    <3>2. \A kind : At(s, kind) = {}
      BY <2>3, <3>1 DEF At
    <3>3. Open(s)
      BY <2>2, <2>3, <2>7, <3>1, <3>2 DEF Open, RowsWithinLimit
    <3>6. /\ At(s, "row") = {} /\ At(s, "marker") = {}
          /\ At(d, "row") = {} /\ At(d, "marker") = {}
      BY <2>5, <3>2
    <3>7. SentIn(s) = SentIn(d) /\ OnceIn(s) /\ (Marked(s) <=> Marked(d))
      BY <3>6 DEF SentIn, OnceIn, Marked
    <3>8. s.exhausted = d.exhausted
      BY <2>1, <2>2, <2>3, <3>1 DEF Writer
    <3> QED
      BY <2>3, <3>1, <3>3, <3>7, <3>8 DEF s, Continues
  <2> QED
    BY <2>6, <2>7
<1> QED
  BY <1>0, <1>1

LEMMA EncodeFacts ==
  ASSUME NEW d, d \in Writer, NEW kind \in Kinds, NEW of \in Nat, NEW size \in Nat
  PROVE  LET e == Encode(d, kind, of, size) IN
         /\ e \in Writer
         /\ SameWriter(d, e)
         /\ d.ready /\ d.up => /\ e.wire = Append(d.wire, NewPiece(d, kind, of, size))
                               /\ e.bytes = d.bytes + size
         /\ ~(d.ready /\ d.up) => e.wire = d.wire /\ e.bytes = d.bytes
<1> DEFINE e == Encode(d, kind, of, size)
<1>1. CASE d.ready /\ d.up
  <2>1. e = Send(d, kind, of, size)
    BY <1>1 DEF Encode
  <2> QED
    BY <1>1, <2>1, SendFacts
<1>2. CASE d.ready /\ ~d.up
  <2>1. e = d
    BY <1>2 DEF Encode, Send
  <2> QED
    BY <1>2, <2>1 DEF SameWriter
<1>3. CASE ~d.ready
  <2>1. e = [d EXCEPT !.panicked = TRUE]
    BY <1>3 DEF Encode
  <2>2. e \in Writer
    BY <2>1 DEF Writer
  <2>3. e.wire = d.wire /\ e.bytes = d.bytes
    BY <2>1 DEF Writer
  <2>4. SameWriter(d, e)
    BY <2>1 DEF Writer, SameWriter
  <2> QED
    BY <1>3, <2>2, <2>3, <2>4
<1> QED
  BY <1>1, <1>2, <1>3

(* The marker: the rows are what they were. *)
LEMMA OverflowOpen ==
  ASSUME NEW d, Open(d), d.started, ~d.exhausted
  PROVE  LET e == Overflow(d) IN
         /\ Open(e) /\ e.started /\ e.exhausted
         /\ Continues(d, e) /\ e.declared = d.declared
         /\ SentIn(e) = SentIn(d)
         /\ OnceIn(d) => OnceIn(e)
<1> DEFINE b == [d EXCEPT !.exhausted = TRUE]
           e == Overflow(d)
           p == NewPiece(b, "marker", 0, NoteBytes)
<1>1. d \in Writer
  BY DEF Open
<1>2. b \in Writer
  BY <1>1 DEF Writer
<1>3. /\ b.up = d.up /\ b.limit = d.limit /\ b.echoSize = d.echoSize
      /\ b.echoLimit = d.echoLimit /\ b.declared = d.declared /\ b.started
      /\ b.ready = d.ready /\ b.closed = d.closed /\ b.token = d.token
      /\ b.status = d.status /\ b.exhausted /\ b.wire = d.wire /\ b.bytes = d.bytes
  BY <1>1 DEF Writer
<1>4. e = Encode(b, "marker", 0, NoteBytes)
  BY DEF Overflow
<1>5. "marker" \in Kinds /\ 0 \in Nat /\ NoteBytes \in Nat
  BY SizesAssumption DEF Kinds
<1> HIDE DEF b, e
<1>6. e \in Writer /\ SameWriter(b, e)
  BY <1>2, <1>4, <1>5, EncodeFacts
<1>7. CASE d.ready /\ d.up
  <2>1. e.wire = Append(d.wire, p)
    <3>1. b.ready /\ b.up
      BY <1>3, <1>7
    <3>2. e.wire = Append(b.wire, p)
      BY <1>2, <1>4, <1>5, <3>1, EncodeFacts
    <3> QED
      BY <1>3, <3>2
  <2>2. p \in Piece /\ p.kind = "marker" /\ d.wire \in Seq(Piece)
    BY <1>1, <1>2, <1>5 DEF NewPiece, Piece, Writer
  <2> HIDE DEF p
  <2>12. Longer(d, e, p)
    BY <2>1, <2>2, AppendAt
  <2>3. /\ DOMAIN d.wire = 1..Len(d.wire) /\ Len(d.wire) \in Nat
        /\ DOMAIN e.wire = 1..Len(d.wire) + 1
        /\ Len(e.wire) = Len(d.wire) + 1
        /\ e.wire[Len(d.wire) + 1] = p
        /\ \A i \in 1..Len(d.wire) : e.wire[i] = d.wire[i]
    BY <2>12 DEF Longer
  <2>11. /\ At(e, "row") = At(d, "row")
         /\ At(e, "marker") = At(d, "marker") \cup {Len(d.wire) + 1}
    BY <2>2, <2>12 DEF Longer
  <2>4. At(d, "row") \subseteq 1..Len(d.wire)
    BY <2>3 DEF At
  <2>5. SentIn(e) = SentIn(d) /\ (OnceIn(d) => OnceIn(e))
    BY <2>3, <2>4, <2>11 DEF SentIn, OnceIn
  <2>6. RowsWithinLimit(e)
    BY <1>3, <1>6, <2>3, <2>4, <2>11 DEF RowsWithinLimit, Open, SameWriter
  <2>7. \A i \in DOMAIN e.wire :
          /\ e.wire[i].kind \in {"open", "row", "marker"}
          /\ e.wire[i].kind = "open" <=> i = 1
          /\ e.wire[i].kind = "marker" => i = Len(e.wire)
    <3>1. d.wire # <<>>
      BY <1>7 DEF Open
    <3>2. Len(d.wire) # 0
      BY <2>2, <3>1
    <3> QED
      BY <2>2, <2>3, <3>2 DEF Open
  <2>8. e.wire # <<>>
    BY <2>3
  <2>9. Marked(e)
    BY <2>11 DEF Marked
  <2>10. Open(e)
    BY <1>3, <1>6, <1>7, <2>6, <2>7, <2>8, <2>9 DEF Open, SameWriter
  <2> QED
    BY <1>3, <1>6, <2>5, <2>10 DEF SameWriter, Continues, e
<1>8. CASE ~(d.ready /\ d.up)
  <2>1. e.wire = d.wire
    <3>1. ~(b.ready /\ b.up)
      BY <1>3, <1>8
    <3>2. e.wire = b.wire
      BY <1>2, <1>4, <1>5, <3>1, EncodeFacts
    <3> QED
      BY <1>3, <3>2
  <2>2. \A kind : At(e, kind) = At(d, kind)
    BY <2>1 DEF At
  <2>3. SentIn(e) = SentIn(d) /\ (OnceIn(d) => OnceIn(e))
    BY <2>1, <2>2 DEF SentIn, OnceIn
  <2>4. ~d.up
    BY <1>8 DEF Open
  <2>5. Open(e)
    BY <1>3, <1>6, <2>1, <2>2, <2>4 DEF Open, SameWriter, RowsWithinLimit
  <2> QED
    BY <1>3, <1>6, <2>3, <2>5 DEF SameWriter, Continues, e
<1> QED
  BY <1>7, <1>8

(* A row that keeps to the budget. *)
LEMMA RowOpen ==
  ASSUME NEW d, Open(d), d.started, d.up, ~d.exhausted,
         NEW row \in Nat, NEW size \in Nat, ~OverBudget(d, size)
  PROVE  LET c == Encode([d EXCEPT !.written = d.written + 1], "row", row, size) IN
         /\ Open(c) /\ c.started /\ ~c.exhausted
         /\ Continues(d, c) /\ c.declared = d.declared
         /\ SentIn(c) = SentIn(d) \cup {row}
         /\ OnceIn(d) /\ row \notin SentIn(d) => OnceIn(c)
<1> DEFINE b == [d EXCEPT !.written = d.written + 1]
           c == Encode(b, "row", row, size)
           p == NewPiece(b, "row", row, size)
<1>1. d \in Writer /\ d.ready
  BY DEF Open
<1>2. b \in Writer
  BY <1>1 DEF Writer
<1>3. /\ b.up = d.up /\ b.limit = d.limit /\ b.echoSize = d.echoSize
      /\ b.echoLimit = d.echoLimit /\ b.declared = d.declared /\ b.started
      /\ b.ready = d.ready /\ b.closed = d.closed /\ b.token = d.token
      /\ b.status = d.status /\ b.exhausted = d.exhausted
      /\ b.wire = d.wire /\ b.bytes = d.bytes
  BY <1>1 DEF Writer
<1>4. "row" \in Kinds
  BY DEF Kinds
<1> HIDE DEF b
<1>5. c \in Writer /\ SameWriter(b, c)
  BY <1>2, <1>4, EncodeFacts
<1>6. c.wire = Append(d.wire, p)
  <2>1. b.ready /\ b.up
    BY <1>1, <1>3
  <2>2. c.wire = Append(b.wire, p)
    BY <1>2, <1>4, <2>1, EncodeFacts
  <2> QED
    BY <1>3, <2>2
<1>7. /\ p \in Piece /\ p.kind = "row" /\ p.of = row /\ p.upto = d.bytes + size
      /\ d.wire \in Seq(Piece) /\ d.bytes \in Nat /\ d.limit \in Int
  BY <1>1, <1>2, <1>3, <1>4 DEF NewPiece, Piece, Writer
<1> HIDE DEF p, c
<1>18. Longer(d, c, p)
  BY <1>6, <1>7, AppendAt
<1>8. /\ DOMAIN d.wire = 1..Len(d.wire) /\ Len(d.wire) \in Nat
      /\ DOMAIN c.wire = 1..Len(d.wire) + 1
      /\ Len(c.wire) = Len(d.wire) + 1
      /\ c.wire[Len(d.wire) + 1] = p
      /\ \A i \in 1..Len(d.wire) : c.wire[i] = d.wire[i]
  BY <1>18 DEF Longer
<1>17. At(c, "row") = At(d, "row") \cup {Len(d.wire) + 1}
  BY <1>7, <1>18 DEF Longer
<1>9. At(d, "row") \subseteq 1..Len(d.wire)
  BY <1>8 DEF At
<1>10. SentIn(c) = SentIn(d) \cup {row}
  BY <1>7, <1>8, <1>9, <1>17 DEF SentIn
<1>11. ASSUME OnceIn(d), row \notin SentIn(d)
       PROVE  OnceIn(c)
  <2>1. \A i \in At(d, "row") : c.wire[i].of \in SentIn(d) /\ c.wire[i].of = d.wire[i].of
    BY <1>8, <1>9 DEF SentIn
  <2>2. c.wire[Len(d.wire) + 1].of = row
    BY <1>7, <1>8
  <2> QED
    BY <1>8, <1>11, <1>17, <2>1, <2>2 DEF OnceIn
<1>12. RowsWithinLimit(c)
  <2>1. c.limit = d.limit
    BY <1>3, <1>5 DEF SameWriter
  <2>2. SUFFICES ASSUME c.limit > 0, NEW i \in At(c, "row")
                 PROVE  c.wire[i].upto <= c.limit
    BY DEF RowsWithinLimit
  <2>3. CASE i \in At(d, "row")
    BY <1>8, <1>9, <2>1, <2>2, <2>3 DEF Open, RowsWithinLimit
  <2>4. CASE i = Len(d.wire) + 1
    BY <1>7, <1>8, <2>1, <2>2, <2>4 DEF OverBudget
  <2> QED
    BY <1>17, <2>3, <2>4
<1>13. At(d, "marker") = {}
  BY DEF Open, At
<1>14. \A i \in DOMAIN c.wire :
          /\ c.wire[i].kind \in {"open", "row"}
          /\ c.wire[i].kind = "open" <=> i = 1
  <2>1. d.wire # <<>>
    BY <1>1 DEF Open
  <2>2. Len(d.wire) # 0
    BY <1>7, <2>1
  <2>3. \A i \in DOMAIN d.wire : /\ d.wire[i].kind \in {"open", "row"}
                                 /\ d.wire[i].kind = "open" <=> i = 1
    BY DEF Open
  <2> QED
    BY <1>7, <1>8, <2>2, <2>3
<1>15. c.wire # <<>>
  BY <1>8
<1>16. Open(c)
  BY <1>1, <1>3, <1>5, <1>12, <1>14, <1>15 DEF Open, SameWriter
<1> QED
  BY <1>3, <1>5, <1>10, <1>11, <1>16 DEF SameWriter, Continues, c, b

(* A call of Write that does not fail: the row is sent, or the marker says *)
(* that rows are missing; only a budget for echoed names can have both.    *)
Wrote(d, e, row) ==
  /\ Open(e) /\ Continues(d, e) /\ e.declared = d.declared
  /\ SentIn(d) \subseteq SentIn(e) /\ SentIn(e) \subseteq SentIn(d) \cup {row}
  /\ row \in SentIn(e) \/ e.exhausted
  /\ row \notin SentIn(d) /\ OnceIn(d) => OnceIn(e)
  /\ d.exhausted => e = d
  /\ e.exhausted /\ e.echoLimit <= 0 /\ row \notin SentIn(d) => row \notin SentIn(e)

LEMMA WriteOpen ==
  ASSUME NEW d, Open(d), ~WriteFails(d), NEW row \in Nat, NEW size \in Nat
  PROVE  Wrote(d, Write(d, row, size), row)
<1> DEFINE e == Write(d, row, size)
           s == Start(d)
           c == Encode([s EXCEPT !.written = s.written + 1], "row", row, size)
<1>1. CASE Silent(d)
  <2>1. e = d
    BY <1>1 DEF Write
  <2>2. d.exhausted
    BY <1>1 DEF Silent, Open
  <2> HIDE DEF e
  <2> QED
    BY <2>1, <2>2 DEF Wrote, Continues, e
<1>2. CASE ~Silent(d)
  <2>1. d.up /\ ~d.exhausted
    BY <1>2 DEF Silent, WriteFails
  <2>2. /\ Open(s) /\ s.started /\ Continues(d, s) /\ s.declared = d.declared
        /\ s.exhausted = d.exhausted /\ SentIn(s) = SentIn(d)
        /\ OnceIn(d) => OnceIn(s)
    BY StartOpen
  <2>3. s.up /\ ~s.exhausted
    BY <2>1, <2>2 DEF Continues
  <2> HIDE DEF s
  <2>4. e = IF OverBudget(s, size) THEN Overflow(s)
            ELSE IF EchoSpent(c) THEN Overflow(c) ELSE c
    BY <1>2, <2>1 DEF Write, WriteFails, Committed, s
  <2> HIDE DEF e, c
  <2>5. CASE OverBudget(s, size)
    <3>1. e = Overflow(s)
      BY <2>4, <2>5
    <3>2. /\ Open(e) /\ e.exhausted /\ Continues(s, e) /\ e.declared = s.declared
          /\ SentIn(e) = SentIn(s) /\ (OnceIn(s) => OnceIn(e))
      BY <2>2, <2>3, <3>1, OverflowOpen
    <3> QED
      BY <2>1, <2>2, <3>2 DEF Wrote, Continues, e
  <2>6. CASE ~OverBudget(s, size)
    <3>1. /\ Open(c) /\ c.started /\ ~c.exhausted
          /\ Continues(s, c) /\ c.declared = s.declared
          /\ SentIn(c) = SentIn(s) \cup {row}
          /\ OnceIn(s) /\ row \notin SentIn(s) => OnceIn(c)
      BY <2>2, <2>3, <2>6, RowOpen DEF c
    <3>2. CASE EchoSpent(c)
      <4>1. e = Overflow(c)
        BY <2>4, <2>6, <3>2
      <4>2. /\ Open(e) /\ e.exhausted /\ Continues(c, e) /\ e.declared = c.declared
            /\ SentIn(e) = SentIn(c) /\ (OnceIn(c) => OnceIn(e))
        BY <3>1, <4>1, OverflowOpen
      <4>3. ~(e.echoLimit <= 0)
        <5>1. c.echoLimit > 0 /\ c.echoLimit \in Int
          BY <3>1, <3>2 DEF EchoSpent, Open, Writer
        <5> QED
          BY <4>2, <5>1 DEF Continues
      <4> QED
        BY <2>1, <2>2, <3>1, <4>2, <4>3 DEF Wrote, Continues, e
    <3>3. CASE ~EchoSpent(c)
      <4>1. e = c
        BY <2>4, <2>6, <3>3
      <4> QED
        BY <2>1, <2>2, <3>1, <4>1 DEF Wrote, Continues, e
    <3> QED
      BY <3>2, <3>3
  <2> QED
    BY <2>5, <2>6
<1> QED
  BY <1>1, <1>2

(* Truncate marks the document unless a budget did so before.              *)
Cut(d, e) ==
  /\ Open(e) /\ Continues(d, e) /\ e.exhausted
  /\ SentIn(e) = SentIn(d)
  /\ OnceIn(d) => OnceIn(e)
  /\ d.exhausted => e = d

LEMMA TruncateOpen ==
  ASSUME NEW d, Open(d)
  PROVE  Cut(d, Truncate(d))
<1> DEFINE e == Truncate(d)
           s == Start(d)
           b == [s EXCEPT !.declared = TRUE]
<1>1. CASE Silent(d)
  <2>1. e = d
    BY <1>1 DEF Truncate
  <2>2. d.exhausted
    BY <1>1 DEF Silent, Open
  <2> HIDE DEF e
  <2> QED
    BY <2>1, <2>2 DEF Cut, Continues, e
<1>2. CASE ~Silent(d)
  <2>1. ~d.exhausted
    BY <1>2 DEF Silent
  <2>2. /\ Open(s) /\ s.started /\ Continues(d, s)
        /\ ~s.exhausted /\ SentIn(s) = SentIn(d)
        /\ OnceIn(d) => OnceIn(s)
    BY <2>1, StartOpen
  <2>3. e = Overflow(b)
    BY <1>2 DEF Truncate
  <2> HIDE DEF s
  <2>4. s \in Writer
    BY <2>2 DEF Open
  <2>5. b \in Writer
    BY <2>4 DEF Writer
  <2>6. /\ b.up = s.up /\ b.limit = s.limit /\ b.echoSize = s.echoSize
        /\ b.echoLimit = s.echoLimit /\ b.started = s.started
        /\ b.ready = s.ready /\ b.closed = s.closed /\ b.token = s.token
        /\ b.status = s.status /\ b.exhausted = s.exhausted
        /\ b.wire = s.wire /\ b.bytes = s.bytes
    BY <2>4 DEF Writer
  <2> HIDE DEF b, e
  <2>7. \A kind : At(b, kind) = At(s, kind)
    BY <2>6 DEF At
  <2>8. Open(b)
    BY <2>2, <2>5, <2>6, <2>7 DEF Open, RowsWithinLimit, Marked
  <2>9. SentIn(b) = SentIn(s) /\ (OnceIn(s) => OnceIn(b))
    BY <2>6, <2>7 DEF SentIn, OnceIn
  <2>10. /\ Open(e) /\ e.exhausted /\ Continues(b, e)
         /\ SentIn(e) = SentIn(b) /\ (OnceIn(b) => OnceIn(e))
    BY <2>2, <2>3, <2>6, <2>8, OverflowOpen
  <2> QED
    BY <2>1, <2>2, <2>6, <2>9, <2>10 DEF Cut, Continues, e
<1> QED
  BY <1>1, <1>2

---------------------------------------------------------------------------
(* The end of a document.                                                  *)

(* A document that was started and not closed; a failure may be its last   *)
(* entry.                                                                  *)
Unclosed(d) ==
  /\ d \in Writer
  /\ \A i \in DOMAIN d.wire :
       /\ d.wire[i].kind \in {"open", "row", "marker", "failure"}
       /\ d.wire[i].kind = "open" <=> i = 1
  /\ \A i \in At(d, "marker"), j \in At(d, "row") : j < i
  /\ RowsWithinLimit(d)
  /\ d.started /\ ~d.closed /\ d.status = "207"
  /\ d.ready <=> d.wire # <<>>
  /\ d.up => d.ready

LEMMA OpenIsUnclosed ==
  ASSUME NEW d, Open(d), d.started
  PROVE  Unclosed(d)
<1>1. WellFormed(d) /\ RowsWithinLimit(d)
  BY OpenIsWellFormed
<1> QED
  BY <1>1 DEF Open, Unclosed, WellFormed

(* The rows and marks of e are those of d. *)
SameRows(d, e) ==
  /\ SentIn(e) = SentIn(d)
  /\ OnceIn(d) => OnceIn(e)
  /\ Marked(e) <=> Marked(d)
  /\ At(e, "failure") = {} <=> At(d, "failure") = {}

(* One piece that is neither a row nor a mark. *)
LEMMA OtherPiece ==
  ASSUME NEW d, NEW e, NEW p, Longer(d, e, p), p.kind \notin {"row", "marker", "failure"}
  PROVE  /\ SameRows(d, e)
         /\ At(e, "row") = At(d, "row") /\ At(e, "marker") = At(d, "marker")
         /\ \A i \in At(e, "row") : e.wire[i] = d.wire[i]
<1>1. /\ At(e, "row") = At(d, "row") /\ At(e, "marker") = At(d, "marker")
      /\ At(e, "failure") = At(d, "failure")
  BY DEF Longer
<1>2. \A i \in At(d, "row") : e.wire[i] = d.wire[i]
  BY DEF Longer, At
<1>3. SentIn(e) = SentIn(d) /\ (OnceIn(d) => OnceIn(e))
  BY <1>1, <1>2 DEF SentIn, OnceIn
<1> QED
  BY <1>1, <1>2, <1>3 DEF SameRows, Marked

LEMMA SameWire ==
  ASSUME NEW d, NEW e, e.wire = d.wire
  PROVE  SameRows(d, e) /\ \A kind : At(e, kind) = At(d, kind)
<1>1. \A kind : At(e, kind) = At(d, kind)
  BY DEF At
<1> QED
  BY <1>1 DEF SameRows, SentIn, OnceIn, Marked

(* With the connection the end tag is there, and before it the token, if   *)
(* one is owed; without it the wire is what it was.                        *)
Closes(d, e) ==
  /\ Ended(e) /\ e.started /\ e.closed /\ e.status = "207" /\ e.up = d.up
  /\ SameRows(d, e)
  /\ At(e, "token") # {} => TokenOwed(d)
  /\ ~d.up => e.wire = d.wire

LEMMA CloseEnds ==
  ASSUME NEW d, Unclosed(d)
  PROVE  Closes(d, Close(d))
<1> DEFINE s == [d EXCEPT !.closed = TRUE]
           t == IF TokenOwed(s) THEN Encode(s, "token", s.token, NoteBytes) ELSE s
           e == Close(d)
<1>1. d \in Writer /\ d.started /\ ~d.closed /\ d.status = "207"
  BY DEF Unclosed
<1>2. s \in Writer
  BY <1>1 DEF Writer
<1>3. /\ s.up = d.up /\ s.limit = d.limit /\ s.token = d.token /\ s.started
      /\ s.ready = d.ready /\ s.closed /\ s.exhausted = d.exhausted
      /\ s.declared = d.declared /\ s.status = "207"
      /\ s.wire = d.wire /\ s.bytes = d.bytes
  BY <1>1 DEF Writer
<1>4. e = Encode(t, "close", 0, NoteBytes)
  BY <1>1 DEF Close, Start
<1> HIDE DEF s, e
<1>5. TokenOwed(s) <=> TokenOwed(d)
  BY <1>3 DEF TokenOwed
<1>6. "close" \in Kinds /\ "token" \in Kinds /\ NoteBytes \in Nat /\ 0 \in Nat
  BY SizesAssumption DEF Kinds
<1>7. t \in Writer /\ SameWriter(s, t)
  <2>1. CASE TokenOwed(s)
    <3>1. s.token \in Nat
      BY <1>2, <2>1 DEF TokenOwed, Writer
    <3> QED
      BY <1>2, <1>6, <2>1, <3>1, EncodeFacts
  <2> QED
    BY <1>2, <2>1 DEF SameWriter
<1>8. t.up = d.up /\ t.ready = d.ready /\ t.limit = d.limit
  BY <1>3, <1>7 DEF SameWriter
<1> HIDE DEF t
<1>9. e \in Writer /\ SameWriter(t, e)
  BY <1>4, <1>6, <1>7, EncodeFacts
<1>10. e.up = d.up /\ e.limit = d.limit /\ e.closed /\ e.started /\ e.status = "207"
  BY <1>3, <1>7, <1>9 DEF SameWriter
<1>11. CASE d.ready /\ d.up
  <2> DEFINE p == NewPiece(t, "close", 0, NoteBytes)
             q == NewPiece(s, "token", s.token, NoteBytes)
  <2>1. e.wire = Append(t.wire, p)
    BY <1>4, <1>6, <1>7, <1>8, <1>11, EncodeFacts
  <2>2. p \in Piece /\ p.kind = "close" /\ t.wire \in Seq(Piece) /\ s.wire \in Seq(Piece)
    BY <1>2, <1>6, <1>7 DEF NewPiece, Piece, Writer
  <2> HIDE DEF p
  <2>3. Longer(t, e, p)
    BY <2>1, <2>2, AppendAt
  <2>4. /\ SameRows(t, e)
        /\ At(e, "row") = At(t, "row") /\ At(e, "marker") = At(t, "marker")
        /\ \A i \in At(e, "row") : e.wire[i] = t.wire[i]
    BY <2>2, <2>3, OtherPiece
  <2>5. Last(e.wire).kind = "close" /\ e.wire # <<>>
    BY <2>2, <2>3 DEF Longer, Last
  <2>6. d.wire # <<>> /\ Len(d.wire) > 0 /\ Len(d.wire) \in Nat /\ DOMAIN d.wire = 1..Len(d.wire)
    BY <1>1, <1>11 DEF Unclosed, Writer
  <2>7. At(d, "close") = {} /\ At(d, "token") = {} /\ At(d, "error text") = {}
    BY DEF Unclosed, At
  <2>8. CASE ~TokenOwed(s)
    <3>1. t = s /\ t.wire = d.wire
      BY <1>3, <2>8 DEF t
    <3>2. SameRows(d, t) /\ \A kind : At(t, kind) = At(d, kind)
      BY <3>1, SameWire
    <3>3. At(e, "token") = {} /\ At(e, "error text") = {} /\ At(e, "close") = {Len(e.wire)}
      BY <2>2, <2>3, <2>7, <3>2 DEF Longer
    <3>4. RowsWithinLimit(e)
      BY <1>10, <2>4, <3>1, <3>2 DEF Unclosed, RowsWithinLimit
    <3>5. \A i \in DOMAIN e.wire : e.wire[i].kind = "open" <=> i = 1
      BY <2>2, <2>3, <2>6, <3>1 DEF Longer, Unclosed
    <3>6. \A i \in At(e, "marker"), j \in At(e, "row") : j < i
      BY <2>4, <3>2 DEF Unclosed
    <3>7. WellFormed(e)
      BY <3>3, <3>5, <3>6 DEF WellFormed
    <3> QED
      BY <1>9, <1>10, <1>11, <2>4, <2>5, <3>2, <3>3, <3>4, <3>7 DEF Ended, Closes, SameRows, e
  <2>9. CASE TokenOwed(s)
    <3>1. t = Encode(s, "token", s.token, NoteBytes) /\ s.token \in Nat
      BY <1>2, <2>9 DEF t, TokenOwed, Writer
    <3>2. t.wire = Append(d.wire, q)
      <4>1. s.ready /\ s.up
        BY <1>3, <1>11
      <4>2. t.wire = Append(s.wire, q)
        BY <1>2, <1>6, <3>1, <4>1, EncodeFacts
      <4> QED
        BY <1>3, <4>2
    <3>3. q \in Piece /\ q.kind = "token" /\ d.wire \in Seq(Piece)
      BY <1>2, <1>3, <1>6, <2>2, <3>1 DEF NewPiece, Piece, Writer
    <3> HIDE DEF q
    <3>4. Longer(d, t, q)
      BY <3>2, <3>3, AppendAt
    <3>5. /\ SameRows(d, t)
          /\ At(t, "row") = At(d, "row") /\ At(t, "marker") = At(d, "marker")
          /\ \A i \in At(t, "row") : t.wire[i] = d.wire[i]
      BY <3>3, <3>4, OtherPiece
    <3>6. Len(t.wire) = Len(d.wire) + 1 /\ Len(e.wire) = Len(d.wire) + 2
      BY <2>3, <2>6, <3>4 DEF Longer
    <3>7. /\ At(e, "token") = {Len(e.wire) - 1} /\ At(e, "error text") = {}
          /\ At(e, "close") = {Len(e.wire)}
      <4>1. /\ At(t, "token") = {Len(d.wire) + 1} /\ At(t, "close") = {}
            /\ At(t, "error text") = {}
        BY <2>7, <3>3, <3>4 DEF Longer
      <4>2. /\ At(e, "token") = At(t, "token") /\ At(e, "error text") = At(t, "error text")
            /\ At(e, "close") = At(t, "close") \cup {Len(t.wire) + 1}
        BY <2>2, <2>3 DEF Longer
      <4>3. Len(e.wire) - 1 = Len(d.wire) + 1 /\ Len(t.wire) + 1 = Len(e.wire)
        BY <2>6, <3>6
      <4> QED
        BY <4>1, <4>2, <4>3
    <3>8. RowsWithinLimit(e)
      BY <1>10, <2>4, <3>5 DEF Unclosed, RowsWithinLimit
    <3>9. \A i \in DOMAIN e.wire : e.wire[i].kind = "open" <=> i = 1
      <4>1. \A i \in DOMAIN t.wire : t.wire[i].kind = "open" <=> i = 1
        BY <2>6, <3>3, <3>4 DEF Longer, Unclosed
      <4>2. /\ DOMAIN t.wire = 1..Len(t.wire) /\ DOMAIN e.wire = 1..Len(t.wire) + 1
            /\ \A i \in 1..Len(t.wire) : e.wire[i] = t.wire[i]
            /\ e.wire[Len(t.wire) + 1].kind = "close"
            /\ Len(t.wire) \in Nat /\ Len(t.wire) > 0
        BY <2>2, <2>3, <2>6, <3>6 DEF Longer
      <4> QED
        BY <4>1, <4>2
    <3>10. \A i \in At(e, "marker"), j \in At(e, "row") : j < i
      BY <2>4, <3>5 DEF Unclosed
    <3>11. \A i \in At(e, "token"), j \in DOMAIN e.wire : j > i => e.wire[j].kind = "close"
      <4>1. DOMAIN e.wire = 1..Len(e.wire)
        BY <2>3, <2>6, <3>6 DEF Longer
      <4>2. e.wire[Len(e.wire)].kind = "close"
        BY <3>7 DEF At
      <4>3. \A j \in DOMAIN e.wire : j > Len(e.wire) - 1 => j = Len(e.wire)
        BY <2>6, <3>6, <4>1
      <4> QED
        BY <3>7, <4>2, <4>3
    <3>12. WellFormed(e)
      BY <3>7, <3>9, <3>10, <3>11 DEF WellFormed
    <3> QED
      BY <1>5, <1>9, <1>10, <1>11, <2>4, <2>5, <2>9, <3>5, <3>7, <3>8, <3>12
      DEF Ended, Closes, SameRows, e
  <2> QED
    BY <2>8, <2>9
<1>12. CASE ~(d.ready /\ d.up)
  <2>1. ~d.up
    BY <1>12 DEF Unclosed
  <2>2. t.wire = d.wire
    <3>1. CASE TokenOwed(s)
      <4>1. t = Encode(s, "token", s.token, NoteBytes) /\ s.token \in Nat
        BY <1>2, <3>1 DEF t, TokenOwed, Writer
      <4>2. ~(s.ready /\ s.up)
        BY <1>3, <1>12
      <4>3. t.wire = s.wire
        BY <1>2, <1>6, <4>1, <4>2, EncodeFacts
      <4> QED
        BY <1>3, <4>3
    <3> QED
      BY <1>3, <3>1 DEF t
  <2>3. e.wire = t.wire
    BY <1>4, <1>6, <1>7, <1>8, <1>12, EncodeFacts
  <2>4. SameRows(d, e) /\ \A kind : At(e, kind) = At(d, kind)
    BY <2>2, <2>3, SameWire
  <2>5. At(d, "close") = {} /\ At(d, "token") = {} /\ At(d, "error text") = {}
    BY DEF Unclosed, At
  <2>6. WellFormed(e) /\ RowsWithinLimit(e)
    BY <1>10, <2>2, <2>3, <2>4, <2>5 DEF Unclosed, WellFormed, RowsWithinLimit
  <2> QED
    BY <1>9, <1>10, <2>1, <2>2, <2>3, <2>4, <2>5, <2>6 DEF Ended, Closes, e
<1> QED
  BY <1>11, <1>12

(* A handler that wrote nothing answers with an error's status. *)
Refused(e) ==
  /\ Ended(e) /\ e.status = "error"
  /\ SentIn(e) = {} /\ OnceIn(e) /\ At(e, "token") = {}

LEMMA RefusesUnstarted ==
  ASSUME NEW d, Open(d), ~d.started
  PROVE  Refused(ServeError(Abort(d)))
<1> DEFINE e == ServeError(Abort(d))
<1>1. d \in Writer /\ d.status = "none" /\ d.wire = <<>>
  BY DEF Open
<1>2. e = [d EXCEPT !.status = "error"]
  BY <1>1 DEF Abort, ServeError
<1>3. e \in Writer /\ e.status = "error" /\ e.wire = <<>>
  BY <1>1, <1>2 DEF Writer
<1> HIDE DEF e
<1>4. \A kind : At(e, kind) = {}
  BY <1>3 DEF At
<1>5. WellFormed(e) /\ RowsWithinLimit(e)
  BY <1>3, <1>4 DEF WellFormed, RowsWithinLimit
<1> QED
  BY <1>3, <1>4, <1>5 DEF Refused, Ended, SentIn, OnceIn, e

(* What is left of a document that a failure ended after it was started.   *)
GivenUp(d, e) ==
  /\ Ended(e) /\ e.status = "207"
  /\ SentIn(e) = SentIn(d)
  /\ OnceIn(d) => OnceIn(e)
  /\ At(e, "token") = {}

(* ms.Fail, and the deferred Abort: the client reads that it failed. *)
LEMMA FailEnds ==
  ASSUME NEW d, Open(d), d.started, d.token = Nil
  PROVE  LET e == Abort(Fail(d)) IN
         /\ GivenUp(d, e)
         /\ e.up => Marked(e) \/ At(e, "failure") # {}
         /\ Marked(e) <=> Marked(d)
<1> DEFINE f == Fail(d)
           e == Abort(f)
           p == NewPiece(d, "failure", 0, NoteBytes)
<1>1. d \in Writer /\ Unclosed(d) /\ ~d.closed
  BY OpenIsUnclosed DEF Open
<1>2. "failure" \in Kinds /\ NoteBytes \in Nat /\ 0 \in Nat
  BY SizesAssumption DEF Kinds
<1>3. At(d, "failure") = {} /\ ~TokenOwed(d)
  BY OpenIsWellFormed DEF TokenOwed
<1>4. ASSUME Unclosed(f), SentIn(f) = SentIn(d), OnceIn(d) => OnceIn(f),
             Marked(f) <=> Marked(d), f.token = Nil, f.up = d.up,
             f.up => Marked(f) \/ At(f, "failure") # {}
      PROVE  /\ GivenUp(d, e)
             /\ e.up => Marked(e) \/ At(e, "failure") # {}
             /\ Marked(e) <=> Marked(d)
  <2>1. e = Close(f)
    BY <1>4 DEF Abort, Unclosed
  <2> HIDE DEF f
  <2>2. Closes(f, Close(f))
    BY <1>4, CloseEnds
  <2> QED
    BY <1>4, <2>1, <2>2 DEF Closes, SameRows, GivenUp, TokenOwed
<1>5. CASE d.exhausted
  <2>1. f = d
    BY <1>5 DEF Fail, Silent
  <2>2. d.up => Marked(d)
    BY <1>5 DEF Open
  <2> HIDE DEF e, f
  <2> QED
    BY <1>1, <1>3, <1>4, <2>1, <2>2 DEF e, f
<1>6. CASE ~d.exhausted
  <2>1. f = Encode(d, "failure", 0, NoteBytes)
    BY <1>1, <1>6 DEF Fail, Silent, Start
  <2> HIDE DEF f
  <2>2. f \in Writer /\ SameWriter(d, f)
    BY <1>1, <1>2, <2>1, EncodeFacts
  <2>3. CASE d.ready /\ d.up
    <3>1. f.wire = Append(d.wire, p)
      BY <1>1, <1>2, <2>1, <2>3, EncodeFacts
    <3>2. p \in Piece /\ p.kind = "failure" /\ d.wire \in Seq(Piece)
      BY <1>1, <1>2 DEF NewPiece, Piece, Writer
    <3> HIDE DEF p
    <3>3. Longer(d, f, p)
      BY <3>1, <3>2, AppendAt
    <3>4. /\ At(f, "row") = At(d, "row") /\ At(f, "marker") = At(d, "marker")
          /\ At(f, "failure") # {}
      BY <3>2, <3>3 DEF Longer
    <3>5. \A i \in At(d, "row") : f.wire[i] = d.wire[i]
      BY <3>3 DEF Longer, At
    <3>6. SentIn(f) = SentIn(d) /\ (OnceIn(d) => OnceIn(f)) /\ (Marked(f) <=> Marked(d))
      BY <3>4, <3>5 DEF SentIn, OnceIn, Marked
    <3>7. \A i \in DOMAIN f.wire :
            /\ f.wire[i].kind \in {"open", "row", "marker", "failure"}
            /\ f.wire[i].kind = "open" <=> i = 1
      <4>1. d.wire # <<>> /\ Len(d.wire) # 0
        BY <1>1, <2>3, <3>2 DEF Unclosed
      <4> QED
        BY <1>1, <3>2, <3>3, <4>1 DEF Longer, Unclosed
    <3>8. RowsWithinLimit(f)
      BY <1>1, <2>2, <3>4, <3>5 DEF Unclosed, RowsWithinLimit, SameWriter
    <3>9. f.wire # <<>>
      BY <3>3 DEF Longer
    <3>10. Unclosed(f)
      BY <1>1, <2>2, <2>3, <3>4, <3>7, <3>8, <3>9 DEF Unclosed, SameWriter
    <3>11. f.token = Nil /\ f.up = d.up
      BY <2>2 DEF SameWriter
    <3> QED
      BY <1>3, <1>4, <3>4, <3>6, <3>10, <3>11 DEF f
  <2>4. CASE ~(d.ready /\ d.up)
    <3>1. f.wire = d.wire /\ ~d.up
      BY <1>1, <1>2, <2>1, <2>4, EncodeFacts DEF Unclosed
    <3>2. SameRows(d, f) /\ \A kind : At(f, kind) = At(d, kind)
      BY <3>1, SameWire
    <3>3. Unclosed(f)
      BY <1>1, <2>2, <2>4, <3>1, <3>2 DEF Unclosed, SameWriter, RowsWithinLimit
    <3>4. f.token = Nil /\ f.up = d.up
      BY <2>2 DEF SameWriter
    <3> QED
      BY <1>3, <1>4, <3>1, <3>2, <3>3, <3>4 DEF f, SameRows
  <2> QED
    BY <2>3, <2>4
<1> QED
  BY <1>5, <1>6

(* A row that could not be written: ServeError has no one to speak to.     *)
LEMMA BreakEnds ==
  ASSUME NEW d, Open(d), d.token = Nil, WriteFails(d), NEW row, NEW size
  PROVE  LET e == ServeError(Abort(Write(d, row, size))) IN GivenUp(d, e) /\ ~e.up
<1> DEFINE s == Start(d)
           c == Close(s)
           e == ServeError(Abort(Write(d, row, size)))
<1>1. Write(d, row, size) = s /\ ~d.up
  BY DEF WriteFails, Write
<1>2. /\ Open(s) /\ s.started /\ Continues(d, s)
      /\ SentIn(s) = SentIn(d) /\ (OnceIn(d) => OnceIn(s))
  BY StartOpen
<1>3. Abort(s) = c
  BY <1>2 DEF Abort
<1>4. ~s.up /\ s.token = Nil
  BY <1>1, <1>2 DEF Continues
<1> HIDE DEF s
<1>5. Closes(s, c)
  BY <1>2, OpenIsUnclosed, CloseEnds
<1>6. e = ServeError(c)
  BY <1>1, <1>3
<1> HIDE DEF c, e
<1>7. e = c
  BY <1>4, <1>5, <1>6 DEF Closes, ServeError, Send
<1> QED
  BY <1>2, <1>4, <1>5, <1>7 DEF Closes, SameRows, GivenUp, TokenOwed, e

(* The end of a handler that wrote all it had. *)
LEMMA FinishEnds ==
  ASSUME NEW d, Open(d)
  PROVE  LET e == Abort(Close(d)) IN
         /\ Ended(e) /\ e.status = "207" /\ e.up = d.up
         /\ SentIn(e) = SentIn(d)
         /\ OnceIn(d) => OnceIn(e)
         /\ Marked(e) <=> Marked(d)
         /\ At(e, "failure") = {}
         /\ At(e, "token") # {} => TokenOwed(d)
<1> DEFINE s == Start(d)
           c == Close(d)
<1>1. /\ Open(s) /\ s.started /\ Continues(d, s)
      /\ s.exhausted = d.exhausted /\ s.declared = d.declared
      /\ SentIn(s) = SentIn(d) /\ (OnceIn(d) => OnceIn(s))
      /\ Marked(s) <=> Marked(d)
  BY StartOpen
<1>2. c = Close(s)
  <2>1. ~d.closed /\ ~s.closed
    BY <1>1 DEF Open
  <2>2. Start(s) = s
    BY <1>1 DEF Start
  <2> HIDE DEF s
  <2> QED
    BY <2>1, <2>2 DEF Close, s
<1>3. At(s, "failure") = {}
  BY <1>1, OpenIsWellFormed
<1>4. TokenOwed(s) <=> TokenOwed(d)
  BY <1>1 DEF TokenOwed, Continues
<1> HIDE DEF s, c
<1>5. Closes(s, c)
  BY <1>1, <1>2, OpenIsUnclosed, CloseEnds
<1>6. Abort(c) = c
  BY <1>5 DEF Closes, Abort, Close
<1> QED
  BY <1>1, <1>3, <1>4, <1>5, <1>6 DEF Closes, SameRows, Continues, c
---------------------------------------------------------------------------
(* The handlers.                                                           *)

(* The members among the first n rows that a complete answer has. *)
Shown(n) == {matched[k] : k \in 1..n} \cap Owed

All == {matched[k] : k \in 1..Len(matched)}

TypeOK ==
  /\ job \in Jobs
  /\ pc \in {"listing", "matching", "checking", "writing", "done"}
  /\ seen \in Nat
  /\ truncated \in BOOLEAN
  /\ matched \in Seq(0..Count)
  /\ \A k, l \in 1..Len(matched) : matched[k] = matched[l] => k = l

(* What was picked so far. *)
Picked ==
  /\ truncated => job.kind \in Queries \/ job.more
  /\ job.kind \notin Listings => All \subseteq Owed
  /\ job.kind \in Queries =>
       /\ truncated => ~(Owed \subseteq All)
       /\ pc = "listing" => matched = <<>>
       /\ pc = "matching" =>
            /\ seen <= Count
            /\ \A m \in All : m <= seen
            /\ \A m \in Owed : m <= seen => m \in All
            /\ job.limit # Nil => Len(matched) <= job.limit
       /\ pc \in {"checking", "writing"} =>
            /\ truncated \/ Owed \subseteq All
            /\ job.limit # Nil => Len(matched) <= job.limit
  /\ job.kind \notin Queries =>
       /\ pc # "matching"
       /\ pc \in {"checking", "writing"} => Owed \subseteq All

(* The document while it is written. *)
Writes ==
  /\ Open(w) /\ OnceIn(w) /\ w.token = Nil /\ ~w.declared
  /\ seen <= Len(matched)
  /\ SentIn(w) \subseteq Shown(seen)
  /\ ~w.exhausted => SentIn(w) = Shown(seen)
  /\ job.kind \notin Listings => /\ w.echoLimit <= 0
                                 /\ w.exhausted => SentIn(w) # Shown(seen)
  /\ job.limit # Nil => Len(matched) <= job.limit

(* And the answer that is left of it. *)
Answered ==
  /\ Ended(w) /\ OnceIn(w)
  /\ SentIn(w) \subseteq All \cap Owed
  /\ w.up /\ w.status = "207" =>
       /\ SentIn(w) = Owed \/ Marked(w) \/ At(w, "failure") # {}
       /\ job.kind \notin Listings /\ Marked(w) => SentIn(w) # Owed \/ job.more
  /\ At(w, "token") # {} => SentIn(w) = Owed /\ At(w, "failure") = {}
  /\ w.status = "207" /\ job.limit # Nil => Len(matched) <= job.limit

ReportsInv ==
  /\ TypeOK
  /\ Picked
  /\ pc \notin {"writing", "done"} => Open(w) /\ ~w.started
  /\ pc = "writing" => Writes
  /\ pc = "done" => Answered

LEMMA JobFacts ==
  ASSUME job \in Jobs
  PROVE  /\ job.kind \in Kind /\ Stored \in Seq(Member) /\ Count \in Nat
         /\ job.limit # Nil =>
              /\ job.limit \in Nat
              /\ job.kind \in Syncs \cup {"addressbook-query"}
         /\ job.more \in BOOLEAN /\ (job.more => job.kind = "sync")
         /\ job.echo \in Nat
<1>1. job \in Job
  BY JobsAssumption
<1>2. job \in [kind: Kind, stored: Seq(Member), limit: Nat \cup {Nil}, more: BOOLEAN,
               echo: Nat]
  BY <1>1 DEF Job
<1>3. /\ job.limit # Nil => job.kind \in Syncs \cup {"addressbook-query"}
      /\ job.more => job.kind = "sync"
  BY <1>1 DEF Job
<1> QED
  BY <1>2, <1>3 DEF Stored, Count

(* A complete answer has no row of anything but a member, or the collection*)
(* itself.                                                                 *)
LEMMA OwedBounds ==
  ASSUME job \in Jobs
  PROVE  /\ Owed \subseteq 0..Count
         /\ job.kind \in Queries =>
              Owed = {i \in 1..Count : Stored[i].fate \in {"match", "unrenderable"}}
         /\ job.kind = "account listing" =>
              Owed = {0} \cup {i \in 1..Count : Stored[i].fate # "other"}
         /\ job.kind = "collection listing" => Owed = 0..Count
         /\ job.kind \notin Queries \cup Listings => Owed = 1..Count
<1>1. Count \in Nat
  BY JobFacts
<1>2. ASSUME job.kind \in Queries
      PROVE  Owed = {i \in 1..Count : Stored[i].fate \in {"match", "unrenderable"}}
  BY <1>2 DEF Owed, Queries
<1>3. ASSUME job.kind = "account listing"
      PROVE  Owed = {0} \cup {i \in 1..Count : Stored[i].fate # "other"}
  BY <1>3 DEF Owed, Queries
<1>4. ASSUME job.kind = "collection listing"
      PROVE  Owed = 0..Count
  BY <1>4 DEF Owed, Queries
<1>5. ASSUME job.kind \notin Queries \cup Listings
      PROVE  Owed = 1..Count
  BY <1>5 DEF Owed, Listings
<1>6. Owed \subseteq 0..Count
  <2>1. 1..Count \subseteq 0..Count /\ 0 \in 0..Count
    BY <1>1
  <2>2. \/ job.kind \in Queries \/ job.kind \notin Queries \cup Listings
        \/ job.kind = "account listing" \/ job.kind = "collection listing"
    BY DEF Listings
  <2> QED
    BY <1>2, <1>3, <1>4, <1>5, <2>1, <2>2
<1> QED
  BY <1>2, <1>3, <1>4, <1>5, <1>6

(* Whatever the order of the rows is, every member has one of its own.     *)
LEMMA MembersFacts ==
  ASSUME job \in Jobs, job.kind \notin Queries, NEW m \in Members
  PROVE  /\ m \in Seq(0..Count)
         /\ \A k, l \in 1..Len(m) : m[k] = m[l] => k = l
         /\ Owed \subseteq {m[k] : k \in 1..Len(m)}
         /\ job.kind \notin Listings => {m[k] : k \in 1..Len(m)} \subseteq Owed
<1>1. Count \in Nat /\ job.kind \in Kind
  BY JobFacts
<1>2. CASE job.kind \in Listings
  <2>1. m = [i \in 1..(Count + 1) |-> i - 1]
    <3>1. Members = {[i \in 1..(Count + 1) |-> i - 1]}
      BY <1>2 DEF Members, Listings
    <3> QED
      BY <3>1
  <2>2. m \in Seq(0..Count) /\ Len(m) = Count + 1
    BY <1>1, <2>1
  <2>3. \A i \in 0..Count : i + 1 \in 1..Len(m) /\ m[i + 1] = i
    BY <1>1, <2>1, <2>2
  <2>4. Owed \subseteq 0..Count
    BY <1>1, <1>2, OwedBounds
  <2>5. Owed \subseteq {m[k] : k \in 1..Len(m)}
    BY <2>3, <2>4
  <2>6. \A k, l \in 1..Len(m) : m[k] = m[l] => k = l
    BY <1>1, <2>1, <2>2
  <2> QED
    BY <1>2, <2>2, <2>5, <2>6
<1>3. CASE job.kind \notin Listings
  <2>1. Owed = 1..Count
    BY <1>3, OwedBounds
  <2>2. CASE job.kind = "sync"
    <3>1. m \in Bijection(1..Count, 1..Count)
      BY <1>3, <2>2 DEF Members
    <3>2. m \in [1..Count -> 1..Count] /\ \A j \in 1..Count : \E k \in 1..Count : m[k] = j
      BY <3>1 DEF Bijection, Surjection
    <3>5. m \in Injection(1..Count, 1..Count)
      BY <3>1 DEF Bijection
    <3>6. \A k, l \in 1..Count : m[k] = m[l] => k = l
      BY <3>2, <3>5 DEF Injection, IsInjective
    <3>7. m \in Seq(0..Count) /\ Len(m) = Count
      BY <1>1, <3>2
    <3>8. {m[k] : k \in 1..Len(m)} = Owed
      BY <2>1, <3>2, <3>7
    <3> QED
      BY <3>6, <3>7, <3>8
  <2>3. CASE job.kind # "sync"
    <3>1. m = [i \in 1..Count |-> i]
      BY <1>3, <2>3 DEF Members
    <3>2. m \in Seq(0..Count) /\ Len(m) = Count
      BY <1>1, <3>1
    <3> QED
      BY <1>1, <2>1, <3>1, <3>2
  <2> QED
    BY <2>2, <2>3
<1> QED
  BY <1>2, <1>3

LEMMA InitInv == ReportsInit => ReportsInv
<1> SUFFICES ASSUME ReportsInit PROVE ReportsInv
  OBVIOUS
<1>1. job \in Jobs /\ job.kind \in Kind /\ Count \in Nat
  BY JobFacts DEF ReportsInit
<1>2. pc \in {"listing", "checking"} /\ (pc = "checking" <=> job.kind = "multiget")
  BY DEF ReportsInit
<1>3. Open(w) /\ ~w.started
  BY NewWriterOpen, BudgetsAssumption DEF ReportsInit
<1>4. truncated = (job.kind = "sync" /\ job.more)
  BY DEF ReportsInit
<1>5. CASE job.kind = "multiget"
  <2>1. matched \in Members /\ job.kind \notin Queries
    BY <1>5 DEF ReportsInit, Queries
  <2>2. /\ matched \in Seq(0..Count)
        /\ \A k, l \in 1..Len(matched) : matched[k] = matched[l] => k = l
        /\ Owed \subseteq All
        /\ job.kind \notin Listings => All \subseteq Owed
    BY <1>1, <2>1, MembersFacts DEF All
  <2>3. TypeOK
    BY <1>1, <1>2, <1>4, <2>2 DEF TypeOK, ReportsInit
  <2> QED
    BY <1>2, <1>3, <1>4, <1>5, <2>1, <2>2, <2>3 DEF ReportsInv, Picked
<1>6. CASE job.kind # "multiget"
  <2>1. matched = <<>> /\ pc = "listing"
    BY <1>6 DEF ReportsInit
  <2>2. All = {}
    BY <2>1 DEF All
  <2>3. TypeOK
    BY <1>1, <1>4, <2>1 DEF TypeOK, ReportsInit
  <2>4. truncated => job.kind \notin Queries
    BY <1>4 DEF Queries
  <2> QED
    BY <1>3, <1>4, <2>1, <2>2, <2>3, <2>4 DEF ReportsInv, Picked
<1> QED
  BY <1>5, <1>6

(* Before the first row there is no document, and a refusal is all there is.*)
LEMMA RefuseKeepsInv ==
  ASSUME ReportsInv, pc \notin {"writing", "done"}, NEW reason, Refuse(reason)
  PROVE  ReportsInv'
<1> USE DEF Refuse
<1>1. /\ job' = job /\ matched' = matched /\ truncated' = truncated /\ seen' = seen
      /\ pc' = "done"
  OBVIOUS
<1>2. All' = All /\ Owed' = Owed /\ Count' = Count
  BY <1>1 DEF All, Owed, Count, Stored
<1>3. TypeOK'
  BY <1>1, <1>2 DEF ReportsInv, TypeOK
<1>4. Picked'
  BY <1>1, <1>2 DEF ReportsInv, Picked
<1>5. Refused(w')
  BY RefusesUnstarted DEF ReportsInv
<1>6. Answered'
  <2>1. /\ Ended(w)' /\ OnceIn(w)' /\ SentIn(w)' = {} /\ w'.status = "error"
        /\ At(w, "token")' = {}
    BY <1>5 DEF Refused, Ended, OnceIn, SentIn, At, WellFormed, RowsWithinLimit
  <2> QED
    BY <2>1 DEF Answered
<1> QED
  BY <1>1, <1>3, <1>4, <1>6 DEF ReportsInv

(* The writer as it was. *)
LEMMA SameDocument ==
  ASSUME w' = w, Open(w), ~w.started
  PROVE  Open(w)' /\ ~w'.started
BY DEF Open, RowsWithinLimit, At, Marked

LEMMA ListingKeepsInv ==
  ASSUME ReportsInv, YieldItem \/ EndListing
  PROVE  ReportsInv'
<1>1. pc = "listing" /\ job' = job /\ truncated' = truncated /\ w' = w
  BY DEF YieldItem, EndListing, Listed
<1>2. Open(w)' /\ ~w'.started
  BY <1>1, SameDocument DEF ReportsInv
<1>3. Owed' = Owed /\ Count' = Count /\ job \in Jobs /\ Count \in Nat
  BY <1>1, JobFacts DEF Owed, Count, Stored, ReportsInv, TypeOK
<1>4. CASE YieldItem
  <2>1. pc' = pc /\ matched' = matched /\ seen' = seen + 1
    BY <1>4 DEF YieldItem
  <2>2. All' = All
    BY <2>1 DEF All
  <2>3. TypeOK'
    BY <1>1, <1>3, <2>1 DEF ReportsInv, TypeOK
  <2>4. Picked'
    BY <1>1, <1>3, <2>1, <2>2 DEF ReportsInv, Picked
  <2> QED
    BY <1>1, <1>2, <2>1, <2>3, <2>4 DEF ReportsInv
<1>5. CASE EndListing
  <2>1. seen' = 0
    BY <1>5 DEF EndListing
  <2>2. CASE job.kind \in Queries
    <3>1. pc' = "matching" /\ matched' = <<>>
      BY <1>5, <2>2 DEF EndListing
    <3>2. matched = <<>>
      BY <1>1, <2>2 DEF ReportsInv, Picked
    <3>3. All' = {} /\ All = {}
      BY <3>1, <3>2 DEF All
    <3>4. TypeOK'
      BY <1>1, <1>3, <2>1, <3>1 DEF ReportsInv, TypeOK
    <3>5. job.limit # Nil => job.limit \in Nat
      BY <1>3, JobFacts
    <3>6. Picked'
      <4>1. Len(matched') = 0 /\ \A m \in Owed : m \in 1..Count
        BY <1>3, <2>2, <3>1, OwedBounds
      <4>2. \A m \in Owed : ~(m <= seen')
        BY <1>3, <2>1, <4>1
      <4> QED
        BY <1>1, <1>3, <2>1, <2>2, <3>1, <3>3, <3>5, <4>1, <4>2 DEF ReportsInv, Picked
    <3> QED
      BY <1>1, <1>2, <3>1, <3>4, <3>6 DEF ReportsInv
  <2>3. CASE job.kind \notin Queries
    <3>1. pc' = "checking" /\ matched' \in Members
      BY <1>5, <2>3 DEF EndListing
    <3>2. /\ matched' \in Seq(0..Count)
          /\ \A k, l \in 1..Len(matched') : matched'[k] = matched'[l] => k = l
          /\ Owed \subseteq All'
          /\ job.kind \notin Listings => All' \subseteq Owed
      BY <1>3, <2>3, <3>1, MembersFacts DEF All
    <3>3. TypeOK'
      BY <1>1, <1>3, <2>1, <3>1, <3>2 DEF ReportsInv, TypeOK
    <3>4. Picked'
      BY <1>1, <1>3, <2>3, <3>1, <3>2 DEF ReportsInv, Picked
    <3> QED
      BY <1>1, <1>2, <3>1, <3>3, <3>4 DEF ReportsInv
  <2> QED
    BY <2>2, <2>3
<1> QED
  BY <1>4, <1>5

LEMMA MatchingKeepsInv ==
  ASSUME ReportsInv, NoMatch \/ CutShort \/ KeepMatch \/ EndMatching
  PROVE  ReportsInv'
<1>1. pc = "matching" /\ job' = job /\ w' = w
  BY DEF NoMatch, CutShort, KeepMatch, EndMatching, IsMatch, Matching
<1>2. Open(w)' /\ ~w'.started
  BY <1>1, SameDocument DEF ReportsInv
<1>3. Owed' = Owed /\ Count' = Count /\ job \in Jobs /\ Count \in Nat
  BY <1>1, JobFacts DEF Owed, Count, Stored, ReportsInv, TypeOK
<1>4. /\ job.kind \in Queries
      /\ All \subseteq Owed
      /\ seen <= Count /\ seen \in Nat
      /\ \A m \in All : m <= seen
      /\ \A m \in Owed : m <= seen => m \in All
      /\ truncated => ~(Owed \subseteq All)
      /\ job.limit # Nil => Len(matched) <= job.limit
  BY <1>1 DEF ReportsInv, Picked, TypeOK, Queries, Listings
<1>5. Owed = {i \in 1..Count : Stored[i].fate \in {"match", "unrenderable"}}
  BY <1>3, <1>4, OwedBounds
<1>6. matched \in Seq(0..Count) /\ Len(matched) \in Nat
  BY DEF ReportsInv, TypeOK
<1>7. CASE NoMatch
  <2>1. /\ pc' = pc /\ matched' = matched /\ truncated' = truncated /\ seen' = seen + 1
        /\ seen < Count /\ Stored[seen + 1].fate = "other" /\ ~truncated
    BY <1>7 DEF NoMatch, Matching, Current
  <2>2. All' = All
    BY <2>1 DEF All
  <2>3. seen + 1 \notin Owed
    BY <1>5, <2>1
  <2>4. \A m \in Owed : m <= seen + 1 => m \in All
    BY <1>4, <1>5, <2>3
  <2>5. TypeOK'
    BY <1>1, <1>3, <2>1 DEF ReportsInv, TypeOK
  <2>6. \A m \in All : m <= seen + 1
    BY <1>4, <1>5
  <2>7. Picked'
    BY <1>1, <1>3, <1>4, <2>1, <2>2, <2>4, <2>6 DEF Picked
  <2> QED
    BY <1>1, <1>2, <2>1, <2>5, <2>7 DEF ReportsInv
<1>8. CASE CutShort
  <2>1. /\ pc' = pc /\ matched' = matched /\ truncated' = TRUE /\ seen' = seen
        /\ seen < Count /\ Stored[seen + 1].fate \in {"match", "unrenderable"}
    BY <1>8 DEF CutShort, IsMatch, Matching, Current
  <2>2. All' = All
    BY <2>1 DEF All
  <2>3. seen + 1 \in Owed /\ seen + 1 \notin All
    BY <1>3, <1>4, <1>5, <2>1
  <2>4. TypeOK'
    BY <1>1, <1>3, <2>1 DEF ReportsInv, TypeOK
  <2>5. Picked'
    BY <1>1, <1>3, <1>4, <2>1, <2>2, <2>3 DEF Picked
  <2> QED
    BY <1>1, <1>2, <2>1, <2>4, <2>5 DEF ReportsInv
<1>9. CASE KeepMatch
  <2>1. /\ pc' = pc /\ matched' = Append(matched, seen + 1) /\ truncated' = truncated
        /\ seen' = seen + 1 /\ seen < Count /\ ~truncated /\ ~LimitReached
        /\ Stored[seen + 1].fate \in {"match", "unrenderable"}
    BY <1>9 DEF KeepMatch, IsMatch, Matching, Current
  <2>2. /\ matched' \in Seq(0..Count) /\ Len(matched') = Len(matched) + 1
        /\ \A k \in 1..Len(matched) : matched'[k] = matched[k]
        /\ matched'[Len(matched) + 1] = seen + 1
    BY <1>3, <1>4, <1>6, <2>1
  <2>3. All' = All \cup {seen + 1}
    <3>1. All' = {matched'[k] : k \in 1..(Len(matched) + 1)}
      BY <2>2 DEF All
    <3>2. 1..(Len(matched) + 1) = (1..Len(matched)) \cup {Len(matched) + 1}
      BY <1>6
    <3> QED
      BY <2>2, <3>1, <3>2 DEF All
  <2>4. seen + 1 \in Owed /\ seen + 1 \notin All
    BY <1>3, <1>4, <1>5, <2>1
  <2>5. \A k, l \in 1..Len(matched') : matched'[k] = matched'[l] => k = l
    <3>1. \A k \in 1..Len(matched) : matched[k] # seen + 1
      BY <2>4 DEF All
    <3>2. \A k, l \in 1..Len(matched) : matched[k] = matched[l] => k = l
      BY DEF ReportsInv, TypeOK
    <3> QED
      BY <1>6, <2>2, <3>1, <3>2
  <2>6. TypeOK'
    BY <1>1, <1>3, <1>4, <2>1, <2>2, <2>5 DEF ReportsInv, TypeOK
  <2>7. job.limit # Nil => Len(matched') <= job.limit
    <3>1. job.limit # Nil => job.limit \in Nat
      BY <1>3, JobFacts
    <3> QED
      BY <1>6, <2>1, <2>2, <3>1 DEF LimitReached
  <2>8. \A m \in All' : m <= seen + 1
    BY <1>4, <1>5, <2>3
  <2>9. \A m \in Owed : m <= seen + 1 => m \in All'
    BY <1>4, <1>5, <2>3
  <2>10. Picked'
    BY <1>1, <1>3, <1>4, <2>1, <2>3, <2>4, <2>7, <2>8, <2>9 DEF Picked
  <2> QED
    BY <1>1, <1>2, <2>1, <2>6, <2>10 DEF ReportsInv
<1>10. CASE EndMatching
  <2>1. /\ pc' = "checking" /\ matched' = matched /\ truncated' = truncated /\ seen' = seen
        /\ seen = Count \/ truncated
    BY <1>10 DEF EndMatching
  <2>2. All' = All
    BY <2>1 DEF All
  <2>3. TypeOK'
    BY <1>1, <1>3, <2>1 DEF ReportsInv, TypeOK
  <2>4. truncated \/ Owed \subseteq All
    BY <1>4, <1>5, <2>1
  <2>5. Picked'
    BY <1>1, <1>3, <1>4, <2>1, <2>2, <2>4 DEF Picked
  <2> QED
    BY <1>1, <1>2, <2>1, <2>3, <2>5 DEF ReportsInv
<1> QED
  BY <1>7, <1>8, <1>9, <1>10

(* What is said of a writer is said of it in the next state, too. *)
LEMMA NextWriter ==
  /\ Open(w') => Open(w)'
  /\ Ended(w') => Ended(w)'
  /\ OnceIn(w') => OnceIn(w)'
  /\ SentIn(w)' = SentIn(w')
  /\ Marked(w)' <=> Marked(w')
  /\ At(w, "token")' = At(w', "token")
  /\ At(w, "failure")' = At(w', "failure")
<1>1. Open(w') => Open(w)'
  BY DEF Open, RowsWithinLimit, At, Marked
<1>2. Ended(w') => Ended(w)'
  BY DEF Ended, RowsWithinLimit, At, WellFormed
<1>3. OnceIn(w') => OnceIn(w)'
  BY DEF OnceIn, At
<1>4. SentIn(w)' = SentIn(w') /\ (Marked(w)' <=> Marked(w'))
  BY DEF SentIn, Marked, At
<1>5. At(w, "token")' = At(w', "token") /\ At(w, "failure")' = At(w', "failure")
  BY DEF At
<1> QED
  BY <1>1, <1>2, <1>3, <1>4, <1>5

LEMMA OpenDocumentKeepsInv ==
  ASSUME ReportsInv, OpenDocument
  PROVE  ReportsInv'
<1>1. /\ pc = "checking" /\ pc' = "writing" /\ job' = job /\ matched' = matched
      /\ truncated' = truncated /\ seen' = 0 /\ ~OverLimit
  BY DEF OpenDocument
<1>2. Owed' = Owed /\ Count' = Count /\ All' = All
  BY <1>1 DEF Owed, Count, Stored, All
<1>3. job \in Jobs /\ Count \in Nat /\ job.echo \in Nat
  BY JobFacts DEF ReportsInv, TypeOK
<1>4. TypeOK'
  BY <1>1, <1>2 DEF ReportsInv, TypeOK
<1>5. Picked'
  BY <1>1, <1>2 DEF ReportsInv, Picked
<1>6. matched \in Seq(0..Count) /\ Len(matched) \in Nat
  BY DEF ReportsInv, TypeOK
<1>7. job.limit # Nil => Len(matched) <= job.limit
  <2>1. CASE job.kind \in Queries
    BY <1>1, <2>1 DEF ReportsInv, Picked
  <2>2. CASE job.kind \notin Queries
    <3> SUFFICES ASSUME job.limit # Nil PROVE Len(matched) <= job.limit
      OBVIOUS
    <3>1. job.limit \in Nat /\ job.kind \in Syncs
      BY <1>3, <2>2, JobFacts DEF Queries
    <3> QED
      BY <1>1, <1>6, <3>1 DEF OverLimit
  <2> QED
    BY <2>1, <2>2
<1>8. Shown(seen)' = {}
  BY <1>1 DEF Shown
<1> DEFINE echoLimit == IF job.kind \in Listings THEN MaxResponsePropBytes ELSE 0
<1>9. w' = NewWriter(MaxResponseBytes, job.echo, echoLimit)
  BY DEF OpenDocument
<1>10. MaxResponseBytes \in Int /\ echoLimit \in Int
       /\ (job.kind \notin Listings => echoLimit = 0)
  BY BudgetsAssumption
<1> HIDE DEF echoLimit
<1>11. /\ Open(w') /\ w'.token = Nil /\ ~w'.exhausted /\ ~w'.declared
       /\ w'.echoLimit = echoLimit /\ SentIn(w') = {} /\ OnceIn(w')
  BY <1>3, <1>9, <1>10, NewWriterOpen
<1>12. Writes'
  BY <1>1, <1>6, <1>7, <1>8, <1>10, <1>11, NextWriter DEF Writes
<1> QED
  BY <1>1, <1>4, <1>5, <1>12 DEF ReportsInv

(* The next row, and what writing it adds to what is shown. *)
LEMMA RowFacts ==
  ASSUME ReportsInv, Writing
  PROVE  /\ Row \in Nat /\ RowBytes \in Nat
         /\ seen \in Nat /\ Len(matched) \in Nat /\ seen + 1 <= Len(matched)
         /\ Hidden <=> Row \notin Owed
         /\ Row \notin Shown(seen)
         /\ Shown(seen + 1) = Shown(seen) \cup ({Row} \cap Owed)
<1>1. /\ pc = "writing" /\ seen \in Nat /\ seen < Len(matched) /\ job \in Jobs
      /\ matched \in Seq(0..Count) /\ Len(matched) \in Nat
  BY DEF ReportsInv, TypeOK, Writing
<1>2. Count \in Nat /\ Stored \in Seq(Member) /\ job.kind \in Kind
  BY <1>1, JobFacts
<1>3. Row \in 0..Count
  BY <1>1, <1>2 DEF Row
<1>4. RowBytes \in Nat
  <2>1. CASE Row = 0 \/ Fate # "match"
    BY <2>1, SizesAssumption DEF RowBytes
  <2>2. CASE ~(Row = 0 \/ Fate # "match")
    <3>1. Row \in 1..Len(Stored)
      BY <1>2, <1>3, <2>2 DEF Count
    <3>2. Stored[Row] \in Member
      BY <1>2, <3>1
    <3> QED
      BY <2>2, <3>2 DEF RowBytes, Member
  <2> QED
    BY <2>1, <2>2
<1>5. Hidden <=> Row \notin Owed
  <2>1. CASE job.kind \in Queries
    <3>1. Row \in All
      BY <1>1 DEF Row, All
    <3>2. Row \in Owed
      BY <2>1, <3>1 DEF ReportsInv, Picked, Queries, Listings
    <3> QED
      BY <2>1, <3>2 DEF Hidden, Queries
  <2>2. CASE job.kind = "account listing"
    <3>1. Owed = {0} \cup {i \in 1..Count : Stored[i].fate # "other"}
      BY <1>1, <2>2, OwedBounds
    <3>2. CASE Row = 0
      BY <3>1, <3>2 DEF Hidden, Fate
    <3>3. CASE Row # 0
      <4>1. Row \in 1..Count
        BY <1>2, <1>3, <3>3
      <4>2. Row \in Owed <=> Stored[Row].fate # "other"
        BY <3>1, <3>3, <4>1
      <4> QED
        BY <2>2, <3>3, <4>2 DEF Hidden, Fate
    <3> QED
      BY <3>2, <3>3
  <2>3. CASE job.kind \notin Queries /\ job.kind # "account listing"
    <3>1. ~Hidden
      BY <2>3 DEF Hidden
    <3>2. CASE job.kind = "collection listing"
      <4>1. Owed = 0..Count
        BY <1>1, <3>2, OwedBounds
      <4> QED
        BY <1>3, <3>1, <4>1
    <3>3. CASE job.kind # "collection listing"
      <4>1. Owed = 1..Count
        BY <1>1, <2>3, <3>3, OwedBounds DEF Listings
      <4>2. Row \in All
        BY <1>1 DEF Row, All
      <4> QED
        BY <2>3, <3>1, <3>3, <4>2 DEF ReportsInv, Picked, Listings
    <3> QED
      BY <3>2, <3>3
  <2> QED
    BY <2>1, <2>2, <2>3
<1>6. Row \notin Shown(seen)
  <2>1. \A k \in 1..seen : matched[k] # matched[seen + 1]
    BY <1>1 DEF ReportsInv, TypeOK
  <2> QED
    BY <2>1 DEF Shown, Row
<1>7. Shown(seen + 1) = Shown(seen) \cup ({Row} \cap Owed)
  <2>1. 1..(seen + 1) = (1..seen) \cup {seen + 1}
    BY <1>1
  <2> QED
    BY <2>1 DEF Shown, Row
<1> QED
  BY <1>1, <1>3, <1>4, <1>5, <1>6, <1>7

(* While the document is written nothing else changes. *)
LEMMA WritingFrame ==
  ASSUME ReportsInv, pc = "writing",
         job' = job, matched' = matched, truncated' = truncated,
         seen' \in Nat, pc' \in {"writing", "done"}
  PROVE  /\ TypeOK' /\ Picked'
         /\ Owed' = Owed /\ All' = All
         /\ \A n \in Nat : seen' = n => Shown(seen)' = Shown(n)
<1>1. Owed' = Owed /\ Count' = Count /\ All' = All
  BY DEF Owed, Count, Stored, All
<1>2. TypeOK'
  BY <1>1 DEF ReportsInv, TypeOK
<1>3. Picked'
  BY <1>1 DEF ReportsInv, Picked
<1>4. \A n \in Nat : seen' = n => Shown(seen)' = Shown(n)
  BY <1>1 DEF Shown
<1> QED
  BY <1>1, <1>2, <1>3, <1>4

LEMMA ShownInAll ==
  ASSUME ReportsInv, pc = "writing"
  PROVE  /\ Writes /\ seen \in Nat /\ Len(matched) \in Nat
         /\ Shown(seen) \subseteq All \cap Owed
         /\ Shown(Len(matched)) = All \cap Owed
<1>1. Writes /\ seen \in Nat /\ Len(matched) \in Nat /\ seen <= Len(matched)
  BY DEF ReportsInv, TypeOK, Writes
<1>2. 1..seen \subseteq 1..Len(matched)
  BY <1>1
<1> QED
  BY <1>1, <1>2 DEF Shown, All

LEMMA WriteRowKeepsInv ==
  ASSUME ReportsInv, WriteRow
  PROVE  ReportsInv'
<1>1. /\ pc = "writing" /\ pc' = pc /\ job' = job /\ matched' = matched
      /\ truncated' = truncated /\ seen' = seen + 1
      /\ Writing /\ ~Hidden /\ ~WriteFails(w) /\ w' = Write(w, Row, RowBytes)
  BY DEF WriteRow, Writing
<1>2. /\ Row \in Nat /\ RowBytes \in Nat /\ Row \in Owed
      /\ seen \in Nat /\ Len(matched) \in Nat /\ seen + 1 <= Len(matched)
      /\ Row \notin Shown(seen)
      /\ Shown(seen + 1) = Shown(seen) \cup ({Row} \cap Owed)
  BY <1>1, RowFacts
<1>3. Writes
  BY <1>1 DEF ReportsInv
<1>4. Wrote(w, w', Row)
  BY <1>1, <1>2, <1>3, WriteOpen DEF Writes
<1>5. /\ TypeOK' /\ Picked' /\ Shown(seen)' = Shown(seen + 1)
  BY <1>1, <1>2, WritingFrame
<1>6. Shown(seen)' = Shown(seen) \cup {Row}
  BY <1>2, <1>5
<1>7. /\ Open(w') /\ w'.token = Nil /\ ~w'.declared /\ w'.echoLimit = w.echoLimit
      /\ SentIn(w) \subseteq SentIn(w') /\ SentIn(w') \subseteq SentIn(w) \cup {Row}
      /\ Row \in SentIn(w') \/ w'.exhausted
      /\ Row \notin SentIn(w) /\ OnceIn(w) => OnceIn(w')
      /\ w.exhausted => w' = w
      /\ w'.exhausted /\ w'.echoLimit <= 0 /\ Row \notin SentIn(w) => Row \notin SentIn(w')
  BY <1>3, <1>4 DEF Writes, Wrote, Continues
<1>8. SentIn(w) \subseteq Shown(seen) /\ Row \notin SentIn(w) /\ OnceIn(w')
  BY <1>2, <1>3, <1>7 DEF Writes
<1>9. ~w'.exhausted => SentIn(w') = Shown(seen) \cup {Row}
  <2> SUFFICES ASSUME ~w'.exhausted PROVE SentIn(w') = Shown(seen) \cup {Row}
    OBVIOUS
  <2>1. ~w.exhausted
    BY <1>7
  <2>2. SentIn(w) = Shown(seen)
    BY <1>3, <2>1 DEF Writes
  <2> QED
    BY <1>7, <2>2
<1>10. job.kind \notin Listings => w'.echoLimit <= 0
  BY <1>3, <1>7 DEF Writes
<1>11. job.kind \notin Listings /\ w'.exhausted => SentIn(w') # Shown(seen) \cup {Row}
  BY <1>7, <1>8, <1>10
<1>12. Writes'
  <2>1. job'.limit # Nil => Len(matched') <= job'.limit
    BY <1>1, <1>3 DEF Writes
  <2>2. SentIn(w') \subseteq Shown(seen) \cup {Row}
    BY <1>7, <1>8
  <2> QED
    BY <1>1, <1>2, <1>6, <1>7, <1>8, <1>9, <1>10, <1>11, <2>1, <2>2, NextWriter DEF Writes
<1> QED
  BY <1>1, <1>5, <1>12 DEF ReportsInv

LEMMA SkipHiddenKeepsInv ==
  ASSUME ReportsInv, SkipHidden
  PROVE  ReportsInv'
<1>1. /\ pc = "writing" /\ pc' = pc /\ job' = job /\ matched' = matched
      /\ truncated' = truncated /\ seen' = seen + 1 /\ w' = w
      /\ Writing /\ Hidden
  BY DEF SkipHidden, Writing
<1>2. /\ seen \in Nat /\ seen + 1 <= Len(matched)
      /\ Shown(seen + 1) = Shown(seen)
  BY <1>1, RowFacts
<1>3. Writes
  BY <1>1 DEF ReportsInv
<1>4. /\ TypeOK' /\ Picked' /\ Shown(seen)' = Shown(seen)
  BY <1>1, <1>2, WritingFrame
<1>5. Writes'
  BY <1>1, <1>2, <1>3, <1>4, NextWriter DEF Writes
<1> QED
  BY <1>1, <1>4, <1>5 DEF ReportsInv

LEMMA ConnectionBreaksKeepsInv ==
  ASSUME ReportsInv, ConnectionBreaks
  PROVE  ReportsInv'
<1>1. /\ pc = "writing" /\ pc' = pc /\ job' = job /\ matched' = matched
      /\ truncated' = truncated /\ seen' = seen /\ w' = Broken(w)
  BY DEF ConnectionBreaks
<1>2. seen \in Nat
  BY DEF ReportsInv, TypeOK
<1>3. Writes
  BY <1>1 DEF ReportsInv
<1>4. /\ TypeOK' /\ Picked' /\ Shown(seen)' = Shown(seen)
  BY <1>1, <1>2, WritingFrame
<1>5. /\ Open(w') /\ w'.token = w.token /\ w'.echoLimit = w.echoLimit
      /\ w'.exhausted = w.exhausted /\ w'.declared = w.declared
      /\ SentIn(w') = SentIn(w) /\ (OnceIn(w) => OnceIn(w'))
  BY <1>1, <1>3, BrokenOpen DEF Writes
<1>6. Writes'
  BY <1>1, <1>3, <1>4, <1>5, NextWriter DEF Writes
<1> QED
  BY <1>1, <1>4, <1>6 DEF ReportsInv

(* A document given up is answered with what was sent of it. *)
LEMMA GivenUpIsAnswered ==
  ASSUME ReportsInv, pc = "writing", GivenUp(w, w'),
         job' = job, matched' = matched, truncated' = truncated, seen' = seen,
         pc' = "done",
         w'.up => /\ Marked(w') \/ At(w', "failure") # {}
                  /\ Marked(w') <=> Marked(w)
  PROVE  ReportsInv'
<1>1. Writes /\ seen \in Nat /\ Shown(seen) \subseteq All \cap Owed
  BY ShownInAll
<1>2. TypeOK' /\ Picked' /\ Owed' = Owed /\ All' = All
  BY <1>1, WritingFrame
<1>3. /\ Ended(w') /\ OnceIn(w') /\ SentIn(w') = SentIn(w) /\ At(w', "token") = {}
  BY <1>1 DEF GivenUp, Writes
<1>4. SentIn(w) \subseteq All \cap Owed
  BY <1>1 DEF Writes
<1>5. job.kind \notin Listings /\ Marked(w) => SentIn(w) # Owed
  <2> SUFFICES ASSUME job.kind \notin Listings, Marked(w) PROVE SentIn(w) # Owed
    OBVIOUS
  <2>1. w.exhausted
    BY <1>1 DEF Writes, Open, Marked, At
  <2>2. SentIn(w) # Shown(seen) /\ SentIn(w) \subseteq Shown(seen)
    BY <1>1, <2>1 DEF Writes
  <2> QED
    BY <1>1, <2>2
<1>6. job.limit # Nil => Len(matched) <= job.limit
  BY <1>1 DEF Writes
<1>7. Answered'
  BY <1>2, <1>3, <1>4, <1>5, <1>6, NextWriter DEF Answered
<1> QED
  BY <1>2, <1>7 DEF ReportsInv

LEMMA RowFailsKeepsInv ==
  ASSUME ReportsInv, RowFails \/ WriteBreaks
  PROVE  ReportsInv'
<1>1. /\ pc = "writing" /\ job' = job /\ matched' = matched /\ seen' = seen
      /\ truncated' = truncated /\ pc' = "done"
  BY DEF RowFails, FailRow, WriteBreaks, Writing
<1>2. Writes
  BY <1>1 DEF ReportsInv
<1>3. CASE RowFails /\ w.started
  <2>1. w' = Abort(Fail(w))
    BY <1>3 DEF RowFails, FailRow
  <2>2. /\ GivenUp(w, w')
        /\ w'.up => Marked(w') \/ At(w', "failure") # {}
        /\ Marked(w') <=> Marked(w)
    <3>1. Open(w) /\ w.started /\ w.token = Nil
      BY <1>2, <1>3 DEF Writes
    <3> QED
      BY <2>1, <3>1, FailEnds
  <2> QED
    BY <1>1, <2>2, GivenUpIsAnswered
<1>4. CASE RowFails /\ ~w.started
  <2>1. w' = ServeError(Abort(w))
    BY <1>4 DEF RowFails, FailRow
  <2>2. Refused(w')
    BY <1>2, <1>4, <2>1, RefusesUnstarted DEF Writes
  <2>3. TypeOK' /\ Picked'
    BY <1>1, WritingFrame DEF ReportsInv, TypeOK
  <2>4. Answered'
    BY <2>2, NextWriter DEF Refused, Answered
  <2> QED
    BY <1>1, <2>3, <2>4 DEF ReportsInv
<1>5. CASE WriteBreaks
  <2>1. w' = ServeError(Abort(Write(w, Row, RowBytes))) /\ WriteFails(w)
    BY <1>5 DEF WriteBreaks
  <2>2. GivenUp(w, w') /\ ~w'.up
    BY <1>2, <2>1, BreakEnds DEF Writes
  <2> QED
    BY <1>1, <2>2, GivenUpIsAnswered
<1> QED
  BY <1>3, <1>4, <1>5

LEMMA FinishKeepsInv ==
  ASSUME ReportsInv, Finish
  PROVE  ReportsInv'
<1> DEFINE t == IF truncated THEN Truncate(w) ELSE w
           d == IF job.kind \in Syncs THEN SetSyncToken(t, Count) ELSE t
<1>1. /\ pc = "writing" /\ job' = job /\ matched' = matched /\ seen' = seen
      /\ truncated' = truncated /\ pc' = "done" /\ seen = Len(matched)
  BY DEF Finish
<1>2. w' = Abort(Close(d))
  BY DEF Finish, Finished
<1>3. Writes /\ seen \in Nat /\ Shown(seen) = All \cap Owed
  BY <1>1, ShownInAll
<1>4. TypeOK' /\ Picked' /\ Owed' = Owed /\ All' = All
  BY <1>1, <1>3, WritingFrame
<1>5. Open(w) /\ OnceIn(w) /\ w.token = Nil /\ ~w.declared
  BY <1>3 DEF Writes
<1>6. /\ Open(t) /\ SentIn(t) = SentIn(w) /\ OnceIn(t) /\ t.token = Nil
      /\ truncated => t.exhausted
      /\ w.exhausted => t = w
      /\ ~truncated => t = w
  <2>1. CASE truncated
    <3>1. Cut(w, t)
      BY <1>5, <2>1, TruncateOpen
    <3> QED
      BY <1>5, <2>1, <3>1 DEF Cut, Continues
  <2>2. CASE ~truncated
    BY <1>5, <2>2
  <2> QED
    BY <2>1, <2>2 DEF ReportsInv, TypeOK
<1> HIDE DEF t
<1>7. /\ Open(d) /\ SentIn(d) = SentIn(w) /\ OnceIn(d)
      /\ d.exhausted = t.exhausted /\ d.declared = t.declared
      /\ (d.token # Nil => job.kind \in Syncs)
      /\ Marked(d) <=> Marked(t)
  <2>1. CASE job.kind \in Syncs
    <3>1. d = [t EXCEPT !.token = Count]
      BY <2>1 DEF SetSyncToken
    <3>2. t \in Writer /\ Count \in Nat
      BY <1>6, JobFacts DEF Open, ReportsInv, TypeOK
    <3> HIDE DEF d
    <3>3. d \in Writer
      BY <3>1, <3>2 DEF Writer
    <3>4. /\ d.status = t.status /\ d.limit = t.limit /\ d.bytes = t.bytes
          /\ d.started = t.started /\ d.ready = t.ready /\ d.up = t.up
          /\ d.closed = t.closed /\ d.exhausted = t.exhausted /\ d.wire = t.wire
          /\ d.declared = t.declared
      BY <3>1, <3>2 DEF Writer
    <3>5. SameRows(t, d) /\ \A kind : At(d, kind) = At(t, kind)
      BY <3>4, SameWire
    <3>6. Open(d)
      BY <1>6, <3>3, <3>4, <3>5 DEF Open, RowsWithinLimit, Marked
    <3> QED
      BY <1>6, <2>1, <3>4, <3>5, <3>6 DEF SameRows
  <2>2. CASE job.kind \notin Syncs
    BY <1>6, <2>2
  <2> QED
    BY <2>1, <2>2
<1> HIDE DEF d
<1>8. /\ Ended(w') /\ w'.status = "207" /\ w'.up = d.up
      /\ SentIn(w') = SentIn(w) /\ OnceIn(w')
      /\ Marked(w') <=> Marked(d)
      /\ At(w', "failure") = {}
      /\ At(w', "token") # {} => TokenOwed(d)
  BY <1>2, <1>7, FinishEnds
<1>9. SentIn(w) \subseteq All \cap Owed
  BY <1>3 DEF Writes
<1>10. ~w.exhausted => SentIn(w) = All \cap Owed
  BY <1>3 DEF Writes
<1>11. w'.up => SentIn(w') = Owed \/ Marked(w')
  <2>1. CASE truncated \/ w.exhausted
    <3>1. d.exhausted
      BY <1>6, <1>7, <2>1
    <3> QED
      BY <1>7, <1>8, <3>1 DEF Open
  <2>2. CASE ~truncated /\ ~w.exhausted
    <3>1. Owed \subseteq All
      BY <1>1, <2>2 DEF ReportsInv, Picked
    <3> QED
      BY <1>8, <1>10, <2>2, <3>1
  <2> QED
    BY <2>1, <2>2
<1>12. job.kind \notin Listings /\ Marked(w') => SentIn(w') # Owed \/ job.more
  <2> SUFFICES ASSUME job.kind \notin Listings, Marked(w')
               PROVE  SentIn(w') # Owed \/ job.more
    OBVIOUS
  <2>1. d.exhausted
    BY <1>7, <1>8 DEF Open, Marked, At
  <2>2. CASE w.exhausted
    <3>1. SentIn(w) # All \cap Owed
      BY <1>3, <2>2 DEF Writes
    <3> QED
      BY <1>8, <1>9, <3>1
  <2>3. CASE ~w.exhausted
    <3>1. truncated
      BY <1>6, <1>7, <2>1, <2>3
    <3>2. job.more \/ ~(Owed \subseteq All)
      BY <3>1 DEF ReportsInv, Picked
    <3> QED
      BY <1>8, <1>9, <3>2
  <2> QED
    BY <2>2, <2>3
<1>13. At(w', "token") # {} => SentIn(w') = Owed
  <2> SUFFICES ASSUME TokenOwed(d) PROVE SentIn(w) = Owed
    BY <1>8
  <2>1. job.kind \in Syncs /\ (~d.exhausted \/ d.declared)
    BY <1>7 DEF TokenOwed
  <2>2. ~w.exhausted
    BY <1>5, <1>6, <1>7, <2>1
  <2>3. Owed \subseteq All
    BY <1>1, <2>1 DEF ReportsInv, Picked, Syncs, Queries
  <2> QED
    BY <1>10, <2>2, <2>3
<1>14. job.limit # Nil => Len(matched) <= job.limit
  BY <1>3 DEF Writes
<1>15. Answered'
  BY <1>1, <1>4, <1>8, <1>9, <1>11, <1>12, <1>13, <1>14, NextWriter DEF Answered
<1> QED
  BY <1>1, <1>4, <1>15 DEF ReportsInv

THEOREM Reporting == ReportsSpec => []ReportsInv
<1>1. ReportsInit => ReportsInv
  BY InitInv
<1>2. ReportsInv /\ [ReportsNext]_vars => ReportsInv'
  <2> SUFFICES ASSUME ReportsInv, [ReportsNext]_vars PROVE ReportsInv'
    OBVIOUS
  <2>1. CASE YieldItem \/ EndListing
    BY <2>1, ListingKeepsInv
  <2>2. CASE ListFails \/ ListOverrun \/ ListViolation \/ Unmatchable \/ TooManyMatches \/ BoundFails
    <3>1. pc \notin {"writing", "done"} /\ \E reason : Refuse(reason)
      BY <2>2 DEF ListFails, ListOverrun, ListViolation, Unmatchable, TooManyMatches, BoundFails,
                  Listed, Matching, IsMatch
    <3> QED
      BY <3>1, RefuseKeepsInv
  <2>3. CASE NoMatch \/ CutShort \/ KeepMatch \/ EndMatching
    BY <2>3, MatchingKeepsInv
  <2>4. CASE OpenDocument
    BY <2>4, OpenDocumentKeepsInv
  <2>5. CASE SkipHidden
    BY <2>5, SkipHiddenKeepsInv
  <2>6. CASE WriteRow
    BY <2>6, WriteRowKeepsInv
  <2>7. CASE RowFails \/ WriteBreaks
    BY <2>7, RowFailsKeepsInv
  <2>8. CASE Finish
    BY <2>8, FinishKeepsInv
  <2>9. CASE ConnectionBreaks
    BY <2>9, ConnectionBreaksKeepsInv
  <2>10. CASE UNCHANGED vars
    <3>1. /\ job' = job /\ pc' = pc /\ seen' = seen /\ matched' = matched
          /\ truncated' = truncated /\ w' = w
      BY <2>10 DEF vars
    <3>2. Owed' = Owed /\ Count' = Count /\ All' = All
      BY <3>1 DEF Owed, Count, Stored, All
    <3>3. Shown(seen)' = Shown(seen)
      BY <3>1, <3>2 DEF Shown
    <3>4. TypeOK'
      BY <3>1, <3>2 DEF ReportsInv, TypeOK
    <3>5. Picked'
      BY <3>1, <3>2 DEF ReportsInv, Picked
    <3>6. pc = "writing" => Writes'
      BY <3>1, <3>3, NextWriter DEF ReportsInv, Writes
    <3>7. pc = "done" => Answered'
      BY <3>1, <3>2, NextWriter DEF ReportsInv, Answered
    <3> QED
      BY <3>1, <3>4, <3>5, <3>6, <3>7, NextWriter DEF ReportsInv
  <2> QED
    BY <2>1, <2>2, <2>3, <2>4, <2>5, <2>6, <2>7, <2>8, <2>9, <2>10 DEF ReportsNext
<1> QED
  BY <1>1, <1>2, PTL DEF ReportsSpec

---------------------------------------------------------------------------
(* What the client may rely on.                                            *)

LEMMA DocumentFacts ==
  ASSUME ReportsInv
  PROVE  /\ WellFormed(w) /\ RowsWithinLimit(w)
         /\ At(w, "error text") = {}
         /\ w.status = "error" => w.wire = <<>>
         /\ w.wire \in Seq(Piece)
<1>1. Open(w) \/ Ended(w)
  BY DEF ReportsInv, TypeOK, Writes, Answered
<1>2. CASE Open(w)
  BY <1>2, OpenIsWellFormed DEF Open, Writer
<1>3. CASE Ended(w)
  BY <1>3 DEF Ended, Writer
<1> QED
  BY <1>1, <1>2, <1>3

(* Rows that are about different members are as many as their members.     *)
LEMMA RowCount ==
  ASSUME NEW d, d.wire \in Seq(Piece), OnceIn(d)
  PROVE  /\ IsFiniteSet(At(d, "row")) /\ IsFiniteSet(SentIn(d))
         /\ Cardinality(At(d, "row")) = Cardinality(SentIn(d))
         /\ Cardinality(At(d, "row")) \in Nat
<1> DEFINE f == [i \in At(d, "row") |-> d.wire[i].of]
<1>1. At(d, "row") \subseteq 1..Len(d.wire) /\ Len(d.wire) \in Nat
  BY DEF At
<1>2. IsFiniteSet(1..Len(d.wire))
  BY <1>1, FS_Interval
<1>3. IsFiniteSet(At(d, "row"))
  BY <1>1, <1>2, FS_Subset
<1>4. f \in Surjection(At(d, "row"), SentIn(d))
  BY DEF Surjection, SentIn
<1>5. f \in Injection(At(d, "row"), SentIn(d))
  BY DEF Injection, IsInjective, SentIn, OnceIn
<1>6. f \in Bijection(At(d, "row"), SentIn(d))
  BY <1>4, <1>5 DEF Bijection
<1> HIDE DEF f
<1>7. ExistsBijection(At(d, "row"), SentIn(d))
  BY <1>6 DEF ExistsBijection
<1>8. /\ IsFiniteSet(SentIn(d))
      /\ Cardinality(SentIn(d)) = Cardinality(At(d, "row"))
  BY <1>3, <1>7, FS_Bijection
<1> QED
  BY <1>3, <1>8, FS_CardinalityType

(* At most as many members as rows were drawn up. *)
LEMMA AllCount ==
  ASSUME ReportsInv, NEW S \in SUBSET All
  PROVE  IsFiniteSet(S) /\ Cardinality(S) <= Len(matched)
<1> DEFINE f == [k \in 1..Len(matched) |-> matched[k]]
<1>1. Len(matched) \in Nat
  BY DEF ReportsInv, TypeOK
<1>2. f \in Surjection(1..Len(matched), All)
  BY DEF Surjection, All
<1> HIDE DEF f
<1>3. ExistsSurjection(1..Len(matched), All)
  BY <1>2 DEF ExistsSurjection
<1>4. IsFiniteSet(All)
  BY <1>1, <1>3, FS_NatSurjection
<1>5. Cardinality(All) <= Len(matched)
  BY <1>1, <1>3, FS_SurjCardinalityBound
<1>6. IsFiniteSet(S) /\ Cardinality(S) <= Cardinality(All)
  BY <1>4, FS_Subset
<1>7. Cardinality(S) \in Nat /\ Cardinality(All) \in Nat
  BY <1>4, <1>6, FS_CardinalityType
<1> QED
  BY <1>1, <1>5, <1>6, <1>7

LEMMA SentIsSentIn == Sent = SentIn(w)
BY DEF Sent, SentIn

(* However calls, budgets and failures mix, and wherever the connection    *)
(* breaks, what reached the client begins one well-formed document.        *)
THEOREM DocumentIsWellFormed == ReportsSpec => []DocumentWellFormed
<1>1. ReportsInv => DocumentWellFormed
  BY DocumentFacts DEF DocumentWellFormed
<1> QED
  BY <1>1, Reporting, PTL

(* No byte of a row lies beyond MaxResponseBytes. *)
THEOREM RowsStayWithinBudget == ReportsSpec => []RowsKeepToBudget
<1>1. ReportsInv => RowsKeepToBudget
  BY DocumentFacts DEF RowsKeepToBudget
<1> QED
  BY <1>1, Reporting, PTL

(* An HTTP error or a document, never both, and the document is closed.    *)
THEOREM EveryRequestAnsweredOnce == ReportsSpec => []AnsweredOnce
<1>1. ReportsInv => AnsweredOnce
  <2> SUFFICES ASSUME ReportsInv PROVE AnsweredOnce
    OBVIOUS
  <2>1. pc = "done" => Ended(w)
    BY DEF ReportsInv, Answered
  <2> QED
    BY <2>1, DocumentFacts DEF AnsweredOnce, Ended
<1> QED
  BY <1>1, Reporting, PTL

(* A complete answer has a row for each member it owes, once, or it says   *)
(* that it is not complete.                                                *)
THEOREM NothingOmittedInSilence == ReportsSpec => []NoSilentOmission
<1>1. ReportsInv => NoSilentOmission
  <2> SUFFICES ASSUME ReportsInv, Delivered
               PROVE  /\ Cardinality(At(w, "row")) = Cardinality(Sent)
                      /\ Sent \subseteq Owed
                      /\ Sent = Owed \/ At(w, "marker") # {} \/ At(w, "failure") # {}
    BY DEF NoSilentOmission
  <2>1. Answered /\ w.up /\ w.status = "207"
    BY DEF ReportsInv, Delivered
  <2>2. w.wire \in Seq(Piece) /\ OnceIn(w)
    BY <2>1, DocumentFacts DEF Answered
  <2>3. Cardinality(At(w, "row")) = Cardinality(Sent)
    BY <2>2, RowCount, SentIsSentIn
  <2> QED
    BY <2>1, <2>3, SentIsSentIn DEF Answered, Marked
<1> QED
  BY <1>1, Reporting, PTL

(* The marker is there only if a member is missing. *)
THEOREM MarkersAreHonest == ReportsSpec => []MarkerIsHonest
<1>1. ReportsInv => MarkerIsHonest
  BY SentIsSentIn DEF ReportsInv, Answered, Delivered, MarkerIsHonest, Marked
<1> QED
  BY <1>1, Reporting, PTL

(* A client that is given a token was given everything the token stands    *)
(* for.                                                                    *)
THEOREM TokensDescribeRows == ReportsSpec => []TokenDescribesRows
<1>1. ReportsInv => TokenDescribesRows
  <2> SUFFICES ASSUME ReportsInv, At(w, "token") # {}
               PROVE  Sent = Owed /\ At(w, "failure") = {}
    BY DEF TokenDescribesRows
  <2>1. pc = "done"
    <3>1. CASE pc # "done"
      <4>1. Open(w)
        BY <3>1 DEF ReportsInv, TypeOK, Writes
      <4> QED
        BY <4>1, OpenIsWellFormed
    <3> QED
      BY <3>1
  <2> QED
    BY <2>1, SentIsSentIn DEF ReportsInv, Answered
<1> QED
  BY <1>1, Reporting, PTL

(* A client is never sent more rows than it asked for. *)
THEOREM LimitsAreRespected == ReportsSpec => []LimitRespected
<1>1. ReportsInv => LimitRespected
  <2> SUFFICES ASSUME ReportsInv, w.status = "207", job.limit # Nil
               PROVE  Cardinality(At(w, "row")) <= job.limit
    BY DEF LimitRespected
  <2>1. OnceIn(w) /\ SentIn(w) \subseteq All /\ Len(matched) <= job.limit
    <3>1. CASE pc = "writing"
      BY <3>1, ShownInAll DEF Writes
    <3>2. CASE pc = "done"
      BY <3>2 DEF ReportsInv, Answered
    <3>3. CASE pc \notin {"writing", "done"}
      BY <3>3 DEF ReportsInv, Open
    <3> QED
      BY <3>1, <3>2, <3>3
  <2>2. Cardinality(At(w, "row")) = Cardinality(SentIn(w)) /\ Cardinality(At(w, "row")) \in Nat
    BY <2>1, DocumentFacts, RowCount
  <2>3. Cardinality(SentIn(w)) <= Len(matched)
    BY <2>1, AllCount
  <2>4. Len(matched) \in Nat /\ job.limit \in Nat
    BY JobFacts DEF ReportsInv, TypeOK
  <2> QED
    BY <2>1, <2>2, <2>3, <2>4
<1> QED
  BY <1>1, Reporting, PTL

---------------------------------------------------------------------------
(* Refusals.                                                               *)

(* A set of naturals that is not empty has a least element. *)
LEMMA NatMin ==
  ASSUME NEW S \in SUBSET Nat, S # {}
  PROVE  \E m \in S : \A x \in S : m <= x
<1> DEFINE R == OpToRel(<, Nat)
<1>1. IsWellFoundedOn(R, Nat)
  BY NatLessThanWellFounded
<1>2. \A a, b \in Nat : a < b => <<a, b>> \in R
  BY DEF OpToRel
<1> HIDE DEF R
<1>3. PICK m \in S : \A x \in S : ~(<<x, m>> \in R)
  BY <1>1, WFMin
<1>4. \A x \in S : ~(x < m) /\ x \in Nat /\ m \in Nat
  BY <1>2, <1>3
<1> QED
  BY <1>4

(* A budget of bytes that some of the members go over, all of them do.     *)
Sums(s, n, f) ==
  /\ f \in [0..n -> Nat]
  /\ f[0] = 0
  /\ \A k \in 1..n : f[k] = f[k - 1] + s[k].bytes

LEMMA SumExists ==
  ASSUME NEW s \in Seq(Member)
  PROVE  \E f : Sums(s, Len(s), f)
<1> DEFINE bad == {n \in 0..Len(s) : ~ \E f : Sums(s, n, f)}
<1>1. \A k \in 1..Len(s) : s[k].bytes \in Nat
  <2>1. \A k \in 1..Len(s) : s[k] \in Member
    OBVIOUS
  <2> QED
    BY <2>1 DEF Member
<1>2. ASSUME bad # {} PROVE FALSE
  <2>1. bad \in SUBSET Nat
    OBVIOUS
  <2>2. PICK m \in bad : \A x \in bad : m <= x
    <3> HIDE DEF bad
    <3> QED
      BY <1>2, <2>1, NatMin
  <2>3. CASE m = 0
    <3>1. Sums(s, 0, [k \in 0..0 |-> 0])
      BY DEF Sums
    <3> QED
      BY <2>2, <2>3, <3>1
  <2>4. CASE m # 0
    <3>1. m - 1 \in 0..Len(s) /\ m - 1 \notin bad /\ m \in Nat /\ m \in 1..Len(s)
      BY <2>2, <2>4
    <3>2. PICK f : Sums(s, m - 1, f)
      BY <3>1
    <3> DEFINE g == [k \in 0..m |-> IF k < m THEN f[k] ELSE f[m - 1] + s[m].bytes]
    <3>3. g \in [0..m -> Nat]
      BY <1>1, <3>1, <3>2 DEF Sums
    <3>4. g[0] = 0
      BY <3>1, <3>2 DEF Sums
    <3>5. \A k \in 1..m : g[k] = g[k - 1] + s[k].bytes
      BY <3>1, <3>2 DEF Sums
    <3> HIDE DEF g
    <3>6. Sums(s, m, g)
      BY <3>3, <3>4, <3>5 DEF Sums
    <3> QED
      BY <2>2, <3>6
  <2> QED
    BY <2>3, <2>4
<1>3. Len(s) \in 0..Len(s)
  OBVIOUS
<1> QED
  BY <1>2, <1>3

LEMMA BytesFacts ==
  ASSUME job \in Jobs
  PROVE  \A n \in 0..Count : Bytes(n) \in Nat /\ Bytes(n) <= Bytes(Count) /\ Bytes(Count) \in Nat
<1> DEFINE Rec(g) == [k \in 0..Count |-> IF k = 0 THEN 0 ELSE g[k - 1] + Stored[k].bytes]
           sum == CHOOSE g : g = Rec(g)
<1>1. Stored \in Seq(Member) /\ Count \in Nat /\ Count = Len(Stored)
  BY JobFacts DEF Count
<1>2. PICK f : Sums(Stored, Count, f)
  BY <1>1, SumExists
<1>3. f = Rec(f)
  <2>1. DOMAIN f = 0..Count
    BY <1>2 DEF Sums
  <2>2. \A k \in 0..Count : f[k] = Rec(f)[k]
    BY <1>1, <1>2 DEF Sums
  <2>3. f = [k \in 0..Count |-> f[k]]
    BY <1>2 DEF Sums
  <2> QED
    BY <2>2, <2>3
<1>4. sum = Rec(sum)
  BY <1>3
<1>5. \A n : Bytes(n) = sum[n]
  BY DEF Bytes
<1> HIDE DEF sum
<1>6. DOMAIN sum = 0..Count /\ sum[0] = 0
  BY <1>1, <1>4
<1>7. \A k \in 1..Count : sum[k] = sum[k - 1] + Stored[k].bytes
  BY <1>1, <1>4
<1> DEFINE bad == {k \in 0..Count : ~(sum[k] \in Nat /\ \A j \in 0..k : sum[j] <= sum[k])}
<1>8. ASSUME bad # {} PROVE FALSE
  <2>1. bad \in SUBSET Nat
    OBVIOUS
  <2>2. PICK m \in bad : \A x \in bad : m <= x
    <3> HIDE DEF bad
    <3> QED
      BY <1>8, <2>1, NatMin
  <2>3. m # 0
    BY <1>6, <2>2
  <2>4. m \in 1..Count /\ m - 1 \in 0..Count /\ m - 1 \notin bad
    BY <1>1, <2>2, <2>3
  <2>5. sum[m - 1] \in Nat /\ \A j \in 0..(m - 1) : sum[j] <= sum[m - 1]
    BY <2>4
  <2>6. sum[m] = sum[m - 1] + Stored[m].bytes /\ Stored[m].bytes \in Nat
    <3>1. Stored[m] \in Member
      BY <1>1, <2>4
    <3> QED
      BY <1>7, <2>4, <3>1 DEF Member
  <2>7. sum[m] \in Nat /\ sum[m - 1] <= sum[m]
    BY <2>5, <2>6
  <2>8. \A j \in 0..m : sum[j] \in Nat /\ sum[j] <= sum[m]
    <3> SUFFICES ASSUME NEW j \in 0..m, j # m PROVE sum[j] \in Nat /\ sum[j] <= sum[m]
      BY <2>7
    <3>1. j \in 0..(m - 1) /\ j \in 0..Count /\ j \notin bad
      BY <1>1, <2>2, <2>4
    <3>2. sum[j] \in Nat
      BY <3>1
    <3> QED
      BY <2>5, <2>7, <3>1, <3>2
  <2> QED
    BY <2>2, <2>7, <2>8
<1>9. \A k \in 0..Count : sum[k] \in Nat /\ \A j \in 0..k : sum[j] <= sum[k]
  BY <1>8
<1>10. Count \in 0..Count
  BY <1>1
<1> QED
  BY <1>5, <1>9, <1>10

(* Dividing first finds what multiplying would have, and does not overflow.*)
LEMMA DividedBudget ==
  ASSUME NEW e \in Nat, NEW p \in Nat, NEW n \in Nat, NEW m \in Nat,
         n > 0, n <= m, e > p \div n
  PROVE  e * m > p
<1> DEFINE q == p \div n
<1>1. q \in Int /\ p < (q + 1) * n
  OBVIOUS
<1> HIDE DEF q
<1>2. e >= q + 1
  BY <1>1 DEF q
<1>3. e * n >= (q + 1) * n
  BY <1>1, <1>2
<1>4. e * m >= e * n
  OBVIOUS
<1>5. e * m \in Int /\ e * n \in Int /\ (q + 1) * n \in Int
  BY <1>1
<1> QED
  BY <1>1, <1>3, <1>4, <1>5

(* What more than a budget allows is, whichever way it was found. *)
Excessive ==
  \/ Count > MaxCollectionScan \/ Bytes(Count) > MaxCollectionBytes
  \/ job.kind \in Queries /\ Cardinality(Owed) > MaxSearchResults
  \/ job.kind \in Syncs /\ job.limit # Nil /\ Count > job.limit
  \/ job.kind = "multiget" /\ Count > MaxHrefsPerMultiget
  \/ job.echo * Cardinality(Owed) > MaxResponsePropBytes

RefusalsInv ==
  /\ pc # "done" => cause = Nil
  /\ pc = "listing" => seen <= Count /\ (overrun => Overruns(seen))
  /\ cause = "too much" => Excessive

LEMMA OwedCount ==
  ASSUME ReportsInv
  PROVE  /\ IsFiniteSet(Owed) /\ Cardinality(Owed) \in Nat
         /\ IsFiniteSet(All) /\ Cardinality(All) = Len(matched)
         /\ job.kind \notin Listings => Len(matched) <= Cardinality(Owed)
         /\ job.kind \notin Queries \cup Listings => Cardinality(Owed) = Count
<1> DEFINE f == [k \in 1..Len(matched) |-> matched[k]]
<1>1. job \in Jobs /\ Count \in Nat /\ Len(matched) \in Nat
  BY JobFacts DEF ReportsInv, TypeOK
<1>2. IsFiniteSet(0..Count)
  BY <1>1, FS_Interval
<1>3. IsFiniteSet(Owed) /\ Cardinality(Owed) \in Nat
  BY <1>1, <1>2, OwedBounds, FS_Subset, FS_CardinalityType
<1>4. f \in Surjection(1..Len(matched), All)
  BY DEF Surjection, All
<1>5. f \in Injection(1..Len(matched), All)
  BY DEF Injection, IsInjective, All, ReportsInv, TypeOK
<1> HIDE DEF f
<1>6. ExistsBijection(1..Len(matched), All)
  BY <1>4, <1>5 DEF ExistsBijection, Bijection
<1>7. IsFiniteSet(1..Len(matched)) /\ Cardinality(1..Len(matched)) = Len(matched)
  BY <1>1, FS_Interval
<1>8. IsFiniteSet(All) /\ Cardinality(All) = Len(matched)
  BY <1>6, <1>7, FS_Bijection
<1>9. job.kind \notin Listings => Len(matched) <= Cardinality(Owed)
  BY <1>3, <1>8, FS_Subset DEF ReportsInv, Picked
<1>10. job.kind \notin Queries \cup Listings => Cardinality(Owed) = Count
  <2>1. Cardinality(1..Count) = Count
    BY <1>1, FS_Interval
  <2> QED
    BY <1>1, <2>1, OwedBounds
<1> QED
  BY <1>3, <1>8, <1>9, <1>10

LEMMA ScanIsExcessive ==
  ASSUME job \in Jobs, NEW n \in Nat, n <= Count, Overruns(n)
  PROVE  Excessive
<1>1. Count \in Nat /\ n \in 0..Count
  BY JobFacts
<1>2. Bytes(n) \in Nat /\ Bytes(n) <= Bytes(Count) /\ Bytes(Count) \in Nat
  BY <1>1, BytesFacts
<1>3. MaxCollectionScan \in Nat /\ MaxCollectionBytes \in Nat
  BY BudgetsAssumption
<1>4. CASE n > MaxCollectionScan
  BY <1>1, <1>3, <1>4 DEF Excessive
<1>5. CASE Bytes(n) > MaxCollectionBytes
  BY <1>2, <1>3, <1>5 DEF Excessive
<1> QED
  BY <1>4, <1>5 DEF Overruns

(* A match that no longer fits: the ones that were kept are matches, too.  *)
LEMMA MatchesAreExcessive ==
  ASSUME ReportsInv, TooManyMatches
  PROVE  Excessive
<1>1. /\ pc = "matching" /\ seen < Count /\ ~truncated
      /\ Stored[seen + 1].fate \in {"match", "unrenderable"}
      /\ Len(matched) >= MaxSearchResults
  BY DEF TooManyMatches, IsMatch, Matching, Current
<1>2. job \in Jobs /\ Count \in Nat /\ seen \in Nat /\ Len(matched) \in Nat
  BY JobFacts DEF ReportsInv, TypeOK
<1>3. job.kind \in Queries /\ job.kind \notin Listings
  BY <1>1 DEF ReportsInv, Picked, Queries, Listings
<1>4. All \subseteq Owed /\ \A m \in All : m <= seen
  BY <1>1, <1>3 DEF ReportsInv, Picked
<1>5. seen + 1 \in Owed
  <2>1. Owed = {i \in 1..Count : Stored[i].fate \in {"match", "unrenderable"}}
    BY <1>2, <1>3, OwedBounds
  <2> QED
    BY <1>1, <1>2, <2>1
<1>6. seen + 1 \notin All
  BY <1>2, <1>4
<1>7. /\ IsFiniteSet(Owed) /\ Cardinality(Owed) \in Nat
      /\ IsFiniteSet(All) /\ Cardinality(All) = Len(matched)
  BY OwedCount
<1>8. /\ IsFiniteSet(All \cup {seen + 1})
      /\ Cardinality(All \cup {seen + 1}) = Len(matched) + 1
  BY <1>6, <1>7, FS_AddElement
<1>9. Cardinality(All \cup {seen + 1}) <= Cardinality(Owed)
  <2>1. All \cup {seen + 1} \subseteq Owed
    BY <1>4, <1>5
  <2> QED
    BY <1>7, <2>1, FS_Subset
<1>10. Cardinality(Owed) > MaxSearchResults
  <2>1. MaxSearchResults \in Nat
    BY BudgetsAssumption
  <2> QED
    BY <1>1, <1>2, <1>7, <1>8, <1>9, <2>1
<1> QED
  BY <1>3, <1>10 DEF Excessive

LEMMA WorkIsExcessive ==
  ASSUME ReportsInv, BoundFails
  PROVE  Excessive
<1>1. job \in Jobs /\ Count \in Nat /\ Len(matched) \in Nat /\ job.echo \in Nat
  BY JobFacts DEF ReportsInv, TypeOK
<1>2. MaxResponsePropBytes \in Nat
  BY BudgetsAssumption
<1>3. CASE OverLimit
  <2>1. job.kind \in Syncs /\ job.limit # Nil /\ Len(matched) > job.limit
    BY <1>3 DEF OverLimit
  <2>2. job.kind \notin Queries \cup Listings /\ job.limit \in Nat
    BY <1>1, <2>1, JobFacts DEF Syncs, Queries, Listings
  <2>3. Len(matched) <= Count
    BY <2>2, OwedCount
  <2> QED
    BY <1>1, <2>1, <2>2, <2>3 DEF Excessive
<1>4. CASE job.kind \notin Listings /\ ResponseWork(Len(matched))
  <2>1. Len(matched) > 0 /\ job.echo > MaxResponsePropBytes \div Len(matched)
    BY <1>4 DEF ResponseWork
  <2>2. Cardinality(Owed) \in Nat /\ Len(matched) <= Cardinality(Owed)
    BY <1>4, OwedCount
  <2>3. job.echo * Cardinality(Owed) > MaxResponsePropBytes
    BY <1>1, <1>2, <2>1, <2>2, DividedBudget
  <2> QED
    BY <2>3 DEF Excessive
<1>5. CASE job.kind = "multiget" /\ Count > MaxHrefsPerMultiget
  BY <1>5 DEF Excessive
<1> QED
  BY <1>3, <1>4, <1>5 DEF BoundFails, TooMuchWork

LEMMA SameExcess == job' = job => (Excessive' <=> Excessive)
BY DEF Excessive, Owed, Count, Stored, Bytes

(* The server refuses a request as too much only when it is. *)
THEOREM OnlyTooMuchIsRefused == ReportsSpec => []RefusedOnlyTooMuch
<1>1. ReportsInit => RefusalsInv
  <2> SUFFICES ASSUME ReportsInit PROVE RefusalsInv
    OBVIOUS
  <2>1. cause = Nil /\ cause # "too much"
    BY CausesAssumption DEF ReportsInit, Causes
  <2>2. seen = 0 /\ overrun = FALSE /\ Count \in Nat
    BY JobFacts DEF ReportsInit
  <2>3. seen <= Count /\ (overrun => Overruns(seen))
    BY <2>2
  <2> QED
    BY <2>1, <2>3 DEF RefusalsInv
<1>2. ReportsInv /\ RefusalsInv /\ [ReportsNext]_vars => RefusalsInv'
  <2> SUFFICES ASSUME ReportsInv, RefusalsInv, [ReportsNext]_vars PROVE RefusalsInv'
    OBVIOUS
  <2>1. job \in Jobs /\ Count \in Nat /\ seen \in Nat
    BY JobFacts DEF ReportsInv, TypeOK
  <2>2. CASE YieldItem
    <3>1. /\ job' = job /\ pc' = pc /\ pc = "listing" /\ cause' = cause
          /\ seen' = seen + 1 /\ seen < Count
          /\ overrun' = (Budgeted /\ Overruns(seen + 1))
      BY <2>2 DEF YieldItem
    <3>2. cause # "too much"
      BY <3>1, CausesAssumption DEF RefusalsInv, Causes
    <3>3. Count' = Count /\ Stored' = Stored
      BY <3>1 DEF Count, Stored
    <3>4. overrun' => Overruns(seen)'
      BY <3>1, <3>3 DEF Overruns, Bytes
    <3>5. seen' <= Count'
      BY <2>1, <3>1, <3>3
    <3> QED
      BY <3>1, <3>2, <3>4, <3>5 DEF RefusalsInv
  <2>3. ASSUME NEW reason, Refuse(reason) \/ FailRow(reason), reason = "too much" => Excessive
        PROVE  RefusalsInv'
    <3>1. job' = job /\ cause' = reason /\ pc' = "done"
      BY <2>3 DEF Refuse, FailRow
    <3> QED
      BY <2>3, <3>1, SameExcess DEF RefusalsInv
  <2>4. CASE ListFails \/ ListViolation \/ Unmatchable \/ RowFails
    <3>1. \E reason \in Causes \ {"too much"} : Refuse(reason) \/ FailRow(reason)
      BY <2>4 DEF ListFails, ListViolation, Unmatchable, RowFails, Causes
    <3> QED
      BY <2>3, <3>1
  <2>5. CASE ListOverrun
    <3>1. Overruns(seen) /\ seen <= Count
      BY <2>5 DEF ListOverrun, Listed, RefusalsInv
    <3>2. Excessive
      BY <2>1, <3>1, ScanIsExcessive
    <3> QED
      BY <2>3, <2>5, <3>2 DEF ListOverrun
  <2>6. CASE TooManyMatches
    BY <2>3, <2>6, MatchesAreExcessive DEF TooManyMatches
  <2>7. CASE BoundFails
    BY <2>3, <2>7, WorkIsExcessive DEF BoundFails
  <2>8. CASE WriteBreaks
    BY <2>8 DEF WriteBreaks, RefusalsInv
  <2>9. CASE UNCHANGED vars
    <3>1. job' = job /\ cause' = cause /\ pc' = pc /\ seen' = seen /\ overrun' = overrun
      BY <2>9 DEF vars
    <3>2. Count' = Count /\ (Overruns(seen)' <=> Overruns(seen))
      BY <3>1 DEF Count, Stored, Overruns, Bytes
    <3> QED
      BY <3>1, <3>2, SameExcess DEF RefusalsInv
  <2>10. ASSUME pc # "done", cause' = cause, pc' # "listing"
         PROVE  RefusalsInv'
    <3>1. cause' = Nil /\ cause' # "too much"
      BY <2>10, CausesAssumption DEF RefusalsInv, Causes
    <3> QED
      BY <2>10, <3>1 DEF RefusalsInv
  <2>11. CASE EndListing \/ NoMatch \/ CutShort \/ KeepMatch \/ EndMatching
    <3>1. pc # "done" /\ cause' = cause /\ pc' # "listing"
      BY <2>11 DEF EndListing, Listed, NoMatch, CutShort, KeepMatch, EndMatching, IsMatch, Matching
    <3> QED
      BY <2>10, <3>1
  <2>12. CASE OpenDocument \/ SkipHidden \/ WriteRow \/ Finish \/ ConnectionBreaks
    <3>1. CASE pc' # "done"
      <4>1. pc # "done" /\ cause' = cause /\ pc' # "listing"
        BY <2>12, <3>1
        DEF OpenDocument, SkipHidden, WriteRow, Finish, ConnectionBreaks, Writing
      <4> QED
        BY <2>10, <4>1
    <3>2. CASE Finish
      <4>1. cause' = Nil /\ pc' = "done"
        BY <3>2 DEF Finish, RefusalsInv
      <4> QED
        BY <4>1, CausesAssumption DEF RefusalsInv, Causes
    <3> QED
      BY <2>12, <3>1, <3>2 DEF OpenDocument, SkipHidden, WriteRow, ConnectionBreaks, Writing
  <2> QED
    BY <2>2, <2>4, <2>5, <2>6, <2>7, <2>8, <2>9, <2>11, <2>12 DEF ReportsNext
<1>3. RefusalsInv => RefusedOnlyTooMuch
  BY DEF RefusalsInv, Excessive, RefusedOnlyTooMuch
<1> QED
  BY <1>1, <1>2, <1>3, Reporting, PTL DEF ReportsSpec
=============================================================================
