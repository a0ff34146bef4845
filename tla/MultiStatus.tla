----------------------------- MODULE MultiStatus -----------------------------
(***************************************************************************)
(* internal.MultiStatusWriter: a DAV:multistatus document streamed one     *)
(* response at a time.  A writer is a record; every method is an operator  *)
(* from the writer before the call to the writer after it, so a handler    *)
(* composes them as the code does: Close(Truncate(w)).                     *)
(*                                                                         *)
(* The document is the sequence of pieces that reached the client.  Each   *)
(* carries the number of bytes on the wire after it, which for a row is    *)
(* what countingWriter counted once the staged row was committed.  The     *)
(* encoder is flushed by every method, so between two calls nothing is     *)
(* held in its buffer.  Values encode; the connection may break, and a     *)
(* broken connection stays broken.                                         *)
(***************************************************************************)
EXTENDS Integers, Sequences

CONSTANTS
  Nil,
  HeaderBytes,       \* the XML header and the open tag
  NoteBytes          \* an entry without properties, a token, the end tag

ASSUME SizesAssumption ==
  /\ HeaderBytes \in Nat
  /\ NoteBytes \in Nat

Kinds == {"open", "row", "marker", "failure", "token", "close", "error text"}

Piece == [kind: Kinds, of: Nat, upto: Nat]

(* up is the connection, status the HTTP status line, ready says that      *)
(* start() got as far as creating the encoder, and panicked that a method  *)
(* used an encoder that is not there.                                      *)
Writer ==
  [up: BOOLEAN, status: {"none", "207", "error"}, wire: Seq(Piece), bytes: Nat,
   limit: Int, echoSize: Nat, echoLimit: Int, token: {Nil} \cup Nat,
   written: Nat, started: BOOLEAN, ready: BOOLEAN, closed: BOOLEAN,
   exhausted: BOOLEAN, declared: BOOLEAN, panicked: BOOLEAN]

(* A limit that is not positive is no limit: zero, "the default", is       *)
(* resolved by the caller, MaxResponseBytes.                               *)
NewWriter(limit, echoSize, echoLimit) ==
  [up |-> TRUE, status |-> "none", wire |-> <<>>, bytes |-> 0,
   limit |-> limit, echoSize |-> echoSize, echoLimit |-> echoLimit,
   token |-> Nil, written |-> 0, started |-> FALSE, ready |-> FALSE,
   closed |-> FALSE, exhausted |-> FALSE, declared |-> FALSE, panicked |-> FALSE]

---------------------------------------------------------------------------
(* The wire.                                                               *)

Send(w, kind, of, size) ==
  IF w.up
  THEN [w EXCEPT !.bytes = w.bytes + size,
                 !.wire = Append(w.wire, [kind |-> kind, of |-> of,
                                          upto |-> w.bytes + size])]
  ELSE w

(* What goes through the encoder. *)
Encode(w, kind, of, size) ==
  IF w.ready THEN Send(w, kind, of, size) ELSE [w EXCEPT !.panicked = TRUE]

(* The connection breaks between two calls. *)
Broken(w) == [w EXCEPT !.up = FALSE]

---------------------------------------------------------------------------
(* The methods.                                                            *)

(* The header is written before the encoder exists: when that write fails  *)
(* the document counts as started and stays without one.                   *)
Start(w) ==
  IF w.started THEN w
  ELSE Send([w EXCEPT !.started = TRUE, !.status = "207", !.ready = w.up],
            "open", 0, HeaderBytes)

(* Mutant: the marker does not end the document's rows. *)
Overflow_KeepsGoing(w) == Encode(w, "marker", 0, NoteBytes)

Overflow(w) == Encode([w EXCEPT !.exhausted = TRUE], "marker", 0, NoteBytes)

EchoSpent(w) ==
  /\ w.echoLimit > 0 /\ w.echoSize > 0
  /\ w.echoSize > w.echoLimit \div w.written

(* The row is on the wire, and the names it echoes are spent. *)
Committed(w, row, size) ==
  LET c == Encode([w EXCEPT !.written = w.written + 1], "row", row, size) IN
  IF EchoSpent(c) THEN Overflow(c) ELSE c

(* Mutant: the budget is consulted after the row was written. *)
OverBudget_Late(w, size) == w.limit > 0 /\ w.bytes > w.limit

OverBudget(w, size) == w.limit > 0 /\ w.bytes + size > w.limit

Silent(w) == w.closed \/ w.exhausted

(* A call that has something to write on a broken connection fails. *)
WriteFails(w) == ~Silent(w) /\ ~w.up

Write(w, row, size) ==
  IF Silent(w) THEN w
  ELSE IF WriteFails(w) THEN Start(w)
  ELSE LET s == Start(w) IN
       IF OverBudget(s, size) THEN Overflow(s) ELSE Committed(s, row, size)

(* Mutant: the failure is left out, so that the rows pass for all. *)
Fail_Silent(w) == IF Silent(w) THEN w ELSE Start(w)

Fail(w) == IF Silent(w) THEN w ELSE Encode(Start(w), "failure", 0, NoteBytes)

(* Mutant: a budget that ran out before passes for declared, too. *)
Truncate_AlwaysDeclares(w) ==
  IF Silent(w) THEN [w EXCEPT !.declared = TRUE]
  ELSE Overflow([Start(w) EXCEPT !.declared = TRUE])

Truncate(w) ==
  IF Silent(w) THEN w ELSE Overflow([Start(w) EXCEPT !.declared = TRUE])

SetSyncToken(w, token) == [w EXCEPT !.token = token]

TokenOwed(w) == w.token # Nil /\ (~w.exhausted \/ w.declared)

(* Mutant: a second Close ends the document again. *)
Close_Twice(w) ==
  LET s == [Start(w) EXCEPT !.closed = TRUE]
      t == IF TokenOwed(s) THEN Encode(s, "token", s.token, NoteBytes) ELSE s
  IN Encode(t, "close", 0, NoteBytes)

Close(w) ==
  IF w.closed THEN w
  ELSE LET s == [Start(w) EXCEPT !.closed = TRUE]
           t == IF TokenOwed(s) THEN Encode(s, "token", s.token, NoteBytes) ELSE s
       IN Encode(t, "close", 0, NoteBytes)

(* Deferred by every handler. *)
Abort(w) == IF w.started THEN Close(w) ELSE w

(* ServeError, for a handler that returned an error: the text of an error  *)
(* goes after whatever is on the wire, but the status line is sent once.   *)
ServeError(w) ==
  IF w.status = "none" THEN [w EXCEPT !.status = "error"]
  ELSE Send(w, "error text", 0, NoteBytes)

---------------------------------------------------------------------------
(* What the document promises.                                             *)

At(w, kind) == {i \in DOMAIN w.wire : w.wire[i].kind = kind}

(* The open tag comes first and once, nothing follows the end tag, only    *)
(* the end tag follows the token, and the marker ends the rows.            *)
WellFormed(w) ==
  /\ \A i \in DOMAIN w.wire : w.wire[i].kind = "open" <=> i = 1
  /\ \A i \in At(w, "close") : i = Len(w.wire)
  /\ \A i \in At(w, "token"), j \in DOMAIN w.wire :
       j > i => w.wire[j].kind = "close"
  /\ \A i \in At(w, "marker"), j \in At(w, "row") : j < i

(* No byte of a row lies beyond the budget. *)
RowsWithinLimit(w) ==
  w.limit > 0 => \A i \in At(w, "row") : w.wire[i].upto <= w.limit

=============================================================================
