----------------------------- MODULE MCLocalFS -----------------------------
(* Small instances of LocalFS.                                             *)
EXTENDS LocalFS, TLC

CONSTANTS r1, r2, t1, t2, a, b, x, y

(* A file or a collection, and a place in the collection. *)
NestedPaths == {<<a>>, <<b>>, <<a, b>>}

NoHeaders == {Unset}

AllHeaders == {Unset, Wildcard, Tags({1}), Tags({1, 2})}

AllMethods == {"PUT", "DELETE", "COPY", "MOVE", "MKCOL"}

(* Failures after which the code says it leaves things as they were. *)
UndoneFaults == {"body", "copy", "remove", "rename"}

AllFaults == UndoneFaults \cup {"restore", "discard", "cleanup"}

(* Slots are alike, and so are random names.                               *)
Symmetry == Permutations({r1, r2}) \cup Permutations({t1, t2})
=============================================================================
