--------------------------- MODULE MCCardRequests ---------------------------
(***************************************************************************)
(* Values of CardRequests' constants for TLC: one book of each of two      *)
(* accounts, and a client for one of them, or for each.                    *)
(***************************************************************************)
EXTENDS CardRequests, TLC

CONSTANTS mine, theirs, me, them, myClient, theirClient, uid

MCOwner == [b \in Books |-> IF b = mine THEN me ELSE them]

MCAccountOf == [k \in Clients |-> IF k = myClient THEN me ELSE them]

MCUIDOf == [content \in Contents |-> uid]

(* One client uses every method, the other writes in between. *)
MCMethods ==
  [k \in Clients |->
     IF k = myClient THEN {"GET", "PUT", "DELETE", "COPY", "MOVE", "DELETE BOOK"}
     ELSE {"PUT"}]

MCConditions ==
  [k \in Clients |->
     IF k = myClient THEN {"none", "ifMatchAny", "ifNoneMatchAny", "ifMatch", "ifNoneMatch"}
     ELSE {"none", "ifMatch"}]

(* No bound: the handlers make their own. *)
MCPreconditions == {}
=============================================================================
