----------------------------- MODULE Answering -----------------------------
(***************************************************************************)
(* A server asked one thing: "asked" is the input, chosen at the start,    *)
(* and "answer" is what the code makes of it, Nil until it has.  The       *)
(* modules about functions of the code, which keep no state of their own,  *)
(* extend this one and each adds the inputs and the answers it is about.   *)
(***************************************************************************)

CONSTANT Nil           \* nothing: no answer yet, or an absent value

VARIABLES asked, answer

answering == <<asked, answer>>

(* The one step: an input of this kind is answered. *)
Answers(about, value) ==
  /\ answer = Nil
  /\ asked.about = about
  /\ answer' = value
  /\ UNCHANGED asked

Answered(about) == asked.about = about /\ answer # Nil
=============================================================================
