----------------------------- MODULE MCDispatch -----------------------------
(***************************************************************************)
(* A small company for Dispatch: someone on leave, a lead who does most    *)
(* things, a boss with no one above, and a specialist with no room whose   *)
(* tasks go to the lead.                                                   *)
(***************************************************************************)
EXTENDS Dispatch

Person == [active |-> TRUE, outputs |-> {}, rights |-> {}, forbidden |-> {},
           load |-> 0, room |-> 2, tier |-> "fast", cap |-> 32, boss |-> NoOne]

MCStaff ==
  << [Person EXCEPT !.active = FALSE, !.outputs = {"a"}, !.cap = 64],
     [Person EXCEPT !.outputs = {"a", "b", "c", "d"}, !.forbidden = {"freeze"}, !.boss = 3],
     [Person EXCEPT !.outputs = {"e"}],
     [Person EXCEPT !.outputs = {"a", "b", "c", "d", "e"}, !.rights = {"freeze"},
                    !.room = 0, !.cap = 64, !.boss = 3] >>

Kind(outputs, decision) == [outputs |-> outputs, decision |-> decision]
MCKinds == { Kind({}, "none"),                             \* the lead
             Kind({"e"}, "none"),                          \* the boss
             Kind({"a", "b"}, "freeze"),                   \* the specialist, then the lead
             Kind({"a", "b", "c", "d", "e"}, "none"),      \* the lead's 80%
             Kind({"x"}, "none") }                         \* no one
MCTurn  == [tier \in {"fast"} |-> 32]
MCPrice == [tier \in {"fast"} |-> 2]
=============================================================================
