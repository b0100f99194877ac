----------------------------- MODULE MCSharedSheet -----------------------------
(* Canvases and tables whose members have two changes to make, or one and lose a *)
(* connection or an answer, and a canvas in which a member talks with the        *)
(* assistant.                                                                    *)
EXTENDS SharedSheet, TLC

(* Members and cards are interchangeable: who holds which lock is chosen at first. *)
SheetSymmetry == Permutations(Members) \cup Permutations(Cards)

Budget(of, chats, edits, said, left, faults) ==
  [kind |-> of, chats |-> chats, edits |-> edits, said |-> said, left |-> left, faults |-> faults]

mcBudgets ==
  {Budget("canvas", 0, 2, 0, 1, 0), Budget("canvas", 0, 1, 0, 1, 1), Budget("canvas", 1, 1, 2, 0, 0),
   Budget("table", 0, 2, 0, 0, 0), Budget("table", 0, 1, 0, 1, 1)}

mcAlone == {Budget("canvas", 0, 2, 0, 0, 0)}
===============================================================================
