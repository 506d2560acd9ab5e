------------------------------- MODULE MCTagUndo -------------------------------
(* Tag operations with interchangeable messages and interchangeable tags, and *)
(* undoing checked against its definition step by step.                       *)
EXTENDS TagUndo

Symmetry == Permutations(Messages) \cup Permutations(Tags)

(* One action undone after the other, the newest first. *)
UndoneInTurn(tg, h) ==
    LET Undo(action, acc) ==
            [m \in Messages |->
                LET mine == {x \in action : x.message = m}
                IN  IF mine = {} THEN acc[m] ELSE Apply(acc[m], CHOOSE x \in mine : TRUE)]
    IN  FoldRight(Undo, h, tg)

(* Histories of up to two actions, each with at most one mutation of a message. *)
SomeActions == {a \in SUBSET {x \in Mutation : x.add \cap x.remove = {} /\ x.add \cup x.remove # {}} :
                   \A x, y \in a : x.message = y.message => x = y}
SomeHistories == {<<>>} \cup {<<a>> : a \in SomeActions} \cup {<<a, b>> : a, b \in SomeActions}

(* UndoAll is what undoing one action after the other gives. *)
ASSUME UndoingInTurn ==
    \A tg \in [Messages -> SUBSET Tags], h \in SomeHistories : UndoAll(tg, h) = UndoneInTurn(tg, h)
================================================================================
