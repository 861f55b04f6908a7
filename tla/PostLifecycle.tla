--------------------------- MODULE PostLifecycle ---------------------------
(***************************************************************************)
(* What the hub promises about a shared post, and nothing about how: the   *)
(* life of a row of `posts` as a member club can observe it.               *)
(*                                                                         *)
(*   absent  -> visible            a club shares the post                  *)
(*   visible -> hidden -> visible  hiding is reversible                    *)
(*   visible, hidden -> removed    removal is final, and leaves a stub     *)
(*   removed -> gone               only a stub is ever deleted             *)
(*                                                                         *)
(* The stub is the tombstone mirrors poll for, so the step that must never *)
(* happen is a post going from what a club may be showing straight to      *)
(* gone: no mirror would ever hear of it.                                  *)
(***************************************************************************)

CONSTANT Posts

VARIABLE phase

Phases == {"absent", "visible", "hidden", "removed", "gone"}

Init == phase = [p \in Posts |-> "absent"]

\* One post moves from a phase in `from` to the phase `to`.
Move(p, from, to) ==
    /\ phase[p] \in from
    /\ phase' = [phase EXCEPT ![p] = to]

Share(p)  == Move(p, {"absent"}, "visible")
Hide(p)   == Move(p, {"visible"}, "hidden")
Show(p)   == Move(p, {"hidden"}, "visible")
Remove(p) == Move(p, {"visible", "hidden"}, "removed")

\* The retention pass deletes any set of stubs in one statement.
Prune(S) ==
    /\ \A p \in S : phase[p] = "removed"
    /\ phase' = [p \in Posts |-> IF p \in S THEN "gone" ELSE phase[p]]

Next ==
    \/ \E p \in Posts : Share(p) \/ Hide(p) \/ Show(p) \/ Remove(p)
    \/ \E S \in SUBSET Posts : Prune(S)

Spec == Init /\ [][Next]_phase
============================================================================
