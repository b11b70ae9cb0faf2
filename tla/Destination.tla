---------------------------- MODULE Destination -----------------------------
(***************************************************************************)
(* What a state sink promises the readers of its destination while writers *)
(* replace their snapshots in it.  Every writer owns a part of the         *)
(* destination; view is what a reader sees of it, plan the snapshot a      *)
(* writer is delivering.  An "atomic" sink shows the old snapshot or the   *)
(* new one.  A "gradual" sink may show both mixed, but never hides a       *)
(* resource that is in both.  Neither touches another writer's part.       *)
(***************************************************************************)
CONSTANTS Writers, Snapshots, Absent

VARIABLES promise, view, plan

vars == <<promise, view, plan>>

Keys(v) == {r[1] : r \in v}

\* The views that may follow `old` on the way to `new`.
MayFollow(p, old, new, next) ==
    CASE p = "atomic"  -> next \in {old, new}
      [] p = "gradual" -> next \subseteq old \cup new /\ Keys(old) \cap Keys(new) \subseteq Keys(next)
      [] OTHER         -> TRUE

Init ==
    /\ promise \in {"atomic", "gradual", "none"}
    /\ view = [w \in Writers |-> {}]
    /\ plan = [w \in Writers |-> Absent]

Begin(w) ==
    /\ plan[w] = Absent
    /\ \E s \in Snapshots : plan' = [plan EXCEPT ![w] = s]
    /\ UNCHANGED view

Move(w) ==
    /\ plan[w] # Absent
    /\ MayFollow(promise, view[w], plan[w], view'[w])
    /\ view' = [view EXCEPT ![w] = view'[w]]
    /\ UNCHANGED plan

\* An attempt may end early; a later one starts over.  The last move and the
\* end of the attempt may be one step.
End(w) ==
    /\ plan[w] # Absent
    /\ plan' = [plan EXCEPT ![w] = Absent]
    /\ MayFollow(promise, view[w], plan[w], view'[w])
    /\ view' = [view EXCEPT ![w] = view'[w]]

Next == (\E w \in Writers : Begin(w) \/ Move(w) \/ End(w)) /\ UNCHANGED promise

Spec == Init /\ [][Next]_vars
=============================================================================
