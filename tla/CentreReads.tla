----------------------------- MODULE CentreReads -----------------------------
(***************************************************************************)
(* What a scan over several centres promises to the run that asked for it, *)
(* and all that HeadlessMonitor knows of it (its actions ReadDepartments   *)
(* and ReadCentre): without departments nothing is read; with them every   *)
(* centre is read once, one at a time, and is whole or leaves a reason.    *)
(***************************************************************************)
EXTENDS Naturals

CONSTANT Centres

VARIABLES
    stage,   \* "departments", "reading" or "done"
    todo,    \* centres still to be read
    whole,   \* centres read completely
    kinds    \* why the others were not

vars == <<stage, todo, whole, kinds>>

Kinds == {"auth", "limited", "other"}

Init == stage = "departments" /\ todo = {} /\ whole = {} /\ kinds = {}

NoDepartments ==
    /\ stage = "departments"
    /\ \E kind \in Kinds : kinds' = {kind}
    /\ stage' = "done"
    /\ UNCHANGED <<todo, whole>>

Departments ==
    /\ stage = "departments"
    /\ stage' = "reading" /\ todo' = Centres
    /\ UNCHANGED <<whole, kinds>>

ReadCentre ==
    /\ stage = "reading"
    /\ \E centre \in todo :
          /\ todo' = todo \ {centre}
          /\ \/ whole' = whole \cup {centre} /\ UNCHANGED kinds
             \/ /\ \E why \in (SUBSET Kinds) \ {{}} : kinds' = kinds \cup why
                /\ UNCHANGED whole
    /\ stage' = IF todo' = {} THEN "done" ELSE "reading"

NextRun ==
    /\ stage = "done"
    /\ stage' = "departments" /\ todo' = {} /\ whole' = {} /\ kinds' = {}

Next == NoDepartments \/ Departments \/ ReadCentre \/ NextRun

Spec == Init /\ [][Next]_vars

\* Every scan comes to its end.
Promise == Spec /\ []<>(stage = "done")
=============================================================================
