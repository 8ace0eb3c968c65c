-------------------------- MODULE MCHeadlessMonitor --------------------------
(***************************************************************************)
(* Instances of HeadlessMonitor for TLC: one process at a time and two     *)
(* centres (one to read while the other fails, one to baseline while the   *)
(* other is compared) or one.                                              *)
(***************************************************************************)
EXTENDS HeadlessMonitor

CONSTANTS c1, c2, s1

MCCentres == {c1, c2}
MCSlots == {s1}

\* One centre is enough where only one document or the end matters.
OneCentre == {c1}

\* What the operator and HSC do where both centres are looked at: c1, which may
\* have a free slot, is enabled and disabled beside c2, which has none.  A world
\* that has calmed down does nothing that the others do not do too.
OneCentreChanges == ~stable /\ c2 \in enabled /\ avail \subseteq Of({c1})
=============================================================================
