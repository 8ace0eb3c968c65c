----------------------------- MODULE MCConfigInit -----------------------------
(***************************************************************************)
(* Instances of ConfigInit for TLC: a catalogue with both centres, one     *)
(* that has lost the first, one that has renamed it and names it twice,    *)
(* and one in which no name carries a number.                              *)
(***************************************************************************)
EXTENDS ConfigInit

Department(number, name) == [number |-> number, name |-> name]

MCCatalogues ==
    {<<Department(1, "old"), Department(2, "old")>>,
     <<Department(2, "old"), Department(Unmarked, "new")>>,
     <<Department(1, "new"), Department(2, "old"), Department(1, "old")>>,
     <<Department(Unmarked, "old")>>}
=============================================================================
