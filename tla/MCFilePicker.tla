----------------------------- MODULE MCFilePicker -----------------------------
(***************************************************************************)
(* FilePicker for TLC: it has no constants to give values to.              *)
(*                                                                         *)
(* The assumptions compare the search for a control with the nearest one   *)
(* there is, in every graph of three elements - cycles, elements reached   *)
(* twice, and parents that contradict the children among them.             *)
(***************************************************************************)
EXTENDS FilePicker, SequencesExt, FiniteSetsExt

Search == INSTANCE ElementSearch

-----------------------------------------------------------------------------

Elements == 1 .. 3
Ascending(S) == SetToSortSeq(S, <)
Children == [Elements -> {Ascending(S) : S \in SUBSET Elements}]
Parents == [Elements -> Elements \cup {Search!NoElement}]

\* The elements within depth steps of a root.
Within[children \in Children, depth \in Nat, from \in SUBSET Elements] ==
    IF depth = 0 THEN from
    ELSE from \cup Within[children, depth - 1, UNION {ToSet(children[e]) : e \in from}]

Tree(children, parent, label, default) ==
    [children |-> children, parent |-> parent, label |-> label, usable |-> Elements,
     windows |-> <<>>, focused |-> Search!NoElement, default |-> default]
Orphans == [e \in Elements |-> Search!NoElement]
Plain == [e \in Elements |-> "other"]

Find(children, roots, wanted, depth, limit) ==
    Search!FindWhere(Tree(children, Orphans, Plain, Search!NoElement), roots,
                     wanted, depth, limit)

\* With room for every element the search finds one that is as near to a root
\* as any that matches, and finds none only if none is within the depth.
ASSUME FindsTheNearest ==
    \A children \in Children, roots \in {<<1>>, <<2, 1>>}, wanted \in SUBSET Elements :
        \A depth \in 0 .. 2 :
            LET found == Find(children, roots, wanted, depth, Cardinality(Elements))
                near(d) == Within[children, d, ToSet(roots)] \cap wanted
            IN  IF near(depth) = {} THEN found = Search!NoElement
                ELSE found \in near(Min({d \in 0 .. depth : near(d) # {}}))

\* A bound on how many are looked at costs matches and never changes one.
ASSUME BoundOnlyLoses ==
    \A children \in Children, wanted \in SUBSET Elements, limit \in 0 .. 2 :
        Find(children, <<1>>, wanted, 2, limit)
            \in {Search!NoElement, Find(children, <<1>>, wanted, 2, Cardinality(Elements))}

\* The way up ends in every graph of parents, names nothing twice, and each
\* element of it is the parent of the one before.
ASSUME AncestryEnds ==
    \A parent \in Parents, element \in Elements :
        LET chain == Search!AncestorsOf(Tree([e \in Elements |-> <<>>], parent, Plain, 0),
                                        element, 5)
        IN  /\ IsInjective(chain) /\ chain[1] = element
            /\ \A i \in 1 .. Len(chain) - 1 : parent[chain[i]] = chain[i + 1]

\* Whatever the panel names as its default button and wherever Cancel stands,
\* Cancel is not what is pressed, nor anything that cannot be pressed.
ASSUME NeverCancel ==
    \A children \in {c \in Children : c[3] = <<>>},
       label \in [Elements -> {"OKButton", "button", "CancelButton", "other"}],
       default \in Elements \cup {Search!NoElement}, usable \in SUBSET Elements :
        LET ax == [Tree(children, Orphans, label, default) EXCEPT !.usable = usable]
            pressed == Search!CommitButton(ax, 1, 2, 3)
        IN  pressed # Search!NoElement =>
                /\ label[pressed] \in {"OKButton", "button"}
                /\ pressed \in usable
                /\ label[pressed] = "OKButton" \/ pressed = default
=============================================================================
