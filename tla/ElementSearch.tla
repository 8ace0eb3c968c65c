----------------------------- MODULE ElementSearch -----------------------------
(***************************************************************************)
(* How a control of the Open panel is found: the bounded searches of       *)
(* browser/macos_ax.py and what browser/native_files.py looks for with     *)
(* them.                                                                   *)
(*                                                                         *)
(* The elements are numbers and the graph is what the Accessibility API    *)
(* answers: its children and its parents were seen to disagree and to run  *)
(* in circles.  ax is a record of what it says of them: `children`, a      *)
(* sequence for each element, `parent` (NoElement at the top), `label`,    *)
(* the role and identifier, `usable`, the windows, the focused element and *)
(* the panel's default button.                                             *)
(***************************************************************************)
EXTENDS Naturals, SequencesExt

NoElement == 0

-----------------------------------------------------------------------------
(* ancestors_of, search_roots *)

\* The element and what stands above it, at most maxDepth of them, each once.
AncestorsOf(ax, element, maxDepth) ==
    FoldLeft(LAMBDA s, i :
                IF s.at = NoElement \/ Contains(s.chain, s.at) THEN s
                ELSE [at |-> ax.parent[s.at], chain |-> Append(s.chain, s.at)],
             [at |-> element, chain |-> <<>>], [i \in 1 .. maxDepth |-> i]).chain

\* The windows, and the way up from the focus: a panel may publish no window.
SearchRoots(ax, maxDepth) ==
    ax.windows \o (IF ax.focused = NoElement THEN <<>>
                   ELSE AncestorsOf(ax, ax.focused, maxDepth))

-----------------------------------------------------------------------------
(* find_where *)

\* One turn of the loop: the first element that waits is looked at, or was
\* before, or there is nothing left to do.
Inspect(ax, wanted, maxDepth, s) ==
    LET first == Head(s.pending)
        below == ax.children[first.element]
    IN  IF s.pending = <<>> \/ s.found # NoElement \/ Cardinality(s.seen) = s.limit THEN s
        ELSE IF first.element \in s.seen THEN [s EXCEPT !.pending = Tail(@)]
        ELSE [s EXCEPT !.seen = @ \cup {first.element},
                       !.found = IF first.element \in wanted THEN first.element ELSE NoElement,
                       !.pending = Tail(@) \o
                           (IF first.depth >= maxDepth THEN <<>>
                            ELSE [i \in DOMAIN below |->
                                     [element |-> below[i], depth |-> first.depth + 1]])]

Labelled(ax, label) == {e \in DOMAIN ax.label : ax.label[e] = label}

\* Breadth first from the roots, in order; every element at most once, none
\* deeper than maxDepth and not more than maxElements of them.
FindWhere(ax, roots, wanted, maxDepth, maxElements) ==
    LET turns == Len(roots) + FoldFunction(LAMBDA b, n : Len(b) + n, 0, ax.children)
        start == [pending |-> [i \in DOMAIN roots |-> [element |-> roots[i], depth |-> 0]],
                  seen |-> {}, found |-> NoElement, limit |-> maxElements]
    IN  FoldLeft(LAMBDA s, i : Inspect(ax, wanted, maxDepth, s), start,
                 [i \in 1 .. turns |-> i]).found

-----------------------------------------------------------------------------
(* _find_file_row: the name, the row above it and the list above that *)

FirstLabelled(ax, chain, label) ==
    LET i == SelectInSeq(chain, LAMBDA e : ax.label[e] = label)
    IN  IF i = 0 THEN NoElement ELSE chain[i]

FileRow(ax, roots, maxDepth, maxElements) ==
    LET name == FindWhere(ax, roots, Labelled(ax, "file name"), maxDepth, maxElements)
        chain == Tail(AncestorsOf(ax, name, maxDepth))
    IN  IF name = NoElement THEN [row |-> NoElement, outline |-> NoElement]
        ELSE [row |-> FirstLabelled(ax, chain, "row"),
              outline |-> FirstLabelled(ax, chain, "outline")]

-----------------------------------------------------------------------------
(* _commit_button *)

\* _is_usable_button: an enabled button that can be pressed and does not cancel.
IsUsableButton(ax, element) ==
    ax.label[element] \in {"OKButton", "button"} /\ element \in ax.usable

\* The panel's default button if it is usable, else the one called OKButton.
CommitButton(ax, sheet, maxDepth, maxElements) ==
    LET named == FindWhere(ax, <<sheet>>, Labelled(ax, "OKButton"),
                           maxDepth, maxElements)
    IN  IF ax.default # NoElement /\ IsUsableButton(ax, ax.default) THEN ax.default
        ELSE IF named # NoElement /\ IsUsableButton(ax, named) THEN named
        ELSE NoElement

=============================================================================
