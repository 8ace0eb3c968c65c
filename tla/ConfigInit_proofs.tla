--------------------------- MODULE ConfigInit_proofs ---------------------------
(***************************************************************************)
(* What holds of init-config for every catalogue HSC may answer with and   *)
(* every set of centres: the file stays a file of whole entries, what the  *)
(* person decided survives every run, and a run that wrote leaves the next *)
(* one nothing to do.                                                      *)
(***************************************************************************)
EXTENDS ConfigInit, FiniteSetTheorems, TLAPS

-----------------------------------------------------------------------------
(* Which department a number belongs to *)

\* Of several places in a list one is the first.  The order is that of the
\* intervals that end at them, which strict inclusion well-founds.
LEMMA LeastNumber ==
  ASSUME NEW N, N \subseteq Nat, N # {}
  PROVE  \E n \in N : \A m \in N : n <= m
<1> DEFINE Below == {1 .. n : n \in N}
<1>1. Below \subseteq FiniteSubsetsOf(Nat) /\ Below # {}
  <2>1. ASSUME NEW n \in N
        PROVE  1 .. n \in SUBSET Nat /\ IsFiniteSet(1 .. n)
    <3>1. n \in Int /\ 1 \in Int /\ 1 .. n \in SUBSET Nat
      OBVIOUS
    <3> QED
      BY <3>1, FS_Interval
  <2> QED
    BY <2>1 DEF FiniteSubsetsOf
<1>2. \E x \in Below : \A y \in Below : <<y, x>> \notin StrictSubsetOrdering(Nat)
  <2> HIDE DEF Below
  <2> QED
    BY <1>1, WFMin, FS_StrictSubsetOrderingWellFounded
<1>3. PICK n \in N : \A m \in N : <<1 .. m, 1 .. n>> \notin StrictSubsetOrdering(Nat)
  BY <1>2
<1>4. ASSUME NEW m \in N, m < n PROVE FALSE
  <2>1. 1 .. m \subseteq 1 .. n /\ n \in 1 .. n /\ n \notin 1 .. m
    BY <1>4
  <2>2. 1 .. m \in SUBSET Nat /\ 1 .. n \in SUBSET Nat
    OBVIOUS
  <2> QED
    BY <1>3, <2>1, <2>2 DEF StrictSubsetOrdering
<1>5. \A m \in N : n <= m
  BY <1>4
<1> QED
  BY <1>5

Department == [number: Ids \cup {Unmarked}, name: Names]

\* A number some department carries has a name: that of the first to carry it.
LEMMA NameOfType ==
  ASSUME NEW departments \in Seq(Department), NEW id \in Marked(departments)
  PROVE  NameOf(departments, id) \in Names
<1> DEFINE Claims == {k \in DOMAIN departments : departments[k].number = id}
<1>1. Claims \subseteq Nat /\ Claims # {}
  BY DEF Marked
<1>2. PICK k \in Claims : \A m \in Claims : k <= m
  <2> HIDE DEF Claims
  <2> QED
    BY <1>1, LeastNumber
<1>3. \A j \in 1 .. k - 1 : departments[j].number # id
  BY <1>2
<1>4. \E n \in DOMAIN departments :
         /\ departments[n].number = id
         /\ \A j \in 1 .. n - 1 : departments[j].number # id
  BY <1>2, <1>3
<1> DEFINE First(n) == /\ departments[n].number = id
                       /\ \A j \in 1 .. n - 1 : departments[j].number # id
           n == CHOOSE n \in DOMAIN departments : First(n)
<1>5. n \in DOMAIN departments
  BY <1>4
<1>6. NameOf(departments, id) = departments[n].name
  BY DEF NameOf
<1>7. departments[n] \in Department
  <2> HIDE DEF n
  <2> QED
    BY <1>5
<1> QED
  BY <1>6, <1>7 DEF Department

\* The centres a list names are visible ones.
LEMMA MarkedType ==
  ASSUME NEW departments \in Seq(Department)
  PROVE  Marked(departments) \subseteq Ids
<1>1. \A k \in DOMAIN departments : departments[k] \in Department
  OBVIOUS
<1>2. \A d \in Department : d.number \in Ids \cup {Unmarked}
  BY DEF Department
<1> QED
  BY <1>1, <1>2 DEF Marked

\* The departments a run holds are a list, be it the empty one.
LEMMA FoundIsAList == TypeOK => found \in Seq(Department)
<1>1. <<>> \in Seq(Department)
  OBVIOUS
<1>2. Catalogues \subseteq Seq(Department)
  BY CatalogueAssumption, Zenon DEF CatalogueAssumption, Department
<1> QED
  BY <1>1, <1>2 DEF TypeOK

\* A file is a function from some of the centres to entries.
LEMMA FilesAre ==
  ASSUME NEW f
  PROVE  f \in Files <=> /\ DOMAIN f \subseteq Ids
                         /\ f = [id \in DOMAIN f |-> f[id]]
                         /\ \A id \in DOMAIN f : f[id] \in Entry
BY DEF Files

\* An edit of one entry leaves a file.
LEMMA EditType ==
  ASSUME NEW entries \in Files, NEW id \in DOMAIN entries, NEW enabled \in BOOLEAN
  PROVE  [entries EXCEPT ![id].enabled = enabled, ![id].extra = TRUE] \in Files
<1> DEFINE edited == [entries EXCEPT ![id].enabled = enabled, ![id].extra = TRUE]
<1>1. DOMAIN entries \subseteq Ids /\ \A i \in DOMAIN entries : entries[i] \in Entry
  BY FilesAre
<1>2. DOMAIN edited = DOMAIN entries /\ edited = [i \in DOMAIN edited |-> edited[i]]
      /\ \A i \in DOMAIN entries : i # id => edited[i] = entries[i]
  OBVIOUS
<1>3. edited[id] \in Entry
  BY <1>1 DEF Entry
<1>4. \A i \in DOMAIN edited : edited[i] \in Entry
  BY <1>1, <1>2, <1>3
<1> QED
  <2> HIDE DEF edited
  <2>1. edited \in Files
    BY <1>1, <1>2, <1>4, FilesAre
  <2> QED
    BY <2>1 DEF edited

-----------------------------------------------------------------------------
(* The merge *)

\* Merging a list into a file gives a file.
LEMMA MergeType ==
  ASSUME NEW entries \in Files, NEW departments \in Seq(Department), NEW force \in BOOLEAN
  PROVE  Merge(entries, departments, force) \in Files
<1> DEFINE M == Merge(entries, departments, force)
<1>1. DOMAIN entries \subseteq Ids /\ \A id \in DOMAIN entries : entries[id] \in Entry
  BY FilesAre
<1>2. ASSUME NEW id \in DOMAIN entries \cup Marked(departments)
      PROVE  M[id] \in Entry
  <2>1. CASE id \notin Marked(departments)
    BY <1>1, <2>1 DEF Merge
  <2>2. CASE id \in Marked(departments) /\ (id \notin DOMAIN entries \/ force)
    BY <2>2, NameOfType DEF Merge, Discovered, Entry
  <2>3. CASE id \in Marked(departments) /\ id \in DOMAIN entries /\ ~force
    BY <1>1, <2>3, NameOfType DEF Merge, Entry
  <2> QED
    BY <2>1, <2>2, <2>3
<1>3. DOMAIN M \subseteq Ids /\ M = [id \in DOMAIN M |-> M[id]]
      /\ DOMAIN M = DOMAIN entries \cup Marked(departments)
  BY <1>1, MarkedType DEF Merge
<1> QED
  <2> HIDE DEF M
  <2>1. M \in Files
    BY <1>2, <1>3, FilesAre
  <2> QED
    BY <2>1 DEF M

\* Merging the same list once more, without --force, changes nothing.
LEMMA MergeTwice ==
  ASSUME NEW entries \in Files, NEW departments \in Seq(Department), NEW force \in BOOLEAN
  PROVE  LET merged == Merge(entries, departments, force)
         IN  Merge(merged, departments, FALSE) = merged
<1> DEFINE merged == Merge(entries, departments, force)
           again == Merge(merged, departments, FALSE)
<1>1. DOMAIN merged = DOMAIN entries \cup Marked(departments)
  BY DEF Merge
<1>2. DOMAIN again = DOMAIN merged
  BY <1>1 DEF Merge
<1>3. ASSUME NEW id \in DOMAIN merged
      PROVE  again[id] = merged[id]
  <2>1. CASE id \notin Marked(departments)
    BY <1>1, <2>1 DEF Merge
  <2>2. CASE id \in Marked(departments)
    <3>1. merged[id] \in Entry
      BY MergeType, FilesAre
    <3>2. merged[id].name = NameOf(departments, id)
      <4>1. CASE id \notin DOMAIN entries \/ force
        BY <1>1, <2>2, <4>1 DEF Merge, Discovered
      <4>2. CASE id \in DOMAIN entries /\ ~force
        <5>1. entries[id] \in Entry
          BY <4>2, FilesAre
        <5> QED
          BY <1>1, <2>2, <4>2, <5>1 DEF Merge, Entry
      <4> QED
        BY <4>1, <4>2
    <3>3. again[id] = [merged[id] EXCEPT !.name = NameOf(departments, id)]
      <4> HIDE DEF merged
      <4> QED
        BY <1>1, <2>2 DEF Merge
    <3> QED
      <4> HIDE DEF merged, again
      <4> QED
        BY <3>1, <3>2, <3>3 DEF Entry
  <2> QED
    BY <2>1, <2>2
<1>4. merged = [id \in DOMAIN merged |-> merged[id]]
      /\ again = [id \in DOMAIN again |-> again[id]]
  BY DEF Merge
<1> QED
  <2> HIDE DEF merged, again
  <2>1. again = merged
    BY <1>2, <1>3, <1>4
  <2> QED
    BY <2>1 DEF merged, again
-----------------------------------------------------------------------------
(* Type correctness *)

\* Every operation of a run, and every edit, keeps the types.
LEMMA TypeInductive == TypeOK /\ [Next]_vars => TypeOK'
<1> SUFFICES ASSUME TypeOK, [Next]_vars
             PROVE  TypeOK'
  OBVIOUS
<1>0. Nobody \in Files /\ NoTemporary \in [kind: {None, "partial", "whole"}, entries: Files]
  <2>1. Nobody \in Files
    BY FilesAre DEF Nobody
  <2> QED
    BY <2>1 DEF NoTemporary
<1>1. CASE Begin
  BY <1>0, <1>1 DEF Begin, TypeOK, Runs, Outside
<1>2. CASE LoadSession
  BY <1>2 DEF LoadSession, TypeOK, Runs, Go, End, Unwritten, Outside
<1>3. CASE Refused
  BY <1>3 DEF Refused, TypeOK, Runs, End, Unwritten, Outside
<1>4. CASE ReadExisting
  BY <1>4 DEF ReadExisting, TypeOK, Runs, Go, End, Unwritten, Outside
<1>5. CASE Discover
  <2>1. run' \in Runs
    BY <1>5 DEF Discover, TypeOK, Runs, Go, End
  <2> QED
    BY <1>5, <2>1 DEF Discover, TypeOK, Unwritten, Outside
<1>6. CASE WriteTemporary
  <2>1. run' \in Runs
    BY <1>6 DEF WriteTemporary, TypeOK, Runs, Go, End
  <2>2. Merge(existing, found, run.force) \in Files
    BY FoundIsAList, MergeType DEF TypeOK, Runs
  <2>3. temporary' \in [kind: {None, "partial", "whole"}, entries: Files]
    BY <1>0, <1>6, <2>2 DEF WriteTemporary
  <2> QED
    BY <1>6, <2>1, <2>3 DEF WriteTemporary, TypeOK, Outside
<1>7. CASE Rename
  <2>1. run' \in Runs
    BY <1>7 DEF Rename, TypeOK, Runs, End
  <2>2. wish' \in [Ids -> SUBSET BOOLEAN]
    BY <1>7 DEF Rename, TypeOK
  <2> QED
    BY <1>0, <1>7, <2>1, <2>2 DEF Rename, TypeOK
<1>8. CASE Die
  BY <1>8 DEF Die, TypeOK, Runs, End, Unwritten, Outside
<1>9. ASSUME NEW departments \in Catalogues, Answered(departments)
      PROVE  TypeOK'
  BY <1>9 DEF Answered, TypeOK, Runs, Go, Unwritten, Outside
<1>10. ASSUME NEW id \in Ids, NEW enabled \in BOOLEAN, Edits(id, enabled)
       PROVE  TypeOK'
  <2>1. file' \in Files
    BY <1>10, EditType DEF Edits, TypeOK
  <2>2. wish' \in [Ids -> SUBSET BOOLEAN] /\ raced' \subseteq Ids
    BY <1>10 DEF Edits, TypeOK
  <2>3. found' = <<>> \/ found' \in Catalogues
    BY <1>10 DEF Edits, TypeOK
  <2> QED
    BY <1>10, <2>1, <2>2, <2>3 DEF Edits, TypeOK
<1>11. CASE UNCHANGED vars
  BY <1>11 DEF vars, TypeOK
<1> QED
  BY <1>1, <1>2, <1>3, <1>4, <1>5, <1>6, <1>7, <1>8, <1>9, <1>10, <1>11 DEF Next

\* init-config only ever reads, holds and writes whole entries of visible
\* centres, wherever it dies and however the person edits.
THEOREM TypeCorrect == Spec => []TypeOK
<1>1. Init => TypeOK
  <2> SUFFICES ASSUME Init PROVE TypeOK
    OBVIOUS
  <2>1. Nobody \in Files
    BY FilesAre DEF Nobody
  <2>2. file \in Files
    BY <2>1 DEF Init, Files
  <2>3. run \in Runs
    BY DEF Init, Runs
  <2>4. temporary \in [kind: {None, "partial", "whole"}, entries: Files]
    BY <2>1 DEF Init, NoTemporary
  <2>5. wish \in [Ids -> SUBSET BOOLEAN]
    BY DEF Init
  <2> QED
    BY <2>1, <2>2, <2>3, <2>4, <2>5 DEF Init, TypeOK
<1> QED
  BY <1>1, TypeInductive, PTL DEF Spec

-----------------------------------------------------------------------------
(* A run that wrote leaves nothing to do *)

\* Only a run for real writes, and what it is about to rename is the merge of
\* what it read and what it found.
ToBeRenamed ==
    /\ At("write") \/ At("rename") => ~run.dryRun
    /\ At("rename") => temporary.entries = Merge(existing, found, run.force)

AgainInv == ToBeRenamed /\ RunAgainChangesNothing

\* What a run turns to, and what it ends with.
LEMMA GoesTo ==
  ASSUME run \in Runs, NEW place, Go(place)
  PROVE  run'.at = place /\ run'.force = run.force /\ run'.dryRun = run.dryRun
BY DEF Runs, Go

LEMMA EndsWith ==
  ASSUME run \in Runs, NEW code, End(code)
  PROVE  run'.at = "idle" /\ run'.code = code /\ run'.dryRun = run.dryRun
BY DEF Runs, End

LEMMA AgainInductive == TypeOK /\ AgainInv /\ [Next]_vars => AgainInv'
<1> SUFFICES ASSUME TypeOK, AgainInv, [Next]_vars
             PROVE  AgainInv'
  OBVIOUS
<1>0. ToBeRenamed /\ run \in Runs
  BY DEF AgainInv, TypeOK
<1> USE DEF ToBeRenamed, At
<1>1. CASE Begin
  BY <1>1 DEF Begin, AgainInv, RunAgainChangesNothing
<1>2. CASE LoadSession
  <2>1. Go("departments") \/ End(EXIT_PERSISTENCE)
    BY <1>2 DEF LoadSession
  <2>2. run'.at = "departments" \/ (run'.at = "idle" /\ run'.code = EXIT_PERSISTENCE)
    BY <1>0, <2>1, GoesTo, EndsWith
  <2>3. ~(run'.at \in {"write", "rename"})
    BY <2>2
  <2>4. ~(run'.at = "idle" /\ run'.code = EXIT_OK)
    BY <2>2 DEF EXIT_OK, EXIT_PERSISTENCE
  <2> QED
    BY <2>3, <2>4 DEF AgainInv, RunAgainChangesNothing
<1>3. CASE Refused
  <2>1. End(EXIT_AUTH_REQUIRED) \/ End(EXIT_API)
    BY <1>3 DEF Refused
  <2>2. run'.at = "idle" /\ run'.code \in {EXIT_AUTH_REQUIRED, EXIT_API}
    BY <1>0, <2>1, EndsWith
  <2>3. run'.code # EXIT_OK
    BY <2>2 DEF EXIT_OK, EXIT_AUTH_REQUIRED, EXIT_API
  <2> QED
    BY <2>2, <2>3 DEF AgainInv, RunAgainChangesNothing
<1>4. CASE ReadExisting
  <2>1. Go("merge") \/ End(EXIT_API) \/ End(EXIT_RAISED)
    BY <1>4 DEF ReadExisting
  <2>2. run'.at = "merge" \/ (run'.at = "idle" /\ run'.code \in {EXIT_API, EXIT_RAISED})
    BY <1>0, <2>1, GoesTo, EndsWith
  <2>3. ~(run'.at = "idle" /\ run'.code = EXIT_OK)
    BY <2>2 DEF EXIT_OK, EXIT_API, EXIT_RAISED
  <2> QED
    BY <2>2, <2>3 DEF AgainInv, RunAgainChangesNothing
<1>5. CASE Discover
  <2>1. End(EXIT_API) \/ (run.dryRun /\ End(EXIT_OK)) \/ (~run.dryRun /\ Go("write"))
    BY <1>5 DEF Discover
  <2>2. \/ run'.at = "idle" /\ (run'.code = EXIT_API \/ run'.dryRun)
        \/ run'.at = "write" /\ ~run'.dryRun
    BY <1>0, <2>1, GoesTo, EndsWith
  <2>3. ~(run'.at = "idle" /\ run'.code = EXIT_OK /\ ~run'.dryRun)
    BY <2>2 DEF EXIT_OK, EXIT_API
  <2> QED
    BY <2>2, <2>3 DEF AgainInv, RunAgainChangesNothing
<1>6. CASE WriteTemporary
  <2>1. \/ UNCHANGED run
        \/ Go("rename") /\ temporary'.entries = Merge(existing, found, run.force)
        \/ End(EXIT_RAISED)
    BY <1>6 DEF WriteTemporary
  <2>2. run.at = "write" /\ UNCHANGED <<existing, found>>
    BY <1>6 DEF WriteTemporary
  <2>3. CASE UNCHANGED run
    BY <1>0, <2>2, <2>3 DEF AgainInv, RunAgainChangesNothing
  <2>4. CASE Go("rename") /\ temporary'.entries = Merge(existing, found, run.force)
    <3>1. run'.at = "rename" /\ run'.force = run.force /\ run'.dryRun = run.dryRun
      BY <1>0, <2>4, GoesTo
    <3> QED
      BY <1>0, <2>2, <2>4, <3>1 DEF AgainInv, RunAgainChangesNothing
  <2>5. CASE End(EXIT_RAISED)
    <3>1. run'.at = "idle" /\ run'.code = EXIT_RAISED
      BY <1>0, <2>5, EndsWith
    <3>2. run'.code # EXIT_OK
      BY <3>1 DEF EXIT_OK, EXIT_RAISED
    <3> QED
      BY <3>1, <3>2 DEF AgainInv, RunAgainChangesNothing
  <2> QED
    BY <2>1, <2>3, <2>4, <2>5
<1>7. CASE Rename
  <2>1. file' = Merge(existing, found, run.force) /\ found' = found /\ run'.at = "idle"
    BY <1>0, <1>7 DEF Rename, TypeOK, Runs, End
  <2>2. existing \in Files /\ found \in Seq(Department) /\ run.force \in BOOLEAN
    BY FoundIsAList DEF TypeOK, Runs
  <2>3. Merge(file, found, FALSE)' = file'
    BY <2>1, <2>2, MergeTwice
  <2> QED
    BY <2>1, <2>3 DEF AgainInv, RunAgainChangesNothing
<1>8. CASE Die
  BY <1>0, <1>8 DEF AgainInv, RunAgainChangesNothing, Die, TypeOK, Runs, End, EXIT_OK, EXIT_RAISED
<1>9. ASSUME NEW departments \in Catalogues, Answered(departments)
      PROVE  AgainInv'
  BY <1>0, <1>9 DEF AgainInv, RunAgainChangesNothing, Answered, TypeOK, Runs, Go
<1>10. ASSUME NEW id \in Ids, NEW enabled \in BOOLEAN, Edits(id, enabled)
       PROVE  AgainInv'
  BY <1>10 DEF AgainInv, RunAgainChangesNothing, Edits
<1>11. CASE UNCHANGED vars
  BY <1>11 DEF AgainInv, RunAgainChangesNothing, vars
<1> QED
  BY <1>1, <1>2, <1>3, <1>4, <1>5, <1>6, <1>7, <1>8, <1>9, <1>10, <1>11 DEF Next

\* A run that wrote leaves nothing for the next one to do.  That merging twice
\* is merging once does not give this by itself: the file merged into is the
\* one the run read, and what it renames is what it wrote before.
THEOREM SecondRunIdle == Spec => []RunAgainChangesNothing
<1>1. Init => AgainInv
  BY DEF Init, AgainInv, ToBeRenamed, RunAgainChangesNothing, At
<1>2. AgainInv => RunAgainChangesNothing
  BY DEF AgainInv
<1> QED
  BY <1>1, <1>2, AgainInductive, TypeCorrect, PTL DEF Spec

-----------------------------------------------------------------------------
(* What the person decided *)

\* An entry is as the person left it.
Keeps(entries, id) ==
    id \in DOMAIN entries /\ entries[id].enabled \in wish[id] /\ entries[id].extra

\* So is the entry a run for real has read, from its read to its rename: this
\* is what the replacement of the whole file rests on.
ReadAsLeft ==
    RunHasRead => \A id \in Ids : wish[id] # {} /\ id \notin raced => Keeps(existing, id)

WishInv == WishesKept /\ ReadAsLeft /\ ToBeRenamed

LEMMA WishInductive == TypeOK /\ AgainInv /\ WishInv /\ [Next]_vars => WishInv'
<1> SUFFICES ASSUME TypeOK, WishInv, [Next]_vars, ToBeRenamed'
             PROVE  WishInv'
  BY AgainInductive DEF AgainInv
<1> USE DEF WishInv, WishesKept, ReadAsLeft, Keeps, At, RunHasRead
<1>1. CASE Begin
  BY <1>1 DEF Begin, Outside
<1>2. CASE LoadSession
  BY <1>2 DEF LoadSession, TypeOK, Runs, Go, End, Unwritten, Outside
<1>3. CASE Refused
  BY <1>3 DEF Refused, TypeOK, Runs, End, Unwritten, Outside
<1>4. CASE ReadExisting
  BY <1>4 DEF ReadExisting, TypeOK, Runs, Go, End, Unwritten, Outside
<1>5. CASE Discover
  BY <1>5 DEF Discover, TypeOK, Runs, Go, End, Unwritten, Outside
<1>6. CASE WriteTemporary
  BY <1>6 DEF WriteTemporary, TypeOK, Runs, Go, End, Outside
<1>7. CASE Rename
  <2>1. file' = Merge(existing, found, run.force) /\ raced' = raced /\ ~RunHasRead'
    BY <1>7 DEF Rename, TypeOK, Runs, End, ToBeRenamed
  <2>2. ASSUME NEW id \in Ids, wish'[id] # {}, id \notin raced'
        PROVE  id \in DOMAIN file' /\ file'[id].enabled \in wish'[id] /\ file'[id].extra
    <3>1. ~(run.force /\ id \in Marked(found)) /\ wish'[id] = wish[id]
      BY <1>7, <2>2 DEF Rename
    <3>2. Keeps(existing, id)
      BY <1>7, <2>1, <2>2, <3>1 DEF Rename, ToBeRenamed
    <3>3. existing[id] \in Entry
      BY <3>2, FilesAre DEF TypeOK
    <3>4. Merge(existing, found, run.force)[id] =
             IF id \notin Marked(found) THEN existing[id]
             ELSE [existing[id] EXCEPT !.name = NameOf(found, id)]
      BY <3>1, <3>2 DEF Merge
    <3>5. id \in DOMAIN Merge(existing, found, run.force)
      BY <3>2 DEF Merge
    <3> QED
      BY <2>1, <3>1, <3>2, <3>3, <3>4, <3>5 DEF Entry
  <2> QED
    BY <2>1, <2>2
<1>8. CASE Die
  BY <1>8 DEF Die, TypeOK, Runs, End, Unwritten, Outside
<1>9. ASSUME NEW departments \in Catalogues, Answered(departments)
      PROVE  WishInv'
  BY <1>9 DEF Answered, TypeOK, Runs, Go, Unwritten, Outside
<1>10. ASSUME NEW id \in Ids, NEW enabled \in BOOLEAN, Edits(id, enabled)
       PROVE  WishInv'
  <2>1. file[id] \in Entry
    BY <1>10, FilesAre DEF Edits, TypeOK
  <2>2. DOMAIN file' = DOMAIN file /\ file'[id].enabled = enabled /\ file'[id].extra
        /\ \A i \in DOMAIN file : i # id => file'[i] = file[i]
    BY <1>10, <2>1 DEF Edits, Entry
  <2>3. wish'[id] = {enabled} /\ \A i \in Ids : i # id => wish'[i] = wish[i]
    BY <1>10 DEF Edits, TypeOK
  <2>4. /\ \A i \in Ids : i # id => (i \in raced' <=> i \in raced)
        /\ RunHasRead => id \in raced'
        /\ id \in DOMAIN file /\ UNCHANGED <<run, existing>>
    BY <1>10 DEF Edits
  <2> QED
    BY <2>2, <2>3, <2>4
<1>11. CASE UNCHANGED vars
  BY <1>11 DEF vars
<1> QED
  BY <1>1, <1>2, <1>3, <1>4, <1>5, <1>6, <1>7, <1>8, <1>9, <1>10, <1>11 DEF Next

\* What the person decided of a centre holds through every later run, whatever
\* the catalogue and wherever the runs die.
THEOREM DecisionsKept == Spec => []WishesKept
<1>1. Init => AgainInv /\ WishInv
  BY DEF Init, AgainInv, ToBeRenamed, RunAgainChangesNothing, At, WishInv, WishesKept,
         ReadAsLeft, RunHasRead
<1>2. WishInv => WishesKept
  BY DEF WishInv
<1> QED
  BY <1>1, <1>2, AgainInductive, WishInductive, TypeCorrect, PTL DEF Spec

=============================================================================
