------------------------------ MODULE ConfigInit ------------------------------
(***************************************************************************)
(* init-config (api/config_init.py): one departments response merged into  *)
(* config/service_centers.yaml, run after run, while HSC's catalogue       *)
(* changes and the person who owns the file edits it.  A run may die at    *)
(* any point, and a person who saves between a run's read of the file and  *)
(* its replacement of it races that run.                                   *)
(*                                                                         *)
(* An entry of the file is its name, `enabled`, and one more field that    *)
(* discovery knows nothing about.  A department is the centre number its   *)
(* name carries after the sign №, or Unmarked, and the name.               *)
(***************************************************************************)
EXTENDS Naturals, Sequences, FiniteSets

CONSTANTS
    Ids,         \* visible centre numbers
    Names,       \* what HSC calls a centre
    Catalogues   \* the departments lists HSC may answer with

Unmarked == 0   \* no №, or more than one number

ASSUME CatalogueAssumption ==
    /\ Unmarked \notin Ids
    /\ Catalogues \subseteq Seq([number: Ids \cup {Unmarked}, name: Names])

VARIABLES
    file,       \* the entries of service_centers.yaml by id
    run,        \* where the run is, how it was called, its exit code
    existing,   \* the entries the run read
    found,      \* the departments the run was given
    temporary,  \* the file next to the target: its entries, or none
    wish,       \* ghost: {what the person last said of a centre}, or {}
    raced       \* ghost: the centres whose edit fell between a read and a rename

vars == <<file, run, existing, found, temporary, wish, raced>>

None == "none"
Nobody == [i \in {} |-> i]   \* a file without entries

Entry == [name: Names, enabled: BOOLEAN, extra: BOOLEAN]
Files == UNION {[ids -> Entry] : ids \in SUBSET Ids}

EXIT_OK == 0
EXIT_RAISED == 1
EXIT_AUTH_REQUIRED == 3
EXIT_PERSISTENCE == 4
EXIT_API == 5

Runs ==
    [at: {"idle", "session", "departments", "file", "merge", "write", "rename"},
     force: BOOLEAN, dryRun: BOOLEAN,
     code: {EXIT_OK, EXIT_RAISED, EXIT_AUTH_REQUIRED, EXIT_PERSISTENCE, EXIT_API}]

TypeOK ==
    /\ file \in Files
    /\ run \in Runs
    /\ existing \in Files
    /\ found = <<>> \/ found \in Catalogues
    /\ temporary \in [kind: {None, "partial", "whole"}, entries: Files]
    /\ wish \in [Ids -> SUBSET BOOLEAN]
    /\ raced \subseteq Ids

NoTemporary == [kind |-> None, entries |-> Nobody]

Init ==
    /\ file \in {Nobody} \cup UNION {[{i} -> Entry] : i \in Ids}
    /\ run = [at |-> "idle", force |-> FALSE, dryRun |-> FALSE, code |-> EXIT_OK]
    /\ existing = Nobody /\ found = <<>> /\ temporary = NoTemporary
    /\ wish = [i \in Ids |-> {}] /\ raced = {}

-----------------------------------------------------------------------------
(* discover, merge *)

MarkedOrNot(departments) == {departments[k].number : k \in DOMAIN departments}
Marked(departments) == {departments[k].number : k \in DOMAIN departments} \ {Unmarked}

\* Of two departments that claim one number the first is taken.
NameOf(departments, id) ==
    departments[CHOOSE k \in DOMAIN departments :
                   /\ departments[k].number = id
                   /\ \A j \in 1 .. k - 1 : departments[j].number # id].name

LastNameOf(departments, id) ==
    departments[CHOOSE k \in DOMAIN departments :
                   /\ departments[k].number = id
                   /\ \A j \in k + 1 .. Len(departments) : departments[j].number # id].name

\* A new centre arrives disabled.  `extra` stands for the fields of the file.
Discovered(departments, id) ==
    [name |-> NameOf(departments, id), enabled |-> FALSE, extra |-> FALSE]

MergeReturned(entries, departments, force) ==
    [id \in Marked(departments) |->
        IF id \notin DOMAIN entries \/ force THEN Discovered(departments, id)
        ELSE [entries[id] EXCEPT !.name = NameOf(departments, id)]]
MergeLastName(entries, departments, force) ==
    [id \in DOMAIN entries \cup Marked(departments) |->
        IF id \notin Marked(departments) THEN entries[id]
        ELSE IF id \notin DOMAIN entries \/ force THEN Discovered(departments, id)
        ELSE [entries[id] EXCEPT !.name = LastNameOf(departments, id)]]
Merge(entries, departments, force) ==
    [id \in DOMAIN entries \cup Marked(departments) |->
        IF id \notin Marked(departments) THEN entries[id]
        ELSE IF id \notin DOMAIN entries \/ force THEN Discovered(departments, id)
        ELSE [entries[id] EXCEPT !.name = NameOf(departments, id)]]

-----------------------------------------------------------------------------
(* run_config_init *)

At(place) == run.at = place
Go(place) == run' = [run EXCEPT !.at = place]
End(code) == run' = [run EXCEPT !.at = "idle", !.code = code]

Unwritten == UNCHANGED <<file, temporary>>
Outside == UNCHANGED <<wish, raced>>

\* mkstemp takes a new name every time: what a dead run left stays behind.
Begin ==
    /\ At("idle")
    /\ \E force, dryRun \in BOOLEAN :
          run' = [at |-> "session", force |-> force, dryRun |-> dryRun, code |-> EXIT_OK]
    /\ existing' = Nobody /\ found' = <<>> /\ temporary' = NoTemporary
    /\ UNCHANGED file /\ Outside

\* The stored session is live, or it is expired, absent or not readable.
LoadSession ==
    /\ At("session")
    /\ (Go("departments") \/ End(EXIT_PERSISTENCE))
    /\ UNCHANGED <<existing, found>> /\ Unwritten /\ Outside

\* client.departments(), one call under the client's own retries.
Refused ==
    /\ At("departments")
    /\ \E code \in {EXIT_AUTH_REQUIRED, EXIT_API} : End(code)
    /\ UNCHANGED <<existing, found>> /\ Unwritten /\ Outside

Answered(departments) ==
    /\ At("departments")
    /\ found' = departments
    /\ Go("file")
    /\ UNCHANGED existing /\ Unwritten /\ Outside

\* read_existing; a file of another shape than a list under service_centers is
\* a DiscoveryFailed, and one that is no YAML is caught nowhere.
ReadExisting ==
    /\ At("file")
    /\ \/ existing' = file /\ Go("merge")
       \/ \E code \in {EXIT_API, EXIT_RAISED} : End(code) /\ UNCHANGED existing
    /\ UNCHANGED found /\ Unwritten /\ Outside

Discover ==
    /\ At("merge")
    /\ IF Marked(found) = {} THEN End(EXIT_API)
       ELSE IF run.dryRun THEN End(EXIT_OK)
       ELSE Go("write")
    /\ UNCHANGED <<existing, found>> /\ Unwritten /\ Outside

\* write_atomically: the text is on disk before it has the file's name, and a
\* write that fails takes its temporary file away.
WriteTemporary ==
    /\ At("write")
    /\ \/ /\ temporary.kind = None
          /\ temporary' = [kind |-> "partial", entries |-> Nobody]
          /\ UNCHANGED run
       \/ /\ temporary.kind = "partial"
          /\ temporary' = [kind |-> "whole", entries |-> Merge(existing, found, run.force)]
          /\ Go("rename")
       \/ /\ temporary.kind = "partial"
          /\ temporary' = NoTemporary
          /\ End(EXIT_RAISED)
    /\ UNCHANGED <<file, existing, found>> /\ Outside

\* os.replace.  What --force resets is what the person asked to reset.
Rename ==
    /\ At("rename")
    /\ file' = temporary.entries /\ temporary' = NoTemporary
    /\ End(EXIT_OK)
    /\ wish' = [i \in Ids |-> IF run.force /\ i \in Marked(found) THEN {} ELSE wish[i]]
    /\ UNCHANGED <<existing, found, raced>>

Die ==
    /\ ~At("idle")
    /\ End(EXIT_RAISED)
    /\ UNCHANGED <<existing, found>> /\ Unwritten /\ Outside

-----------------------------------------------------------------------------
(* The person *)

RunHasRead == run.at \in {"merge", "write", "rename"} /\ ~run.dryRun

Edits(id, enabled) ==
    /\ id \in DOMAIN file
    /\ file' = [file EXCEPT ![id].enabled = enabled, ![id].extra = TRUE]
    /\ wish' = [wish EXCEPT ![id] = {enabled}]
    /\ raced' = IF RunHasRead THEN raced \cup {id} ELSE raced \ {id}
    /\ found' = IF At("idle") THEN <<>> ELSE found   \* the file is the person's again
    /\ UNCHANGED <<run, existing, temporary>>

Next ==
    \/ Begin \/ LoadSession \/ Refused \/ ReadExisting \/ Discover \/ WriteTemporary
    \/ Rename \/ Die
    \/ \E departments \in Catalogues : Answered(departments)
    \/ \E id \in Ids, enabled \in BOOLEAN : Edits(id, enabled)

Spec == Init /\ [][Next]_vars

-----------------------------------------------------------------------------
(* Properties *)

\* What the person decided of a centre holds through every later run, those
\* that die halfway, those HSC does not name the centre in, and those it is
\* back in: the entry is there, as enabled as it was left and with the fields
\* discovery does not know.  Only --force resets it, and only the edit that
\* was saved while a run was between its read and its rename is lost.
WishesKept ==
    \A id \in Ids : wish[id] # {} /\ id \notin raced =>
        id \in DOMAIN file /\ file[id].enabled \in wish[id] /\ file[id].extra

\* A run that wrote leaves nothing for the next one to do: given the same
\* answer, it would write the file as it is.
RunAgainChangesNothing ==
    At("idle") /\ run.code = EXIT_OK /\ ~run.dryRun /\ found # <<>> =>
        Merge(file, found, FALSE) = file

=============================================================================
