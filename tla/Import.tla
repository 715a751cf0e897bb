-------------------------------- MODULE Import --------------------------------
(***************************************************************************)
(* Import from another password manager (vault/ImportPanel.tsx, and        *)
(* markDuplicates of utils/import.ts).  The panel stands in the settings   *)
(* of the vault page: leaving them drops what it shows, not the import     *)
(* under way, which asks the worker for one item after the other.          *)
(***************************************************************************)
EXTENDS Naturals, SequencesExt

CONSTANTS
  Row,         \* what a file may list and the vault may hold
  KeysOf,      \* row -> its (host, identifier) pairs, or its credential
  File,
  RowsOf,      \* readable file -> the rows the parsers find in it
  AtFirst,     \* the rows the vault holds at first
  Unset,
  MaxPicks,    \* bound: files picked
  MaxImports   \* bound: imports started

ASSUME ImportAssumption ==
  /\ KeysOf \in [Row -> SUBSET UNION {KeysOf[r] : r \in Row}]
  /\ DOMAIN RowsOf \subseteq File /\ \A f \in DOMAIN RowsOf : RowsOf[f] \in Seq(Row)
  /\ AtFirst \subseteq Row /\ Unset \notin File
  /\ MaxPicks \in Nat /\ MaxImports \in Nat

VARIABLES
  held,     \* the vault: row -> how many items were made of it
  shut,     \* the worker is locked
  listed,   \* the rows of the page's own list of items
  panel,
  reads,    \* files being read, with the list of the page when they were picked
  imports,  \* imports under way
  picks, started

importVars == <<held, shut, listed, panel, reads, imports, picks, started>>

InVaultNow == {r \in Row : held[r] > 0}

\* A panel just opened.  "against" and "untouched" say, for the properties, which
\* list the marks are of, and that the ticks are still those of the panel.
Empty == [at |-> "import", input |-> Unset, parsed |-> Unset, marks |-> {}, ticks |-> {},
          busy |-> FALSE, error |-> FALSE, said |-> Unset, against |-> {}, untouched |-> TRUE]

Indices(file) == IF file = Unset THEN {} ELSE DOMAIN RowsOf[file]

\* What shares a key with something listed is already saved.
MarkDuplicates(file, existing) ==
  {i \in Indices(file) : \E r \in existing : KeysOf[r] \cap KeysOf[RowsOf[file][i]] # {}}

\* Picking the file the input shows changes nothing; no import keeps from picking.
Pick(file) ==
  /\ panel.at = "import" /\ file # panel.input /\ picks < MaxPicks
  /\ picks' = picks + 1
  /\ panel' = [panel EXCEPT !.input = file, !.error = FALSE, !.said = Unset]
  /\ reads' = reads \cup {[file |-> file, existing |-> listed]}
  /\ UNCHANGED <<held, shut, listed, imports, started>>

\* (Mutant of Parsed: what is already saved is ticked like the rest.)
ParsedTicksAll(read) ==
  [panel EXCEPT !.parsed = read.file, !.marks = MarkDuplicates(read.file, read.existing),
                !.ticks = Indices(read.file), !.against = read.existing, !.untouched = TRUE]

Parsed(read) ==
  LET marks == MarkDuplicates(read.file, read.existing) IN
  [panel EXCEPT !.parsed = read.file, !.marks = marks, !.ticks = Indices(read.file) \ marks,
                !.against = read.existing, !.untouched = TRUE]

\* Files are read in any order, and the last one read is the one shown.
ReadDone(read) ==
  /\ reads' = reads \ {read}
  /\ panel' = IF read.file \in DOMAIN RowsOf THEN Parsed(read)
              ELSE [panel EXCEPT !.parsed = Unset, !.marks = {}, !.error = TRUE]
  /\ UNCHANGED <<held, shut, listed, imports, picks, started>>

\* One box, or "Select all", "Select none" and "Skip duplicates".
TickRows ==
  LET all == Indices(panel.parsed) IN
  /\ panel.parsed # Unset
  /\ \E ticks \in {all, {}, all \ panel.marks} \cup {SymDiff(panel.ticks, {i}) : i \in all} :
       panel' = [panel EXCEPT !.ticks = ticks, !.untouched = (ticks = all \ panel.marks)]
  /\ UNCHANGED <<held, shut, listed, reads, imports, picks, started>>

ClearFile ==
  /\ panel.parsed # Unset
  /\ panel' = [Empty EXCEPT !.busy = panel.busy]
  /\ UNCHANGED <<held, shut, listed, reads, imports, picks, started>>

Commit ==
  /\ panel.parsed # Unset /\ ~panel.busy /\ panel.ticks # {} /\ started < MaxImports
  /\ started' = started + 1
  /\ panel' = [panel EXCEPT !.busy = TRUE]
  /\ imports' = Append(imports,
       [file |-> panel.parsed, left |-> panel.ticks, saved |-> 0, made |-> 0, mine |-> TRUE,
        careful |-> panel.untouched /\ panel.against = InVaultNow, alone |-> TRUE, twice |-> FALSE])
  /\ UNCHANGED <<held, shut, listed, reads, picks>>

\* (Mutant of Counted: what was asked for is counted.)
CountedAnyway(run, i, made) == [run EXCEPT !.left = @ \ {i}, !.saved = @ + 1, !.made = @ + made]

\* The loop after the answer to one CREATE_ITEM, which made so many items.
Counted(run, i, made) == [run EXCEPT !.left = @ \ {i}, !.saved = @ + made, !.made = @ + made]

\* What the properties remember of an item made of this row, by import k: that
\* the vault held a key of it already, and for the others that it was made.
SavedBefore(row) == \E r \in InVaultNow : KeysOf[r] \cap KeysOf[row] # {}
Noted(k, row) ==
  [j \in DOMAIN imports |->
     IF j = k THEN [imports[j] EXCEPT !.twice = @ \/ SavedBefore(row)]
     ELSE [imports[j] EXCEPT !.alone = FALSE]]

\* The rows ticked are asked for in the order of the file.
CreateItem(k) ==
  \E i \in imports[k].left :
    LET row == RowsOf[imports[k].file][i] IN
    /\ \A j \in imports[k].left : i <= j
    /\ \/ /\ ~shut /\ held' = [held EXCEPT ![row] = @ + 1]
          \* The worker stops afterwards: the message is refused, nothing
          \* catches it, and the panel stays busy.
          /\ \/ imports' = [Noted(k, row) EXCEPT ![k] = Counted(@, i, 1)]
             \/ imports' = RemoveAt(Noted(k, row), k)
       \* A locked worker makes none, nor one that stops before.
       \/ /\ UNCHANGED held
          /\ \/ shut /\ imports' = [imports EXCEPT ![k] = Counted(@, i, 0)]
             \/ ~shut /\ imports' = RemoveAt(imports, k)
    /\ UNCHANGED <<shut, listed, panel, reads, picks, started>>

\* The panel leaves the page: what is under way goes on and reports to nobody.
Unmounted(at, runs) ==
  /\ panel' = [Empty EXCEPT !.at = at] /\ reads' = {}
  /\ imports' = [k \in DOMAIN runs |-> [runs[k] EXCEPT !.mine = FALSE]]

\* onImported, loadItems of the page, and the end of commit.  GET_ITEMS of a
\* locked vault is refused as an error or as a lock, which sends the page away.
Finish(k) ==
  LET run == imports[k]
      Over == /\ panel' = IF run.mine
                          THEN [panel EXCEPT !.busy = FALSE, !.parsed = Unset, !.marks = {}, !.ticks = {},
                                             !.input = Unset, !.said = [saved |-> run.saved, made |-> run.made]]
                          ELSE panel
              /\ imports' = RemoveAt(imports, k) /\ UNCHANGED reads IN
  /\ run.left = {}
  /\ \/ ~shut /\ listed' = InVaultNow /\ Over
     \/ shut /\ Over /\ UNCHANGED listed
     \/ shut /\ Unmounted("unlock", RemoveAt(imports, k)) /\ UNCHANGED listed
  /\ UNCHANGED <<held, shut, picks, started>>

LeavePanel ==
  /\ panel.at = "import" /\ Unmounted("tab", imports)
  /\ UNCHANGED <<held, shut, listed, picks, started>>

Return ==
  /\ panel.at = "tab" /\ panel' = Empty
  /\ UNCHANGED <<held, shut, listed, reads, imports, picks, started>>

\* The page's unlock screen, after which it loads its items.
ImportUnlock ==
  /\ panel.at = "unlock"
  /\ panel' = [panel EXCEPT !.at = "tab"] /\ shut' = FALSE /\ listed' = InVaultNow
  /\ UNCHANGED <<held, reads, imports, picks, started>>

\* The worker locks by itself; another page unlocks it.
WorkerLocks ==
  /\ shut' = ~shut
  /\ UNCHANGED <<held, listed, panel, reads, imports, picks, started>>

ImportInit ==
  /\ held = [r \in Row |-> IF r \in AtFirst THEN 1 ELSE 0] /\ listed = AtFirst /\ shut = FALSE
  /\ panel = [Empty EXCEPT !.at = "tab"] /\ reads = {} /\ imports = <<>> /\ picks = 0 /\ started = 0

ImportNext ==
  \/ \E file \in File : Pick(file)
  \/ \E read \in reads : ReadDone(read)
  \/ TickRows \/ ClearFile \/ Commit
  \/ \E k \in DOMAIN imports : CreateItem(k) \/ Finish(k)
  \/ LeavePanel \/ Return \/ ImportUnlock \/ WorkerLocks

ImportSpec == ImportInit /\ [][ImportNext]_importVars

(***************************************************************************)
(* Properties                                                              *)
(***************************************************************************)
Runs == [file : DOMAIN RowsOf, left : SUBSET Nat, saved : Nat, made : Nat,
         mine : BOOLEAN, careful : BOOLEAN, alone : BOOLEAN, twice : BOOLEAN]

ImportTypeOK ==
  /\ held \in [Row -> Nat] /\ shut \in BOOLEAN /\ listed \subseteq Row
  /\ reads \subseteq [file : File, existing : SUBSET Row] /\ imports \in Seq(Runs)
  /\ panel.at \in {"import", "tab", "unlock"} /\ panel.input \in File \cup {Unset}
  /\ panel.parsed \in DOMAIN RowsOf \cup {Unset}
  /\ panel.marks \subseteq Indices(panel.parsed) /\ panel.said # Unset => panel.said.saved \in Nat

\* No two rows of the file share a key: duplicates within it are not marked.
ListsOnce(file) ==
  \A i, j \in Indices(file) : i # j => KeysOf[RowsOf[file][i]] \cap KeysOf[RowsOf[file][j]] = {}

\* "Imported n items" counts the items that were made, whatever locked or
\* stopped under the import; and an import of what the panel ticked by itself,
\* against a list that was the vault's, saves nothing the vault holds at the
\* time, unless the file lists it twice or another import, which the panel does
\* not keep from running, saved something meanwhile: then it does.
ImportHonest ==
  /\ panel.said # Unset => panel.said.saved = panel.said.made
  /\ \A k \in DOMAIN imports :
       imports[k].careful /\ imports[k].alone /\ ListsOnce(imports[k].file) => ~imports[k].twice
===============================================================================
