---------------------------- MODULE Surfaces_proofs ----------------------------
(***************************************************************************)
(* What holds of the import panel, of the popup and the vault page, of the *)
(* menu in a page and of the PIN box, for any vault, file, page and number *)
(* of messages; with the phone's clipboard, what MCSurfaces runs of them.  *)
(***************************************************************************)
EXTENDS MCSurfaces, Phone_proofs, FiniteSetTheorems, WellFoundedInduction

(***************************************************************************)
(* The import panel                                                        *)
(***************************************************************************)
Panels == [at : {"import", "tab", "unlock"}, input : File \cup {Unset},
           parsed : DOMAIN RowsOf \cup {Unset}, marks : SUBSET Nat, ticks : SUBSET Nat,
           busy : BOOLEAN, error : BOOLEAN, said : [saved : Nat, made : Nat] \cup {Unset},
           against : SUBSET Row, untouched : BOOLEAN]

\* The marks are of the list the file was read against, the ticks the rest, and
\* what the panel says it counted was made.
PanelOK(p) ==
  /\ p \in Panels /\ p.marks \subseteq Indices(p.parsed)
  /\ p.parsed # Unset =>
       /\ p.ticks \subseteq Indices(p.parsed) /\ p.marks = MarkDuplicates(p.parsed, p.against)
       /\ p.untouched => p.ticks = Indices(p.parsed) \ p.marks
  /\ p.said # Unset => p.said.saved = p.said.made

\* What is left of a careful import is new to the vault, which holds these rows.
StillNew(r, vault) ==
  r.careful /\ r.alone /\ ListsOnce(r.file) =>
    /\ ~r.twice
    /\ \A i \in r.left, q \in vault : KeysOf[RowsOf[r.file][i]] \cap KeysOf[q] = {}
GoodRuns(vault) ==
  {r \in Runs : r.saved = r.made /\ r.left \subseteq Indices(r.file) /\ StillNew(r, vault)}

Readings == [file : File, existing : SUBSET Row]

ImportInv ==
  /\ held \in [Row -> Nat] /\ shut \in BOOLEAN /\ listed \subseteq Row
  /\ reads \subseteq Readings /\ PanelOK(panel)
  /\ imports \in Seq(GoodRuns(InVaultNow))

LEMMA UnsetIsNoFile == Unset \notin DOMAIN RowsOf
  BY ImportAssumption

LEMMA RowsOfFile ==
  ASSUME NEW f \in DOMAIN RowsOf
  PROVE  /\ Indices(f) = DOMAIN RowsOf[f] /\ Indices(f) \subseteq Nat
         /\ \A i \in Indices(f) : RowsOf[f][i] \in Row
<1>1. Indices(f) = DOMAIN RowsOf[f]
  BY UnsetIsNoFile DEF Indices
<1>2. RowsOf[f] \in Seq(Row)
  BY ImportAssumption
<1>3. DOMAIN RowsOf[f] = 1..Len(RowsOf[f]) /\ Len(RowsOf[f]) \in Nat
  BY <1>2, LenProperties
<1>4. \A i \in 1..Len(RowsOf[f]) : RowsOf[f][i] \in Row
  BY <1>2, ElementOfSeq
<1> QED BY <1>1, <1>3, <1>4

LEMMA IndicesOfUnset == Indices(Unset) = {}
  BY DEF Indices

LEMMA EmptyPanel ==
  ASSUME NEW at \in {"import", "tab", "unlock"}, NEW p,
         p = [Empty EXCEPT !.at = at] \/ (p = Empty /\ at = "import")
  PROVE  PanelOK(p)
<1>1. /\ p.at = at /\ p.input = Unset /\ p.parsed = Unset /\ p.marks = {} /\ p.ticks = {}
      /\ p.busy = FALSE /\ p.error = FALSE /\ p.said = Unset /\ p.against = {}
      /\ p.untouched = TRUE
  BY DEF Empty
<1>2. p \in Panels
  <2>1. Empty \in Panels
    BY DEF Panels, Empty
  <2> QED BY <2>1 DEF Panels
<1> QED BY <1>1, <1>2, IndicesOfUnset DEF PanelOK

LEMMA ReadingKeeps ==
  ASSUME ImportInv, NEW read \in reads, ReadDone(read)
  PROVE  PanelOK(panel')
<1>1. read.file \in File /\ read.existing \subseteq Row
  BY DEF ImportInv, Readings
<1>2. CASE read.file \in DOMAIN RowsOf
  <2>1. PICK marks : marks = MarkDuplicates(read.file, read.existing)
    OBVIOUS
  <2>2. panel' = [panel EXCEPT !.parsed = read.file, !.marks = marks,
                    !.ticks = Indices(read.file) \ marks, !.against = read.existing,
                    !.untouched = TRUE]
    BY <1>2, <2>1 DEF ReadDone, Parsed
  <2>3. marks \subseteq Indices(read.file) /\ Indices(read.file) \subseteq Nat
    BY <1>2, <2>1, RowsOfFile DEF MarkDuplicates
  <2>4. panel' \in Panels
    BY <1>1, <1>2, <2>2, <2>3 DEF ImportInv, PanelOK, Panels
  <2>5. /\ panel'.parsed = read.file /\ panel'.marks = marks
        /\ panel'.ticks = Indices(read.file) \ marks /\ panel'.against = read.existing
        /\ panel'.said = panel.said
    BY <2>2 DEF ImportInv, PanelOK, Panels
  <2> QED BY <2>1, <2>3, <2>4, <2>5 DEF ImportInv, PanelOK
<1>3. CASE read.file \notin DOMAIN RowsOf
  <2>1. panel' = [panel EXCEPT !.parsed = Unset, !.marks = {}, !.error = TRUE]
    BY <1>3 DEF ReadDone
  <2>2. panel' \in Panels /\ panel'.parsed = Unset /\ panel'.marks = {} /\ panel'.said = panel.said
    BY <2>1 DEF ImportInv, PanelOK, Panels
  <2> QED BY <2>2 DEF ImportInv, PanelOK
<1> QED BY <1>2, <1>3

LEMMA TicksKeep ==
  ASSUME ImportInv, TickRows
  PROVE  PanelOK(panel')
<1>1. panel.parsed \in DOMAIN RowsOf /\ Indices(panel.parsed) \subseteq Nat
  BY RowsOfFile DEF TickRows, ImportInv, PanelOK, Panels
<1>2. PICK all : all = Indices(panel.parsed)
  OBVIOUS
<1>3. PICK ticks \in {all, {}, all \ panel.marks} \cup {SymDiff(panel.ticks, {i}) : i \in all} :
        panel' = [panel EXCEPT !.ticks = ticks, !.untouched = (ticks = all \ panel.marks)]
  BY <1>2 DEF TickRows
<1>4. ticks \subseteq all
  <2>1. panel.ticks \subseteq all
    BY <1>1, <1>2, UnsetIsNoFile DEF ImportInv, PanelOK
  <2>2. ASSUME NEW i \in all PROVE SymDiff(panel.ticks, {i}) \subseteq all
    BY <2>1, <2>2 DEF SymDiff
  <2> QED BY <1>3, <2>2
<1>5. panel' \in Panels
  BY <1>1, <1>2, <1>3, <1>4 DEF ImportInv, PanelOK, Panels
<1>6. /\ panel'.parsed = panel.parsed /\ panel'.marks = panel.marks /\ panel'.said = panel.said
      /\ panel'.against = panel.against /\ panel'.ticks = ticks
      /\ panel'.untouched = (ticks = all \ panel.marks)
  BY <1>3 DEF ImportInv, PanelOK, Panels
<1> QED BY <1>2, <1>4, <1>5, <1>6 DEF ImportInv, PanelOK

\* The rows the panel ticks by itself share no key with the list they are of.
LEMMA UntouchedIsNew ==
  ASSUME ImportInv, panel.parsed # Unset, panel.untouched, NEW i \in panel.ticks,
         NEW r \in panel.against
  PROVE  KeysOf[RowsOf[panel.parsed][i]] \cap KeysOf[r] = {}
  BY DEF ImportInv, PanelOK, MarkDuplicates

LEMMA CommitKeeps ==
  ASSUME ImportInv, Commit
  PROVE  PanelOK(panel') /\ imports' \in Seq(GoodRuns(InVaultNow))
<1>1. panel.parsed \in DOMAIN RowsOf /\ panel.ticks \subseteq Indices(panel.parsed)
  BY DEF Commit, ImportInv, PanelOK, Panels
<1>2. panel' = [panel EXCEPT !.busy = TRUE]
  BY DEF Commit
<1>3. panel' \in Panels
  BY <1>2 DEF ImportInv, PanelOK, Panels
<1>4. /\ panel'.parsed = panel.parsed /\ panel'.marks = panel.marks /\ panel'.said = panel.said
      /\ panel'.against = panel.against /\ panel'.ticks = panel.ticks
      /\ panel'.untouched = panel.untouched
  BY <1>2 DEF ImportInv, PanelOK, Panels
<1>5. PICK careful : careful = (panel.untouched /\ panel.against = InVaultNow)
  OBVIOUS
<1>6. PICK r : r = [file |-> panel.parsed, left |-> panel.ticks, saved |-> 0, made |-> 0,
                    mine |-> TRUE, careful |-> careful, alone |-> TRUE, twice |-> FALSE]
  OBVIOUS
<1>7. imports' = Append(imports, r)
  BY <1>5, <1>6 DEF Commit
<1>8. ASSUME careful, NEW i \in panel.ticks, NEW q \in InVaultNow
      PROVE  KeysOf[RowsOf[panel.parsed][i]] \cap KeysOf[q] = {}
  <2>1. panel.parsed # Unset /\ panel.untouched /\ q \in panel.against
    BY <1>5, <1>8 DEF Commit
  <2> QED BY <2>1, UntouchedIsNew
<1>9. careful \in BOOLEAN /\ panel.ticks \subseteq Nat
  BY <1>1, <1>5, RowsOfFile
<1>10. /\ r \in Runs /\ r.file = panel.parsed /\ r.left = panel.ticks /\ r.saved = r.made
       /\ (r.careful => careful) /\ ~r.twice
  BY <1>1, <1>6, <1>9 DEF Runs
<1>11. r \in GoodRuns(InVaultNow)
  BY <1>1, <1>8, <1>10 DEF GoodRuns, StillNew
<1>12. imports' \in Seq(GoodRuns(InVaultNow))
  BY <1>7, <1>11, AppendProperties DEF ImportInv
<1> QED BY <1>3, <1>4, <1>12 DEF ImportInv, PanelOK

LEMMA SeqOfItsElements ==
  ASSUME NEW T, NEW S, NEW s \in Seq(T), \A j \in 1..Len(s) : s[j] \in S
  PROVE  s \in Seq(S)
<1>1. Len(s) \in Nat /\ DOMAIN s = 1..Len(s) /\ s = [j \in 1..Len(s) |-> s[j]]
  BY LenProperties
<1> QED BY <1>1, IsASeq

LEMMA RemoveAtKeeps ==
  ASSUME NEW T, NEW S, NEW s \in Seq(T), NEW k \in 1..Len(s),
         \A j \in 1..Len(s) : j # k => s[j] \in S
  PROVE  RemoveAt(s, k) \in Seq(S)
<1>1. Len(s) \in Nat /\ \A i \in 1..Len(s) : s[i] \in T
  BY LenProperties, ElementOfSeq
<1>2. PICK p, q : p = SubSeq(s, 1, k - 1) /\ q = SubSeq(s, k + 1, Len(s))
  OBVIOUS
<1>3. p \in Seq(T) /\ q \in Seq(T)
  BY <1>1, <1>2, SubSeqProperties
<1>4. /\ Len(p) = k - 1 /\ \A j \in 1..Len(p) : p[j] = s[j]
      /\ Len(q) = Len(s) - k /\ \A j \in 1..Len(q) : q[j] = s[k + j]
  BY <1>1, <1>2, SubSeqProperties
<1>5. \A j \in 1..Len(p) : p[j] \in S
  BY <1>1, <1>4
<1>6. ASSUME NEW j \in 1..Len(q) PROVE q[j] \in S
  <2>1. k + j \in 1..Len(s) /\ k + j # k /\ q[j] = s[k + j]
    BY <1>1, <1>4
  <2> QED BY <2>1
<1>7. p \in Seq(S) /\ q \in Seq(S)
  BY <1>3, <1>5, <1>6, SeqOfItsElements
<1> QED BY <1>2, <1>7, ConcatProperties DEF RemoveAt

\* What counting one row makes of a run whose other rows are new to the vault.
LEMMA CountedIsGood ==
  ASSUME NEW vault, NEW run \in Runs, NEW i \in run.left, NEW made \in {0, 1},
         run.saved = run.made, run.left \subseteq Indices(run.file),
         run.careful /\ run.alone /\ ListsOnce(run.file) =>
           /\ ~run.twice
           /\ \A j \in run.left \ {i}, q \in vault :
                KeysOf[RowsOf[run.file][j]] \cap KeysOf[q] = {}
  PROVE  Counted(run, i, made) \in GoodRuns(vault)
<1>1. PICK left, saved, counted, r :
        /\ left = run.left \ {i} /\ saved = run.saved + made /\ counted = run.made + made
        /\ r = [run EXCEPT !.left = left, !.saved = saved, !.made = counted]
  OBVIOUS
<1>2. left \in SUBSET Nat /\ saved \in Nat /\ counted \in Nat
  BY <1>1 DEF Runs
<1>3. r \in Runs
  BY <1>1, <1>2 DEF Runs
<1>4. /\ r.left = left /\ r.saved = saved /\ r.made = counted /\ r.file = run.file
      /\ r.careful = run.careful /\ r.alone = run.alone /\ r.twice = run.twice
  BY <1>1 DEF Runs
<1>5. StillNew(r, vault)
  BY <1>1, <1>4 DEF StillNew
<1>6. r \in GoodRuns(vault)
  BY <1>1, <1>3, <1>4, <1>5 DEF GoodRuns
<1> QED BY <1>1, <1>6 DEF Counted

\* No item was made.
LEMMA NoneMadeKeeps ==
  ASSUME ImportInv, NEW k \in DOMAIN imports, NEW i \in imports[k].left,
         \/ imports' = [imports EXCEPT ![k] = Counted(@, i, 0)]
         \/ imports' = RemoveAt(imports, k)
  PROVE  imports' \in Seq(GoodRuns(InVaultNow))
<1>1. PICK vault : vault = InVaultNow
  OBVIOUS
<1>2. PICK run : run = imports[k]
  OBVIOUS
<1>3. /\ DOMAIN imports = 1..Len(imports) /\ Len(imports) \in Nat
      /\ imports \in Seq(GoodRuns(vault)) /\ \A j \in 1..Len(imports) : imports[j] \in GoodRuns(vault)
      /\ run \in GoodRuns(vault)
  BY <1>1, <1>2, LenProperties, ElementOfSeq DEF ImportInv
<1>4. CASE imports' = [imports EXCEPT ![k] = Counted(@, i, 0)]
  <2>1. /\ run \in Runs /\ i \in run.left /\ run.saved = run.made
        /\ run.left \subseteq Indices(run.file)
    BY <1>2, <1>3 DEF GoodRuns
  <2>4. run.careful /\ run.alone /\ ListsOnce(run.file) =>
          /\ ~run.twice
          /\ \A j \in run.left \ {i}, q \in vault :
               KeysOf[RowsOf[run.file][j]] \cap KeysOf[q] = {}
    BY <1>3 DEF GoodRuns, StillNew
  <2>5. Counted(run, i, 0) \in GoodRuns(vault)
    BY <2>1, <2>4, CountedIsGood
  <2>2. imports' = [imports EXCEPT ![k] = Counted(run, i, 0)]
    BY <1>2, <1>4
  <2>3. imports' \in Seq(GoodRuns(vault))
    BY <1>3, <2>5, <2>2, ExceptSeq
  <2> QED BY <1>1, <2>3
<1>5. CASE imports' = RemoveAt(imports, k)
  BY <1>1, <1>3, <1>5, RemoveAtKeeps
<1> QED BY <1>4, <1>5

\* One was made, of row i of import k: the others are not alone any more.
LEMMA OneMadeKeeps ==
  ASSUME ImportInv, NEW k \in DOMAIN imports, NEW i \in imports[k].left, NEW row,
         row = RowsOf[imports[k].file][i], held' = [held EXCEPT ![row] = @ + 1],
         \/ imports' = [Noted(k, row) EXCEPT ![k] = Counted(@, i, 1)]
         \/ imports' = RemoveAt(Noted(k, row), k)
  PROVE  imports' \in Seq(GoodRuns(InVaultNow'))
<1>1. PICK vault, now : vault = InVaultNow /\ now = InVaultNow'
  OBVIOUS
<1>2. PICK run : run = imports[k]
  OBVIOUS
<1>3. /\ DOMAIN imports = 1..Len(imports) /\ Len(imports) \in Nat
      /\ \A j \in 1..Len(imports) : imports[j] \in GoodRuns(vault)
      /\ run \in GoodRuns(vault) /\ run \in Runs
  BY <1>1, <1>2, LenProperties, ElementOfSeq DEF ImportInv, GoodRuns
<1>4. row \in Row /\ i \in Indices(run.file)
  BY <1>2, <1>3, RowsOfFile DEF GoodRuns, Runs
<1>5. now = vault \cup {row}
  <2>1. \A q \in Row : held'[q] = IF q = row THEN held[q] + 1 ELSE held[q]
    BY DEF ImportInv
  <2>2. \A q \in Row : held[q] \in Nat
    BY DEF ImportInv
  <2>3. ASSUME NEW q PROVE q \in now <=> q \in vault \cup {row}
    BY <1>1, <1>4, <2>1, <2>2 DEF InVaultNow
  <2> QED BY <2>3
<1>6. PICK noted : noted = Noted(k, row)
  OBVIOUS
<1>7. /\ DOMAIN noted = 1..Len(imports)
      /\ \A j \in 1..Len(imports) : j # k => noted[j] = [imports[j] EXCEPT !.alone = FALSE]
      /\ noted[k] = [run EXCEPT !.twice = @ \/ SavedBefore(row)]
  BY <1>2, <1>3, <1>6 DEF Noted
<1>8. ASSUME NEW j \in 1..Len(imports), j # k PROVE noted[j] \in GoodRuns(now)
  <2>1. PICK other, r : other = imports[j] /\ r = [other EXCEPT !.alone = FALSE]
    OBVIOUS
  <2>2. other \in Runs /\ other.saved = other.made /\ other.left \subseteq Indices(other.file)
    BY <1>3, <2>1 DEF GoodRuns
  <2>3. /\ r \in Runs /\ r.saved = other.saved /\ r.made = other.made /\ r.left = other.left
        /\ r.file = other.file /\ ~r.alone
    BY <2>1, <2>2 DEF Runs
  <2>4. r \in GoodRuns(now)
    BY <2>2, <2>3 DEF GoodRuns, StillNew
  <2> QED BY <1>7, <1>8, <2>1, <2>4
<1>9. PICK again, r : again = (run.twice \/ SavedBefore(row)) /\ r = [run EXCEPT !.twice = again]
  OBVIOUS
<1>10. noted[k] = r
  BY <1>7, <1>9
<1>11. again \in BOOLEAN
  BY <1>3, <1>9 DEF Runs, SavedBefore
<1>12. /\ r \in Runs /\ r.saved = run.saved /\ r.made = run.made /\ r.left = run.left
       /\ r.file = run.file /\ r.careful = run.careful /\ r.alone = run.alone /\ r.twice = again
  BY <1>3, <1>9, <1>11 DEF Runs
<1>13. ASSUME r.careful, r.alone, ListsOnce(r.file)
       PROVE  /\ ~r.twice
              /\ \A j \in r.left \ {i}, q \in now : KeysOf[RowsOf[r.file][j]] \cap KeysOf[q] = {}
  <2>1. ~run.twice /\ \A j \in run.left, q \in vault : KeysOf[RowsOf[run.file][j]] \cap KeysOf[q] = {}
    BY <1>3, <1>12, <1>13 DEF GoodRuns, StillNew
  <2>2. \A q \in vault : KeysOf[row] \cap KeysOf[q] = {}
    BY <1>2, <2>1
  <2>3. ~SavedBefore(row)
    BY <1>1, <2>2 DEF SavedBefore
  <2>4. ~again
    BY <1>9, <2>1, <2>3
  <2>5. ~r.twice
    BY <1>12, <2>4
  <2>6. ASSUME NEW j \in r.left \ {i}, NEW q \in now
        PROVE  KeysOf[RowsOf[r.file][j]] \cap KeysOf[q] = {}
    <3>1. j \in Indices(run.file) /\ j # i /\ j \in run.left
      BY <1>3, <1>12, <2>6 DEF GoodRuns
    <3>2. CASE q \in vault
      BY <1>12, <2>1, <3>1, <3>2
    <3>3. CASE q = row
      BY <1>2, <1>4, <1>12, <1>13, <3>1, <3>3 DEF ListsOnce
    <3> QED BY <1>5, <2>6, <3>2, <3>3
  <2> QED BY <2>5, <2>6
<1>14. run.saved = run.made /\ run.left \subseteq Indices(run.file)
  BY <1>3 DEF GoodRuns
<1>15. Counted(r, i, 1) \in GoodRuns(now)
  BY <1>2, <1>12, <1>13, <1>14, CountedIsGood
<1>16. CASE imports' = [Noted(k, row) EXCEPT ![k] = Counted(@, i, 1)]
  <2>1. imports' = [noted EXCEPT ![k] = Counted(r, i, 1)]
    BY <1>6, <1>10, <1>16
  <2>2. imports' = [j \in 1..Len(imports) |-> IF j = k THEN Counted(r, i, 1) ELSE noted[j]]
    BY <1>3, <1>7, <2>1
  <2>3. \A j \in 1..Len(imports) : (IF j = k THEN Counted(r, i, 1) ELSE noted[j]) \in GoodRuns(now)
    BY <1>8, <1>15
  <2>4. imports' \in Seq(GoodRuns(now))
    BY <1>3, <2>2, <2>3, IsASeq
  <2> QED BY <1>1, <2>4
<1>17. CASE imports' = RemoveAt(Noted(k, row), k)
  <2>1. noted = [j \in 1..Len(imports) |-> noted[j]]
    BY <1>3, <1>6, <1>7 DEF Noted
  <2>2. PICK T : \A j \in 1..Len(imports) : noted[j] \in T
    <3>1. \A j \in 1..Len(imports) : noted[j] \in {noted[l] : l \in 1..Len(imports)}
      OBVIOUS
    <3> QED BY <3>1
  <2>3. noted \in Seq(T)
    BY <1>3, <2>1, <2>2, IsASeq
  <2>4. Len(noted) = Len(imports)
    BY <1>3, <1>7, <2>3, LenProperties
  <2>5. k \in 1..Len(noted) /\ \A j \in 1..Len(noted) : j # k => noted[j] \in GoodRuns(now)
    BY <1>3, <1>8, <2>4
  <2>6. RemoveAt(noted, k) \in Seq(GoodRuns(now))
    BY <2>3, <2>5, RemoveAtKeeps
  <2> QED BY <1>1, <1>6, <1>17, <2>6
<1> QED BY <1>16, <1>17

LEMMA CreateKeeps ==
  ASSUME ImportInv, NEW k \in DOMAIN imports, CreateItem(k)
  PROVE  held' \in [Row -> Nat] /\ imports' \in Seq(GoodRuns(InVaultNow'))
<1>9. PICK i \in imports[k].left :
        LET row == RowsOf[imports[k].file][i] IN
        \/ /\ held' = [held EXCEPT ![row] = @ + 1]
           /\ \/ imports' = [Noted(k, row) EXCEPT ![k] = Counted(@, i, 1)]
              \/ imports' = RemoveAt(Noted(k, row), k)
        \/ /\ UNCHANGED held
           /\ \/ imports' = [imports EXCEPT ![k] = Counted(@, i, 0)]
              \/ imports' = RemoveAt(imports, k)
  BY DEF CreateItem
<1>8. PICK row : row = RowsOf[imports[k].file][i]
  OBVIOUS
<1>1. \/ /\ held' = [held EXCEPT ![row] = @ + 1]
         /\ \/ imports' = [Noted(k, row) EXCEPT ![k] = Counted(@, i, 1)]
            \/ imports' = RemoveAt(Noted(k, row), k)
      \/ /\ UNCHANGED held
         /\ \/ imports' = [imports EXCEPT ![k] = Counted(@, i, 0)]
            \/ imports' = RemoveAt(imports, k)
  BY <1>8, <1>9
<1>2. CASE /\ UNCHANGED held
           /\ \/ imports' = [imports EXCEPT ![k] = Counted(@, i, 0)]
              \/ imports' = RemoveAt(imports, k)
  <2>1. InVaultNow' = InVaultNow
    BY <1>2 DEF InVaultNow
  <2>2. held' \in [Row -> Nat]
    BY <1>2 DEF ImportInv
  <2>3. imports' \in Seq(GoodRuns(InVaultNow))
    BY <1>2, NoneMadeKeeps
  <2> QED BY <2>1, <2>2, <2>3
<1>3. CASE /\ held' = [held EXCEPT ![row] = @ + 1]
           /\ \/ imports' = [Noted(k, row) EXCEPT ![k] = Counted(@, i, 1)]
              \/ imports' = RemoveAt(Noted(k, row), k)
  <2>1. imports' \in Seq(GoodRuns(InVaultNow'))
    BY <1>3, <1>8, OneMadeKeeps
  <2>2. held' \in [Row -> Nat]
    <3>1. \A r \in Row : held[r] + 1 \in Nat
      BY DEF ImportInv
    <3> QED BY <1>3, <3>1 DEF ImportInv
  <2> QED BY <2>1, <2>2
<1> QED BY <1>1, <1>2, <1>3

LEMMA UnmountKeeps ==
  ASSUME NEW vault, NEW at \in {"import", "tab", "unlock"}, NEW runs \in Seq(GoodRuns(vault)),
         Unmounted(at, runs)
  PROVE  PanelOK(panel') /\ reads' = {} /\ imports' \in Seq(GoodRuns(vault))
<1>1. DOMAIN runs = 1..Len(runs) /\ Len(runs) \in Nat /\ \A k \in 1..Len(runs) : runs[k] \in GoodRuns(vault)
  BY LenProperties, ElementOfSeq
<1>2. ASSUME NEW k \in 1..Len(runs) PROVE [runs[k] EXCEPT !.mine = FALSE] \in GoodRuns(vault)
  <2>1. PICK run, r : run = runs[k] /\ r = [run EXCEPT !.mine = FALSE]
    OBVIOUS
  <2>2. run \in GoodRuns(vault) /\ run \in Runs
    BY <1>1, <2>1 DEF GoodRuns
  <2>3. /\ r \in Runs /\ r.left = run.left /\ r.saved = run.saved /\ r.made = run.made
        /\ r.careful = run.careful /\ r.twice = run.twice /\ r.file = run.file
        /\ r.alone = run.alone
    BY <2>1, <2>2 DEF Runs
  <2> QED BY <2>1, <2>2, <2>3 DEF GoodRuns, StillNew
<1>3. imports' = [k \in 1..Len(runs) |-> [runs[k] EXCEPT !.mine = FALSE]]
  BY <1>1 DEF Unmounted
<1>4. imports' \in Seq(GoodRuns(vault))
  BY <1>1, <1>2, <1>3, IsASeq
<1> QED BY <1>4, EmptyPanel DEF Unmounted

LEMMA FinishKeeps ==
  ASSUME ImportInv, NEW k \in DOMAIN imports, Finish(k)
  PROVE  /\ PanelOK(panel') /\ reads' \subseteq Readings /\ listed' \subseteq Row
         /\ imports' \in Seq(GoodRuns(InVaultNow))
<1>1. PICK run : run = imports[k]
  OBVIOUS
<1>6. PICK vault : vault = InVaultNow
  OBVIOUS
<1>7. /\ DOMAIN imports = 1..Len(imports) /\ imports \in Seq(GoodRuns(vault))
      /\ \A j \in 1..Len(imports) : imports[j] \in GoodRuns(vault)
  BY <1>6, LenProperties, ElementOfSeq DEF ImportInv
<1>2. run \in GoodRuns(vault) /\ run \in Runs /\ RemoveAt(imports, k) \in Seq(GoodRuns(vault))
  BY <1>1, <1>7, RemoveAtKeeps DEF GoodRuns
<1>3. listed' \subseteq Row
  BY DEF Finish, ImportInv, InVaultNow
<1>4. CASE Unmounted("unlock", RemoveAt(imports, k))
  BY <1>2, <1>3, <1>4, <1>6, UnmountKeeps DEF Readings
<1>5. CASE ~Unmounted("unlock", RemoveAt(imports, k))
  <2>1. /\ imports' = RemoveAt(imports, k) /\ reads' = reads
        /\ panel' = IF run.mine
                    THEN [panel EXCEPT !.busy = FALSE, !.parsed = Unset, !.marks = {}, !.ticks = {},
                            !.input = Unset, !.said = [saved |-> run.saved, made |-> run.made]]
                    ELSE panel
    BY <1>1, <1>5 DEF Finish
  <2>2. CASE run.mine
    <3>1. PICK said : said = [saved |-> run.saved, made |-> run.made]
      OBVIOUS
    <3>2. said \in [saved : Nat, made : Nat] /\ said.saved = said.made
      BY <1>2, <3>1 DEF GoodRuns, Runs
    <3>3. panel' = [panel EXCEPT !.busy = FALSE, !.parsed = Unset, !.marks = {}, !.ticks = {},
                      !.input = Unset, !.said = said]
      BY <2>1, <2>2, <3>1
    <3>4. panel' \in Panels /\ panel'.parsed = Unset /\ panel'.marks = {} /\ panel'.said = said
      BY <3>2, <3>3 DEF ImportInv, PanelOK, Panels
    <3> QED BY <1>2, <1>3, <1>6, <2>1, <3>2, <3>4 DEF ImportInv, PanelOK
  <2>3. CASE ~run.mine
    BY <1>2, <1>3, <1>6, <2>1, <2>3 DEF ImportInv
  <2> QED BY <2>2, <2>3
<1> QED BY <1>4, <1>5

LEMMA ImportInvInit == ImportInit => ImportInv
<1> SUFFICES ASSUME ImportInit PROVE ImportInv
  OBVIOUS
<1>1. PanelOK(panel)
  BY EmptyPanel DEF ImportInit
<1>2. imports \in Seq(GoodRuns(InVaultNow)) /\ reads \subseteq Readings
  BY EmptySeq DEF ImportInit
<1>3. held \in [Row -> Nat] /\ shut \in BOOLEAN /\ listed \subseteq Row
  BY ImportAssumption DEF ImportInit
<1> QED BY <1>1, <1>2, <1>3 DEF ImportInv

LEMMA ImportInvKept == ImportInv /\ [ImportNext]_importVars => ImportInv'
<1> SUFFICES ASSUME ImportInv, [ImportNext]_importVars PROVE ImportInv'
  OBVIOUS
<1>0. UNCHANGED held => InVaultNow' = InVaultNow
  BY DEF InVaultNow
<1>1. ASSUME NEW file \in File, Pick(file) PROVE ImportInv'
  <2>1. panel' = [panel EXCEPT !.input = file, !.error = FALSE, !.said = Unset]
    BY <1>1 DEF Pick
  <2>2. panel' \in Panels
    BY <2>1 DEF ImportInv, PanelOK, Panels
  <2>3. /\ panel'.parsed = panel.parsed /\ panel'.marks = panel.marks /\ panel'.said = Unset
        /\ panel'.against = panel.against /\ panel'.ticks = panel.ticks
        /\ panel'.untouched = panel.untouched
    BY <2>1 DEF ImportInv, PanelOK, Panels
  <2>4. PanelOK(panel')
    BY <2>2, <2>3 DEF ImportInv, PanelOK
  <2> QED BY <1>0, <1>1, <2>4 DEF Pick, ImportInv, Readings
<1>2. ASSUME NEW read \in reads, ReadDone(read) PROVE ImportInv'
  BY <1>0, <1>2, ReadingKeeps DEF ReadDone, ImportInv
<1>3. CASE TickRows
  BY <1>0, <1>3, TicksKeep DEF TickRows, ImportInv
<1>4. CASE ClearFile
  <2>1. panel' = [Empty EXCEPT !.busy = panel.busy]
    BY <1>4 DEF ClearFile
  <2>2. /\ panel' \in Panels /\ panel'.parsed = Unset /\ panel'.marks = {} /\ panel'.said = Unset
    BY <2>1 DEF Empty, ImportInv, PanelOK, Panels
  <2>3. PanelOK(panel')
    BY <2>2 DEF PanelOK
  <2> QED BY <1>0, <1>4, <2>3 DEF ClearFile, ImportInv
<1>5. CASE Commit
  BY <1>0, <1>5, CommitKeeps DEF Commit, ImportInv
<1>6. ASSUME NEW k \in DOMAIN imports, CreateItem(k) PROVE ImportInv'
  BY <1>0, <1>6, CreateKeeps DEF CreateItem, ImportInv
<1>7. ASSUME NEW k \in DOMAIN imports, Finish(k) PROVE ImportInv'
  BY <1>0, <1>7, FinishKeeps DEF Finish, ImportInv
<1>8. CASE LeavePanel
  BY <1>0, <1>8, UnmountKeeps DEF LeavePanel, ImportInv
<1>9. CASE Return
  <2>1. PanelOK(panel')
    BY <1>9, EmptyPanel DEF Return
  <2> QED BY <1>0, <1>9, <2>1 DEF Return, ImportInv
<1>10. CASE ImportUnlock
  <2>1. panel' = [panel EXCEPT !.at = "tab"]
    BY <1>10 DEF ImportUnlock
  <2>2. panel' \in Panels
    BY <2>1 DEF ImportInv, PanelOK, Panels
  <2>3. /\ panel'.parsed = panel.parsed /\ panel'.marks = panel.marks /\ panel'.said = panel.said
        /\ panel'.against = panel.against /\ panel'.ticks = panel.ticks
        /\ panel'.untouched = panel.untouched
    BY <2>1 DEF ImportInv, PanelOK, Panels
  <2>4. PanelOK(panel')
    BY <2>2, <2>3 DEF ImportInv, PanelOK
  <2> QED BY <1>0, <1>10, <2>4 DEF ImportUnlock, ImportInv, InVaultNow
<1>11. CASE WorkerLocks
  BY <1>0, <1>11 DEF WorkerLocks, ImportInv
<1>12. CASE UNCHANGED importVars
  BY <1>0, <1>12 DEF importVars, ImportInv
<1> QED BY <1>1, <1>2, <1>3, <1>4, <1>5, <1>6, <1>7, <1>8, <1>9, <1>10, <1>11, <1>12
       DEF ImportNext

\* The types a run checks are part of it.
LEMMA ImportInvTypes == ImportInv => ImportTypeOK
  <1> SUFFICES ASSUME ImportInv PROVE ImportTypeOK
    OBVIOUS
  <1>1. imports \in Seq(Runs)
    <2>1. DOMAIN imports = 1..Len(imports) /\ Len(imports) \in Nat
          /\ \A k \in 1..Len(imports) : imports[k] \in Runs
      BY LenProperties, ElementOfSeq DEF ImportInv, GoodRuns
    <2>2. imports = [k \in 1..Len(imports) |-> imports[k]]
      BY <2>1 DEF ImportInv
    <2> QED BY <2>1, <2>2, IsASeq
  <1> QED BY <1>1 DEF ImportInv, PanelOK, Panels, ImportTypeOK, Readings

LEMMA ImportInvHonest == ImportInv => ImportHonest
  <1> SUFFICES ASSUME ImportInv PROVE ImportHonest
    OBVIOUS
  <1>1. \A k \in DOMAIN imports : imports[k] \in GoodRuns(InVaultNow)
    BY LenProperties, ElementOfSeq DEF ImportInv
  <1> QED BY <1>1 DEF ImportInv, PanelOK, GoodRuns, StillNew, ImportHonest

\* "Imported n items" counts what was made, whatever locked, stopped or left the
\* page under the import; and an import of what the panel ticked by itself,
\* against a list that was the vault's, saves nothing the vault holds at the time,
\* unless the file lists it twice or another import saved something meanwhile.
THEOREM ImportsAreHonest == ImportSpec => []ImportHonest
  BY ImportInvInit, ImportInvKept, ImportInvHonest, PTL DEF ImportSpec

(***************************************************************************)
(* The popup and the vault page                                            *)
(***************************************************************************)
\* What a message may have the page ask for next.
Follow == {LoadItems, LoadIdentities, LoadCounts, LoadMatches,
           Then("GET_ITEMS", "item", Nothing, <<LoadIdentities>>)}

Ops == {"GET_UNLOCKED", "UNLOCK", "LOCK", "GET_ITEMS", "GET_IDENTITIES", "GET_PAGE_MATCHES",
        "GET_ITEM_SUMMARY", "CREATE", "UPDATE", "DELETE", "ASSIGN", "SYNC", "GENERATE_IDENTITY"}

Messages == [op : Ops, kind : Kind \cup {"none"}, id : Things \cup {Nothing},
             then : Seq(Follow), reply : {"none", "ok", "failed", "locked"},
             data : (SUBSET Item) \cup (SUBSET Persona), heard : BOOLEAN]

\* The messages that fill the lists LockedIsNotEmpty is about.
Loading == {"GET_IDENTITIES", "GET_PAGE_MATCHES"}

\* A message of p as it was asked, and its answer, if it has one: an empty list
\* is the answer only if there was nothing, empty being what was seen empty.
WellAsked(p, c) ==
  /\ c \in Messages
  /\ c.op \in {"GET_ITEMS", "GET_PAGE_MATCHES"} => c.kind = "item"
  /\ c.op = "GET_IDENTITIES" => c.kind = "persona"
  /\ c.op \in Loading => c.heard
  /\ p = "popup" /\ c.op \in {"CREATE", "UPDATE"} => c.kind = "item"
  /\ p = "popup" /\ c.op = "UPDATE" => c.id \in Item
  /\ c.op = "UPDATE" /\ c.kind = "persona" => c.id \in Persona
  /\ c.op = "CREATE" => c.kind \in Kind
WellAnswered(c, empty) ==
  /\ c.op \in Needs /\ c.kind \in Kind => c.data \subseteq Of(c.kind)
  /\ c.op \in Loading /\ c.reply = "ok" /\ c.data = {} => c.kind \in empty
  /\ c.op = "CREATE" /\ c.reply \in {"ok", "locked"} => \E t \in Of(c.kind) : c.data = {t}

\* The bag B of a page's messages; only those that load need be counted.
AskedOK(p, B, empty) ==
  \A c \in DOMAIN B :
    /\ WellAsked(p, c) /\ WellAnswered(c, empty)
    /\ c.op \in Loading => B[c] \in Nat \ {0}

Stores == [item : SUBSET Item, persona : SUBSET Persona]
Popups == [up : BOOLEAN, unlocked : BOOLEAN, matches : SUBSET Item, searching : BOOLEAN,
           finding : BOOLEAN, found : (SUBSET Item) \cup {Nothing},
           sheet : Item \cup {Nothing, "new"}, editing : BOOLEAN]
\* A draft is open in the editor.
GoodPopup(q) == q \in Popups /\ (q.sheet = "new" => q.editing)
VaultPages == [up : BOOLEAN, unlocked : BOOLEAN, tab : Kind, list : Stores, creating : BOOLEAN,
               editing : [item : Item \cup {Nothing}, persona : Persona \cup {Nothing, "new"}],
               chosen : Persona \cup {Nothing}, busy : SUBSET {"SYNC", "GENERATE_IDENTITY"},
               link : Item \cup {Nothing}, pending : Item \cup {Nothing}]

\* A request that is not refused as one that failed.
Asks(B, op) == \E c \in DOMAIN B : c.op = op /\ c.reply # "failed"

\* A page that is unlocked and shows nothing has asked, or there was nothing, or
\* a lock overtook what it asked: late are the pages that happened to.
PersonasDue(v, B, empty, late) ==
  v.unlocked /\ v.list.persona = {} =>
    "persona" \in empty \/ "vault" \in late \/ Asks(B, "GET_IDENTITIES")
MatchesDue(q, B, empty, late) ==
  q.unlocked /\ q.matches = {} =>
    "item" \in empty \/ "popup" \in late \/ Asks(B, "GET_PAGE_MATCHES")

PagesInv ==
  /\ open \in BOOLEAN /\ stored \in Stores /\ wasEmpty \subseteq Kind
  /\ \A k \in Kind : stored[k] = {} => k \in wasEmpty
  /\ raced \subseteq Page /\ clicks \in 0..MaxClicks
  /\ GoodPopup(pop) /\ vp \in VaultPages /\ vp.pending \in {vp.link, Nothing}
  /\ DOMAIN asked = Page /\ \A p \in Page : AskedOK(p, asked[p], wasEmpty)
  /\ PersonasDue(vp, asked.vault, wasEmpty, raced)
  /\ MatchesDue(pop, asked.popup, wasEmpty, raced)

(***************************************************************************)
(* Bags of messages                                                        *)
(***************************************************************************)
\* A message as it is sent.
Fresh(p) == {c \in Messages : WellAsked(p, c) /\ c.reply = "none" /\ c.data = {}}

LEMMA FreshAnswered ==
  ASSUME NEW p, NEW c \in Fresh(p), NEW empty
  PROVE  WellAsked(p, c) /\ WellAnswered(c, empty)
  BY DEF Fresh, WellAnswered, Loading

LEMMA SeqGrows ==
  ASSUME NEW S, NEW T, S \subseteq T, NEW seq \in Seq(S)
  PROVE  seq \in Seq(T)
<1>1. Len(seq) \in Nat /\ seq = [n \in 1..Len(seq) |-> seq[n]] /\ \A n \in 1..Len(seq) : seq[n] \in T
  BY LenProperties, ElementOfSeq
<1> QED BY <1>1, IsASeq

\* One message, or those of a sequence, one after the other.
LEMMA OneAsked ==
  ASSUME NEW p, NEW c, NEW empty, WellAsked(p, c), WellAnswered(c, empty)
  PROVE  AskedOK(p, SetToBag({c}), empty) /\ DOMAIN SetToBag({c}) = {c}
  BY DEF AskedOK, SetToBag

LEMMA SequenceAsked ==
  ASSUME NEW p, NEW more \in Seq(Fresh(p)), NEW empty
  PROVE  /\ AskedOK(p, ToBag(more), empty)
         /\ DOMAIN ToBag(more) = {more[n] : n \in 1..Len(more)}
<1>1. DOMAIN more = 1..Len(more) /\ Len(more) \in Nat
  BY LenProperties
<1>2. DOMAIN ToBag(more) = {more[n] : n \in 1..Len(more)}
  BY <1>1 DEF ToBag, Range
<1>3. ASSUME NEW c \in DOMAIN ToBag(more)
      PROVE  c \in Fresh(p) /\ ToBag(more)[c] \in Nat \ {0}
  <2>1. PICK n \in 1..Len(more) : c = more[n]
    BY <1>2, <1>3
  <2>2. c \in Fresh(p)
    BY <2>1, ElementOfSeq
  <2>3. ToBag(more)[c] = Cardinality({i \in DOMAIN more : more[i] = c})
    BY <1>3 DEF ToBag
  <2>4. IsFiniteSet({i \in 1..Len(more) : more[i] = c})
    <3>1. IsFiniteSet(1..Len(more))
      BY <1>1, FS_Interval
    <3> QED BY <3>1, FS_Subset
  <2>5. {i \in 1..Len(more) : more[i] = c} # {}
    BY <2>1
  <2> QED BY <1>1, <2>2, <2>3, <2>4, <2>5, FS_EmptySet, FS_CardinalityType
<1> QED BY <1>2, <1>3, FreshAnswered DEF AskedOK

LEMMA BothAsked ==
  ASSUME NEW p, NEW B, NEW C, NEW empty, AskedOK(p, B, empty), AskedOK(p, C, empty)
  PROVE  AskedOK(p, B (+) C, empty) /\ DOMAIN (B (+) C) = DOMAIN B \cup DOMAIN C
<1>1. DOMAIN (B (+) C) = DOMAIN B \cup DOMAIN C
  BY DEF (+)
<1>2. ASSUME NEW c \in DOMAIN B \cup DOMAIN C, c.op \in Loading
      PROVE  (B (+) C)[c] \in Nat \ {0}
  <2>1. (B (+) C)[c] = (IF c \in DOMAIN B THEN B[c] ELSE 0) + (IF c \in DOMAIN C THEN C[c] ELSE 0)
    BY DEF (+)
  <2>2. /\ c \in DOMAIN B => B[c] \in Nat \ {0}
        /\ c \in DOMAIN C => C[c] \in Nat \ {0}
    BY <1>2 DEF AskedOK
  <2> QED BY <2>1, <2>2
<1> QED BY <1>1, <1>2 DEF AskedOK

\* A load that is not the message taken stays.
LEMMA RestAsked ==
  ASSUME NEW p, NEW B, NEW c, NEW empty, AskedOK(p, B, empty)
  PROVE  /\ AskedOK(p, B (-) SetToBag({c}), empty)
         /\ DOMAIN (B (-) SetToBag({c})) \subseteq DOMAIN B
         /\ \A d \in DOMAIN B : d.op \in Loading /\ d # c => d \in DOMAIN (B (-) SetToBag({c}))
<1>1. SetToBag({c}) = [e \in {c} |-> 1]
  BY DEF SetToBag
<1>2. PICK R : R = [e \in DOMAIN B |-> IF e \in {c} THEN B[e] - 1 ELSE B[e]]
  OBVIOUS
<1>3. B (-) SetToBag({c}) = [e \in {d \in DOMAIN B : R[d] > 0} |-> R[e]]
  BY <1>1, <1>2 DEF (-)
<1>4. ASSUME NEW d \in DOMAIN B, d.op \in Loading
      PROVE  B[d] \in Nat \ {0}
  BY <1>4 DEF AskedOK
<1>5. \A d \in DOMAIN B : d.op \in Loading /\ d # c => R[d] > 0
  BY <1>2, <1>4
<1>6. \A d \in DOMAIN B : d.op \in Loading /\ R[d] > 0 => R[d] \in Nat \ {0}
  BY <1>2, <1>4
<1> QED BY <1>3, <1>5, <1>6 DEF AskedOK

LEMMA NoneAsked ==
  ASSUME NEW p, NEW empty
  PROVE  AskedOK(p, EmptyBag, empty) /\ DOMAIN EmptyBag = {}
  BY DEF AskedOK, EmptyBag, SetToBag

LEMMA AskedGrows ==
  ASSUME NEW p, NEW B, NEW empty, NEW empty2, AskedOK(p, B, empty), empty \subseteq empty2
  PROVE  AskedOK(p, B, empty2)
  BY DEF AskedOK, WellAnswered

\* What a page leaves behind loads nothing.
LEMMA LeftBehind ==
  ASSUME PagesInv, NEW p \in Page
  PROVE  AskedOK(p, Unheard(p), wasEmpty)
<1>1. PICK kept : kept = {c \in BagToSet(asked[p]) : c.reply = "none" /\ c.op \notin Reads}
  OBVIOUS
<1>2. DOMAIN Unheard(p) = {[c EXCEPT !.heard = FALSE, !.then = <<>>] : c \in kept}
  BY <1>1 DEF Unheard, BagOfAll, BagToSet
<1>3. ASSUME NEW c \in kept, NEW d, d = [c EXCEPT !.heard = FALSE, !.then = <<>>]
      PROVE  WellAsked(p, d) /\ WellAnswered(d, wasEmpty) /\ d.op \notin Loading
  <2>1. c \in Messages /\ WellAsked(p, c) /\ c.reply = "none" /\ c.op \notin Reads
    BY <1>1, <1>3 DEF PagesInv, AskedOK, WellAsked, BagToSet
  <2>2. <<>> \in Seq(Follow)
    BY EmptySeq
  <2>3. d \in Messages
    BY <1>3, <2>1, <2>2 DEF Messages
  <2>4. /\ d.op = c.op /\ d.kind = c.kind /\ d.id = c.id /\ d.reply = c.reply /\ d.data = c.data
    BY <1>3, <2>1 DEF Messages
  <2>5. d.op \notin Reads /\ d.op \notin Loading /\ d.op \notin Needs
    BY <2>1, <2>4 DEF Reads, Needs, Loading
  <2> QED BY <2>1, <2>3, <2>4, <2>5 DEF WellAsked, WellAnswered
<1> QED BY <1>2, <1>3 DEF AskedOK

(***************************************************************************)
(* What the pages send                                                     *)
(***************************************************************************)
LEMMA CallFields ==
  ASSUME NEW o, NEW k, NEW i, NEW t
  PROVE  /\ Then(o, k, i, t).op = o /\ Then(o, k, i, t).kind = k
         /\ Then(o, k, i, t).id = i /\ Then(o, k, i, t).then = t
         /\ Then(o, k, i, t).reply = "none" /\ Then(o, k, i, t).data = {}
         /\ Then(o, k, i, t).heard
         /\ Call(o, k, i) = Then(o, k, i, <<>>)
         /\ Ask(o) = Then(o, "none", Nothing, <<>>)
  BY DEF Then, Call, Ask

LEMMA Sent ==
  ASSUME NEW p \in Page, NEW o \in Ops, NEW k \in Kind \cup {"none"},
         NEW i \in Things \cup {Nothing}, NEW t \in Seq(Follow),
         o \in {"GET_ITEMS", "GET_PAGE_MATCHES"} => k = "item",
         o = "GET_IDENTITIES" => k = "persona",
         p = "popup" /\ o \in {"CREATE", "UPDATE"} => k = "item",
         p = "popup" /\ o = "UPDATE" => i \in Item,
         o = "UPDATE" /\ k = "persona" => i \in Persona,
         o = "CREATE" => k \in Kind
  PROVE  Then(o, k, i, t) \in Fresh(p)
<1>1. PICK c : c = Then(o, k, i, t)
  OBVIOUS
<1>2. c \in Messages
  BY <1>1 DEF Then, Messages
<1>3. /\ c.op = o /\ c.kind = k /\ c.id = i /\ c.reply = "none" /\ c.data = {} /\ c.heard
  BY <1>1, CallFields
<1>4. WellAsked(p, c)
  BY <1>2, <1>3 DEF WellAsked
<1> QED BY <1>1, <1>2, <1>3, <1>4 DEF Fresh

\* A question about nothing in particular.
LEMMA SentAsk ==
  ASSUME NEW p \in Page,
         NEW op \in Ops \ {"GET_ITEMS", "GET_PAGE_MATCHES", "GET_IDENTITIES", "CREATE", "UPDATE"}
  PROVE  Ask(op) \in Fresh(p)
<1>1. <<>> \in Seq(Follow)
  BY EmptySeq
<1>2. op \in Ops /\ "none" \in Kind \cup {"none"} /\ Nothing \in Things \cup {Nothing}
  OBVIOUS
<1>3. Then(op, "none", Nothing, <<>>) \in Fresh(p)
  BY <1>1, <1>2, Sent
<1> QED BY <1>3, CallFields

LEMMA FollowSent ==
  ASSUME NEW p \in Page
  PROVE  Follow \subseteq Fresh(p)
<1>1. <<>> \in Seq(Follow) /\ <<LoadIdentities>> \in Seq(Follow)
  <2>1. LoadIdentities \in Follow
    BY DEF Follow
  <2> QED BY <2>1, EmptySeq
<1> USE DEF Kind
<1>0. /\ "GET_ITEMS" \in Ops /\ "GET_PAGE_MATCHES" \in Ops /\ "GET_IDENTITIES" \in Ops
      /\ "item" \in {"item", "persona"} \cup {"none"} /\ "persona" \in {"item", "persona"} \cup {"none"}
      /\ Nothing \in Things \cup {Nothing}
  BY DEF Ops
<1>2. Then("GET_ITEMS", "item", Nothing, <<LoadIdentities>>) \in Fresh(p)
  BY <1>0, <1>1, Sent
<1>3. LoadItems \in Fresh(p) /\ LoadMatches \in Fresh(p) /\ LoadIdentities \in Fresh(p)
  <2>1. /\ Then("GET_ITEMS", "item", Nothing, <<>>) \in Fresh(p)
        /\ Then("GET_PAGE_MATCHES", "item", Nothing, <<>>) \in Fresh(p)
        /\ Then("GET_IDENTITIES", "persona", Nothing, <<>>) \in Fresh(p)
    BY <1>0, <1>1, Sent
  <2> QED BY <2>1 DEF Call, LoadItems, LoadMatches, LoadIdentities
<1>4. LoadCounts \in Fresh(p)
  BY SentAsk DEF LoadCounts, Ops
<1> QED BY <1>2, <1>3, <1>4 DEF Follow

LEMMA BatchSent ==
  ASSUME NEW p \in Page
  PROVE  /\ Batch(p) \in Seq(Fresh(p)) /\ Len(Batch(p)) = 2
         /\ p = "vault" => Batch(p)[2].op = "GET_IDENTITIES"
         /\ p = "popup" => Batch(p)[1].op = "GET_PAGE_MATCHES"
<1>1. /\ LoadItems \in Fresh(p) /\ LoadMatches \in Fresh(p) /\ LoadIdentities \in Fresh(p)
      /\ LoadCounts \in Fresh(p)
  BY FollowSent DEF Follow
<1>2. Batch(p) \in Seq(Fresh(p)) /\ Len(Batch(p)) = 2
  BY <1>1 DEF Batch
<1>3. LoadIdentities.op = "GET_IDENTITIES" /\ LoadMatches.op = "GET_PAGE_MATCHES"
  BY DEF Then, Call, LoadIdentities, LoadMatches
<1> QED BY <1>2, <1>3 DEF Batch, Page

\* With more sent, what was asked still is, and of more all.
LEMMA MoreAsked ==
  ASSUME NEW p \in Page, NEW rest, AskedOK(p, rest, wasEmpty), NEW more \in Seq(Fresh(p))
  PROVE  /\ AskedOK(p, rest (+) ToBag(more), wasEmpty)
         /\ \A op : Asks(rest, op) => Asks(rest (+) ToBag(more), op)
         /\ \A n \in 1..Len(more) : Asks(rest (+) ToBag(more), more[n].op)
<1>1. /\ AskedOK(p, ToBag(more), wasEmpty)
      /\ DOMAIN ToBag(more) = {more[n] : n \in 1..Len(more)}
  BY SequenceAsked
<1>2. /\ AskedOK(p, rest (+) ToBag(more), wasEmpty)
      /\ DOMAIN (rest (+) ToBag(more)) = DOMAIN rest \cup DOMAIN ToBag(more)
  <2>1. PICK sent : sent = ToBag(more)
    OBVIOUS
  <2>2. AskedOK(p, rest, wasEmpty) /\ AskedOK(p, sent, wasEmpty)
    BY <1>1, <2>1
  <2>3. DOMAIN (rest (+) sent) = DOMAIN rest \cup DOMAIN sent
    BY DEF (+)
  <2>4. AskedOK(p, rest (+) sent, wasEmpty)
    BY <2>2, BothAsked
  <2> QED BY <2>1, <2>3, <2>4
<1>3. \A n \in 1..Len(more) : more[n].reply # "failed"
  BY LenProperties, ElementOfSeq DEF Fresh
<1> QED BY <1>1, <1>2, <1>3 DEF Asks

(***************************************************************************)
(* The effects                                                             *)
(***************************************************************************)
GoodVault(v) == v \in VaultPages /\ v.pending \in {v.link, Nothing}

LEMMA LinkedKeeps ==
  ASSUME NEW v, GoodVault(v)
  PROVE  GoodVault(Linked(v)) /\ Linked(v).unlocked = v.unlocked /\ Linked(v).list = v.list
<1>1. CASE v.pending = Nothing \/ v.list.item = {}
  BY <1>1 DEF Linked
<1>2. CASE ~(v.pending = Nothing \/ v.list.item = {})
  <2>1. CASE v.pending \in v.list.item
    <3>1. PICK e : e = [v.editing EXCEPT !.item = v.pending]
      OBVIOUS
    <3>2. Linked(v) = [v EXCEPT !.pending = Nothing, !.editing = e]
      BY <1>2, <2>1, <3>1 DEF Linked
    <3>3. v.pending \in Item
      BY <2>1 DEF GoodVault, VaultPages, Stores
    <3>4. e \in [item : Item \cup {Nothing}, persona : Persona \cup {Nothing, "new"}]
      BY <3>1, <3>3 DEF GoodVault, VaultPages
    <3> QED BY <3>2, <3>4 DEF GoodVault, VaultPages
  <2>2. CASE v.pending \notin v.list.item
    <3>1. Linked(v) = [v EXCEPT !.pending = Nothing]
      BY <1>2, <2>2 DEF Linked
    <3> QED BY <2>2, <3>1 DEF GoodVault, VaultPages
  <2> QED BY <2>1, <2>2
<1> QED BY <1>1, <1>2

LEMMA VaultShown ==
  ASSUME PagesInv, NEW v, GoodVault(v), NEW rest, AskedOK("vault", rest, wasEmpty),
         NEW more \in Seq(Fresh("vault")), ShowVault(v, rest, more),
         vp.unlocked => PersonasDue(v, rest, wasEmpty, raced)
  PROVE  /\ GoodVault(vp') /\ pop' = pop
         /\ DOMAIN asked' = Page /\ asked'.popup = asked.popup
         /\ AskedOK("vault", asked'.vault, wasEmpty)
         /\ PersonasDue(vp', asked'.vault, wasEmpty, raced)
<1>1. PICK entered : entered = (v.unlocked /\ ~vp.unlocked)
  OBVIOUS
<1>2. PICK w : w = IF entered THEN [v EXCEPT !.pending = v.link] ELSE v
  OBVIOUS
<1>3. PICK sent : sent = more \o (IF entered THEN Batch("vault") ELSE <<>>)
  OBVIOUS
<1>4. /\ vp' = Linked(w) /\ pop' = pop
      /\ asked' = [asked EXCEPT !.vault = rest (+) ToBag(sent)]
  BY <1>1, <1>2, <1>3 DEF ShowVault
<1>5. GoodVault(w) /\ w.unlocked = v.unlocked /\ w.list = v.list
  BY <1>2 DEF GoodVault, VaultPages
<1>6. GoodVault(vp') /\ vp'.unlocked = v.unlocked /\ vp'.list = v.list
  BY <1>4, <1>5, LinkedKeeps
<1>7. "vault" \in Page
  BY DEF Page
<1>8. sent \in Seq(Fresh("vault"))
  <2>1. <<>> \in Seq(Fresh("vault")) /\ Batch("vault") \in Seq(Fresh("vault"))
    BY <1>7, EmptySeq, BatchSent
  <2> QED BY <1>3, <2>1, ConcatProperties
<1>9. DOMAIN asked' = Page /\ asked'.popup = asked.popup /\ asked'.vault = rest (+) ToBag(sent)
  BY <1>4 DEF PagesInv, Page
<1>10. AskedOK("vault", asked'.vault, wasEmpty)
  BY <1>7, <1>8, <1>9, MoreAsked
<1>11. PersonasDue(vp', asked'.vault, wasEmpty, raced)
  <2>1. CASE entered
    <3>1. Batch("vault") \in Seq(Fresh("vault")) /\ Len(Batch("vault")) = 2
      BY <1>7, BatchSent
    <3>2. Len(more) \in Nat
      BY LenProperties
    <3>3. Len(sent) = Len(more) + 2 /\ sent[Len(more) + 2] = Batch("vault")[2]
      BY <1>3, <2>1, <3>1, <3>2, ConcatProperties
    <3>4. Asks(asked'.vault, "GET_IDENTITIES")
      <4>1. PICK n : n = Len(more) + 2
        OBVIOUS
      <4>2. n \in 1..Len(sent) /\ sent[n].op = "GET_IDENTITIES"
        BY <1>7, <3>2, <3>3, <4>1, BatchSent
      <4>3. Asks(rest (+) ToBag(sent), sent[n].op)
        BY <1>7, <1>8, <4>2, MoreAsked
      <4> QED BY <1>9, <4>2, <4>3
    <3> QED BY <3>4 DEF PersonasDue
  <2>2. CASE ~entered
    BY <1>1, <1>6, <1>7, <1>8, <1>9, <2>2, MoreAsked DEF PersonasDue
  <2> QED BY <2>1, <2>2
<1> QED BY <1>4, <1>6, <1>9, <1>10, <1>11

LEMMA PopupShown ==
  ASSUME PagesInv, NEW q, GoodPopup(q), NEW rest, AskedOK("popup", rest, wasEmpty),
         NEW more \in Seq(Fresh("popup")), ShowPopup(q, rest, more),
         pop.unlocked => MatchesDue(q, rest, wasEmpty, raced)
  PROVE  /\ GoodPopup(pop') /\ vp' = vp
         /\ DOMAIN asked' = Page /\ asked'.vault = asked.vault
         /\ AskedOK("popup", asked'.popup, wasEmpty)
         /\ MatchesDue(pop', asked'.popup, wasEmpty, raced)
<1>1. PICK entered, search :
        /\ entered = (q.unlocked /\ ~pop.unlocked)
        /\ search = (q.up /\ q.unlocked /\ q.searching /\ q.found = Nothing /\ ~q.finding)
  OBVIOUS
<1>2. PICK batch : batch = IF entered THEN Batch("popup") ELSE <<>>
  OBVIOUS
<1>3. PICK first, tail, sent :
        /\ first = more \o batch /\ tail = (IF search THEN <<LoadItems>> ELSE <<>>)
        /\ sent = first \o tail
  OBVIOUS
<1>4. PICK finding : finding = (q.finding \/ search)
  OBVIOUS
<1>5. /\ pop' = [q EXCEPT !.finding = finding] /\ vp' = vp
      /\ asked' = [asked EXCEPT !.popup = rest (+) ToBag(sent)]
  BY <1>1, <1>2, <1>3, <1>4 DEF ShowPopup
<1>6. GoodPopup(pop') /\ pop'.unlocked = q.unlocked /\ pop'.matches = q.matches
  BY <1>1, <1>4, <1>5 DEF GoodPopup, Popups
<1>7. "popup" \in Page
  BY DEF Page
<1>8. first \in Seq(Fresh("popup")) /\ tail \in Seq(Fresh("popup")) /\ sent \in Seq(Fresh("popup"))
  <2>1. <<>> \in Seq(Fresh("popup")) /\ Batch("popup") \in Seq(Fresh("popup"))
    BY <1>7, EmptySeq, BatchSent
  <2>2. LoadItems \in Fresh("popup")
    BY <1>7, FollowSent DEF Follow
  <2>3. <<LoadItems>> \in Seq(Fresh("popup"))
    BY <2>2
  <2>4. first \in Seq(Fresh("popup"))
    BY <1>2, <1>3, <2>1, ConcatProperties
  <2> QED BY <1>3, <2>1, <2>3, <2>4, ConcatProperties
<1>9. DOMAIN asked' = Page /\ asked'.vault = asked.vault /\ asked'.popup = rest (+) ToBag(sent)
  BY <1>5 DEF PagesInv, Page
<1>10. AskedOK("popup", asked'.popup, wasEmpty)
  BY <1>7, <1>8, <1>9, MoreAsked
<1>11. MatchesDue(pop', asked'.popup, wasEmpty, raced)
  <2>1. CASE entered
    <3>1. Batch("popup") \in Seq(Fresh("popup")) /\ Len(Batch("popup")) = 2
      BY <1>7, BatchSent
    <3>2. Len(more) \in Nat
      BY LenProperties
    <3>3. Len(first) = Len(more) + 2 /\ first[Len(more) + 1] = Batch("popup")[1]
      <4>1. first = more \o Batch("popup")
        BY <1>2, <1>3, <2>1
      <4>2. /\ Len(first) = Len(more) + 2
            /\ \A n \in 1..Len(more) + 2 :
                 first[n] = IF n <= Len(more) THEN more[n] ELSE Batch("popup")[n - Len(more)]
        <5>1. /\ Len(more \o Batch("popup")) = Len(more) + Len(Batch("popup"))
              /\ \A n \in 1..Len(more) + Len(Batch("popup")) : (more \o Batch("popup"))[n] =
                    IF n <= Len(more) THEN more[n] ELSE Batch("popup")[n - Len(more)]
          BY <3>1, ConcatProperties
        <5> QED BY <3>1, <4>1, <5>1
      <4>3. /\ Len(more) + 1 \in 1..Len(more) + 2 /\ ~(Len(more) + 1 <= Len(more))
            /\ (Len(more) + 1) - Len(more) = 1
        BY <3>2
      <4> QED BY <4>2, <4>3
    <3>4. Len(tail) \in Nat /\ Len(sent) = Len(first) + Len(tail)
          /\ sent[Len(more) + 1] = Batch("popup")[1]
      <4>1. sent = first \o tail
        BY <1>3
      <4>2. Len(tail) \in Nat
        BY <1>8, LenProperties
      <4>3. /\ Len(sent) = Len(first) + Len(tail)
            /\ \A n \in 1..Len(first) + Len(tail) :
                 sent[n] = IF n <= Len(first) THEN first[n] ELSE tail[n - Len(first)]
        BY <1>8, <4>1, ConcatProperties
      <4>4. Len(more) + 1 \in 1..Len(first) + Len(tail) /\ Len(more) + 1 <= Len(first)
        BY <3>2, <3>3, <4>2
      <4> QED BY <3>3, <4>2, <4>3, <4>4
    <3>5. Asks(asked'.popup, "GET_PAGE_MATCHES")
      <4>1. Len(more) + 1 \in 1..Len(sent)
        BY <3>2, <3>3, <3>4
      <4>2. Asks(asked'.popup, sent[Len(more) + 1].op)
        BY <1>7, <1>8, <1>9, <4>1, MoreAsked
      <4> QED BY <1>7, <3>4, <4>2, BatchSent
    <3> QED BY <3>5 DEF MatchesDue
  <2>2. CASE ~entered
    BY <1>1, <1>6, <1>7, <1>8, <1>9, <2>2, MoreAsked DEF MatchesDue
  <2> QED BY <2>1, <2>2
<1> QED BY <1>5, <1>6, <1>9, <1>10, <1>11

(***************************************************************************)
(* Answers                                                                 *)
(***************************************************************************)
StoreOK ==
  /\ open' \in BOOLEAN /\ stored' \in Stores /\ wasEmpty' \subseteq Kind
  /\ wasEmpty \subseteq wasEmpty' /\ \A k \in Kind : stored'[k] = {} => k \in wasEmpty'

LEMMA HeldKeeps ==
  ASSUME PagesInv, NEW now \in Stores, Held(now)
  PROVE  /\ stored' \in Stores /\ wasEmpty' \subseteq Kind
         /\ wasEmpty \subseteq wasEmpty' /\ \A k \in Kind : stored'[k] = {} => k \in wasEmpty'
  BY DEF PagesInv, Held

LEMMA StillKeeps ==
  ASSUME PagesInv, UNCHANGED <<stored, wasEmpty>>, open' \in BOOLEAN
  PROVE  StoreOK
  BY DEF PagesInv, StoreOK

\* What the worker answers is as WellAnswered has it.
LEMMA ServedKeeps ==
  ASSUME PagesInv, NEW p \in Page, NEW c, WellAsked(p, c),
         NEW r, r.data \in (SUBSET Item) \cup (SUBSET Persona), Served(c, r)
  PROVE  /\ StoreOK
         /\ c.op \in Needs /\ c.kind \in Kind => r.data \subseteq Of(c.kind)
         /\ c.op \in Loading /\ r.reply = "failed" => open /\ ~open'
         /\ c.op \in Loading /\ r.reply = "ok" /\ r.data = {} => c.kind \in wasEmpty'
         /\ c.op = "CREATE" /\ r.reply \in {"ok", "locked"} => \E t \in Of(c.kind) : r.data = {t}
<1>0. /\ stored \in Stores /\ stored.item \subseteq Item /\ stored.persona \subseteq Persona
      /\ open \in BOOLEAN
      /\ \A k \in Kind : stored[k] \subseteq Of(k) /\ (stored[k] = {} => k \in wasEmpty)
  BY DEF PagesInv, Stores, Of, Kind
<1>1. CASE ServeRead(c, r)
  <2>1. StoreOK
    BY <1>0, <1>1, StillKeeps DEF ServeRead, Still
  <2>2. c.op # "CREATE"
    BY <1>1 DEF ServeRead, Reads, Needs
  <2>3. ASSUME c.op \in Needs, c.kind \in Kind PROVE r.data \subseteq Of(c.kind)
    BY <1>0, <1>1, <2>3 DEF ServeRead
  <2>4. ASSUME c.op \in Loading PROVE r.reply = IF open THEN "ok" ELSE "locked"
    BY <1>1, <2>4 DEF ServeRead, Loading, Read, Refusal, Needs
  <2>5. ASSUME c.op \in Loading, r.reply = "ok", r.data = {} PROVE c.kind \in wasEmpty'
    <3>1. c.kind \in Kind /\ c.op \in Needs
      BY <2>5 DEF WellAsked, Loading, Needs, Kind
    <3>2. open /\ stored[c.kind] = {}
      BY <1>1, <2>4, <2>5, <3>1 DEF ServeRead
    <3> QED BY <1>0, <2>1, <3>1, <3>2 DEF StoreOK
  <2> QED BY <2>1, <2>2, <2>3, <2>4, <2>5
<1>2. ASSUME StoreOK, c.op \notin Loading, c.op \notin Needs, c.op # "CREATE"
      PROVE  /\ StoreOK
             /\ c.op \in Needs /\ c.kind \in Kind => r.data \subseteq Of(c.kind)
             /\ c.op \in Loading /\ r.reply = "failed" => open /\ ~open'
             /\ c.op \in Loading /\ r.reply = "ok" /\ r.data = {} => c.kind \in wasEmpty'
             /\ c.op = "CREATE" /\ r.reply \in {"ok", "locked"} => \E t \in Of(c.kind) : r.data = {t}
  BY <1>2
<1>10. CASE ServeLocking(c, r)
  <2>1. StoreOK
    BY <1>0, <1>10, StillKeeps DEF ServeLocking
  <2>2. c.op # "CREATE" /\ open /\ ~open' /\ r.data = {} /\ r.reply \in {"locked", "failed"}
    BY <1>10 DEF ServeLocking, Needs
  <2> QED BY <2>1, <2>2
<1>3. CASE ServeUnlock(c, r)
  <2>1. StoreOK
    BY <1>0, <1>3, StillKeeps DEF ServeUnlock
  <2> QED BY <1>2, <1>3, <2>1 DEF ServeUnlock, Loading, Needs
<1>4. CASE ServeLock(c, r)
  <2>1. StoreOK
    BY <1>0, <1>4, StillKeeps DEF ServeLock
  <2> QED BY <1>2, <1>4, <2>1 DEF ServeLock, Loading, Needs
<1>5. CASE ServeCreate(c, r)
  <2>1. c.op = "CREATE" /\ c.kind \in Kind
    BY <1>5 DEF ServeCreate, WellAsked
  <2>2. c.op \notin Loading /\ c.op \notin Needs
    BY <2>1 DEF Loading, Needs
  <2>3. CASE r.reply = "ok"
    <3>1. PICK t \in Of(c.kind) \ stored[c.kind] :
            r.data = {t} /\ Held([stored EXCEPT ![c.kind] = @ \cup {t}]) /\ UNCHANGED open
      BY <1>5, <2>3 DEF ServeCreate
    <3>2. [stored EXCEPT ![c.kind] = @ \cup {t}] \in Stores
      BY <1>0, <2>1, <3>1 DEF Stores, Of, Kind
    <3>3. StoreOK
      BY <1>0, <3>1, <3>2, HeldKeeps DEF StoreOK
    <3> QED BY <2>1, <2>2, <3>1, <3>3
  <2>4. CASE r.reply # "ok"
    <3>1. StoreOK /\ r = [reply |-> "failed", data |-> {}]
      BY <1>0, <1>5, <2>4, StillKeeps DEF ServeCreate, Still
    <3> QED BY <2>1, <2>2, <3>1
  <2> QED BY <2>3, <2>4
<1>6. CASE ServePersona(c, r)
  <2>1. PICK now : now = [stored EXCEPT !.persona = IF open THEN @ \cup {c.id} ELSE @]
    OBVIOUS
  <2>2. Held(now) /\ UNCHANGED open /\ c.op = "UPDATE" /\ c.kind = "persona"
    BY <1>6, <2>1 DEF ServePersona
  <2>3. c.id \in Persona
    BY <2>2 DEF WellAsked
  <2>4. now \in Stores
    BY <1>0, <2>1, <2>3 DEF Stores
  <2>5. StoreOK
    BY <1>0, <2>2, <2>4, HeldKeeps DEF StoreOK
  <2> QED BY <1>2, <2>2, <2>5 DEF Loading, Needs
<1>7. CASE ServeDelete(c, r)
  <2>1. PICK now : now = [stored EXCEPT ![c.kind] = @ \ {c.id}]
    OBVIOUS
  <2>2. Held(now) /\ UNCHANGED open /\ c.op = "DELETE"
    BY <1>7, <2>1 DEF ServeDelete
  <2>3. now \in Stores
    BY <1>0, <2>1 DEF Stores
  <2>4. StoreOK
    BY <1>0, <2>2, <2>3, HeldKeeps DEF StoreOK
  <2> QED BY <1>2, <2>2, <2>4 DEF Loading, Needs
<1>8. CASE ServeSync(c, r)
  <2>1. PICK pulled \in SUBSET Item : Held([stored EXCEPT !.item = pulled]) /\ UNCHANGED open
    BY <1>8 DEF ServeSync
  <2>2. [stored EXCEPT !.item = pulled] \in Stores
    BY <1>0 DEF Stores
  <2>3. StoreOK
    BY <1>0, <2>1, <2>2, HeldKeeps DEF StoreOK
  <2> QED BY <1>2, <1>8, <2>3 DEF ServeSync, Loading, Needs
<1>9. CASE ServeGenerate(c, r)
  <2>1. StoreOK
    BY <1>0, <1>9, StillKeeps DEF ServeGenerate, Still
  <2> QED BY <1>2, <1>9, <2>1 DEF ServeGenerate, Loading, Needs
<1> QED BY <1>1, <1>3, <1>4, <1>5, <1>6, <1>7, <1>8, <1>9, <1>10 DEF Served

LEMMA ServeKeeps ==
  ASSUME PagesInv, NEW p \in Page, NEW c \in BagToSet(asked[p]), Serve(p, c)
  PROVE  PagesInv'
<1>1. /\ c \in DOMAIN asked[p] /\ AskedOK(p, asked[p], wasEmpty)
      /\ WellAsked(p, c) /\ WellAnswered(c, wasEmpty) /\ c.reply = "none" /\ c \in Messages
  BY DEF PagesInv, BagToSet, AskedOK, Serve, WellAsked
<1>2. PICK reply \in {"ok", "failed", "locked"}, data \in (SUBSET Item) \cup (SUBSET Persona) :
        /\ Served(c, [reply |-> reply, data |-> data])
        /\ asked' = [asked EXCEPT ![p] = (@ (-) SetToBag({c})) (+)
             IF c.heard THEN SetToBag({[c EXCEPT !.reply = reply, !.data = data]}) ELSE EmptyBag]
  BY DEF Serve
<1>3. PICK r : r = [reply |-> reply, data |-> data]
  OBVIOUS
<1>4. r.reply = reply /\ r.data = data
  BY <1>3
<1>5. /\ StoreOK
      /\ c.op \in Needs /\ c.kind \in Kind => data \subseteq Of(c.kind)
      /\ c.op \in Loading /\ reply = "failed" => open /\ ~open'
      /\ c.op \in Loading /\ reply = "ok" /\ data = {} => c.kind \in wasEmpty'
      /\ c.op = "CREATE" /\ reply \in {"ok", "locked"} => \E t \in Of(c.kind) : data = {t}
  <2>1. Served(c, r)
    BY <1>2, <1>3
  <2> QED BY <1>1, <1>2, <1>4, <2>1, ServedKeeps
<1>6. PICK d : d = [c EXCEPT !.reply = reply, !.data = data]
  OBVIOUS
<1>7. /\ d \in Messages /\ d.op = c.op /\ d.kind = c.kind /\ d.id = c.id /\ d.heard = c.heard
      /\ d.reply = reply /\ d.data = data
  BY <1>1, <1>2, <1>6 DEF Messages
<1>8. WellAsked(p, d) /\ WellAnswered(d, wasEmpty')
  BY <1>1, <1>5, <1>7 DEF WellAsked, WellAnswered
<1>9. PICK rest, sent :
        /\ rest = asked[p] (-) SetToBag({c})
        /\ sent = IF c.heard THEN SetToBag({d}) ELSE EmptyBag
  OBVIOUS
<1>10. asked' = [asked EXCEPT ![p] = rest (+) sent]
  BY <1>2, <1>6, <1>9
<1>11. /\ AskedOK(p, rest, wasEmpty') /\ AskedOK(p, sent, wasEmpty')
       /\ DOMAIN sent = IF c.heard THEN {d} ELSE {}
       /\ \A e \in DOMAIN asked[p] : e.op \in Loading /\ e # c => e \in DOMAIN rest
  <2>1. AskedOK(p, rest, wasEmpty)
        /\ \A e \in DOMAIN asked[p] : e.op \in Loading /\ e # c => e \in DOMAIN rest
    BY <1>1, <1>9, RestAsked
  <2>2. AskedOK(p, rest, wasEmpty')
    BY <1>5, <2>1, AskedGrows DEF StoreOK
  <2>3. AskedOK(p, sent, wasEmpty') /\ DOMAIN sent = IF c.heard THEN {d} ELSE {}
    BY <1>8, <1>9, OneAsked, NoneAsked
  <2> QED BY <2>1, <2>2, <2>3
<1>12. /\ AskedOK(p, rest (+) sent, wasEmpty')
       /\ DOMAIN (rest (+) sent) = DOMAIN rest \cup DOMAIN sent
  <2>1. AskedOK(p, rest, wasEmpty') /\ AskedOK(p, sent, wasEmpty')
    BY <1>11
  <2>2. PICK now : now = wasEmpty'
    OBVIOUS
  <2>3. AskedOK(p, rest, now) /\ AskedOK(p, sent, now)
    BY <2>1, <2>2
  <2>4. DOMAIN (rest (+) sent) = DOMAIN rest \cup DOMAIN sent
    BY DEF (+)
  <2>5. AskedOK(p, rest (+) sent, now)
    BY <2>3, BothAsked
  <2> QED BY <2>2, <2>4, <2>5
<1>13. ASSUME NEW op \in Loading, Asks(asked[p], op), c.op # op PROVE Asks(rest (+) sent, op)
  <2>1. PICK e \in DOMAIN asked[p] : e.op = op /\ e.reply # "failed"
    BY <1>13 DEF Asks
  <2>2. CASE e = c
    BY <1>13, <2>1, <2>2
  <2>3. CASE e # c
    BY <1>11, <1>12, <1>13, <2>1, <2>3 DEF Asks
  <2> QED BY <2>2, <2>3
<1>14. DOMAIN asked' = Page /\ asked'[p] = rest (+) sent /\ \A q \in Page \ {p} : asked'[q] = asked[q]
  BY <1>10 DEF PagesInv
<1>15. \A q \in Page : AskedOK(q, asked'[q], wasEmpty')
  <2> SUFFICES ASSUME NEW q \in Page PROVE AskedOK(q, asked'[q], wasEmpty')
    OBVIOUS
  <2>1. CASE q = p
    BY <1>12, <1>14, <2>1
  <2>2. CASE q # p
    <3>1. AskedOK(q, asked[q], wasEmpty)
      BY DEF PagesInv
    <3> QED BY <1>5, <1>14, <2>2, <3>1, AskedGrows DEF StoreOK
  <2> QED BY <2>1, <2>2
<1>17. vp' = vp /\ pop' = pop /\ clicks' = clicks
  BY DEF Serve
<1>18. raced' = IF c.op # Fills(p) THEN raced
                ELSE IF open /\ ~open' THEN raced \cup {p} ELSE raced \ {p}
  BY DEF Serve
<1>19. ASSUME NEW q \in Page, q \in raced \/ Asks(asked[q], Fills(q))
       PROVE  q \in raced' \/ Asks(asked'[q], Fills(q))
  <2>0. Fills(q) \in Loading
    BY DEF Fills, Loading
  <2>1. CASE q # p
    BY <1>14, <1>18, <1>19, <2>1
  <2>2. CASE q = p /\ c.op # Fills(p)
    BY <1>13, <1>14, <1>18, <1>19, <2>0, <2>2
  <2>3. CASE q = p /\ c.op = Fills(p) /\ open /\ ~open'
    BY <1>18, <2>3
  <2>4. CASE q = p /\ c.op = Fills(p) /\ ~(open /\ ~open')
    <3>1. reply # "failed" /\ c.heard
      BY <1>1, <1>5, <2>0, <2>4 DEF WellAsked
    <3>2. d \in DOMAIN (rest (+) sent)
      BY <1>11, <1>12, <3>1
    <3> QED BY <1>7, <1>14, <2>4, <3>1, <3>2 DEF Asks
  <2> QED BY <2>1, <2>2, <2>3, <2>4
<1>20. PersonasDue(vp', asked'.vault, wasEmpty', raced')
  <2>1. "vault" \in Page /\ Fills("vault") = "GET_IDENTITIES"
    BY DEF Page, Fills
  <2>2. PersonasDue(vp, asked.vault, wasEmpty, raced)
    BY DEF PagesInv
  <2> QED BY <1>5, <1>17, <1>19, <2>1, <2>2 DEF StoreOK, PersonasDue
<1>21. MatchesDue(pop', asked'.popup, wasEmpty', raced')
  <2>1. "popup" \in Page /\ Fills("popup") = "GET_PAGE_MATCHES"
    BY DEF Page, Fills
  <2>2. MatchesDue(pop, asked.popup, wasEmpty, raced)
    BY DEF PagesInv
  <2> QED BY <1>5, <1>17, <1>19, <2>1, <2>2 DEF StoreOK, MatchesDue
<1>22. raced' \subseteq Page
  BY <1>18 DEF PagesInv
<1> QED BY <1>5, <1>14, <1>15, <1>17, <1>20, <1>21, <1>22 DEF PagesInv, StoreOK

(***************************************************************************)
(* What the pages make of them                                             *)
(***************************************************************************)
\* With c taken, another load is still asked for.
LEMMA StillAsks ==
  ASSUME PagesInv, NEW p \in Page, NEW c, NEW op \in Loading, c.op # op \/ c.reply = "failed",
         Asks(asked[p], op)
  PROVE  Asks(asked[p] (-) SetToBag({c}), op)
<1>1. PICK d \in DOMAIN asked[p] : d.op = op /\ d.reply # "failed"
  BY DEF Asks
<1>2. AskedOK(p, asked[p], wasEmpty)
  BY DEF PagesInv
<1> QED BY <1>1, <1>2, RestAsked DEF Asks

\* The vault page less busy, and what an answer changes of it.
LEMMA VaultFields ==
  ASSUME PagesInv, NEW c, NEW v, v = [vp EXCEPT !.busy = @ \ {c.op}]
  PROVE  /\ GoodVault(v) /\ v.unlocked = vp.unlocked /\ v.list = vp.list
         /\ v.unlocked \in BOOLEAN /\ v.list \in Stores
         /\ v.editing \in [item : Item \cup {Nothing}, persona : Persona \cup {Nothing, "new"}]
<1>1. GoodVault(v) /\ v.unlocked = vp.unlocked /\ v.list = vp.list
  BY DEF PagesInv, GoodVault, VaultPages
<1> QED BY <1>1 DEF GoodVault, VaultPages

LEMMA VaultHearsWell ==
  ASSUME PagesInv, NEW c \in DOMAIN asked.vault, c.reply # "none",
         NEW v, v = [vp EXCEPT !.busy = @ \ {c.op}]
  PROVE  /\ GoodVault(VaultHears(v, c))
         /\ vp.unlocked => PersonasDue(VaultHears(v, c), asked.vault (-) SetToBag({c}), wasEmpty, raced)
<1> DEFINE rest == asked.vault (-) SetToBag({c})
<1>0. /\ "vault" \in Page /\ "GET_IDENTITIES" \in Loading
      /\ WellAsked("vault", c) /\ WellAnswered(c, wasEmpty) /\ c \in Messages
      /\ c.reply \in {"none", "ok", "failed", "locked"}
  BY DEF Page, Loading, PagesInv, AskedOK, WellAsked, Messages
<1>2. /\ GoodVault(v) /\ v.unlocked = vp.unlocked /\ v.list = vp.list
      /\ v.unlocked \in BOOLEAN /\ v.list \in Stores
      /\ v.editing \in [item : Item \cup {Nothing}, persona : Persona \cup {Nothing, "new"}]
  BY VaultFields
<1> DEFINE w == VaultHears(v, c)
<1>3. ASSUME GoodVault(w), c.op # "GET_IDENTITIES", w.unlocked => w.list.persona = vp.list.persona
      PROVE  GoodVault(w) /\ (vp.unlocked => PersonasDue(w, rest, wasEmpty, raced))
  <2> SUFFICES ASSUME vp.unlocked, w.unlocked, w.list.persona = {}
               PROVE  "persona" \in wasEmpty \/ "vault" \in raced \/ Asks(rest, "GET_IDENTITIES")
    BY <1>3 DEF PersonasDue
  <2>1. "persona" \in wasEmpty \/ "vault" \in raced \/ Asks(asked.vault, "GET_IDENTITIES")
    BY <1>3 DEF PagesInv, PersonasDue
  <2> QED BY <1>0, <1>3, <2>1, StillAsks
<1>4. CASE c.op \in {"GET_UNLOCKED", "UNLOCK"}
  <2>1. w = [v EXCEPT !.unlocked = Entered(c, v.unlocked)]
    BY <1>4 DEF VaultHears
  <2>2. Entered(c, v.unlocked) \in BOOLEAN
    BY DEF Entered
  <2>3. GoodVault(w) /\ w.list = vp.list
    BY <1>2, <2>1, <2>2 DEF GoodVault, VaultPages
  <2> QED BY <1>3, <1>4, <2>3
<1>5. CASE c.op = "LOCK"
  <2>1. PICK e : e = [k \in Kind |-> {}]
    OBVIOUS
  <2>2. e \in Stores
    BY <2>1 DEF Stores, Kind
  <2>3. w = [v EXCEPT !.unlocked = FALSE, !.list = e]
    BY <1>5, <2>1 DEF VaultHears
  <2>4. GoodVault(w) /\ ~w.unlocked
    BY <1>2, <2>2, <2>3 DEF GoodVault, VaultPages
  <2> QED BY <1>3, <1>5, <2>4
<1>6. CASE c.op \in {"GET_ITEMS", "GET_IDENTITIES"}
  <2>1. PICK b, l : b = Bounced(c, v.unlocked) /\ l = [v.list EXCEPT ![c.kind] = Loaded(c, @)]
    OBVIOUS
  <2>2. w = [v EXCEPT !.list = l, !.unlocked = b]
    BY <1>6, <2>1 DEF VaultHears
  <2>3. c.kind \in Kind /\ c.op \in Needs
    BY <1>0, <1>6 DEF WellAsked, Kind, Needs
  <2>4. b \in BOOLEAN /\ l \in Stores
    BY <1>0, <1>2, <2>1, <2>3 DEF Stores, Bounced, Loaded, WellAnswered, Of, Kind
  <2>5. GoodVault(w) /\ w.list = l /\ w.unlocked = b
    BY <1>2, <2>2, <2>4 DEF GoodVault, VaultPages
  <2>6. CASE c.op = "GET_ITEMS"
    <3>1. l.persona = v.list.persona
      BY <1>0, <1>2, <2>1, <2>6 DEF WellAsked, Stores
    <3> QED BY <1>2, <1>3, <2>5, <2>6, <3>1
  <2>7. CASE c.op = "GET_IDENTITIES"
    <3> SUFFICES ASSUME vp.unlocked, w.unlocked, w.list.persona = {}
                 PROVE  "persona" \in wasEmpty \/ "vault" \in raced \/ Asks(rest, "GET_IDENTITIES")
      BY <2>5 DEF PersonasDue
    <3>1. c.reply # "locked" /\ c.kind = "persona"
      BY <1>0, <2>1, <2>5, <2>7 DEF Bounced, WellAsked
    <3>2. CASE c.reply = "ok"
      <4>1. l.persona = c.data
        BY <1>0, <1>2, <2>1, <3>1, <3>2 DEF Loaded, Stores
      <4> QED BY <1>0, <2>5, <2>7, <3>1, <3>2, <4>1 DEF WellAnswered
    <3>3. CASE c.reply = "failed"
      <4>1. l.persona = v.list.persona
        BY <1>0, <1>2, <2>1, <3>1, <3>3 DEF Loaded, Stores
      <4>2. "persona" \in wasEmpty \/ "vault" \in raced \/ Asks(asked.vault, "GET_IDENTITIES")
        BY <1>2, <2>5, <4>1 DEF PagesInv, PersonasDue
      <4> QED BY <1>0, <3>3, <4>2, StillAsks
    <3> QED BY <1>0, <3>1, <3>2, <3>3
  <2> QED BY <1>6, <2>6, <2>7
<1>7. CASE c.op \notin {"GET_UNLOCKED", "UNLOCK", "LOCK", "GET_ITEMS", "GET_IDENTITIES"}
  <2>1. PICK e, f, g :
          /\ e = [v.editing EXCEPT !.item = Nothing]
          /\ f = [v.editing EXCEPT !.persona = Nothing]
          /\ g = [v.editing EXCEPT !.persona = "new"]
    OBVIOUS
  <2>2. \/ w = v \/ w = [v EXCEPT !.editing = e] \/ w = [v EXCEPT !.editing = e, !.creating = FALSE]
        \/ w = [v EXCEPT !.chosen = Nothing] \/ w = [v EXCEPT !.editing = f]
        \/ w = [v EXCEPT !.editing = g]
    BY <1>7, <2>1 DEF VaultHears
  <2>3. ASSUME NEW x \in {e, f, g}
        PROVE  x \in [item : Item \cup {Nothing}, persona : Persona \cup {Nothing, "new"}]
    BY <1>2, <2>1
  <2>4. GoodVault(w) /\ w.list = vp.list
    <3>1. CASE w = v \/ w = [v EXCEPT !.chosen = Nothing]
      BY <1>2, <3>1 DEF GoodVault, VaultPages
    <3>2. ASSUME NEW x \in {e, f, g}, w = [v EXCEPT !.editing = x]
          PROVE  GoodVault(w) /\ w.list = vp.list
      <4>1. x \in [item : Item \cup {Nothing}, persona : Persona \cup {Nothing, "new"}]
        BY <2>3
      <4> QED BY <1>2, <3>2, <4>1 DEF GoodVault, VaultPages
    <3>3. CASE w = [v EXCEPT !.editing = e, !.creating = FALSE]
      <4>1. e \in [item : Item \cup {Nothing}, persona : Persona \cup {Nothing, "new"}]
        BY <2>3
      <4> QED BY <1>2, <3>3, <4>1 DEF GoodVault, VaultPages
    <3> QED BY <2>2, <3>1, <3>2, <3>3
  <2> QED BY <1>3, <1>7, <2>4
<1> QED BY <1>4, <1>5, <1>6, <1>7

LEMMA PopupHearsWell ==
  ASSUME PagesInv, NEW c \in DOMAIN asked.popup, c.reply # "none"
  PROVE  /\ GoodPopup(PopupHears(c))
         /\ pop.unlocked => MatchesDue(PopupHears(c), asked.popup (-) SetToBag({c}), wasEmpty, raced)
<1> DEFINE rest == asked.popup (-) SetToBag({c})
<1>0. /\ "popup" \in Page /\ "GET_PAGE_MATCHES" \in Loading
      /\ WellAsked("popup", c) /\ WellAnswered(c, wasEmpty) /\ c \in Messages
      /\ c.reply \in {"none", "ok", "failed", "locked"}
  BY DEF Page, Loading, PagesInv, AskedOK, WellAsked, Messages
<1>1. GoodPopup(pop) /\ pop.unlocked \in BOOLEAN /\ pop.matches \subseteq Item
  BY DEF PagesInv, GoodPopup, Popups
<1> DEFINE q == PopupHears(c)
<1>2. ASSUME GoodPopup(q), c.op # "GET_PAGE_MATCHES", q.matches = pop.matches
      PROVE  GoodPopup(q) /\ (pop.unlocked => MatchesDue(q, rest, wasEmpty, raced))
  <2> SUFFICES ASSUME pop.unlocked, q.unlocked, q.matches = {}
               PROVE  "item" \in wasEmpty \/ "popup" \in raced \/ Asks(rest, "GET_PAGE_MATCHES")
    BY <1>2 DEF MatchesDue
  <2>1. "item" \in wasEmpty \/ "popup" \in raced \/ Asks(asked.popup, "GET_PAGE_MATCHES")
    BY <1>2 DEF PagesInv, MatchesDue
  <2> QED BY <1>0, <1>2, <2>1, StillAsks
<1>3. CASE c.op = "GET_PAGE_MATCHES"
  <2>1. PICK b, m : b = Bounced(c, pop.unlocked) /\ m = Loaded(c, pop.matches)
    OBVIOUS
  <2>2. q = [pop EXCEPT !.matches = m, !.unlocked = b]
    BY <1>3, <2>1 DEF PopupHears
  <2>3. c.kind = "item" /\ c.op \in Needs
    BY <1>0, <1>3 DEF WellAsked, Needs
  <2>4. b \in BOOLEAN /\ m \subseteq Item
    BY <1>0, <1>1, <2>1, <2>3 DEF Bounced, Loaded, WellAnswered, Of, Kind
  <2>5. GoodPopup(q) /\ q.matches = m /\ q.unlocked = b
    BY <1>1, <2>2, <2>4 DEF GoodPopup, Popups
  <2>6. ASSUME pop.unlocked, q.unlocked, q.matches = {}
        PROVE  "item" \in wasEmpty \/ "popup" \in raced \/ Asks(rest, "GET_PAGE_MATCHES")
    <3>1. c.reply \in {"ok", "failed"}
      BY <1>0, <2>1, <2>5, <2>6 DEF Bounced
    <3>2. CASE c.reply = "ok"
      <4>1. c.data = {}
        BY <2>1, <2>5, <2>6, <3>2 DEF Loaded
      <4> QED BY <1>0, <1>3, <2>3, <3>2, <4>1 DEF WellAnswered
    <3>3. CASE c.reply = "failed"
      <4>1. pop.matches = {}
        BY <2>1, <2>5, <2>6, <3>3 DEF Loaded
      <4>2. "item" \in wasEmpty \/ "popup" \in raced \/ Asks(asked.popup, "GET_PAGE_MATCHES")
        BY <2>6, <4>1 DEF PagesInv, MatchesDue
      <4> QED BY <1>0, <3>3, <4>2, StillAsks
    <3> QED BY <3>1, <3>2, <3>3
  <2> QED BY <2>5, <2>6 DEF MatchesDue
<1>4. CASE c.op \in {"GET_UNLOCKED", "UNLOCK", "LOCK", "GET_ITEM_SUMMARY"}
  <2>1. PICK b \in BOOLEAN : q = [pop EXCEPT !.unlocked = b]
    <3>1. Entered(c, pop.unlocked) \in BOOLEAN /\ Bounced(c, pop.unlocked) \in BOOLEAN
      BY <1>1 DEF Entered, Bounced
    <3> QED BY <1>4, <3>1 DEF PopupHears
  <2>2. GoodPopup(q) /\ q.matches = pop.matches
    BY <1>1, <2>1 DEF GoodPopup, Popups
  <2> QED BY <1>2, <1>4, <2>2
<1>5. CASE c.op = "GET_ITEMS"
  <2>1. c.data \subseteq Item
    BY <1>0, <1>5 DEF WellAsked, WellAnswered, Needs, Of, Kind
  <2>2. q \in {[pop EXCEPT !.finding = FALSE, !.unlocked = FALSE],
               [pop EXCEPT !.finding = FALSE, !.found = c.data]}
    BY <1>5 DEF PopupHears
  <2>3. GoodPopup(q) /\ q.matches = pop.matches
    BY <1>1, <2>1, <2>2 DEF GoodPopup, Popups
  <2> QED BY <1>2, <1>5, <2>3
<1>6. CASE c.op \in {"CREATE", "UPDATE"}
  <2>1. CASE c.reply = "failed"
    BY <1>1, <1>2, <1>6, <2>1 DEF PopupHears
  <2>2. CASE c.reply # "failed"
    <3>1. PICK i : i = IF c.op = "CREATE" THEN CHOOSE j \in c.data : TRUE ELSE c.id
      OBVIOUS
    <3>2. q = [pop EXCEPT !.sheet = i, !.editing = FALSE, !.found = Nothing]
      BY <1>6, <2>2, <3>1 DEF PopupHears
    <3>3. i \in Item
      BY <1>0, <1>6, <2>2, <3>1 DEF WellAsked, WellAnswered, Of
    <3>4. GoodPopup(q) /\ q.matches = pop.matches
      <4>1. i # "new"
        BY <3>3, PagesAssumption DEF Things
      <4>2. q \in Popups /\ q.matches = pop.matches /\ q.sheet = i
        BY <1>1, <3>2, <3>3 DEF GoodPopup, Popups
      <4> QED BY <4>1, <4>2 DEF GoodPopup
    <3> QED BY <1>2, <1>6, <3>4
  <2> QED BY <2>1, <2>2
<1>7. CASE c.op \notin {"GET_PAGE_MATCHES", "GET_UNLOCKED", "UNLOCK", "LOCK", "GET_ITEM_SUMMARY",
                        "GET_ITEMS", "CREATE", "UPDATE"}
  <2>1. q = pop
    BY <1>7 DEF PopupHears
  <2> QED BY <1>1, <1>2, <1>7, <2>1
<1> QED BY <1>3, <1>4, <1>5, <1>6, <1>7

LEMMA Next1Sent ==
  ASSUME PagesInv, NEW p \in Page, NEW c \in DOMAIN asked[p]
  PROVE  Next1(p, c) \in Seq(Fresh(p))
<1>1. c.then \in Seq(Follow)
  BY DEF PagesInv, AskedOK, WellAsked, Messages
<1>2. c.then \in Seq(Fresh(p))
  BY <1>1, FollowSent, SeqGrows
<1>3. <<>> \in Seq(Fresh(p))
  BY EmptySeq
<1> QED BY <1>2, <1>3 DEF Next1

LEMMA HearKeeps ==
  ASSUME PagesInv, NEW p \in Page, NEW c \in BagToSet(asked[p]), Hear(p, c)
  PROVE  PagesInv'
<1>1. PICK rest : rest = asked[p] (-) SetToBag({c})
  OBVIOUS
<1>2. /\ c \in DOMAIN asked[p] /\ c.reply # "none" /\ Next1(p, c) \in Seq(Fresh(p))
      /\ AskedOK(p, rest, wasEmpty) /\ UNCHANGED <<open, stored, wasEmpty, raced, clicks>>
  <2>1. c \in DOMAIN asked[p] /\ c.reply # "none" /\ UNCHANGED <<open, stored, wasEmpty, raced, clicks>>
    BY DEF Hear, BagToSet
  <2>2. AskedOK(p, asked[p], wasEmpty)
    BY DEF PagesInv
  <2> QED BY <1>1, <2>1, <2>2, Next1Sent, RestAsked
<1>3. CASE p = "vault"
  <2>0. PICK u : u = [vp EXCEPT !.busy = @ \ {c.op}]
    OBVIOUS
  <2>1. PICK v, more : v = VaultHears(u, c) /\ more = Next1(p, c)
    OBVIOUS
  <2>2. ShowVault(v, rest, more)
    BY <1>1, <1>3, <2>0, <2>1 DEF Hear
  <2>3. GoodVault(v) /\ (vp.unlocked => PersonasDue(v, rest, wasEmpty, raced))
    BY <1>1, <1>2, <1>3, <2>0, <2>1, VaultHearsWell
  <2>4. more \in Seq(Fresh("vault")) /\ AskedOK("vault", rest, wasEmpty)
    BY <1>2, <1>3, <2>1
  <2>5. /\ GoodVault(vp') /\ pop' = pop
        /\ DOMAIN asked' = Page /\ asked'.popup = asked.popup
        /\ AskedOK("vault", asked'.vault, wasEmpty)
        /\ PersonasDue(vp', asked'.vault, wasEmpty, raced)
    BY <2>2, <2>3, <2>4, VaultShown
  <2> QED BY <1>2, <2>5 DEF PagesInv, GoodVault, Page
<1>4. CASE p = "popup"
  <2>1. PICK q, more : q = PopupHears(c) /\ more = Next1(p, c)
    OBVIOUS
  <2>2. ShowPopup(q, rest, more)
    BY <1>1, <1>4, <2>1 DEF Hear
  <2>3. GoodPopup(q) /\ (pop.unlocked => MatchesDue(q, rest, wasEmpty, raced))
    BY <1>1, <1>2, <1>4, <2>1, PopupHearsWell
  <2>4. more \in Seq(Fresh("popup")) /\ AskedOK("popup", rest, wasEmpty)
    BY <1>2, <1>4, <2>1
  <2>5. /\ GoodPopup(pop') /\ vp' = vp
        /\ DOMAIN asked' = Page /\ asked'.vault = asked.vault
        /\ AskedOK("popup", asked'.popup, wasEmpty)
        /\ MatchesDue(pop', asked'.popup, wasEmpty, raced)
    BY <2>2, <2>3, <2>4, PopupShown
  <2> QED BY <1>2, <2>5 DEF PagesInv, Page
<1> QED BY <1>3, <1>4 DEF Page

(***************************************************************************)
(* What the user does                                                      *)
(***************************************************************************)
LEMMA ClicksKeep ==
  ASSUME PagesInv, NEW p, NEW more, Sends(p, more) \/ Click
  PROVE  /\ UNCHANGED <<open, stored, wasEmpty, raced>> /\ clicks' \in 0..MaxClicks
<1>1. CASE Click
  BY <1>1, PagesAssumption DEF Click, PagesInv
<1>2. CASE Sends(p, more)
  BY <1>1, <1>2 DEF Sends, PagesInv
<1> QED BY <1>1, <1>2

\* The vault page as it is, but for what this page shows over its lists.
SameVault(v) == GoodVault(v) /\ v.unlocked = vp.unlocked /\ v.list = vp.list

LEMMA VaultKeeps ==
  ASSUME PagesInv, NEW v, SameVault(v), NEW more \in Seq(Fresh("vault")),
         Sends("vault", more), ShowVault(v, asked.vault, more)
  PROVE  PagesInv'
<1>1. AskedOK("vault", asked.vault, wasEmpty) /\ PersonasDue(v, asked.vault, wasEmpty, raced) /\ GoodVault(v)
  BY DEF PagesInv, Page, SameVault, PersonasDue
<1>2. /\ GoodVault(vp') /\ pop' = pop
      /\ DOMAIN asked' = Page /\ asked'.popup = asked.popup
      /\ AskedOK("vault", asked'.vault, wasEmpty)
      /\ PersonasDue(vp', asked'.vault, wasEmpty, raced)
  BY <1>1, VaultShown
<1>3. UNCHANGED <<open, stored, wasEmpty, raced>> /\ clicks' \in 0..MaxClicks
  BY ClicksKeep
<1> QED BY <1>2, <1>3 DEF PagesInv, GoodVault, Page

LEMMA PopupKeeps ==
  ASSUME PagesInv, NEW q, GoodPopup(q), q.unlocked = pop.unlocked, q.matches = pop.matches,
         NEW more \in Seq(Fresh("popup")), InPopup(q, more)
  PROVE  PagesInv'
<1>1. AskedOK("popup", asked.popup, wasEmpty) /\ MatchesDue(q, asked.popup, wasEmpty, raced)
  BY DEF PagesInv, Page, MatchesDue
<1>2. ShowPopup(q, asked.popup, more) /\ Sends("popup", more)
  BY DEF InPopup
<1>3. /\ GoodPopup(pop') /\ vp' = vp
      /\ DOMAIN asked' = Page /\ asked'.vault = asked.vault
      /\ AskedOK("popup", asked'.popup, wasEmpty)
      /\ MatchesDue(pop', asked'.popup, wasEmpty, raced)
  BY <1>1, <1>2, PopupShown
<1>4. UNCHANGED <<open, stored, wasEmpty, raced>> /\ clicks' \in 0..MaxClicks
  BY <1>2, ClicksKeep
<1> QED BY <1>3, <1>4 DEF PagesInv, Page

LEMMA OneSent ==
  ASSUME NEW p, NEW c \in Fresh(p)
  PROVE  <<c>> \in Seq(Fresh(p))
  OBVIOUS

\* A page that goes, or comes, shows nothing yet.
LEMMA PagesTurn ==
  ASSUME PagesInv, Click, NEW q, GoodPopup(q), ~q.unlocked, pop' = q,
         DOMAIN asked' = Page, AskedOK("popup", asked'.popup, wasEmpty),
         \/ vp' = vp /\ asked'.vault = asked.vault
         \/ /\ vp' \in VaultPages /\ ~vp'.unlocked /\ vp'.pending = Nothing
            /\ AskedOK("vault", asked'.vault, wasEmpty)
  PROVE  PagesInv'
<1>1. UNCHANGED <<open, stored, wasEmpty, raced>> /\ clicks' \in 0..MaxClicks
  BY ClicksKeep
<1>2. AskedOK("vault", asked.vault, wasEmpty)
  BY DEF PagesInv, Page
<1> QED BY <1>1, <1>2 DEF PagesInv, Page, PersonasDue, MatchesDue

LEMMA Closed == GoodPopup(ClosedPopup) /\ ~ClosedPopup.unlocked
  BY PagesAssumption DEF ClosedPopup, GoodPopup, Popups

LEMMA Opened1 ==
  ASSUME NEW link \in Item \cup {Nothing}
  PROVE  /\ VaultPage(link) \in VaultPages /\ ~VaultPage(link).unlocked
         /\ VaultPage(link).pending = Nothing
  BY DEF VaultPage, VaultPages, Stores, Kind

LEMMA HasAsked ==
  ASSUME NEW p \in Page, NEW empty
  PROVE  AskedOK(p, SetToBag({Ask("GET_UNLOCKED")}), empty)
<1>1. Ask("GET_UNLOCKED") \in Fresh(p)
  BY SentAsk DEF Ops
<1> QED BY <1>1, FreshAnswered, OneAsked

LEMMA LeaveKeeps ==
  ASSUME PagesInv, NEW more \in Seq(Fresh("popup")), Leave(more)
  PROVE  /\ GoodPopup(pop') /\ ~pop'.unlocked /\ DOMAIN asked' = Page
         /\ AskedOK("popup", asked'.popup, wasEmpty) /\ asked'.vault = asked.vault
<1>1. /\ asked' = [asked EXCEPT !.popup = Unheard("popup") (+) ToBag(more)]
      /\ pop' = ClosedPopup /\ "popup" \in Page /\ DOMAIN asked = {"popup", "vault"}
  BY DEF Leave, Page, PagesInv
<1>2. AskedOK("popup", Unheard("popup") (+) ToBag(more), wasEmpty)
  BY <1>1, LeftBehind, MoreAsked
<1> QED BY <1>1, <1>2, Closed DEF Page

LEMMA OpenKeeps == PagesInv /\ OpenPopup => PagesInv'
<1> SUFFICES ASSUME PagesInv, OpenPopup PROVE PagesInv'
  OBVIOUS
<1>1. PICK q : q = [ClosedPopup EXCEPT !.up = TRUE]
  OBVIOUS
<1>2. GoodPopup(q) /\ ~q.unlocked
  BY <1>1, Closed DEF GoodPopup, Popups
<1>3. /\ Click /\ pop' = q /\ vp' = vp
      /\ asked' = [asked EXCEPT !.popup = SetToBag({Ask("GET_UNLOCKED")})]
  BY <1>1 DEF OpenPopup
<1>4. DOMAIN asked' = Page /\ asked'.vault = asked.vault /\ asked'.popup = SetToBag({Ask("GET_UNLOCKED")})
  BY <1>3 DEF PagesInv, Page
<1>5. AskedOK("popup", asked'.popup, wasEmpty)
  BY <1>4, HasAsked DEF Page
<1> QED BY <1>2, <1>3, <1>4, <1>5, PagesTurn

LEMMA CloseKeeps == PagesInv /\ ClosePopup => PagesInv'
<1> SUFFICES ASSUME PagesInv, ClosePopup PROVE PagesInv'
  OBVIOUS
<1>1. Click /\ Leave(<<>>) /\ vp' = vp /\ <<>> \in Seq(Fresh("popup"))
  BY EmptySeq DEF ClosePopup
<1>2. /\ GoodPopup(pop') /\ ~pop'.unlocked /\ DOMAIN asked' = Page
      /\ AskedOK("popup", asked'.popup, wasEmpty) /\ asked'.vault = asked.vault
  BY <1>1, LeaveKeeps
<1> QED BY <1>1, <1>2, PagesTurn

LEMMA PopupItems ==
  ASSUME PagesInv
  PROVE  GoodPopup(pop) /\ Listed \subseteq Item /\ pop.sheet \in Item \cup {Nothing, "new"}
  BY DEF PagesInv, GoodPopup, Popups, Listed

LEMMA AutofillKeeps == PagesInv /\ Autofill => PagesInv'
<1> SUFFICES ASSUME PagesInv, Autofill PROVE PagesInv'
  OBVIOUS
<1>1. PICK i \in IF PopupList THEN Listed ELSE {pop.sheet} :
        Leave(<<[Call("UPDATE", "item", i) EXCEPT !.heard = FALSE]>>)
  BY DEF Autofill
<1>2. i \in Item
  <2>1. CASE PopupList
    BY <1>1, <2>1, PopupItems
  <2>2. CASE ~PopupList
    <3>1. i = pop.sheet
      BY <1>1, <2>2
    <3>2. pop.sheet # Nothing /\ pop.sheet # "new"
      BY <2>2 DEF Autofill, PopupList, PagesInv, GoodPopup
    <3> QED BY <3>1, <3>2, PopupItems
  <2> QED BY <2>1, <2>2
<1>3. PICK c : c = [Call("UPDATE", "item", i) EXCEPT !.heard = FALSE]
  OBVIOUS
<1>4. c \in Fresh("popup")
  <2>1. PICK d : d = Then("UPDATE", "item", i, <<>>)
    OBVIOUS
  <2>2. d \in Fresh("popup")
    <3>1. /\ "popup" \in Page /\ "UPDATE" \in Ops /\ "item" \in Kind \cup {"none"}
          /\ i \in Things \cup {Nothing} /\ <<>> \in Seq(Follow)
      BY <1>2, EmptySeq DEF Page, Ops, Kind, Things
    <3> QED BY <1>2, <2>1, <3>1, Sent
  <2>3. c = [d EXCEPT !.heard = FALSE]
    BY <1>3, <2>1 DEF Call
  <2>4. /\ c \in Messages /\ c.op = "UPDATE" /\ c.kind = "item" /\ c.id = i
        /\ c.reply = "none" /\ c.data = {}
    BY <2>1, <2>2, <2>3, CallFields DEF Fresh, Messages
  <2>5. WellAsked("popup", c)
    BY <1>2, <2>4 DEF WellAsked, Loading
  <2> QED BY <2>4, <2>5 DEF Fresh
<1>5. Click /\ Leave(<<c>>) /\ vp' = vp /\ <<c>> \in Seq(Fresh("popup"))
  BY <1>1, <1>3, <1>4 DEF Autofill
<1>6. /\ GoodPopup(pop') /\ ~pop'.unlocked /\ DOMAIN asked' = Page
      /\ AskedOK("popup", asked'.popup, wasEmpty) /\ asked'.vault = asked.vault
  BY <1>5, LeaveKeeps
<1> QED BY <1>5, <1>6, PagesTurn

LEMMA UsePopupKeeps == PagesInv /\ UsePopup => PagesInv'
<1> SUFFICES ASSUME PagesInv, UsePopup PROVE PagesInv'
  OBVIOUS
<1>1. GoodPopup(pop) /\ Listed \subseteq Item /\ "popup" \in Page /\ <<>> \in Seq(Fresh("popup"))
  BY EmptySeq, PopupItems DEF Page
<1>2. CASE \E op \in {"UNLOCK", "LOCK"} : InPopup(pop, <<Ask(op)>>)
  <2>1. PICK op \in {"UNLOCK", "LOCK"} : InPopup(pop, <<Ask(op)>>)
    BY <1>2
  <2>2. Ask(op) \in Fresh("popup")
    BY <1>1, SentAsk DEF Ops
  <2>3. <<Ask(op)>> \in Seq(Fresh("popup"))
    BY <2>2, OneSent
  <2> QED BY <1>1, <2>1, <2>3, PopupKeeps
<1>3. CASE \E q : /\ InPopup(q, <<>>)
                  /\ \/ q = [pop EXCEPT !.searching = ~@]
                     \/ PopupList /\ \E i \in Listed : q = [pop EXCEPT !.sheet = i]
                     \/ q = [pop EXCEPT !.sheet = "new", !.editing = TRUE]
  <2>1. PICK q : /\ InPopup(q, <<>>)
                 /\ \/ q = [pop EXCEPT !.searching = ~@]
                    \/ PopupList /\ \E i \in Listed : q = [pop EXCEPT !.sheet = i]
                    \/ q = [pop EXCEPT !.sheet = "new", !.editing = TRUE]
    BY <1>3
  <2>2. CASE q = [pop EXCEPT !.searching = ~@]
    <3>1. GoodPopup(q) /\ q.unlocked = pop.unlocked /\ q.matches = pop.matches
      BY <1>1, <2>2 DEF GoodPopup, Popups
    <3> QED BY <1>1, <2>1, <3>1, PopupKeeps
  <2>3. CASE \E i \in Listed : q = [pop EXCEPT !.sheet = i]
    <3>1. PICK i \in Listed : q = [pop EXCEPT !.sheet = i]
      BY <2>3
    <3>2. i \in Item /\ i # "new"
      BY <1>1, <3>1, PagesAssumption DEF Things
    <3>3. q \in Popups /\ q.unlocked = pop.unlocked /\ q.matches = pop.matches /\ q.sheet = i
      BY <1>1, <3>1, <3>2 DEF GoodPopup, Popups
    <3>4. GoodPopup(q)
      BY <3>2, <3>3 DEF GoodPopup
    <3> QED BY <1>1, <2>1, <3>3, <3>4, PopupKeeps
  <2>4. CASE q = [pop EXCEPT !.sheet = "new", !.editing = TRUE]
    <3>1. GoodPopup(q) /\ q.unlocked = pop.unlocked /\ q.matches = pop.matches
      BY <1>1, <2>4 DEF GoodPopup, Popups
    <3> QED BY <1>1, <2>1, <3>1, PopupKeeps
  <2> QED BY <2>1, <2>2, <2>3, <2>4
<1> QED BY <1>2, <1>3, Zenon DEF UsePopup

LEMMA PopupSheetKeeps == PagesInv /\ PopupSheet => PagesInv'
<1> SUFFICES ASSUME PagesInv, PopupSheet PROVE PagesInv'
  OBVIOUS
<1>1. /\ GoodPopup(pop) /\ "popup" \in Page /\ <<>> \in Seq(Fresh("popup"))
      /\ pop.sheet \in Item \cup {Nothing, "new"} /\ pop.sheet # Nothing
  BY EmptySeq, PopupItems DEF Page, PopupSheet, PagesInv
<1>2. CASE InPopup([pop EXCEPT !.sheet = Nothing], <<>>)
  <2>1. PICK q : q = [pop EXCEPT !.sheet = Nothing]
    OBVIOUS
  <2>2. q \in Popups /\ q.unlocked = pop.unlocked /\ q.matches = pop.matches /\ q.sheet = Nothing
    BY <1>1, <2>1 DEF GoodPopup, Popups
  <2>3. GoodPopup(q)
    BY <2>2, PagesAssumption DEF GoodPopup
  <2> QED BY <1>1, <1>2, <2>1, <2>2, <2>3, PopupKeeps
<1>3. CASE InPopup([pop EXCEPT !.editing = TRUE], <<>>)
  <2>1. PICK q : q = [pop EXCEPT !.editing = TRUE]
    OBVIOUS
  <2>2. GoodPopup(q) /\ q.unlocked = pop.unlocked /\ q.matches = pop.matches
    BY <1>1, <2>1 DEF GoodPopup, Popups
  <2> QED BY <1>1, <1>3, <2>1, <2>2, PopupKeeps
<1>4. CASE InPopup([pop EXCEPT !.editing = FALSE, !.sheet = IF @ = "new" THEN Nothing ELSE @], <<>>)
  <2>1. PICK i : i = IF pop.sheet = "new" THEN Nothing ELSE pop.sheet
    OBVIOUS
  <2>2. PICK q : q = [pop EXCEPT !.editing = FALSE, !.sheet = i]
    OBVIOUS
  <2>3. InPopup(q, <<>>)
    BY <1>4, <2>1, <2>2
  <2>4. i \in Item \cup {Nothing} /\ i # "new"
    BY <1>1, <2>1, PagesAssumption
  <2>5. q \in Popups /\ q.unlocked = pop.unlocked /\ q.matches = pop.matches /\ q.sheet = i
    BY <1>1, <2>2, <2>4 DEF GoodPopup, Popups
  <2>6. GoodPopup(q)
    BY <2>4, <2>5 DEF GoodPopup
  <2> QED BY <1>1, <2>3, <2>5, <2>6, PopupKeeps
<1>5. CASE InPopup(pop, <<IF pop.sheet = "new"
                          THEN Then("CREATE", "item", Nothing, <<LoadCounts, LoadMatches>>)
                          ELSE Then("UPDATE", "item", pop.sheet, <<LoadMatches>>)>>)
  <2>1. PICK c : c = IF pop.sheet = "new"
                     THEN Then("CREATE", "item", Nothing, <<LoadCounts, LoadMatches>>)
                     ELSE Then("UPDATE", "item", pop.sheet, <<LoadMatches>>)
    OBVIOUS
  <2>2. <<LoadCounts, LoadMatches>> \in Seq(Follow) /\ <<LoadMatches>> \in Seq(Follow)
    <3>1. LoadCounts \in Follow /\ LoadMatches \in Follow
      BY DEF Follow
    <3> QED BY <3>1
  <2>3. /\ "CREATE" \in Ops /\ "UPDATE" \in Ops /\ "item" \in Kind /\ Kind \subseteq Kind \cup {"none"}
        /\ Nothing \in Things \cup {Nothing} /\ Item \subseteq Things \cup {Nothing}
    BY DEF Ops, Kind, Things
  <2>4. c \in Fresh("popup")
    <3>1. CASE pop.sheet = "new"
      BY <1>1, <2>1, <2>2, <2>3, <3>1, Sent
    <3>2. CASE pop.sheet # "new"
      BY <1>1, <2>1, <2>2, <2>3, <3>2, Sent
    <3> QED BY <3>1, <3>2
  <2>5. <<c>> \in Seq(Fresh("popup"))
    BY <2>4, OneSent
  <2> QED BY <1>1, <1>5, <2>1, <2>5, PopupKeeps
<1> QED BY <1>2, <1>3, <1>4, <1>5, Zenon DEF PopupSheet

LEMMA ShowInVaultKeeps == PagesInv /\ ShowInVault => PagesInv'
<1> SUFFICES ASSUME PagesInv, ShowInVault PROVE PagesInv'
  OBVIOUS
<1>1. PICK link \in {Nothing} \cup ({pop.sheet} \cap Item) :
        /\ vp' = VaultPage(link) /\ pop' = ClosedPopup
        /\ asked' = [popup |-> Unheard("popup"),
                     vault |-> Unheard("vault") (+) SetToBag({Ask("GET_UNLOCKED")})]
  BY DEF ShowInVault
<1>2. "popup" \in Page /\ "vault" \in Page /\ Click
  BY DEF Page, ShowInVault
<1>3. /\ DOMAIN asked' = Page /\ asked'.popup = Unheard("popup")
      /\ asked'.vault = Unheard("vault") (+) SetToBag({Ask("GET_UNLOCKED")})
  BY <1>1 DEF Page
<1>4. AskedOK("popup", asked'.popup, wasEmpty)
  BY <1>2, <1>3, LeftBehind
<1>5. AskedOK("vault", asked'.vault, wasEmpty)
  <2>1. AskedOK("vault", Unheard("vault"), wasEmpty)
        /\ AskedOK("vault", SetToBag({Ask("GET_UNLOCKED")}), wasEmpty)
    BY <1>2, LeftBehind, HasAsked
  <2>2. PICK B, C : B = Unheard("vault") /\ C = SetToBag({Ask("GET_UNLOCKED")})
    OBVIOUS
  <2>3. AskedOK("vault", B, wasEmpty) /\ AskedOK("vault", C, wasEmpty)
    BY <2>1, <2>2
  <2>4. AskedOK("vault", B (+) C, wasEmpty)
    BY <2>3, BothAsked
  <2> QED BY <1>3, <2>2, <2>4
<1>6. vp' \in VaultPages /\ ~vp'.unlocked /\ vp'.pending = Nothing
  BY <1>1, Opened1
<1> QED BY <1>1, <1>2, <1>3, <1>4, <1>5, <1>6, Closed, PagesTurn

\* What the user changes of the vault page without a message: the tab, the
\* editors, what is chosen, what is busy.
LEMMA VaultEdits ==
  ASSUME PagesInv
  PROVE  /\ SameVault(vp)
         /\ \A b \in {"SYNC", "GENERATE_IDENTITY"} : SameVault([vp EXCEPT !.busy = @ \cup {b}])
         /\ \A c \in Persona \cup {Nothing} : SameVault([vp EXCEPT !.chosen = c])
         /\ SameVault([vp EXCEPT !.creating = TRUE])
         /\ \A i \in Item \cup {Nothing} : SameVault([vp EXCEPT !.editing.item = i])
         /\ \A c \in Persona \cup {Nothing, "new"} : SameVault([vp EXCEPT !.editing.persona = c])
         /\ SameVault([vp EXCEPT !.editing.item = Nothing, !.creating = FALSE])
         /\ SameVault([vp EXCEPT !.tab = IF @ = "item" THEN "persona" ELSE "item",
                                 !.editing.item = Nothing, !.creating = FALSE])
<1>1. GoodVault(vp) /\ vp \in VaultPages
  BY DEF PagesInv, GoodVault
<1>2. SameVault(vp)
  BY <1>1 DEF SameVault
<1>3. ASSUME NEW b \in {"SYNC", "GENERATE_IDENTITY"} PROVE SameVault([vp EXCEPT !.busy = @ \cup {b}])
  BY <1>1 DEF SameVault, GoodVault, VaultPages
<1>4. ASSUME NEW c \in Persona \cup {Nothing} PROVE SameVault([vp EXCEPT !.chosen = c])
  BY <1>1 DEF SameVault, GoodVault, VaultPages
<1>5. SameVault([vp EXCEPT !.creating = TRUE])
  BY <1>1 DEF SameVault, GoodVault, VaultPages
<1>6. ASSUME NEW i \in Item \cup {Nothing}
      PROVE  [vp.editing EXCEPT !.item = i] \in [item : Item \cup {Nothing}, persona : Persona \cup {Nothing, "new"}]
  BY <1>1 DEF VaultPages
<1>7. ASSUME NEW c \in Persona \cup {Nothing, "new"}
      PROVE  [vp.editing EXCEPT !.persona = c] \in [item : Item \cup {Nothing}, persona : Persona \cup {Nothing, "new"}]
  BY <1>1 DEF VaultPages
<1>8. ASSUME NEW e \in [item : Item \cup {Nothing}, persona : Persona \cup {Nothing, "new"}],
             NEW t \in Kind
      PROVE  /\ SameVault([vp EXCEPT !.editing = e])
             /\ SameVault([vp EXCEPT !.editing = e, !.creating = FALSE])
             /\ SameVault([vp EXCEPT !.tab = t, !.editing = e, !.creating = FALSE])
  BY <1>1 DEF SameVault, GoodVault, VaultPages
<1>9. \A i \in Item \cup {Nothing} : SameVault([vp EXCEPT !.editing.item = i])
  <2> SUFFICES ASSUME NEW i \in Item \cup {Nothing} PROVE SameVault([vp EXCEPT !.editing.item = i])
    OBVIOUS
  <2>1. PICK e : e = [vp.editing EXCEPT !.item = i]
    OBVIOUS
  <2>2. [vp EXCEPT !.editing.item = i] = [vp EXCEPT !.editing = e]
    BY <2>1
  <2> QED BY <1>6, <1>8, <2>1, <2>2 DEF Kind
<1>10. \A c \in Persona \cup {Nothing, "new"} : SameVault([vp EXCEPT !.editing.persona = c])
  <2> SUFFICES ASSUME NEW c \in Persona \cup {Nothing, "new"} PROVE SameVault([vp EXCEPT !.editing.persona = c])
    OBVIOUS
  <2>1. PICK e : e = [vp.editing EXCEPT !.persona = c]
    OBVIOUS
  <2>2. [vp EXCEPT !.editing.persona = c] = [vp EXCEPT !.editing = e]
    BY <2>1
  <2> QED BY <1>7, <1>8, <2>1, <2>2 DEF Kind
<1>11. /\ SameVault([vp EXCEPT !.editing.item = Nothing, !.creating = FALSE])
       /\ SameVault([vp EXCEPT !.tab = IF @ = "item" THEN "persona" ELSE "item",
                               !.editing.item = Nothing, !.creating = FALSE])
  <2>1. PICK e, t : e = [vp.editing EXCEPT !.item = Nothing] /\ t = IF vp.tab = "item" THEN "persona" ELSE "item"
    OBVIOUS
  <2>2. /\ [vp EXCEPT !.editing.item = Nothing, !.creating = FALSE] = [vp EXCEPT !.editing = e, !.creating = FALSE]
        /\ [vp EXCEPT !.tab = IF @ = "item" THEN "persona" ELSE "item",
                      !.editing.item = Nothing, !.creating = FALSE]
             = [vp EXCEPT !.tab = t, !.editing = e, !.creating = FALSE]
    BY <2>1
  <2>3. t \in Kind
    BY <2>1 DEF Kind
  <2>4. e \in [item : Item \cup {Nothing}, persona : Persona \cup {Nothing, "new"}]
    BY <1>6, <2>1
  <2>5. /\ SameVault([vp EXCEPT !.editing = e, !.creating = FALSE])
        /\ SameVault([vp EXCEPT !.tab = t, !.editing = e, !.creating = FALSE])
    BY <1>8, <2>3, <2>4
  <2> QED BY <2>2, <2>5
<1> QED BY <1>2, <1>3, <1>4, <1>5, <1>9, <1>10, <1>11

LEMMA InVaultKeeps ==
  ASSUME PagesInv, NEW v, SameVault(v), InVault(v, <<>>) \/ \E c \in Fresh("vault") : InVault(v, <<c>>)
  PROVE  PagesInv'
<1>1. CASE InVault(v, <<>>)
  <2>1. <<>> \in Seq(Fresh("vault"))
    BY EmptySeq
  <2> QED BY <1>1, <2>1, VaultKeeps DEF InVault
<1>2. CASE \E c \in Fresh("vault") : InVault(v, <<c>>)
  <2>1. PICK c \in Fresh("vault") : InVault(v, <<c>>)
    BY <1>2
  <2>2. <<c>> \in Seq(Fresh("vault"))
    BY OneSent
  <2> QED BY <2>1, <2>2, VaultKeeps DEF InVault
<1> QED BY <1>1, <1>2

LEMMA UnlockVaultKeeps == PagesInv /\ UnlockVault => PagesInv'
<1> SUFFICES ASSUME PagesInv, UnlockVault PROVE PagesInv'
  OBVIOUS
<1>1. Ask("UNLOCK") \in Fresh("vault")
  BY SentAsk DEF Ops, Page
<1>2. <<Ask("UNLOCK")>> \in Seq(Fresh("vault")) /\ SameVault(vp)
  BY <1>1, OneSent, VaultEdits
<1> QED BY <1>2, VaultKeeps DEF UnlockVault

LEMMA BrowseKeeps == PagesInv /\ Browse => PagesInv'
<1> SUFFICES ASSUME PagesInv, Browse PROVE PagesInv'
  OBVIOUS
<1>1. PICK w, b :
        /\ w = [vp EXCEPT !.tab = IF @ = "item" THEN "persona" ELSE "item",
                          !.editing.item = Nothing, !.creating = FALSE]
        /\ b = [vp EXCEPT !.busy = @ \cup {"SYNC"}]
  OBVIOUS
<1>2. PICK c : c = Then("SYNC", "none", Nothing, <<Then("GET_ITEMS", "item", Nothing, <<LoadIdentities>>)>>)
  OBVIOUS
<1>3. InVault(w, <<>>) \/ InVault(vp, <<Ask("LOCK")>>) \/ InVault(b, <<c>>)
  BY <1>1, <1>2, Zenon DEF Browse
<1>4. SameVault(w) /\ SameVault(vp) /\ SameVault(b)
  BY <1>1, VaultEdits
<1>5. Ask("LOCK") \in Fresh("vault")
  BY SentAsk DEF Ops, Page
<1>6. c \in Fresh("vault")
  <2>1. Then("GET_ITEMS", "item", Nothing, <<LoadIdentities>>) \in Follow
    BY DEF Follow
  <2>2. <<Then("GET_ITEMS", "item", Nothing, <<LoadIdentities>>)>> \in Seq(Follow)
    BY <2>1
  <2>3. "SYNC" \in Ops /\ "none" \in Kind \cup {"none"} /\ Nothing \in Things \cup {Nothing} /\ "vault" \in Page
    BY DEF Ops, Page
  <2> QED BY <1>2, <2>2, <2>3, Sent
<1> QED BY <1>3, <1>4, <1>5, <1>6, InVaultKeeps

LEMMA EditItemsKeeps == PagesInv /\ EditItems => PagesInv'
<1> SUFFICES ASSUME PagesInv, EditItems PROVE PagesInv'
  OBVIOUS
<1>1. PICK create, update, delete :
        /\ create = Then("CREATE", "item", Nothing, <<LoadItems>>)
        /\ update = Then("UPDATE", "item", vp.editing.item, <<LoadItems>>)
        /\ delete = Then("DELETE", "item", vp.editing.item, <<LoadItems>>)
  OBVIOUS
<1>2. \/ \E i \in vp.list.item : InVault([vp EXCEPT !.editing.item = i], <<>>)
      \/ InVault([vp EXCEPT !.creating = TRUE], <<>>)
      \/ InVault([vp EXCEPT !.editing.item = Nothing, !.creating = FALSE], <<>>)
      \/ InVault(vp, <<create>>)
      \/ InVault(vp, <<update>>) \/ InVault(vp, <<delete>>)
  BY <1>1, Zenon DEF EditItems
<1>3. vp.list.item \subseteq Item /\ vp.editing.item \in Item \cup {Nothing}
  BY DEF PagesInv, VaultPages, Stores
<1>4. create \in Fresh("vault") /\ update \in Fresh("vault") /\ delete \in Fresh("vault")
  <2>1. LoadItems \in Follow
    BY DEF Follow
  <2>2. <<LoadItems>> \in Seq(Follow)
    BY <2>1
  <2>3. /\ {"CREATE", "UPDATE", "DELETE"} \subseteq Ops /\ "vault" \in Page /\ Item \subseteq Things
        /\ "item" \in Kind /\ Kind \subseteq Kind \cup {"none"}
    BY DEF Ops, Page, Things, Kind
  <2>4. vp.editing.item \in Things \cup {Nothing} /\ Nothing \in Things \cup {Nothing}
    BY <1>3, <2>3
  <2>5. create \in Fresh("vault")
    BY <1>1, <2>2, <2>3, <2>4, Sent
  <2>6. update \in Fresh("vault")
    BY <1>1, <2>2, <2>3, <2>4, Sent
  <2>7. delete \in Fresh("vault")
    BY <1>1, <2>2, <2>3, <2>4, Sent
  <2> QED BY <2>5, <2>6, <2>7
<1>5. ASSUME NEW i \in vp.list.item, InVault([vp EXCEPT !.editing.item = i], <<>>) PROVE PagesInv'
  <2>1. SameVault([vp EXCEPT !.editing.item = i])
    BY <1>3, VaultEdits
  <2> QED BY <1>5, <2>1, InVaultKeeps
<1>6. /\ SameVault([vp EXCEPT !.creating = TRUE]) /\ SameVault(vp)
      /\ SameVault([vp EXCEPT !.editing.item = Nothing, !.creating = FALSE])
  BY VaultEdits
<1>7. CASE InVault([vp EXCEPT !.creating = TRUE], <<>>)
  BY <1>6, <1>7, InVaultKeeps
<1>8. CASE InVault([vp EXCEPT !.editing.item = Nothing, !.creating = FALSE], <<>>)
  BY <1>6, <1>8, InVaultKeeps
<1>9. CASE InVault(vp, <<create>>) \/ InVault(vp, <<update>>) \/ InVault(vp, <<delete>>)
  BY <1>4, <1>6, <1>9, InVaultKeeps
<1> QED BY <1>2, <1>5, <1>7, <1>8, <1>9

LEMMA EditPersonasKeeps == PagesInv /\ EditPersonas => PagesInv'
<1> SUFFICES ASSUME PagesInv, EditPersonas PROVE PagesInv'
  OBVIOUS
<1>1. PICK e, p : e = vp.editing.persona /\ p = vp.chosen
  OBVIOUS
<1>2. /\ e \in Persona \cup {Nothing, "new"} /\ p \in Persona \cup {Nothing}
      /\ vp.list.persona \subseteq Persona /\ vp.list.item \subseteq Item
  BY <1>1 DEF PagesInv, VaultPages, Stores
<1>3. PICK create, update, delete :
        /\ create = Then("CREATE", "persona", Nothing, <<LoadIdentities>>)
        /\ update = Then("UPDATE", "persona", e, <<LoadIdentities>>)
        /\ delete = Then("DELETE", "persona", p, <<LoadIdentities>>)
  OBVIOUS
<1>4. \/ \E c \in vp.list.persona : InVault([vp EXCEPT !.chosen = c], <<>>)
      \/ InVault([vp EXCEPT !.editing.persona = "new"], <<>>)
      \/ InVault([vp EXCEPT !.busy = @ \cup {"GENERATE_IDENTITY"}], <<Ask("GENERATE_IDENTITY")>>)
      \/ InVault([vp EXCEPT !.chosen = Nothing], <<>>)
      \/ InVault([vp EXCEPT !.editing.persona = p], <<>>)
      \/ InVault(vp, <<delete>>)
      \/ \E i \in vp.list.item : InVault(vp, <<Then("ASSIGN", "item", i, <<LoadItems>>)>>)
      \/ InVault([vp EXCEPT !.editing.persona = Nothing], <<>>)
      \/ Covered /\ InVault(vp, <<IF e = "new" THEN create ELSE update>>)
  BY <1>1, <1>3, Zenon DEF EditPersonas
<1>5. /\ LoadIdentities \in Follow /\ LoadItems \in Follow
      /\ {"CREATE", "UPDATE", "DELETE", "ASSIGN"} \subseteq Ops /\ "vault" \in Page
      /\ Item \subseteq Things /\ Persona \subseteq Things
      /\ "item" \in Kind /\ "persona" \in Kind /\ Kind \subseteq Kind \cup {"none"}
      /\ Nothing \in Things \cup {Nothing} /\ p \in Things \cup {Nothing}
  BY <1>2 DEF Follow, Ops, Page, Things, Kind
<1>6. <<LoadIdentities>> \in Seq(Follow) /\ <<LoadItems>> \in Seq(Follow)
  BY <1>5
<1>7. create \in Fresh("vault")
  BY <1>3, <1>5, <1>6, Sent
<1>8. delete \in Fresh("vault")
  BY <1>3, <1>5, <1>6, Sent
<1>9. SameVault(vp)
  BY VaultEdits
<1>10. CASE Covered /\ InVault(vp, <<IF e = "new" THEN create ELSE update>>)
  <2>1. e # Nothing
    BY <1>1, <1>10 DEF EditPersonas, Covered, Editor
  <2>2. CASE e = "new"
    BY <1>7, <1>9, <1>10, <2>2, InVaultKeeps
  <2>3. CASE e # "new"
    <3>1. e \in Persona /\ e \in Things \cup {Nothing}
      BY <1>2, <1>5, <2>1, <2>3
    <3>2. update \in Fresh("vault")
      BY <1>3, <1>5, <1>6, <3>1, Sent
    <3> QED BY <1>9, <1>10, <2>3, <3>2, InVaultKeeps
  <2> QED BY <2>2, <2>3
<1>11. ASSUME NEW c \in Persona \cup {Nothing}, InVault([vp EXCEPT !.chosen = c], <<>>) PROVE PagesInv'
  <2>1. SameVault([vp EXCEPT !.chosen = c])
    BY VaultEdits
  <2> QED BY <1>11, <2>1, InVaultKeeps
<1>12. ASSUME NEW c \in Persona \cup {Nothing, "new"}, InVault([vp EXCEPT !.editing.persona = c], <<>>)
       PROVE PagesInv'
  <2>1. SameVault([vp EXCEPT !.editing.persona = c])
    BY VaultEdits
  <2> QED BY <1>12, <2>1, InVaultKeeps
<1>13. CASE InVault([vp EXCEPT !.busy = @ \cup {"GENERATE_IDENTITY"}], <<Ask("GENERATE_IDENTITY")>>)
  <2>1. SameVault([vp EXCEPT !.busy = @ \cup {"GENERATE_IDENTITY"}])
    BY VaultEdits
  <2>2. Ask("GENERATE_IDENTITY") \in Fresh("vault")
    BY SentAsk DEF Ops, Page
  <2> QED BY <1>13, <2>1, <2>2, InVaultKeeps
<1>14. ASSUME NEW i \in vp.list.item, InVault(vp, <<Then("ASSIGN", "item", i, <<LoadItems>>)>>)
       PROVE PagesInv'
  <2>1. i \in Things \cup {Nothing}
    BY <1>2, <1>5
  <2>2. Then("ASSIGN", "item", i, <<LoadItems>>) \in Fresh("vault")
    BY <1>5, <1>6, <2>1, Sent
  <2> QED BY <1>9, <1>14, <2>2, InVaultKeeps
<1>15. CASE InVault(vp, <<delete>>)
  BY <1>8, <1>9, <1>15, InVaultKeeps
<1>16. vp.list.persona \subseteq Persona \cup {Nothing} /\ p \in Persona \cup {Nothing, "new"}
  BY <1>2
<1> QED BY <1>4, <1>10, <1>11, <1>12, <1>13, <1>14, <1>15, <1>16

(***************************************************************************)
(* The invariant                                                           *)
(***************************************************************************)
LEMMA PagesInvInit == PagesInit => PagesInv
<1> SUFFICES ASSUME PagesInit PROVE PagesInv
  OBVIOUS
<1>1. PICK p \in Page :
        /\ pop = [ClosedPopup EXCEPT !.up = p = "popup"]
        /\ vp = [VaultPage(Nothing) EXCEPT !.up = p = "vault"]
        /\ asked = [q \in Page |-> IF q = p THEN SetToBag({Ask("GET_UNLOCKED")}) ELSE EmptyBag]
  BY DEF PagesInit
<1>2. PICK u, w \in BOOLEAN : u = (p = "popup") /\ w = (p = "vault")
  OBVIOUS
<1>3. /\ GoodPopup(pop) /\ ~pop.unlocked
      /\ vp \in VaultPages /\ ~vp.unlocked /\ vp.pending = Nothing
  <2>1. pop = [ClosedPopup EXCEPT !.up = u] /\ vp = [VaultPage(Nothing) EXCEPT !.up = w]
    BY <1>1, <1>2
  <2>2. GoodPopup(pop) /\ ~pop.unlocked
    BY <2>1, Closed DEF GoodPopup, Popups
  <2>3. vp \in VaultPages /\ ~vp.unlocked /\ vp.pending = Nothing
    BY <2>1, Opened1 DEF VaultPages
  <2> QED BY <2>2, <2>3
<1>4. DOMAIN asked = Page /\ \A q \in Page : AskedOK(q, asked[q], wasEmpty)
  BY <1>1, HasAsked, NoneAsked
<1>5. stored \in Stores /\ open \in BOOLEAN /\ clicks \in 0..MaxClicks
  BY PagesAssumption DEF PagesInit, Stores
<1>6. wasEmpty = {k \in Kind : stored[k] = {}} /\ raced = {}
  BY DEF PagesInit
<1> QED BY <1>3, <1>4, <1>5, <1>6 DEF PagesInv, PersonasDue, MatchesDue

LEMMA PagesInvKept == PagesInv /\ [PagesNext]_pagesVars => PagesInv'
<1> SUFFICES ASSUME PagesInv, [PagesNext]_pagesVars PROVE PagesInv'
  OBVIOUS
<1>1. CASE Answers
  <2>1. PICK p \in Page : \E c \in BagToSet(asked[p]) : Serve(p, c) \/ Hear(p, c)
    BY <1>1 DEF Answers
  <2>2. PICK c \in BagToSet(asked[p]) : Serve(p, c) \/ Hear(p, c)
    BY <2>1
  <2> QED BY <2>2, ServeKeeps, HearKeeps
<1>2. CASE AutoLock
  BY <1>2 DEF AutoLock, PagesInv
<1>3. CASE UNCHANGED pagesVars
  BY <1>3 DEF pagesVars, PagesInv
<1>4. CASE OpenPopup \/ ClosePopup \/ UsePopup \/ PopupSheet \/ Autofill \/ ShowInVault
  BY <1>4, OpenKeeps, CloseKeeps, UsePopupKeeps, PopupSheetKeeps, AutofillKeeps, ShowInVaultKeeps
<1>5. CASE UnlockVault \/ Browse \/ EditItems \/ EditPersonas
  BY <1>5, UnlockVaultKeeps, BrowseKeeps, EditItemsKeeps, EditPersonasKeeps
<1> QED BY <1>1, <1>2, <1>3, <1>4, <1>5 DEF PagesNext

LEMMA PagesInvTypes == PagesInv => PagesTypeOK
<1> SUFFICES ASSUME PagesInv PROVE PagesTypeOK
  OBVIOUS
<1>1. pop \in Popups /\ vp \in VaultPages /\ stored \in Stores /\ vp.pending \in {vp.link, Nothing}
  BY DEF PagesInv, GoodPopup
<1>2. /\ pop.matches \subseteq Item /\ (pop.found = Nothing \/ pop.found \subseteq Item)
      /\ pop.sheet \in Item \cup {Nothing, "new"}
  BY <1>1 DEF Popups
<1>3. /\ vp.list \in Stores /\ vp.editing.item \in Item \cup {Nothing}
      /\ vp.editing.persona \in Persona \cup {Nothing, "new"} /\ vp.link \in Item \cup {Nothing}
  BY <1>1 DEF VaultPages
<1> QED BY <1>1, <1>2, <1>3 DEF PagesInv, PagesTypeOK, Stores

LEMMA PagesInvShown == PagesInv => LockedIsNotEmpty
<1> SUFFICES ASSUME PagesInv PROVE LockedIsNotEmpty
  OBVIOUS
<1>1. \A p, op : Asks(asked[p], op) => Waits(p, op)
  BY DEF Asks, Waits, BagToSet
<1> QED BY <1>1 DEF PagesInv, PersonasDue, MatchesDue, LockedIsNotEmpty, PersonasShownEmpty,
                    MatchesShownEmpty

\* A list of personas, or of what matches the page, that is shown empty with no
\* answer to come was filled from a vault that held none, and not from one that was
\* merely locked - unless a lock came between the worker's two looks for keys in
\* the page's last request (background/index.ts:606-611, 812-815): that refusal
\* does not say "locked".
THEOREM LockedIsNeverEmpty == PagesSpec => []LockedIsNotEmpty
  BY PagesInvInit, PagesInvKept, PagesInvShown, PTL DEF PagesSpec

(***************************************************************************)
(* The menu in a page                                                      *)
(***************************************************************************)
LEMMA Least ==
  ASSUME NEW P, P \subseteq Nat, P # {}
  PROVE  \E k \in P : \A j \in P : k <= j
<1>1. PICK k \in P : \A x \in P : <<x, k>> \notin OpToRel(<, Nat)
  BY NatLessThanWellFounded, WFMin
<1>2. ASSUME NEW j \in P PROVE k <= j
  <2>1. j \in Nat /\ k \in Nat /\ ~(j < k)
    BY <1>1 DEF OpToRel
  <2> QED BY <2>1
<1> QED BY <1>2

\* A finite set of numbers has a greatest: take the smallest set that has none.
LEMMA Greatest ==
  ASSUME NEW P, P \subseteq Nat, IsFiniteSet(P), P # {}
  PROVE  \E k \in P : \A j \in P : j <= k
<1> DEFINE Topless(T) == T # {} /\ ~ \E k \in T : \A j \in T : j <= k
<1> DEFINE N == {Cardinality(T) : T \in {V \in SUBSET P : Topless(V)}}
<1> SUFFICES ASSUME Topless(P) PROVE FALSE
  OBVIOUS
<1>1. \A T \in SUBSET P : IsFiniteSet(T) /\ Cardinality(T) \in Nat
  BY FS_Subset, FS_CardinalityType
<1>2. N \subseteq Nat /\ N # {}
  BY <1>1
<1>3. PICK c \in N : \A d \in N : c <= d
  <2> HIDE DEF N
  <2> QED BY <1>2, Least
<1>4. PICK T \in SUBSET P : Topless(T) /\ Cardinality(T) = c
  OBVIOUS
<1>5. \A V \in SUBSET P : Topless(V) => c <= Cardinality(V)
  BY <1>3
<1>6. PICK x \in T : x \in Nat
  BY <1>4
<1>7. PICK V : V = T \ {x}
  OBVIOUS
<1>8. V \in SUBSET P /\ Cardinality(V) = Cardinality(T) - 1
  <2>1. IsFiniteSet(T)
    BY <1>1
  <2> QED BY <1>7, <2>1, FS_RemoveElement
<1>9. ~Topless(V)
  <2>1. ~(c <= Cardinality(V))
    BY <1>1, <1>4, <1>8
  <2> QED BY <1>5, <1>8, <2>1
<1>10. CASE V = {}
  <2>1. T = {x}
    BY <1>7, <1>10
  <2>2. x <= x
    BY <1>6
  <2> QED BY <1>4, <2>1, <2>2
<1>11. CASE V # {}
  <2>1. PICK m \in V : \A j \in V : j <= m
    BY <1>9, <1>11
  <2>2. m \in Nat /\ m \in T /\ \A j \in T : j \in Nat /\ (j = x \/ j \in V)
    BY <1>7
  <2>3. CASE x <= m
    <3>1. \A j \in T : j <= m
      BY <2>1, <2>2, <2>3
    <3> QED BY <1>4, <2>2, <3>1
  <2>4. CASE ~(x <= m)
    <3>1. m < x /\ x <= x
      BY <1>6, <2>2, <2>4
    <3>2. ASSUME NEW j \in T PROVE j <= x
      <4>1. CASE j = x
        BY <3>1, <4>1
      <4>2. CASE j \in V
        <5>1. j <= m /\ j \in Nat
          BY <2>1, <2>2, <4>2
        <5> QED BY <1>6, <2>2, <3>1, <5>1
      <4> QED BY <2>2, <4>1, <4>2
    <3> QED BY <1>4, <3>2
  <2> QED BY <2>3, <2>4
<1> QED BY <1>10, <1>11

Upto(P, k) == {j \in P : j <= k}

\* Each place up to their number is the rank of one of them.
LEMMA Ranks ==
  ASSUME NEW b \in Nat, NEW P, P \subseteq 1..b
  PROVE  /\ IsFiniteSet(P) /\ Cardinality(P) \in Nat
         /\ \A n \in 1..Cardinality(P) : \E k \in P : Cardinality(Upto(P, k)) = n
<1>1. IsFiniteSet(P) /\ Cardinality(P) \in Nat
  <2>1. IsFiniteSet(1..b)
    BY FS_Interval
  <2>2. IsFiniteSet(P)
    BY <2>1, FS_Subset
  <2> QED BY <2>2, FS_CardinalityType
<1>2. P \subseteq Nat /\ \A k \in P : k \in 1..b
  OBVIOUS
<1>3. ASSUME NEW k \in P PROVE IsFiniteSet(Upto(P, k)) /\ Cardinality(Upto(P, k)) \in Nat
  BY <1>1, FS_Subset, FS_CardinalityType DEF Upto
<1> SUFFICES ASSUME NEW n \in 1..Cardinality(P)
             PROVE  \E k \in P : Cardinality(Upto(P, k)) = n
  BY <1>1
<1>4. P # {}
  BY <1>1, FS_EmptySet
<1>5. PICK top \in P : \A j \in P : j <= top
  <2>1. P \subseteq Nat
    BY <1>2
  <2> QED BY <1>1, <1>4, <2>1, Greatest
<1>6. Upto(P, top) = P
  BY <1>5 DEF Upto
<1> DEFINE Beyond == {k \in P : Cardinality(Upto(P, k)) >= n}
<1>7. top \in Beyond
  BY <1>1, <1>6
<1>8. PICK k \in Beyond : \A j \in Beyond : k <= j
  <2>1. Beyond \subseteq Nat /\ Beyond # {}
    BY <1>2, <1>7
  <2> QED BY <2>1, Least
<1>9. PICK U : U = {j \in P : j < k}
  OBVIOUS
<1>10. k \in P /\ k \in Nat /\ Cardinality(Upto(P, k)) >= n /\ k \notin U /\ Upto(P, k) = U \cup {k}
  <2>1. k \in P /\ k \in Nat /\ Cardinality(Upto(P, k)) >= n
    BY <1>2, <1>8
  <2>2. k \notin U
    BY <1>9, <2>1
  <2>3. ASSUME NEW j \in P PROVE j <= k <=> j < k \/ j = k
    <3>1. j \in Nat
      BY <1>2
    <3> QED BY <2>1, <3>1
  <2>4. Upto(P, k) = U \cup {k}
    BY <1>9, <2>1, <2>3 DEF Upto
  <2> QED BY <2>1, <2>2, <2>4
<1>11. IsFiniteSet(U) /\ Cardinality(U) \in Nat /\ Cardinality(Upto(P, k)) = Cardinality(U) + 1
  <2>1. IsFiniteSet(U)
    BY <1>1, <1>9, FS_Subset
  <2> QED BY <1>10, <2>1, FS_AddElement, FS_CardinalityType
<1>12. CASE U = {}
  <2>1. Cardinality(U) = 0
    BY <1>11, <1>12, FS_EmptySet
  <2> QED BY <1>1, <1>10, <1>11, <2>1
<1>13. CASE U # {}
  <2>1. U \subseteq Nat
    BY <1>2, <1>9
  <2>2. PICK m \in U : \A j \in U : j <= m
    BY <1>11, <1>13, <2>1, Greatest
  <2>3. m \in P /\ m \in Nat /\ m < k
    BY <1>2, <1>9
  <2>4. Upto(P, m) = U
    <3>1. ASSUME NEW j \in P PROVE j <= m <=> j < k
      <4>1. j \in Nat /\ m \in Nat /\ k \in Nat
        BY <1>2, <1>10, <2>3
      <4>2. j < k => j <= m
        BY <1>9, <2>2
      <4> QED BY <2>3, <4>1, <4>2
    <3> QED BY <1>9, <3>1 DEF Upto
  <2>5. ~(Cardinality(Upto(P, m)) >= n)
    <3> SUFFICES ASSUME Cardinality(Upto(P, m)) >= n PROVE FALSE
      OBVIOUS
    <3>1. m \in Beyond
      BY <2>3
    <3>2. k <= m
      BY <1>8, <3>1
    <3> QED BY <1>10, <2>3, <3>2
  <2>6. Cardinality(U) < n
    <3>1. ~(Cardinality(U) >= n) /\ Cardinality(U) \in Nat /\ n \in Nat
      BY <1>1, <1>11, <2>4, <2>5
    <3> QED BY <3>1
  <2>7. Cardinality(Upto(P, k)) = n
    BY <1>1, <1>10, <1>11, <2>6
  <2> QED BY <1>10, <2>7
<1> QED BY <1>12, <1>13

\* At picks what s has at these places, as many as there are.
LEMMA AtKeeps ==
  ASSUME NEW S, NEW s, NEW b \in Nat, NEW P, P \subseteq 1..b, \A k \in P : s[k] \in S
  PROVE  At(s, P) \in Seq(S) /\ Len(At(s, P)) = Cardinality(P) /\ Cardinality(P) \in Nat
<1>1. Cardinality(P) \in Nat
  BY Ranks
<1> DEFINE place(n) == CHOOSE k \in P : Cardinality(Upto(P, k)) = n
<1>2. ASSUME NEW n \in 1..Cardinality(P) PROVE s[place(n)] \in S
  <2>1. \E k \in P : Cardinality(Upto(P, k)) = n
    BY Ranks
  <2>2. place(n) \in P
    BY <2>1
  <2> QED BY <2>2
<1>3. At(s, P) = [n \in 1..Cardinality(P) |-> s[place(n)]]
  BY DEF At, Upto
<1>4. At(s, P) \in Seq(S)
  <2> HIDE DEF place
  <2> QED BY <1>1, <1>2, <1>3, IsASeq
<1>5. DOMAIN At(s, P) = 1..Cardinality(P)
  BY <1>3
<1>6. Len(At(s, P)) \in Nat /\ DOMAIN At(s, P) = 1..Len(At(s, P))
  BY <1>4, LenProperties
<1> QED BY <1>1, <1>4, <1>5, <1>6
(***************************************************************************)
(* The menu: its anchor, form and entries are of the page and the vault,   *)
(* and its highlight is on one of the entries that fit, or on the footer.  *)
(***************************************************************************)
FormsOK(found) == \A g \in found : DOMAIN g.role \subseteq Field

AsksOK(waiting) ==
  \A a \in waiting :
    /\ DOMAIN a = {"field", "form", "matches", "people"}
    /\ a.field \in DOMAIN a.form.role /\ DOMAIN a.form.role \subseteq Field

GoodEntries ==
  {e \in [what : {"item", "persona", "suggestion", "generate"}, ref : Match \cup STRING \cup {None}] :
     e.what = "item" => e.ref \in Match}

\* The places of the entries that the menu lists, as VisibleEntries has them.
Fitting(m) ==
  {n \in DOMAIN m.entries : m.entries[n].what = "generate" \/ m.query \in {None, m.entries[n].ref}}

MenuOK(m) ==
  /\ DOMAIN m = {"anchor", "form", "entries", "active", "query"}
  /\ m.anchor \in Field /\ DOMAIN m.form.role \subseteq Field
  /\ m.entries \in Seq(GoodEntries)
  /\ m.active \in 0..(Cardinality(Fitting(m)) + 1)

PromptOK(p) == p.item \in Match /\ p.field \in Field

AgentInv ==
  /\ dom \in Layout /\ swaps \in 0..MaxSwaps /\ unseen \subseteq Field /\ wired \subseteq Field
  /\ dirty \in BOOLEAN /\ early \in BOOLEAN
  /\ focus \in Field \cup {None} /\ unlocked \in BOOLEAN
  /\ FormsOK(forms) /\ AsksOK(asks)
  /\ (menu # None => MenuOK(menu))
  /\ (prompt # None => PromptOK(prompt))
  /\ tries \subseteq Match /\ DOMAIN recent = DOMAIN Ranked

LEMMA DomIsOfFields ==
  ASSUME dom \in Layout
  PROVE  dom \subseteq Field /\ dom \subseteq Nat /\ IsFiniteSet(dom)
<1>1. dom \subseteq Field /\ Field \subseteq Nat /\ IsFiniteSet(Field)
  BY PageAgentAssumption
<1> QED BY <1>1, FS_Subset

LEMMA DetectedOK ==
  ASSUME NEW layout \in Layout
  PROVE  FormsOK(FormsOf[layout])
<1> SUFFICES ASSUME NEW g \in FormsOf[layout] PROVE DOMAIN g.role \subseteq Field
  BY DEF FormsOK
<1>1. layout \subseteq Field
  BY PageAgentAssumption
<1>2. PICK s \in {Markup[f].scope : f \in layout} : g = FormOf({f \in layout : Markup[f].scope = s})
  BY DEF FormsOf
<1>3. PICK F : F = {f \in layout : Markup[f].scope = s}
  OBVIOUS
<1>4. g = FormOf(F)
  BY <1>2, <1>3
<1>5. g.role = RolesIn(F)
  BY <1>4 DEF FormOf
<1>6. DOMAIN RolesIn(F) = F
  BY DEF RolesIn
<1> QED BY <1>1, <1>3, <1>5, <1>6

LEMMA NowDetectedOK ==
  ASSUME dom \in Layout
  PROVE  FormsOK(DetectForms)
BY DetectedOK DEF DetectForms

LEMMA ThenDetectedOK ==
  ASSUME dom \in Layout
  PROVE  FormsOK(DetectForms) /\ WiredBy(DetectForms) \subseteq Field
<1>1. WiredBy(DetectForms) \subseteq dom
  BY DEF WiredBy
<1> QED BY <1>1, NowDetectedOK, DomIsOfFields

\* Whatever opens a menu asks for one at a field of a known form.
LEMMA OpenedKeeps ==
  ASSUME dom \in Layout, AsksOK(asks), NEW fields, NEW known, FormsOK(known), Opened(fields, known)
  PROVE  FormsOK(forms') /\ AsksOK(asks')
<1>1. PICK found : found = IF known = {} THEN DetectForms ELSE known
  OBVIOUS
<1>2. FormsOK(found)
  BY <1>1, NowDetectedOK
<1>3. forms' = (IF fields = {} THEN known ELSE found) /\ asks' = asks \cup Asking(fields, found)
  BY <1>1 DEF Opened
<1>4. FormsOK(forms')
  BY <1>2, <1>3
<1>5. AsksOK(Asking(fields, found))
  <2> SUFFICES ASSUME NEW a \in Asking(fields, found)
               PROVE  /\ DOMAIN a = {"field", "form", "matches", "people"}
                      /\ a.field \in DOMAIN a.form.role /\ DOMAIN a.form.role \subseteq Field
    BY DEF AsksOK
  <2>1. /\ a \in [field : fields, form : found, matches : {None}, people : {None}]
        /\ a.field \in DOMAIN a.form.role
    BY DEF Asking
  <2>2. a.form \in found /\ DOMAIN a = {"field", "form", "matches", "people"}
    BY <2>1
  <2> QED BY <1>2, <2>1, <2>2 DEF FormsOK
<1> QED BY <1>3, <1>4, <1>5 DEF AsksOK

LEMMA FilledKeeps ==
  ASSUME dom \in Layout, AsksOK(asks), focus \in Field \cup {None},
         NEW given, NEW on, NEW known, FormsOK(known), Filled(given, on, known)
  PROVE  FormsOK(forms') /\ AsksOK(asks') /\ focus' \in Field \cup {None}
<1>1. PICK into : into = {f \in DOMAIN given : given[f] # None} \cap dom
  OBVIOUS
<1>2. PICK last : last = {f \in into : \A g \in into : f >= g}
  OBVIOUS
<1>3. /\ focus' = IF into = {} THEN focus ELSE CHOOSE f \in last : TRUE
      /\ Opened({f \in into \cap on : f # focus \/ \E g \in into : g < f}, known)
  BY <1>1, <1>2 DEF Filled
<1>4. FormsOK(forms') /\ AsksOK(asks')
  BY <1>3, OpenedKeeps
<1>5. into \subseteq dom /\ into \subseteq Field /\ into \subseteq Nat /\ IsFiniteSet(into)
  BY <1>1, DomIsOfFields, FS_Subset
<1>6. ASSUME into # {} PROVE (CHOOSE f \in last : TRUE) \in Field
  <2>1. PICK k \in into : \A j \in into : j <= k
    BY <1>5, <1>6, Greatest
  <2>2. \A j \in into : k >= j
    BY <1>5, <2>1
  <2>3. k \in last
    <3>1. k \in {f \in into : \A g \in into : f >= g}
      BY <2>1, <2>2, Zenon
    <3> QED BY <1>2, <3>1
  <2>4. last \subseteq Field
    BY <1>2, <1>5
  <2> QED BY <2>3, <2>4
<1> QED BY <1>3, <1>4, <1>6

LEMMA EntriesOfGood ==
  ASSUME NEW what, NEW R, NEW refs \in Seq(R), \A r \in R : Entry(what, r) \in GoodEntries
  PROVE  EntriesOf(what, refs) \in Seq(GoodEntries)
<1>1. Len(refs) \in Nat /\ DOMAIN refs = 1..Len(refs) /\ \A n \in 1..Len(refs) : refs[n] \in R
  BY LenProperties, ElementOfSeq
<1>2. \A n \in 1..Len(refs) : Entry(what, refs[n]) \in GoodEntries
  BY <1>1
<1>3. EntriesOf(what, refs) = [n \in 1..Len(refs) |-> Entry(what, refs[n])]
  BY <1>1 DEF EntriesOf
<1> QED BY <1>1, <1>2, <1>3, IsASeq

LEMMA EntriesGood ==
  ASSUME NEW a, DOMAIN recent = DOMAIN Ranked
  PROVE  Entries(a) \in Seq(GoodEntries)
<1> DEFINE
     roles == {a.form.role[f] : f \in DOMAIN a.form.role}
     open_ == a.people = "open"
     signup == a.form.kind = "signup"
     listed_ == {n \in DOMAIN recent : recent[n] \in Matches(a) /\ Standalone(recent[n])}
     items == EntriesOf("item", At(recent, listed_))
     people == IF open_ /\ roles \cap IdentityRoles # {}
               THEN EntriesOf("persona", Personas) ELSE <<>>
     known == IF open_ /\ signup /\ a.form.role[a.field] \in {"email", "username"}
              THEN EntriesOf("suggestion", Suggestions) ELSE <<>>
     generate == IF a.matches = "open" /\ open_ /\
                    (a.form.kind \in {"signup", "changePassword"} \/
                     roles \cap {"newPassword", "passwordConfirm"} # {})
                 THEN <<Entry("generate", None)>> ELSE <<>>
<1>1. Entries(a) = IF signup THEN ((generate \o known) \o people) \o items ELSE (items \o people) \o generate
  BY DEF Entries
<1>2. /\ \A r \in Match : Entry("item", r) \in GoodEntries
      /\ \A r \in STRING : Entry("persona", r) \in GoodEntries /\ Entry("suggestion", r) \in GoodEntries
      /\ Entry("generate", None) \in GoodEntries
  BY DEF Entry, GoodEntries
<1>3. <<>> \in Seq(GoodEntries)
  BY EmptySeq
<1>4. items \in Seq(GoodEntries)
  <2>1. Len(Ranked) \in Nat /\ DOMAIN recent = 1..Len(Ranked)
    BY PageAgentAssumption, LenProperties
  <2>2. \A k \in listed_ : recent[k] \in Match
    BY DEF Matches
  <2>3. listed_ \subseteq 1..Len(Ranked)
    BY <2>1
  <2>4. At(recent, listed_) \in Seq(Match)
    <3> HIDE DEF listed_
    <3> QED BY <2>1, <2>2, <2>3, AtKeeps
  <2> HIDE DEF listed_
  <2> QED BY <1>2, <2>4, EntriesOfGood
<1>5. people \in Seq(GoodEntries)
  <2>1. EntriesOf("persona", Personas) \in Seq(GoodEntries)
    BY <1>2, PageAgentAssumption, EntriesOfGood
  <2> QED BY <1>3, <2>1
<1>6. known \in Seq(GoodEntries)
  <2>1. EntriesOf("suggestion", Suggestions) \in Seq(GoodEntries)
    BY <1>2, PageAgentAssumption, EntriesOfGood
  <2> QED BY <1>3, <2>1
<1>7. generate \in Seq(GoodEntries)
  <2>1. <<Entry("generate", None)>> \in Seq(GoodEntries)
    BY <1>2
  <2> QED BY <1>3, <2>1
<1>8. PICK s1, s2, s3, s4 : s1 = items /\ s2 = people /\ s3 = known /\ s4 = generate
  OBVIOUS
<1> HIDE DEF items, people, known, generate, signup
<1>9. /\ s1 \in Seq(GoodEntries) /\ s2 \in Seq(GoodEntries)
      /\ s3 \in Seq(GoodEntries) /\ s4 \in Seq(GoodEntries)
  BY <1>4, <1>5, <1>6, <1>7, <1>8
<1>10. (s1 \o s2) \o s4 \in Seq(GoodEntries)
  BY <1>9, ConcatProperties
<1>11. ((s4 \o s3) \o s2) \o s1 \in Seq(GoodEntries)
  <2>1. (s4 \o s3) \in Seq(GoodEntries)
    BY <1>9, ConcatProperties
  <2>2. (s4 \o s3) \o s2 \in Seq(GoodEntries)
    BY <1>9, <2>1, ConcatProperties
  <2> QED BY <1>9, <2>2, ConcatProperties
<1> QED BY <1>1, <1>8, <1>10, <1>11

\* What the user sees of a good menu.
LEMMA VisibleOfMenu ==
  ASSUME menu # None, MenuOK(menu)
  PROVE  /\ VisibleEntries \in Seq(GoodEntries)
         /\ Cardinality(Fitting(menu)) \in Nat /\ Actionable = Cardinality(Fitting(menu)) + 1
<1>1. menu.entries \in Seq(GoodEntries)
  BY DEF MenuOK
<1>2. Len(menu.entries) \in Nat /\ DOMAIN menu.entries = 1..Len(menu.entries)
      /\ \A n \in 1..Len(menu.entries) : menu.entries[n] \in GoodEntries
  BY <1>1, LenProperties, ElementOfSeq
<1>3. VisibleEntries = At(menu.entries, Fitting(menu))
  BY DEF VisibleEntries, Fitting, Fits
<1>4. Fitting(menu) \subseteq 1..Len(menu.entries)
  BY <1>2 DEF Fitting
<1>5. \A k \in Fitting(menu) : menu.entries[k] \in GoodEntries
  BY <1>2, <1>4
<1>6. /\ VisibleEntries \in Seq(GoodEntries) /\ Len(VisibleEntries) = Cardinality(Fitting(menu))
      /\ Cardinality(Fitting(menu)) \in Nat
  <2>1. PICK P, s, b : P = Fitting(menu) /\ s = menu.entries /\ b = Len(menu.entries)
    OBVIOUS
  <2>2. b \in Nat /\ P \subseteq 1..b /\ \A k \in P : s[k] \in GoodEntries
    BY <1>2, <1>4, <1>5, <2>1
  <2>3. At(s, P) \in Seq(GoodEntries) /\ Len(At(s, P)) = Cardinality(P) /\ Cardinality(P) \in Nat
    BY <2>2, AtKeeps
  <2> QED BY <1>3, <2>1, <2>3
<1> QED BY <1>6 DEF Actionable

\* A highlight that is nowhere yet is within any list.
LEMMA FreshMenu ==
  ASSUME NEW m, DOMAIN m = {"anchor", "form", "entries", "active", "query"},
         m.anchor \in Field, DOMAIN m.form.role \subseteq Field, m.entries \in Seq(GoodEntries),
         m.active = 0
  PROVE  MenuOK(m)
<1>1. Len(m.entries) \in Nat /\ DOMAIN m.entries = 1..Len(m.entries)
  BY LenProperties
<1>2. Fitting(m) \subseteq 1..Len(m.entries)
  BY <1>1 DEF Fitting
<1>3. Cardinality(Fitting(m)) \in Nat
  BY <1>1, <1>2, Ranks
<1>4. m.active \in 0..(Cardinality(Fitting(m)) + 1)
  BY <1>3
<1> QED BY <1>4 DEF MenuOK

LEMMA AgentInvInit == AgentInit => AgentInv
<1> SUFFICES ASSUME AgentInit PROVE AgentInv
  OBVIOUS
<1>1. dom \in Layout /\ FormsOK(forms) /\ wired \subseteq Field
  BY ThenDetectedOK DEF AgentInit
<1>2. swaps \in 0..MaxSwaps
  BY PageAgentAssumption DEF AgentInit
<1> QED BY <1>1, <1>2 DEF AgentInit, AgentInv, AsksOK

LEMMA MutateKeepsAgent ==
  ASSUME AgentInv, NEW layout \in Layout, NEW seen \in BOOLEAN, Mutate(layout, seen)
  PROVE  AgentInv'
<1>1. swaps' \in 0..MaxSwaps
  BY PageAgentAssumption DEF Mutate, AgentInv
<1>2. focus' \in Field \cup {None}
  BY DEF Mutate, AgentInv
<1>3. dom' \in Layout /\ dirty' \in BOOLEAN
  BY DEF Mutate, AgentInv
<1>4. unseen' \subseteq Field
  BY DEF Mutate, AgentInv, MenuOK
<1> QED BY <1>1, <1>2, <1>3, <1>4 DEF Mutate, AgentInv, AsksOK, FormsOK, MenuOK, Fitting, PromptOK

LEMMA RescanKeepsAgent ==
  ASSUME AgentInv, Rescan
  PROVE  AgentInv'
<1>1. dom \in Layout
  BY DEF AgentInv
<1>2. FormsOK(forms') /\ wired' \subseteq Field
  BY <1>1, ThenDetectedOK DEF Rescan, Scanned, AgentInv
<1>3. dirty' \in BOOLEAN /\ (menu' = None \/ menu' = menu)
  BY DEF Rescan
<1>4. menu' # None => MenuOK(menu')
  BY <1>3 DEF AgentInv
<1> QED BY <1>1, <1>2, <1>3, <1>4 DEF Rescan, AgentInv, AsksOK, PromptOK

LEMMA AsksKeepAgent ==
  ASSUME AgentInv, \/ OpenEarly \/ \E f \in Field : Focus(f)
                   \/ \E a \in asks : AnswerMatches(a) \/ AnswerPeople(a)
  PROVE  AgentInv'
<1>1. dom \in Layout /\ AsksOK(asks) /\ FormsOK(forms)
  BY DEF AgentInv
<1>2. CASE OpenEarly
  <2>1. PICK fields : Opened(fields, forms)
    BY <1>2 DEF OpenEarly
  <2>2. FormsOK(forms') /\ AsksOK(asks')
    BY <1>1, <2>1, OpenedKeeps
  <2>3. early' \in BOOLEAN
    BY <1>2 DEF OpenEarly
  <2> QED BY <1>2, <2>2, <2>3 DEF OpenEarly, AgentInv, MenuOK, Fitting, PromptOK
<1>3. ASSUME NEW f \in Field, Focus(f) PROVE AgentInv'
  <2>1. FormsOK(forms') /\ AsksOK(asks')
    BY <1>1, <1>3, OpenedKeeps DEF Focus
  <2> QED BY <1>3, <2>1 DEF Focus, AgentInv, MenuOK, Fitting, PromptOK
<1>4. ASSUME NEW a \in asks, AnswerMatches(a) \/ AnswerPeople(a) PROVE AgentInv'
  <2>1. PICK b : /\ asks' = (asks \ {a}) \cup {b}
                 /\ DOMAIN b = DOMAIN a /\ b.field = a.field /\ b.form = a.form
    <3>1. DOMAIN a = {"field", "form", "matches", "people"}
      BY <1>1 DEF AsksOK
    <3>2. CASE AnswerMatches(a)
      <4>1. PICK w : asks' = (asks \ {a}) \cup {[a EXCEPT !.matches = w]}
        BY <3>2 DEF AnswerMatches
      <4>2. PICK b : b = [a EXCEPT !.matches = w]
        OBVIOUS
      <4>3. DOMAIN b = DOMAIN a /\ b.field = a.field /\ b.form = a.form
        BY <3>1, <4>2
      <4> QED BY <4>1, <4>2, <4>3
    <3>3. CASE AnswerPeople(a)
      <4>1. PICK w : asks' = (asks \ {a}) \cup {[a EXCEPT !.people = w]}
        BY <3>3 DEF AnswerPeople
      <4>2. PICK b : b = [a EXCEPT !.people = w]
        OBVIOUS
      <4>3. DOMAIN b = DOMAIN a /\ b.field = a.field /\ b.form = a.form
        BY <3>1, <4>2
      <4> QED BY <4>1, <4>2, <4>3
    <3> QED BY <1>4, <3>2, <3>3
  <2>2. AsksOK(asks')
    BY <1>1, <2>1 DEF AsksOK
  <2>3. UNCHANGED <<dom, swaps, unseen, forms, wired, dirty, early, focus, menu, prompt, tries, unlocked, recent>>
    BY <1>4 DEF AnswerMatches, AnswerPeople
  <2> QED BY <2>2, <2>3 DEF AgentInv, FormsOK, MenuOK, Fitting, PromptOK
<1> QED BY <1>2, <1>3, <1>4

LEMMA ShowKeepsAgent ==
  ASSUME AgentInv, NEW a \in asks, Show(a)
  PROVE  AgentInv'
<1>1. asks' = asks \ {a} /\ UNCHANGED <<dom, swaps, unseen, forms, wired, early, focus, tries, unlocked, recent>>
  BY DEF Show
<1>2. AsksOK(asks')
  BY <1>1 DEF AgentInv, AsksOK
<1>3. a.field \in Field /\ DOMAIN a.form.role \subseteq Field
  BY DEF AgentInv, AsksOK
<1>4. CASE a.form.role[a.field] = "totp" /\ CodeItems(a) # {}
  <2>1. PICK i \in CodeItems(a) : prompt' = [item |-> i, field |-> a.field, notes |-> TRUE]
    BY <1>4 DEF Show
  <2>2. i \in Match
    BY DEF CodeItems, Matches
  <2>3. PromptOK(prompt')
    BY <1>3, <2>1, <2>2 DEF PromptOK
  <2>4. dirty' = TRUE /\ menu' = menu
    BY <1>4 DEF Show
  <2> QED BY <1>1, <1>2, <2>3, <2>4 DEF AgentInv, FormsOK, MenuOK, Fitting
<1>5. CASE ~(a.form.role[a.field] = "totp" /\ CodeItems(a) # {})
  <2>1. Shown(a) /\ prompt' = prompt
    BY <1>5 DEF Show
  <2>2. dirty' \in BOOLEAN
    BY <2>1 DEF Shown, AgentInv
  <2>3. menu' # None => MenuOK(menu')
    <3>1. CASE menu' = menu
      BY <3>1 DEF AgentInv
    <3>2. CASE menu' = [anchor |-> a.field, form |-> a.form, entries |-> Entries(a),
                        active |-> 0, query |-> None]
      <4>1. Entries(a) \in Seq(GoodEntries)
        BY EntriesGood DEF AgentInv
      <4>2. PICK m : m = menu'
        OBVIOUS
      <4>3. /\ DOMAIN m = {"anchor", "form", "entries", "active", "query"}
            /\ m.anchor \in Field /\ DOMAIN m.form.role \subseteq Field
            /\ m.entries \in Seq(GoodEntries) /\ m.active = 0
        BY <1>3, <3>2, <4>1, <4>2
      <4>4. MenuOK(m)
        BY <4>3, FreshMenu
      <4> QED BY <4>2, <4>4
    <3> QED BY <2>1, <3>1, <3>2 DEF Shown
  <2> QED BY <1>1, <1>2, <2>1, <2>2, <2>3 DEF AgentInv, FormsOK, PromptOK
<1> QED BY <1>4, <1>5

LEMMA Around ==
  ASSUME NEW n \in Nat, n > 0, NEW k \in Nat
  PROVE  k % n \in 0..(n - 1)
OBVIOUS

\* The keys of the open menu, and what closes it.
LEMMA KeysKeepAgent ==
  ASSUME AgentInv, \/ ArrowDown \/ ArrowUp \/ CloseMenu
                   \/ \E q \in {None} \cup Match : TypeQuery(q)
  PROVE  AgentInv'
<1>1. menu # None => MenuOK(menu)
  BY DEF AgentInv
<1>2. ASSUME NEW to \in 1..Actionable, Key(to) PROVE AgentInv'
  <2>1. menu # None /\ menu' = [menu EXCEPT !.active = to]
        /\ UNCHANGED <<dom, swaps, unseen, forms, wired, dirty, early, focus, asks, prompt, tries, unlocked, recent>>
    BY <1>2 DEF Key
  <2>2. PICK m, o : m = menu' /\ o = menu
    OBVIOUS
  <2>3. /\ DOMAIN m = {"anchor", "form", "entries", "active", "query"}
        /\ m.anchor = o.anchor /\ m.form = o.form /\ m.entries = o.entries /\ m.query = o.query
        /\ m.active = to
    BY <1>1, <2>1, <2>2 DEF MenuOK
  <2>4. Fitting(m) = Fitting(o)
    BY <2>3 DEF Fitting
  <2>5. Cardinality(Fitting(o)) \in Nat /\ Actionable = Cardinality(Fitting(o)) + 1
    BY <1>1, <2>1, <2>2, VisibleOfMenu
  <2>6. m.active \in 0..(Cardinality(Fitting(m)) + 1)
    BY <2>3, <2>4, <2>5
  <2>7. MenuOK(m)
    BY <1>1, <2>1, <2>2, <2>3, <2>6 DEF MenuOK
  <2> QED BY <2>1, <2>2, <2>7 DEF AgentInv, FormsOK, AsksOK, PromptOK
<1>3. menu # None => Actionable \in Nat /\ Actionable > 0 /\ menu.active \in 0..Actionable
  <2> SUFFICES ASSUME menu # None
               PROVE  Actionable \in Nat /\ Actionable > 0 /\ menu.active \in 0..Actionable
    OBVIOUS
  <2>1. Cardinality(Fitting(menu)) \in Nat /\ Actionable = Cardinality(Fitting(menu)) + 1
    BY <1>1, VisibleOfMenu
  <2> QED BY <1>1, <2>1 DEF MenuOK
<1>4. CASE ArrowDown
  <2>1. PICK n, k : n = Actionable /\ k = menu.active
    OBVIOUS
  <2>2. n \in Nat /\ n > 0 /\ k \in Nat
    BY <1>3, <1>4, <2>1 DEF ArrowDown
  <2>3. k % n \in 0..(n - 1)
    BY <2>2, Around
  <2>4. (k % n) + 1 \in 1..n
    BY <2>2, <2>3
  <2>5. Key((k % n) + 1)
    BY <1>4, <2>1 DEF ArrowDown
  <2> QED BY <1>2, <2>1, <2>4, <2>5
<1>5. CASE ArrowUp
  <2>1. PICK to : to = IF menu.active <= 1 THEN Actionable ELSE menu.active - 1
    OBVIOUS
  <2>2. to \in 1..Actionable
    BY <1>3, <1>5, <2>1 DEF ArrowUp
  <2>3. Key(to)
    BY <1>5, <2>1 DEF ArrowUp
  <2> QED BY <1>2, <2>2, <2>3
<1>6. CASE CloseMenu
  BY <1>6 DEF CloseMenu, AgentInv, FormsOK, AsksOK, PromptOK
<1>7. ASSUME NEW q, TypeQuery(q) PROVE AgentInv'
  <2>1. menu # None /\ menu' = [menu EXCEPT !.query = q, !.active = 0]
        /\ UNCHANGED <<dom, swaps, unseen, forms, wired, dirty, early, focus, asks, prompt, tries, unlocked, recent>>
    BY <1>7 DEF TypeQuery
  <2>2. PICK m : m = menu'
    OBVIOUS
  <2>3. /\ DOMAIN m = {"anchor", "form", "entries", "active", "query"}
        /\ m.anchor \in Field /\ DOMAIN m.form.role \subseteq Field
        /\ m.entries \in Seq(GoodEntries) /\ m.active = 0
    BY <1>1, <2>1, <2>2 DEF MenuOK
  <2>4. MenuOK(m)
    BY <2>3, FreshMenu
  <2> QED BY <2>1, <2>2, <2>4 DEF AgentInv, FormsOK, AsksOK, PromptOK
<1> QED BY <1>4, <1>5, <1>6, <1>7

\* The code of an item is looked for in the fields of the page.
LEMMA CodeFieldsOfPage ==
  ASSUME dom \in Layout
  PROVE  CodeFields \subseteq Field
BY DomIsOfFields DEF CodeFields

LEMMA UsedKeeps ==
  ASSUME DOMAIN recent = DOMAIN Ranked, NEW e, Used(e)
  PROVE  DOMAIN recent' = DOMAIN Ranked
<1>1. CASE e.what = "item" /\ unlocked
  BY <1>1 DEF Used
<1>2. CASE ~(e.what = "item" /\ unlocked)
  BY <1>2 DEF Used
<1> QED BY <1>1, <1>2

LEMMA ChooseKeepsAgent ==
  ASSUME AgentInv, NEW n, Choose(n)
  PROVE  AgentInv'
<1>1. menu # None /\ MenuOK(menu) /\ n \in DOMAIN VisibleEntries
  BY DEF Choose, AgentInv
<1>2. VisibleEntries \in Seq(GoodEntries)
  BY <1>1, VisibleOfMenu
<1>3. PICK e : e = VisibleEntries[n]
  OBVIOUS
<1>4. e \in GoodEntries
  <2>1. n \in 1..Len(VisibleEntries)
    BY <1>1, <1>2, LenProperties
  <2> QED BY <1>2, <1>3, <2>1, ElementOfSeq
<1>5. /\ menu' = None /\ dirty' = TRUE /\ UNCHANGED <<dom, swaps, unseen, wired, early, unlocked>>
      /\ Filled(FillOf(e), wired, forms) /\ Used(e) /\ CodeSought(e)
  BY <1>3 DEF Choose
<1>6. dom \in Layout /\ AsksOK(asks) /\ FormsOK(forms) /\ focus \in Field \cup {None}
  BY DEF AgentInv
<1>7. FormsOK(forms') /\ AsksOK(asks') /\ focus' \in Field \cup {None}
  BY <1>5, <1>6, FilledKeeps
<1>8. DOMAIN recent' = DOMAIN Ranked
  BY <1>5, UsedKeeps DEF AgentInv
<1>9. (prompt' # None => PromptOK(prompt')) /\ tries' \subseteq Match
  <2>1. CASE e.what = "item" /\ MatchOf[e.ref].code
    <3>1. e.ref \in Match
      BY <1>4, <2>1 DEF GoodEntries
    <3>2. CASE CodeFields # {}
      <4>1. PICK f \in CodeFields : prompt' = [item |-> e.ref, field |-> f, notes |-> FALSE]
        BY <1>5, <2>1, <3>2 DEF CodeSought
      <4>2. PromptOK(prompt')
        BY <1>6, <3>1, <4>1, CodeFieldsOfPage DEF PromptOK
      <4>3. tries' = tries
        BY <1>5, <2>1, <3>2 DEF CodeSought
      <4> QED BY <4>2, <4>3 DEF AgentInv
    <3>3. CASE CodeFields = {}
      <4>1. tries' = tries \cup {e.ref} /\ prompt' = prompt
        BY <1>5, <2>1, <3>3 DEF CodeSought
      <4> QED BY <3>1, <4>1 DEF AgentInv, PromptOK
    <3> QED BY <3>2, <3>3
  <2>2. CASE ~(e.what = "item" /\ MatchOf[e.ref].code)
    <3>1. tries' = tries /\ prompt' = prompt
      BY <1>5, <2>2 DEF CodeSought
    <3> QED BY <3>1 DEF AgentInv, PromptOK
  <2> QED BY <2>1, <2>2
<1>10. dom' \in Layout /\ swaps' \in 0..MaxSwaps /\ wired' \subseteq Field /\ dirty' \in BOOLEAN
       /\ unseen' \subseteq Field /\ early' \in BOOLEAN /\ unlocked' \in BOOLEAN
  BY <1>5 DEF AgentInv
<1> QED BY <1>5, <1>7, <1>8, <1>9, <1>10 DEF AgentInv

LEMMA PopupFillKeepsAgent ==
  ASSUME AgentInv, NEW i, PopupFill(i)
  PROVE  AgentInv'
<1>1. dom \in Layout /\ AsksOK(asks) /\ FormsOK(forms) /\ focus \in Field \cup {None} /\ wired \subseteq Field
  BY DEF AgentInv
<1>2. PICK known : known = IF forms = {} THEN DetectForms ELSE forms
  OBVIOUS
<1>3. FormsOK(known)
  BY <1>1, <1>2, NowDetectedOK
<1>4. PICK given, on : /\ Filled(given, on, known) /\ wired' = on
                       /\ on = IF forms = {} THEN wired \cup WiredBy(known) ELSE wired
  BY <1>2 DEF PopupFill
<1>5. FormsOK(forms') /\ AsksOK(asks') /\ focus' \in Field \cup {None}
  BY <1>1, <1>3, <1>4, FilledKeeps
<1>6. wired' \subseteq Field
  BY <1>1, <1>2, <1>4, ThenDetectedOK
<1>7. /\ menu' = None \/ menu' = menu
      /\ dirty' = (dirty \/ menu' # menu)
      /\ UNCHANGED <<dom, swaps, unseen, early, prompt, tries, unlocked, recent>>
  BY DEF PopupFill
<1>8. menu' # None => MenuOK(menu')
  BY <1>7 DEF AgentInv
<1>9. dirty' \in BOOLEAN
  BY <1>7 DEF AgentInv
<1> QED BY <1>5, <1>6, <1>7, <1>8, <1>9 DEF AgentInv, PromptOK

LEMMA PromptKeepsAgent ==
  ASSUME AgentInv, PromptFill \/ PromptDismiss \/ \E i \in Match : TryCode(i)
  PROVE  AgentInv'
<1>1. dom \in Layout /\ AsksOK(asks) /\ FormsOK(forms) /\ focus \in Field \cup {None}
      /\ DOMAIN recent = DOMAIN Ranked
  BY DEF AgentInv
<1>2. CASE PromptFill
  <2>1. PICK given : Filled(given, wired, forms)
    BY <1>2 DEF PromptFill
  <2>2. FormsOK(forms') /\ AsksOK(asks') /\ focus' \in Field \cup {None}
    BY <1>1, <2>1, FilledKeeps
  <2>3. DOMAIN recent' = DOMAIN Ranked
    <3>1. (\E e : Used(e)) \/ recent' = recent
      BY <1>2 DEF PromptFill
    <3> QED BY <1>1, <3>1, UsedKeeps
  <2>4. prompt' = None /\ dirty' = TRUE /\ UNCHANGED <<dom, swaps, unseen, wired, early, menu, tries, unlocked>>
    BY <1>2 DEF PromptFill
  <2> QED BY <2>2, <2>3, <2>4 DEF AgentInv, MenuOK, Fitting
<1>3. CASE PromptDismiss
  BY <1>3 DEF PromptDismiss, AgentInv, FormsOK, AsksOK, MenuOK, Fitting
<1>4. ASSUME NEW i \in Match, TryCode(i) PROVE AgentInv'
  <2>1. tries' \in {tries, tries \ {i}}
        /\ UNCHANGED <<dom, swaps, unseen, forms, wired, early, focus, asks, menu, unlocked, recent>>
    BY <1>4 DEF TryCode
  <2>2. (prompt' # None => PromptOK(prompt')) /\ dirty' \in BOOLEAN
    <3>1. CASE CodeFields # {}
      <4>1. PICK f \in CodeFields : prompt' = [item |-> i, field |-> f, notes |-> FALSE]
        BY <1>4, <3>1 DEF TryCode
      <4>2. PromptOK(prompt')
        BY <1>1, <4>1, CodeFieldsOfPage DEF PromptOK
      <4> QED BY <1>4, <3>1, <4>2 DEF TryCode
    <3>2. CASE CodeFields = {}
      BY <1>4, <3>2 DEF TryCode, AgentInv, PromptOK
    <3> QED BY <3>1, <3>2
  <2> QED BY <2>1, <2>2 DEF AgentInv, FormsOK, AsksOK, MenuOK, Fitting
<1> QED BY <1>2, <1>3, <1>4

LEMMA AgentInvKept == AgentInv /\ [AgentNext]_agentVars => AgentInv'
<1> SUFFICES ASSUME AgentInv, [AgentNext]_agentVars PROVE AgentInv'
  OBVIOUS
<1>1. ASSUME NEW layout \in Layout, NEW seen \in BOOLEAN, Mutate(layout, seen) PROVE AgentInv'
  BY <1>1, MutateKeepsAgent
<1>2. CASE Rescan
  BY <1>2, RescanKeepsAgent
<1>3. CASE OpenEarly \/ \E f \in Field : Focus(f)
  BY <1>3, AsksKeepAgent
<1>4. CASE Answering
  BY <1>4, AsksKeepAgent, ShowKeepsAgent DEF Answering
<1>5. CASE ArrowDown \/ ArrowUp \/ CloseMenu \/ \E q \in {None} \cup Match : TypeQuery(q)
  BY <1>5, KeysKeepAgent
<1>6. CASE Enter
  <2>1. CloseMenu \/ Choose(menu.active)
    BY <1>6 DEF Enter
  <2> QED BY <2>1, KeysKeepAgent, ChooseKeepsAgent
<1>7. CASE menu # None /\ \E n \in DOMAIN menu.entries : Choose(n)
  BY <1>7, ChooseKeepsAgent
<1>8. ASSUME NEW i \in Match, PopupFill(i) PROVE AgentInv'
  BY <1>8, PopupFillKeepsAgent
<1>9. CASE PromptFill \/ PromptDismiss \/ \E i \in Match : TryCode(i)
  BY <1>9, PromptKeepsAgent
<1>10. CASE AgentToggleLock
  BY <1>10 DEF AgentToggleLock, AgentInv, FormsOK, AsksOK, MenuOK, Fitting, PromptOK
<1>11. CASE UNCHANGED agentVars
  BY <1>11 DEF agentVars, AgentInv, FormsOK, AsksOK, MenuOK, Fitting, PromptOK
<1> QED BY <1>1, <1>2, <1>3, <1>4, <1>5, <1>6, <1>7, <1>8, <1>9, <1>10, <1>11 DEF AgentNext

LEMMA AgentInvTypes == AgentInv => AgentTypeOK
BY DEF AgentInv, AgentTypeOK, AsksOK, MenuOK, PromptOK

LEMMA AgentInvListed == AgentInv => HighlightIsListed
<1> SUFFICES ASSUME AgentInv, menu # None PROVE menu.active \in 0..Actionable
  BY DEF HighlightIsListed
<1>1. MenuOK(menu)
  BY DEF AgentInv
<1>2. Actionable = Cardinality(Fitting(menu)) + 1
  BY <1>1, VisibleOfMenu
<1> QED BY <1>1, <1>2 DEF MenuOK

\* However the list of the menu is narrowed and walked, and whatever the page,
\* the vault and the worker's late answers do meanwhile, the highlight is on an
\* entry that is listed or on the footer.  (menu.ts)
THEOREM HighlightStaysListed == AgentSpec => []HighlightIsListed
<1> QED BY AgentInvInit, AgentInvKept, AgentInvListed, PTL DEF AgentSpec

(***************************************************************************)
(* The PIN box                                                             *)
(***************************************************************************)
Tries == [by : SUBSET {"hook", "hand"}, text : Text]

\* What is typed is long enough while it is about to be tried by itself.
PinInv ==
  /\ shown \in BOOLEAN /\ typed \in Text /\ debounce \in BOOLEAN /\ attempted \subseteq Enough
  /\ turns \in Seq(Enough) /\ checking \in Enough \cup {NoTry}
  /\ unlocks \in Seq(Tries)
  /\ kdf \in {"none", "new", "up", "gone"}
  /\ debounce => typed \in Enough

LEMMA PinInvInit == PinInit => PinInv
<1>1. <<>> \in Seq(Enough) /\ <<>> \in Seq(Tries)
  BY EmptySeq
<1> QED BY <1>1, PinBoxAssumption DEF PinInit, PinInv

LEMMA AskedUnlock ==
  ASSUME PinInv, NEW by \in {"hook", "hand"}, NEW text \in Text, AskUnlock(by, text)
  PROVE  unlocks' \in Seq(Tries)
<1>1. unlocks \in Seq(Tries) /\ Len(unlocks) \in Nat
  BY LenProperties DEF PinInv
<1>2. PICK n : n = Len(unlocks)
  OBVIOUS
<1>3. CASE n > 0 /\ unlocks[n].text = text
  <2>1. n \in 1..Len(unlocks) /\ unlocks[n] \in Tries
    BY <1>1, <1>2, <1>3, ElementOfSeq
  <2>2. PICK e : e = [unlocks[n] EXCEPT !.by = @ \cup {by}]
    OBVIOUS
  <2>3. e \in Tries
    BY <2>1, <2>2 DEF Tries
  <2>4. unlocks' = [unlocks EXCEPT ![n] = e]
    BY <1>2, <1>3, <2>2 DEF AskUnlock
  <2> QED BY <1>1, <2>1, <2>3, <2>4, ExceptSeq
<1>4. CASE ~(n > 0 /\ unlocks[n].text = text)
  <2>1. PICK e : e = [by |-> {by}, text |-> text]
    OBVIOUS
  <2>2. e \in Tries
    BY <2>1 DEF Tries
  <2>3. unlocks' = Append(unlocks, e)
    BY <1>2, <1>4, <2>1 DEF AskUnlock
  <2> QED BY <1>1, <2>2, <2>3, AppendProperties
<1> QED BY <1>3, <1>4

LEMMA AnsweredPin ==
  ASSUME PinInv, NEW opened \in BOOLEAN, unlocks # <<>>, Answer(opened),
         kdf' \in {"none", "new", "up", "gone"}
  PROVE  PinInv'
<1>1. Tail(unlocks) \in Seq(Tries)
  BY HeadTailProperties DEF PinInv
<1>2. unlocks' \in Seq(Tries) /\ turns' = turns
  BY <1>1 DEF Answer
<1>3. checking' \in Enough \cup {NoTry}
  BY DEF Answer, PinInv
<1>4. CASE opened
  BY <1>2, <1>3, <1>4, PinBoxAssumption DEF Answer, PinInv
<1>5. CASE ~opened
  BY <1>2, <1>3, <1>5 DEF Answer, PinInv
<1> QED BY <1>4, <1>5

LEMMA PinInvKept == PinInv /\ [PinNext]_pinVars => PinInv'
<1> SUFFICES ASSUME PinInv, [PinNext]_pinVars PROVE PinInv'
  OBVIOUS
<1>1. CASE TakeTurn
  <2>1. turns # <<>> /\ turns \in Seq(Enough)
    BY <1>1 DEF TakeTurn, TurnDue, PinInv
  <2>2. Head(turns) \in Enough /\ Tail(turns) \in Seq(Enough)
    BY <2>1, HeadTailProperties
  <2>3. turns' = Tail(turns) /\ UNCHANGED <<shown, typed, debounce, attempted, kdf, strokes, presses>>
    BY <1>1 DEF TakeTurn
  <2>4. CASE Head(turns) = typed
    <3>1. checking' = typed /\ AskUnlock("hook", typed)
      BY <1>1, <2>4 DEF TakeTurn
    <3>2. typed \in Text
      BY DEF PinInv
    <3>3. unlocks' \in Seq(Tries)
      BY <3>1, <3>2, AskedUnlock
    <3> QED BY <2>2, <2>3, <2>4, <3>1, <3>3 DEF PinInv
  <2>5. CASE Head(turns) # typed
    <3>1. UNCHANGED <<checking, unlocks>>
      BY <1>1, <2>5 DEF TakeTurn
    <3> QED BY <2>2, <2>3, <3>1 DEF PinInv
  <2> QED BY <2>4, <2>5
<1>2. ASSUME NEW text \in Text, Type(text) PROVE PinInv'
  <2>1. typed' = text /\ debounce' = (text \in Enough \ attempted)
        /\ UNCHANGED <<shown, attempted, turns, checking, unlocks, kdf, presses>>
    BY <1>2 DEF Type, Rearmed
  <2>2. CASE text \in Enough \ attempted
    <3>1. debounce' = TRUE /\ typed' \in Enough
      BY <2>1, <2>2
    <3> QED BY <2>1, <3>1 DEF PinInv
  <2>3. CASE text \notin Enough \ attempted
    <3>1. ~debounce'
      BY <2>1, <2>3
    <3>2. (text \in Enough \ attempted) \in BOOLEAN
      OBVIOUS
    <3>3. debounce' \in BOOLEAN
      BY <2>1, <3>2, Zenon
    <3> QED BY <2>1, <3>1, <3>3 DEF PinInv
  <2> QED BY <2>2, <2>3
<1>3. CASE Debounced
  <2>1. typed \in Enough
    BY <1>3 DEF Debounced, PinInv
  <2>2. turns' \in Seq(Enough)
    BY <1>3, <2>1, AppendProperties DEF Debounced, PinInv
  <2> QED BY <1>3, <2>1, <2>2 DEF Debounced, PinInv
<1>4. CASE Press
  <2>1. typed \in Text /\ AskUnlock("hand", typed)
    BY <1>4 DEF Press, PinInv
  <2>2. unlocks' \in Seq(Tries)
    BY <2>1, AskedUnlock
  <2> QED BY <1>4, <2>2 DEF Press, PinInv
<1>5. CASE DeriveDone
  <2>1. unlocks # <<>> /\ Answer(Head(unlocks).text = Right)
    BY <1>5 DEF DeriveDone
  <2>2. kdf' \in {"none", "new", "up", "gone"}
    BY <1>5 DEF DeriveDone, PinInv
  <2>3. (Head(unlocks).text = Right) \in BOOLEAN
    OBVIOUS
  <2> QED BY <2>1, <2>2, <2>3, AnsweredPin
<1>6. CASE WorkerFails
  BY <1>6, AnsweredPin DEF WorkerFails
<1>7. CASE BoxBack
  BY <1>7 DEF BoxBack, Rearmed, PinInv
<1>8. CASE UNCHANGED pinVars
  BY <1>8 DEF pinVars, PinInv
<1> QED BY <1>1, <1>2, <1>3, <1>4, <1>5, <1>6, <1>7, <1>8 DEF PinNext

LEMMA PinInvTypes == PinInv => PinTypeOK
BY DEF PinInv, PinTypeOK, Tries

(***************************************************************************)
(* The phone                                                               *)
(***************************************************************************)
LEMMA PhoneTypeInit == PhoneInit => PhoneTypeOK
<1> SUFFICES ASSUME PhoneInit PROVE PhoneTypeOK
  OBVIOUS
<1>1. writes \in Seq(0..MaxCopies)
  BY EmptySeq DEF PhoneInit
<1>2. clipboard \in 0..MaxCopies /\ timer \in 0..MaxCopies /\ copies \in 0..MaxCopies
  BY PhoneAssumption DEF PhoneInit
<1>3. ticking \subseteq [of : 1..MaxCopies, over : BOOLEAN]
  BY DEF PhoneInit
<1> QED BY <1>1, <1>2, <1>3 DEF PhoneInit, PhoneTypeOK

LEMMA LockedTyped ==
  ASSUME PhoneTypeOK, Locked, UNCHANGED hidden, away' \in {"off", "set", "spent"}, overran' \in BOOLEAN
  PROVE  PhoneTypeOK'
BY PhoneAssumption DEF Locked, Cancelled, PhoneTypeOK

LEMMA ClipTyped ==
  ASSUME PhoneTypeOK, Clip \/ DismissBanner
  PROVE  PhoneTypeOK'
<1> USE PhoneAssumption
<1>1. CASE CopySecret
  <2>1. copies' \in 1..MaxCopies /\ writes' = Append(writes, copies')
    BY <1>1 DEF CopySecret, PhoneTypeOK
  <2>2. writes' \in Seq(0..MaxCopies)
    BY <2>1, AppendProperties DEF PhoneTypeOK
  <2>3. ticking' \subseteq [of : 1..MaxCopies, over : BOOLEAN] /\ timer' \in 0..MaxCopies
    BY <1>1 DEF CopySecret, Cancelled, PhoneTypeOK
  <2>4. UNCHANGED <<screenVars, awayVars, clipboard, status, letGo>>
    BY <1>1 DEF CopySecret
  <2> QED BY <2>1, <2>2, <2>3, <2>4 DEF PhoneTypeOK, screenVars, awayVars
<1>2. CASE WriteGranted
  <2>1. PICK n : n = Head(writes)
    OBVIOUS
  <2>2. n \in 0..MaxCopies /\ writes' \in Seq(0..MaxCopies)
    BY <1>2, <2>1, HeadTailProperties DEF WriteGranted, PhoneTypeOK
  <2>3. clipboard' = n /\ letGo' = FALSE /\ UNCHANGED <<screenVars, awayVars, copies>>
    BY <1>2, <2>1 DEF WriteGranted
  <2>4. /\ ticking' \subseteq [of : 1..MaxCopies, over : BOOLEAN] /\ timer' \in 0..MaxCopies
        /\ status' \in {"idle", "copied", "cleared", "clear-failed", "copy-failed"}
    <3>1. CASE n = 0
      BY <1>2, <2>1, <3>1 DEF WriteGranted, PhoneTypeOK
    <3>2. CASE n # 0
      <4>1. n \in 1..MaxCopies
        BY <2>2, <3>2
      <4>2. /\ status' = "copied" /\ timer' = n
            /\ ticking' = ticking \cup {[of |-> n, over |-> FALSE]}
        BY <1>2, <2>1, <3>2 DEF WriteGranted
      <4>3. [of |-> n, over |-> FALSE] \in [of : 1..MaxCopies, over : BOOLEAN]
        BY <4>1
      <4>4. ticking \subseteq [of : 1..MaxCopies, over : BOOLEAN]
        BY DEF PhoneTypeOK
      <4>5. ticking' \subseteq [of : 1..MaxCopies, over : BOOLEAN]
        BY <4>2, <4>3, <4>4
      <4> QED BY <2>2, <4>2, <4>5
    <3> QED BY <3>1, <3>2
  <2> QED BY <2>2, <2>3, <2>4 DEF PhoneTypeOK, screenVars, awayVars
<1>3. CASE WriteRefused
  <2>1. writes' \in Seq(0..MaxCopies)
    BY <1>3, HeadTailProperties DEF WriteRefused, PhoneTypeOK
  <2> QED BY <1>3, <2>1 DEF WriteRefused, PhoneTypeOK, screenVars, awayVars
<1>4. ASSUME NEW i \in ticking, NEW over \in BOOLEAN, Tick(i, over)
      PROVE  PhoneTypeOK'
  <2>1. UNCHANGED <<screenVars, awayVars, clipboard, copies, letGo>>
    BY <1>4 DEF Tick
  <2>2. CASE over
    <3>1. /\ ticking' = {IF j = i THEN [j EXCEPT !.over = TRUE] ELSE j : j \in Cancelled}
          /\ timer' = 0 /\ writes' = Append(writes, 0) /\ status' = status
      BY <1>4, <2>2 DEF Tick
    <3>2. writes' \in Seq(0..MaxCopies)
      BY <3>1, AppendProperties DEF PhoneTypeOK
    <3>3. ticking' \subseteq [of : 1..MaxCopies, over : BOOLEAN]
      <4>1. ASSUME NEW j \in Cancelled
            PROVE  /\ j \in [of : 1..MaxCopies, over : BOOLEAN]
                   /\ [j EXCEPT !.over = TRUE] \in [of : 1..MaxCopies, over : BOOLEAN]
        <5>1. j \in [of : 1..MaxCopies, over : BOOLEAN]
          BY DEF Cancelled, PhoneTypeOK
        <5>2. [j EXCEPT !.over = TRUE] \in [of : 1..MaxCopies, over : BOOLEAN]
          BY <5>1
        <5> QED BY <5>1, <5>2
      <4>2. ASSUME NEW k \in ticking' PROVE k \in [of : 1..MaxCopies, over : BOOLEAN]
        <5>1. PICK j \in Cancelled : k = IF j = i THEN [j EXCEPT !.over = TRUE] ELSE j
          BY <3>1
        <5> QED BY <4>1, <5>1
      <4> QED BY <4>2
    <3> QED BY <2>1, <3>1, <3>2, <3>3 DEF PhoneTypeOK, screenVars, awayVars
  <2>3. CASE ~over
    <3>1. status' = "copied" /\ UNCHANGED <<ticking, timer, writes>>
      BY <1>4, <2>3 DEF Tick
    <3> QED BY <2>1, <3>1 DEF PhoneTypeOK, screenVars, awayVars
  <2> QED BY <2>2, <2>3
<1>5. CASE DismissBanner
  BY <1>5 DEF DismissBanner, PhoneTypeOK, screenVars, awayVars
<1> QED BY <1>1, <1>2, <1>3, <1>4, <1>5 DEF Clip

LEMMA PhoneTypeKept == PhoneTypeOK /\ [PhoneNext]_phoneVars => PhoneTypeOK'
<1> SUFFICES ASSUME PhoneTypeOK, [PhoneNext]_phoneVars PROVE PhoneTypeOK'
  OBVIOUS
<1>1. CASE Opening
  <2>1. CASE Probe
    BY <2>1 DEF Probe, PhoneTypeOK, clipVars, awayVars
  <2>2. ASSUME NEW b \in BOOLEAN, DeriveMasterKey(b) PROVE PhoneTypeOK'
    BY <2>2 DEF DeriveMasterKey, PhoneTypeOK, clipVars, awayVars
  <2>3. ASSUME NEW b \in BOOLEAN, OpenVault(b) PROVE PhoneTypeOK'
    BY <2>3 DEF OpenVault, PhoneTypeOK, clipVars, awayVars
  <2> QED BY <1>1, <2>1, <2>2, <2>3 DEF Opening
<1>2. CASE RetryProbe \/ SubmitPassword \/ Hide \/ ComeBack
  <2>1. CASE RetryProbe
    BY <2>1 DEF RetryProbe, PhoneTypeOK, clipVars, awayVars
  <2>2. CASE SubmitPassword
    BY <2>2 DEF SubmitPassword, PhoneTypeOK, clipVars, awayVars
  <2>3. CASE Hide
    BY <2>3 DEF Hide, PhoneTypeOK, clipVars, awayVars, screenVars
  <2>4. CASE ComeBack
    BY <2>4 DEF ComeBack, PhoneTypeOK, clipVars, awayVars, screenVars
  <2> QED BY <1>2, <2>1, <2>2, <2>3, <2>4
<1>3. ASSUME NEW left \in SUBSET Blob, SearchItems(left) PROVE PhoneTypeOK'
  BY <1>3 DEF SearchItems, PhoneTypeOK, clipVars, awayVars
<1>4. ASSUME NEW e \in Blob \cup {Absent}, Select(e) PROVE PhoneTypeOK'
  BY <1>4 DEF Select, PhoneTypeOK, clipVars, awayVars
<1>5. CASE Clip \/ DismissBanner
  BY <1>5, ClipTyped
<1>6. CASE LockButton \/ BackgroundLock
  <2>1. Locked /\ UNCHANGED hidden /\ away' \in {"off", "set", "spent"}
    BY <1>6 DEF LockButton, BackgroundLock, PhoneTypeOK, awayVars
  <2>2. overran' \in BOOLEAN
    <3>1. CASE LockButton
      BY <3>1 DEF LockButton, PhoneTypeOK, awayVars
    <3>2. CASE BackgroundLock
      BY <3>2 DEF BackgroundLock
    <3> QED BY <1>6, <3>1, <3>2
  <2> QED BY <2>1, <2>2, LockedTyped
<1>7. CASE Reclaimed
  <2>1. writes' \in Seq(0..MaxCopies)
    BY <1>7, EmptySeq DEF Reclaimed
  <2>2. timer' \in 0..MaxCopies /\ ticking' \subseteq [of : 1..MaxCopies, over : BOOLEAN]
    BY <1>7, PhoneAssumption DEF Reclaimed
  <2>3. /\ account' = "asking" /\ entering' = "idle" /\ shownVault' = Absent /\ chosen' = Absent
        /\ query' = Blob /\ hidden' = FALSE /\ away' = "off" /\ overran' = FALSE /\ status' = "idle"
        /\ letGo' \in BOOLEAN /\ clipboard' = clipboard /\ copies' = copies
    BY <1>7 DEF Reclaimed
  <2> QED BY <2>1, <2>2, <2>3 DEF PhoneTypeOK
<1>8. CASE UNCHANGED phoneVars
  BY <1>8 DEF phoneVars, PhoneTypeOK
<1> QED BY <1>1, <1>2, <1>3, <1>4, <1>5, <1>6, <1>7, <1>8 DEF PhoneNext

(***************************************************************************)
(* The five together: a part that does not run stays as it starts.         *)
(***************************************************************************)
SurfacesInv ==
  /\ AgentInv /\ PagesInv /\ PinInv
  /\ PhoneTypeOK /\ Inv
  /\ ImportInv

LEMMA SurfacesInvInit == Init => SurfacesInv
<1> SUFFICES ASSUME Init PROVE SurfacesInv
  OBVIOUS
<1>1. AgentInit /\ PagesInit /\ PinInit /\ PhoneInit /\ ImportInit
  BY DEF Init
<1> QED
  BY <1>1, AgentInvInit, PagesInvInit, PinInvInit, PhoneTypeInit, PhoneInitInv, ImportInvInit
  DEF SurfacesInv

LEMMA SurfacesInvKept == SurfacesInv /\ [Next]_vars => SurfacesInv'
<1> SUFFICES ASSUME SurfacesInv, [Next]_vars PROVE SurfacesInv'
  OBVIOUS
<1>1. /\ [AgentNext]_agentVars /\ [PagesNext]_pagesVars /\ [PinNext]_pinVars
      /\ [PhoneNext]_phoneVars /\ [ImportNext]_importVars
  <2>1. CASE AgentRuns
    BY <2>1 DEF AgentRuns
  <2>2. CASE PagesRun
    BY <2>2 DEF PagesRun
  <2>3. CASE BoxRuns
    BY <2>3 DEF BoxRuns
  <2>4. CASE PhoneRuns
    BY <2>4 DEF PhoneRuns
  <2>5. CASE ImportRuns
    BY <2>5 DEF ImportRuns
  <2>6. CASE UNCHANGED vars
    BY <2>6 DEF vars
  <2> QED BY <2>1, <2>2, <2>3, <2>4, <2>5, <2>6 DEF Next
<1>2. AgentInv /\ PagesInv /\ PinInv /\ PhoneTypeOK /\ Inv /\ ImportInv
  BY DEF SurfacesInv
<1>3. AgentInv'
  BY <1>1, <1>2, AgentInvKept
<1>4. PagesInv'
  BY <1>1, <1>2, PagesInvKept
<1>5. PinInv'
  BY <1>1, <1>2, PinInvKept
<1>6. PhoneTypeOK' /\ Inv'
  BY <1>1, <1>2, PhoneTypeKept, PhoneNextInv
<1>7. ImportInv'
  BY <1>1, <1>2, ImportInvKept
<1> QED BY <1>3, <1>4, <1>5, <1>6, <1>7 DEF SurfacesInv

\* In any of the five, whatever the vault, the file and the page, each variable
\* holds what it may hold: so no row, entry or copy is taken for what it is not.
THEOREM SurfacesTyped == Spec => []SurfacesTypeOK
<1>1. SurfacesInv => SurfacesTypeOK
  BY AgentInvTypes, PagesInvTypes, PinInvTypes, ImportInvTypes DEF SurfacesInv, SurfacesTypeOK
<1> QED BY <1>1, SurfacesInvInit, SurfacesInvKept, PTL DEF Spec

\* As the run on a small instance: what the phone says of a secret it has copied,
\* and what the import panel says of the rows it has saved, is so, with any
\* number of copies, rows and passwords for the archive.
THEOREM SurfacesAreHonest == Spec => []SurfacesHonest
<1>1. Inv => ClipboardHonest
  BY DEF Inv, ClipInv, ClipboardHonest
<1>2. SurfacesInv => SurfacesHonest
  BY <1>1, ImportInvHonest DEF SurfacesInv, SurfacesHonest
<1> QED BY <1>2, SurfacesInvInit, SurfacesInvKept, PTL DEF Spec
===============================================================================
