------------------------------- MODULE PinBox -------------------------------
(***************************************************************************)
(* The PIN box of the popup and of the vault page.  It tries what is typed *)
(* by itself (utils/use-auto-unlock.ts), Enter and the button try it at    *)
(* once; the worker shares a try of the same PIN and makes others wait     *)
(* (handleUnlock), and derives in a KDF worker (crypto/kdf-async.ts,       *)
(* workers/kdf-worker.ts) or, where there is none, inline.                 *)
(***************************************************************************)
EXTENDS Naturals, Sequences

CONSTANTS
  Text,        \* what the box may hold, "" among it
  Enough,      \* the texts of at least minLength characters
  Right,       \* the PIN
  NoTry,
  MaxStrokes,  \* bound: changes of the text
  MaxPresses   \* bound: Enter and the button

ASSUME PinBoxAssumption ==
  /\ "" \in Text \ Enough /\ Enough \subseteq Text /\ Right \in Enough
  /\ MaxStrokes \in Nat /\ MaxPresses \in Nat

VARIABLES
  shown,      \* the box is on the screen: the page takes the vault for locked
  typed,
  debounce,   \* the timer of the automatic try is set
  attempted,  \* texts not to be tried by themselves again
  turns,      \* automatic tries that wait for the one before
  checking,   \* the text of the automatic try under way
  unlocks,    \* the worker's chain of UNLOCKs: [by, text]; the first is derived
  kdf,        \* the KDF worker: "none" there, "new", "up" or "gone"
  strokes, presses

pinVars == <<shown, typed, debounce, attempted, turns, checking, unlocks, kdf, strokes, presses>>

\* (Mutant of Rearmed: whatever its length, a new text is tried.)
RearmedAtOnce(text, tried) == debounce' = (text \notin tried)

\* The hook's effect, whenever the text or the lock state has changed.
Rearmed(text, tried) == debounce' = (text \in Enough \ tried)

\* A turn is a microtask: nothing comes between it and what makes it due.
TurnDue == checking = NoTry /\ turns # <<>>

Type(text) ==
  /\ shown /\ text # typed /\ strokes < MaxStrokes
  /\ typed' = text /\ strokes' = strokes + 1
  /\ Rearmed(text, attempted)
  /\ UNCHANGED <<shown, attempted, turns, checking, unlocks, kdf, presses>>

\* 300 ms without a change: the text takes its place in the chain.
Debounced ==
  /\ debounce /\ debounce' = FALSE
  /\ attempted' = attempted \cup {typed}
  /\ turns' = Append(turns, typed)
  /\ UNCHANGED <<shown, typed, checking, unlocks, kdf, strokes, presses>>

(***************************************************************************)
(* UNLOCK                                                                  *)
(***************************************************************************)
\* inFlightUnlock is the last one asked for: the same PIN shares it.
AskUnlock(by, text) ==
  LET n == Len(unlocks) IN
  unlocks' = IF n > 0 /\ unlocks[n].text = text
             THEN [unlocks EXCEPT ![n].by = @ \cup {by}]
             ELSE Append(unlocks, [by |-> {by}, text |-> text])

\* The next of the chain, if it is still what the box holds.
TakeTurn ==
  /\ TurnDue
  /\ turns' = Tail(turns)
  /\ IF Head(turns) = typed
     THEN checking' = typed /\ AskUnlock("hook", typed)
     ELSE UNCHANGED <<checking, unlocks>>
  /\ UNCHANGED <<shown, typed, debounce, attempted, kdf, strokes, presses>>

Press ==
  /\ shown /\ presses < MaxPresses
  /\ presses' = presses + 1
  /\ AskUnlock("hand", typed)
  /\ UNCHANGED <<shown, typed, debounce, attempted, turns, checking, kdf, strokes>>

\* The answer reaches those who asked; onUnlocked, and the cleanup it sets off.
Answer(opened) ==
  /\ unlocks' = Tail(unlocks)
  /\ checking' = IF "hook" \in Head(unlocks).by THEN NoTry ELSE checking
  /\ IF opened
     THEN shown' = FALSE /\ typed' = "" /\ debounce' = FALSE /\ attempted' = {}
     ELSE UNCHANGED <<shown, typed, debounce, attempted>>
  /\ UNCHANGED <<turns, strokes, presses>>

DeriveDone ==
  /\ unlocks # <<>>
  /\ Answer(Head(unlocks).text = Right)
  /\ kdf' = IF kdf = "new" THEN "up" ELSE kdf

\* (Mutant of WorkerFails: the job that was posted is left to hang.)
WorkerFailsSilently ==
  /\ unlocks # <<>> /\ kdf = "new"
  /\ kdf' = "gone" /\ unlocks' = Tail(unlocks)
  /\ UNCHANGED <<shown, typed, debounce, attempted, turns, checking, strokes, presses>>

\* The KDF worker does not load: the job posted to it is rejected, those to
\* come are done inline.
WorkerFails ==
  /\ unlocks # <<>> /\ kdf = "new"
  /\ Answer(FALSE)
  /\ kdf' = "gone"

\* The page finds the vault locked again.
BoxBack ==
  /\ ~shown /\ shown' = TRUE
  /\ Rearmed(typed, attempted)
  /\ UNCHANGED <<typed, attempted, turns, checking, unlocks, kdf, strokes, presses>>

PinInit ==
  /\ shown = TRUE /\ typed = "" /\ debounce = FALSE /\ attempted = {} /\ turns = <<>>
  /\ checking = NoTry /\ unlocks = <<>> /\ kdf \in {"none", "new"}
  /\ strokes = 0 /\ presses = 0

PinNext ==
  \/ TakeTurn
  \/ ~TurnDue /\ (\E text \in Text : Type(text))
  \/ ~TurnDue /\ (Debounced \/ Press \/ DeriveDone \/ WorkerFails \/ BoxBack)

\* Timers run down, promises are continued, a derivation comes to an end.
PinProgress == Debounced \/ TakeTurn \/ DeriveDone \/ WorkerFails
PinFairness == WF_pinVars(PinProgress)
PinSpec == PinInit /\ [][PinNext]_pinVars /\ PinFairness

(***************************************************************************)
(* Properties                                                              *)
(***************************************************************************)
PinTypeOK ==
  /\ shown \in BOOLEAN /\ typed \in Text /\ debounce \in BOOLEAN /\ attempted \subseteq Enough
  /\ turns \in Seq(Enough) /\ checking \in Enough \cup {NoTry}
  /\ unlocks \in Seq([by : SUBSET {"hook", "hand"}, text : Text])
  /\ kdf \in {"none", "new", "up", "gone"}

\* A try that is shown as under way comes to an end, also when it shares the
\* derivation of another and when the worker that derives does not load.
\* (failAll, and the finally in use-auto-unlock.ts.)
CheckEnds == checking # NoTry ~> checking = NoTry
===============================================================================
