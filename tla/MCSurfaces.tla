------------------------------ MODULE MCSurfaces ------------------------------
(* Instances for TLC of the five parts the user meets besides the save prompt:
   PageAgent, Pages, PinBox, Phone and Import.  They share no state but the lock,
   which each models as something that changes under it, so a behaviour runs one. *)
EXTENDS PageAgent, Pages, PinBox, Phone, Import

VARIABLE running   \* the part whose behaviour this is; the others stay as they start

\* A login form with a code gives way to a form to join with, or the other way.
Marks(scope, type, auto, hint) == [scope |-> scope, type |-> type, auto |-> auto, hint |-> hint]
Fields == 1..4
Page1 == <<Marks("login", "password", None, None), Marks("login", "text", "totp", None),
           Marks("join", "text", None, None), Marks("join", "password", "newPassword", None)>>
Layouts == {{1, 2}, {3, 4}}
Anna == [l1 |-> [kind |-> "login", user |-> "anna", code |-> TRUE],
         k1 |-> [kind |-> "passkey", user |-> "anna", code |-> FALSE]]
Order == <<"l1", "k1">>
People == <<"p1">>
Known == <<"s1">>

Full == {[item |-> {"i"}, persona |-> {"p"}]}

\* One character, and three texts that are long enough, the PIN among them.
Long == {"near", "pin", "past"}
Texts == Long \cup {"", "p"}

Sorts == [a |-> "sound", b |-> "broken"]

\* A login twice, under two identifiers and under one, and a passkey.
Keys == [ann |-> {"mail", "name"}, ann2 |-> {"name"}, key |-> {"credential"}]
Exports == [csv |-> <<"ann", "key">>, zip |-> <<"ann2", "key">>]

vars == <<running, agentVars, pagesVars, pinVars, phoneVars, importVars>>

Init ==
  /\ running \in {"agent", "pages", "box", "phone", "import"}
  /\ AgentInit /\ PagesInit /\ PinInit /\ PhoneInit /\ ImportInit
  \* One start is enough for a part that does not run.
  /\ running # "agent" => dom = {3, 4} /\ ~unlocked
  /\ running # "pages" => ~open /\ pop.up
  /\ running # "box" => kdf = "none"

AgentRuns ==
  /\ running = "agent" /\ AgentNext
  /\ UNCHANGED <<running, pagesVars, pinVars, phoneVars, importVars>>
PagesRun ==
  /\ running = "pages" /\ PagesNext
  /\ UNCHANGED <<running, agentVars, pinVars, phoneVars, importVars>>
BoxRuns ==
  /\ running = "box" /\ PinNext
  /\ UNCHANGED <<running, agentVars, pagesVars, phoneVars, importVars>>
PhoneRuns ==
  /\ running = "phone" /\ PhoneNext
  /\ UNCHANGED <<running, agentVars, pagesVars, pinVars, importVars>>
ImportRuns ==
  /\ running = "import" /\ ImportNext
  /\ UNCHANGED <<running, agentVars, pagesVars, pinVars, phoneVars>>

Next == AgentRuns \/ PagesRun \/ BoxRuns \/ PhoneRuns \/ ImportRuns
Spec ==
  /\ Init /\ [][Next]_vars
  /\ AgentFairness /\ PinFairness
  \* As PhoneFairness: the phone app that does not run has not probed.
  /\ WF_phoneVars(running = "phone" /\ Opening) /\ WF_phoneVars(BackgroundLock)

\* Every part's variables hold what they may hold.
SurfacesTypeOK ==
  AgentTypeOK /\ PagesTypeOK /\ PinTypeOK /\ PhoneTypeOK /\ ImportTypeOK

\* What the phone says of the clipboard and the import of its items is so.
SurfacesHonest == ClipboardHonest /\ ImportHonest

\* A menu whose field left the page closes, a try of the PIN ends, and a vault
\* left open in the background locks.
SurfacesSettle == DetachedMenuCloses /\ CheckEnds /\ BackgroundLocks
===============================================================================
