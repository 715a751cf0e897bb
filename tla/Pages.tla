-------------------------------- MODULE Pages --------------------------------
(***************************************************************************)
(* The popup (popup/App.tsx) and the vault page (vault/App.tsx) before one *)
(* worker: what each shows of the vault, and the messages it sends.        *)
(*                                                                         *)
(* A message is served by the worker and later continued by the page that  *)
(* sent it, in any order.  React's effects run at once.                    *)
(***************************************************************************)
EXTENDS Naturals, Sequences, Bags, SequencesExt

CONSTANTS
  Item, Persona, Nothing,
  Kept,        \* what the vault may hold at the start: records of two sets
  MaxCalls,    \* bound: messages of a page under way when the user sends one
  MaxClicks    \* bound: what the user does in all that sends a message

Kind == {"item", "persona"}
Things == Item \cup Persona
Of(k) == IF k = "item" THEN Item ELSE Persona
Page == {"popup", "vault"}

ASSUME PagesAssumption ==
  /\ Item \cap Persona = {} /\ Nothing \notin Things /\ "new" \notin Things \cup {Nothing}
  /\ \A v \in Kept : v \in [item : SUBSET Item, persona : SUBSET Persona]
  /\ MaxCalls \in Nat /\ MaxClicks \in Nat

VARIABLES
  open,      \* the worker holds the master key
  stored,    \* what the vault holds of each kind
  wasEmpty,  \* history: kinds of which it held nothing at some time
  raced,     \* history: pages whose last request a lock overtook in the worker
  asked,     \* messages of each page under way: bags
  pop,       \* the popup
  vp,        \* the vault page
  clicks

pagesVars == <<open, stored, wasEmpty, raced, asked, pop, vp, clicks>>

\* up: the page is there; found: the vault as the search fetched it; sheet: the
\* item in the detail view, "new" for a draft.
ClosedPopup ==
  [up |-> FALSE, unlocked |-> FALSE, matches |-> {},
   searching |-> FALSE, finding |-> FALSE, found |-> Nothing, sheet |-> Nothing, editing |-> FALSE]

\* editing: what the editor of items, of personas, would save to; link: the
\* item of the page's URL, pending until it is opened.
VaultPage(link) ==
  [up |-> TRUE, unlocked |-> FALSE, tab |-> "item",
   list |-> [k \in Kind |-> {}], creating |-> FALSE,
   editing |-> [k \in Kind |-> Nothing],
   chosen |-> Nothing, busy |-> {}, link |-> link, pending |-> Nothing]

(***************************************************************************)
(* Messages                                                                *)
(***************************************************************************)
\* kind and id say what it is about, then what the page asks next; the reply
\* comes with data: a set of things, or of the one that was stored.
Then(op, kind, id, then) ==
  [op |-> op, kind |-> kind, id |-> id, then |-> then,
   reply |-> "none", data |-> {}, heard |-> TRUE]
Call(op, kind, id) == Then(op, kind, id, <<>>)
Ask(op) == Call(op, "none", Nothing)

LoadItems == Call("GET_ITEMS", "item", Nothing)
LoadIdentities == Call("GET_IDENTITIES", "persona", Nothing)
\* GET_ITEM_SUMMARY and GET_IDENTITIES, of which the popup shows the numbers.
LoadCounts == Ask("GET_ITEM_SUMMARY")
LoadMatches == Call("GET_PAGE_MATCHES", "item", Nothing)

\* What a page asks when it finds the vault unlocked.
Batch(p) ==
  IF p = "vault" THEN <<LoadItems, LoadIdentities>> ELSE <<LoadMatches, LoadCounts>>

\* The request of it that fills the page's list (of personas, of matches).
Fills(p) == IF p = "vault" THEN "GET_IDENTITIES" ELSE "GET_PAGE_MATCHES"

(***************************************************************************)
(* The worker                                                              *)
(***************************************************************************)
Held(now) ==
  /\ stored' = now
  /\ wasEmpty' = wasEmpty \cup {k \in Kind : now[k] = {}}

Needs == {"GET_PAGE_MATCHES", "GET_IDENTITIES", "GET_ITEM_SUMMARY", "GET_ITEMS"}

\* Without the master key there is no KEM key.  GET_ITEMS asks for that one
\* first, and answers with an error that does not say "locked"; the others ask
\* for the master key first.
Refusal(c) == IF c.op = "GET_ITEMS" THEN "failed" ELSE "locked"

Read(c) ==
  CASE c.op \in Needs -> IF open THEN {"ok"} ELSE {Refusal(c)}
    [] c.op = "GET_UNLOCKED" -> IF open THEN {"ok"} ELSE {"locked"}
    [] c.op \in {"UPDATE", "ASSIGN"} -> IF open /\ c.id \in stored.item THEN {"ok"} ELSE {"failed"}
    [] OTHER -> {"ok"}

Reads == Needs \cup {"GET_UNLOCKED", "ASSIGN"}

Still == UNCHANGED <<open, stored, wasEmpty>>

\* An update of an item that is there changes what is in it, not that it is.
ServeRead(c, r) ==
  /\ c.op \in Reads \/ (c.op = "UPDATE" /\ c.kind = "item")
  /\ r.reply \in Read(c)
  /\ r.data = IF c.op \in Needs /\ open /\ c.kind \in Kind THEN stored[c.kind] ELSE {}
  /\ Still

\* The lock comes between the two: it is refused the other way round.  The
\* summary asks for the master key only.
ServeLocking(c, r) ==
  /\ c.op \in Needs \ {"GET_ITEM_SUMMARY"} /\ open /\ open' = FALSE
  /\ r = [reply |-> IF c.op = "GET_ITEMS" THEN "locked" ELSE "failed", data |-> {}]
  /\ UNCHANGED <<stored, wasEmpty>>

ServeUnlock(c, r) ==
  /\ c.op = "UNLOCK" /\ r.reply \in {"ok", "failed"} /\ r.data = {}
  /\ open' = (open \/ r.reply = "ok")
  /\ UNCHANGED <<stored, wasEmpty>>

ServeLock(c, r) ==
  /\ c.op = "LOCK" /\ r = [reply |-> "ok", data |-> {}]
  /\ open' = FALSE
  /\ UNCHANGED <<stored, wasEmpty>>

ServeCreate(c, r) ==
  /\ c.op = "CREATE"
  /\ \/ /\ open /\ r.reply = "ok"
        /\ \E t \in Of(c.kind) \ stored[c.kind] :
             r.data = {t} /\ Held([stored EXCEPT ![c.kind] = @ \cup {t}])
        /\ UNCHANGED open
     \/ /\ ~open \/ stored[c.kind] = Of(c.kind)
        /\ r = [reply |-> "failed", data |-> {}] /\ Still

\* A persona is written as the page sends it, deleted meanwhile or not.
ServePersona(c, r) ==
  /\ c.op = "UPDATE" /\ c.kind = "persona"
  /\ r = [reply |-> IF open THEN "ok" ELSE "failed", data |-> {}]
  /\ Held([stored EXCEPT !.persona = IF open THEN @ \cup {c.id} ELSE @])
  /\ UNCHANGED open

\* A deletion needs no key.
ServeDelete(c, r) ==
  /\ c.op = "DELETE" /\ r = [reply |-> "ok", data |-> {}]
  /\ Held([stored EXCEPT ![c.kind] = @ \ {c.id}])
  /\ UNCHANGED open

ServeSync(c, r) ==
  /\ c.op = "SYNC" /\ r = [reply |-> "ok", data |-> {}]
  /\ \E pulled \in SUBSET Item : Held([stored EXCEPT !.item = pulled])
  /\ UNCHANGED open

ServeGenerate(c, r) ==
  c.op = "GENERATE_IDENTITY" /\ r.reply \in {"ok", "failed"} /\ r.data = {} /\ Still

Served(c, r) ==
  \/ ServeRead(c, r) \/ ServeLocking(c, r) \/ ServeUnlock(c, r) \/ ServeLock(c, r)
  \/ ServeCreate(c, r) \/ ServePersona(c, r) \/ ServeDelete(c, r) \/ ServeSync(c, r)
  \/ ServeGenerate(c, r)

\* Of a page that is gone, what remains are the messages that do something.
Unheard(p) ==
  LET silent(c) == [c EXCEPT !.heard = FALSE, !.then = <<>>]
      kept == {c \in BagToSet(asked[p]) : c.reply = "none" /\ c.op \notin Reads}
  IN BagOfAll(silent, [c \in kept |-> asked[p][c]])

Serve(p, c) ==
  /\ c.reply = "none"
  /\ \E reply \in {"ok", "failed", "locked"}, data \in (SUBSET Item) \cup SUBSET Persona :
       /\ Served(c, [reply |-> reply, data |-> data])
       /\ asked' = [asked EXCEPT ![p] = (@ (-) SetToBag({c})) (+)
            IF c.heard THEN SetToBag({[c EXCEPT !.reply = reply, !.data = data]}) ELSE EmptyBag]
  /\ raced' = IF c.op # Fills(p) THEN raced
              ELSE IF open /\ ~open' THEN raced \cup {p} ELSE raced \ {p}
  /\ UNCHANGED <<pop, vp, clicks>>

AutoLock ==
  /\ open /\ open' = FALSE
  /\ UNCHANGED <<stored, wasEmpty, raced, asked, pop, vp, clicks>>

(***************************************************************************)
(* Effects                                                                 *)
(***************************************************************************)
\* The linked item is opened as soon as there is a list.
Linked(v) ==
  IF v.pending = Nothing \/ v.list.item = {} THEN v
  ELSE IF v.pending \notin v.list.item THEN [v EXCEPT !.pending = Nothing]
  ELSE [v EXCEPT !.pending = Nothing, !.editing.item = v.pending]

\* The vault page becomes v; rest is left of its messages, more are sent.
ShowVault(v, rest, more) ==
  LET entered == v.unlocked /\ ~vp.unlocked
      w == IF entered THEN [v EXCEPT !.pending = v.link] ELSE v
  IN /\ vp' = Linked(w)
     /\ asked' = [asked EXCEPT !.vault =
                    rest (+) ToBag(more \o (IF entered THEN Batch("vault") ELSE <<>>))]
     /\ UNCHANGED pop

ShowPopup(q, rest, more) ==
  LET entered == q.unlocked /\ ~pop.unlocked
      search == q.up /\ q.unlocked /\ q.searching /\ q.found = Nothing /\ ~q.finding
  IN /\ pop' = [q EXCEPT !.finding = @ \/ search]
     /\ asked' = [asked EXCEPT !.popup =
                    rest (+) ToBag(more \o (IF entered THEN Batch("popup") ELSE <<>>)
                                        \o (IF search THEN <<LoadItems>> ELSE <<>>))]
     /\ UNCHANGED vp

(***************************************************************************)
(* Continuations                                                           *)
(***************************************************************************)
\* loadItems, loadIdentities, loadMatches: an error leaves the list alone.
Loaded(c, was) == IF c.reply = "ok" THEN c.data ELSE was
\* (Mutant of Bounced: the answer of a locked vault is taken at face value.)
StaysUnlocked(c, unlocked) == unlocked
\* The unlock screen comes back when the vault turns out to be locked.
Bounced(c, unlocked) == unlocked /\ c.reply # "locked"

\* checkUnlocked believes the answer; a refused PIN leaves things as they are.
Entered(c, unlocked) == c.reply = "ok" \/ (c.op = "UNLOCK" /\ unlocked)

VaultHears(v, c) ==
  CASE c.op \in {"GET_UNLOCKED", "UNLOCK"} -> [v EXCEPT !.unlocked = Entered(c, @)]
    [] c.op = "LOCK" -> [v EXCEPT !.unlocked = FALSE, !.list = [k \in Kind |-> {}]]
    [] c.op \in {"GET_ITEMS", "GET_IDENTITIES"} ->
         [v EXCEPT !.list[c.kind] = Loaded(c, @), !.unlocked = Bounced(c, @)]
    \* The editor of items closes whatever the answer.
    [] c.op = "DELETE" /\ c.kind = "item" -> [v EXCEPT !.editing.item = Nothing]
    [] c.op \in {"CREATE", "UPDATE"} /\ c.kind = "item" ->
         [v EXCEPT !.editing.item = Nothing, !.creating = FALSE]
    [] c.op = "DELETE" /\ c.kind = "persona" -> [v EXCEPT !.chosen = Nothing]
    [] c.op \in {"CREATE", "UPDATE"} /\ c.kind = "persona" ->
         IF c.reply = "failed" THEN v ELSE [v EXCEPT !.editing.persona = Nothing]
    [] c.op = "GENERATE_IDENTITY" -> [v EXCEPT !.editing.persona = "new"]
    [] OTHER -> v

PopupHears(c) ==
  CASE c.op \in {"GET_UNLOCKED", "UNLOCK"} -> [pop EXCEPT !.unlocked = Entered(c, @)]
    [] c.op = "LOCK" -> [pop EXCEPT !.unlocked = FALSE]
    [] c.op = "GET_PAGE_MATCHES" ->
         [pop EXCEPT !.matches = Loaded(c, @), !.unlocked = Bounced(c, @)]
    [] c.op = "GET_ITEM_SUMMARY" -> [pop EXCEPT !.unlocked = Bounced(c, @)]
    \* An error finds nothing: resp.data ?? [].
    [] c.op = "GET_ITEMS" ->
         IF c.reply = "locked" THEN [pop EXCEPT !.finding = FALSE, !.unlocked = FALSE]
         ELSE [pop EXCEPT !.finding = FALSE, !.found = c.data]
    [] c.op \in {"CREATE", "UPDATE"} ->
         IF c.reply = "failed" THEN pop
         ELSE [pop EXCEPT !.sheet = IF c.op = "CREATE" THEN CHOOSE i \in c.data : TRUE ELSE c.id,
                        !.editing = FALSE, !.found = Nothing]
    [] OTHER -> pop

\* What is asked next: a refused save of a persona, or of the popup, asks
\* nothing.
Next1(p, c) ==
  IF c.reply = "failed" /\ c.op \in {"CREATE", "UPDATE"} /\ (p = "popup" \/ c.kind = "persona")
  THEN <<>> ELSE c.then

Hear(p, c) ==
  LET rest == asked[p] (-) SetToBag({c}) IN
  /\ c.reply # "none"
  /\ IF p = "vault"
     THEN ShowVault(VaultHears([vp EXCEPT !.busy = @ \ {c.op}], c), rest, Next1(p, c))
     ELSE ShowPopup(PopupHears(c), rest, Next1(p, c))
  /\ UNCHANGED <<open, stored, wasEmpty, raced, clicks>>

(***************************************************************************)
(* The user                                                                *)
(***************************************************************************)
Click == clicks < MaxClicks /\ clicks' = clicks + 1 /\ UNCHANGED <<open, stored, wasEmpty, raced>>
Waits(p, op) ==
  \E c \in BagToSet(asked[p]) : c.op = op \/ \E n \in DOMAIN c.then : c.then[n].op = op
\* Bounds: what needs a message is done while there is room for one, what needs
\* none while the page waits for nothing.
Sends(p, more) ==
  IF more = <<>> THEN asked[p] = EmptyBag /\ UNCHANGED <<open, stored, wasEmpty, raced, clicks>>
  ELSE Click /\ BagCardinality(asked[p]) < MaxCalls

\* In the popup, to q, with these messages.
InPopup(q, more) ==
  /\ pop.up /\ Sends("popup", more)
  /\ ShowPopup(q, asked.popup, more)
\* The popup closes with its last messages.
Leave(more) ==
  /\ pop' = ClosedPopup
  /\ asked' = [asked EXCEPT !.popup = Unheard("popup") (+) ToBag(more)]

OpenPopup ==
  /\ Click /\ ~pop.up /\ asked.popup = EmptyBag
  /\ pop' = [ClosedPopup EXCEPT !.up = TRUE]
  /\ asked' = [asked EXCEPT !.popup = SetToBag({Ask("GET_UNLOCKED")})]
  /\ UNCHANGED vp

ClosePopup == Click /\ pop.up /\ Leave(<<>>) /\ UNCHANGED vp

PopupList == pop.unlocked /\ pop.sheet = Nothing
Listed == IF ~pop.searching THEN pop.matches ELSE IF pop.found = Nothing THEN {} ELSE pop.found
UsePopup ==
  \* The PIN is asked for once GET_UNLOCKED is answered.
  \/ ~pop.unlocked /\ ~Waits("popup", "GET_UNLOCKED") /\ InPopup(pop, <<Ask("UNLOCK")>>)
  \/ PopupList /\ InPopup(pop, <<Ask("LOCK")>>)
  \/ PopupList /\ InPopup([pop EXCEPT !.searching = ~@], <<>>)
  \/ PopupList /\ \E i \in Listed : InPopup([pop EXCEPT !.sheet = i], <<>>)
  \/ PopupList /\ InPopup([pop EXCEPT !.sheet = "new", !.editing = TRUE], <<>>)
PopupSheet ==
  /\ pop.unlocked /\ pop.sheet # Nothing
  /\ \/ ~pop.editing /\ InPopup([pop EXCEPT !.sheet = Nothing], <<>>)
     \/ ~pop.editing /\ InPopup([pop EXCEPT !.editing = TRUE], <<>>)
     \/ pop.editing /\ InPopup([pop EXCEPT !.editing = FALSE,
                                  !.sheet = IF @ = "new" THEN Nothing ELSE @], <<>>)
     \/ /\ pop.editing /\ ~\E c \in BagToSet(asked.popup) : c.op \in {"CREATE", "UPDATE"}
        /\ InPopup(pop, <<IF pop.sheet = "new"
                          THEN Then("CREATE", "item", Nothing, <<LoadCounts, LoadMatches>>)
                          ELSE Then("UPDATE", "item", pop.sheet, <<LoadMatches>>)>>)

\* Autofill notes the use and closes.
Autofill ==
  /\ Click /\ pop.up /\ pop.unlocked /\ ~pop.editing
  /\ \E i \in IF PopupList THEN Listed ELSE {pop.sheet} : Leave(<<[Call("UPDATE", "item", i) EXCEPT !.heard = FALSE]>>)
  /\ UNCHANGED vp

\* OPEN_VAULT: the vault page is opened, or loaded again, with a link or none.
ShowInVault ==
  /\ Click /\ pop.up /\ pop.unlocked
  /\ \E link \in {Nothing} \cup ({pop.sheet} \cap Item) :
       /\ vp' = VaultPage(link)
       /\ pop' = ClosedPopup
       /\ asked' = [popup |-> Unheard("popup"), vault |-> Unheard("vault") (+) SetToBag({Ask("GET_UNLOCKED")})]

\* In the vault page; an open editor covers everything else.
Editor(k) == vp.tab = k /\ vp.editing[k] # Nothing
Covered == Editor("item") \/ Editor("persona") \/ (vp.creating /\ vp.tab = "item")
InVault(v, more) ==
  /\ vp.up /\ vp.unlocked /\ Sends("vault", more)
  /\ ShowVault(v, asked.vault, more)

UnlockVault ==
  /\ vp.up /\ ~vp.unlocked /\ Sends("vault", <<Ask("UNLOCK")>>)
  /\ ShowVault(vp, asked.vault, <<Ask("UNLOCK")>>)

Browse ==
  /\ ~Covered
  /\ \/ InVault([vp EXCEPT !.tab = IF @ = "item" THEN "persona" ELSE "item",
                           !.editing.item = Nothing, !.creating = FALSE], <<>>)
     \/ InVault(vp, <<Ask("LOCK")>>)
     \/ /\ "SYNC" \notin vp.busy
        /\ InVault([vp EXCEPT !.busy = @ \cup {"SYNC"}],
                   <<Then("SYNC", "none", Nothing, <<Then("GET_ITEMS", "item", Nothing, <<LoadIdentities>>)>>)>>)

EditItems ==
  LET save == <<LoadItems>> IN
  /\ vp.tab = "item"
  /\ \/ ~Covered /\ \E i \in vp.list.item : InVault([vp EXCEPT !.editing.item = i], <<>>)
     \/ ~Covered /\ InVault([vp EXCEPT !.creating = TRUE], <<>>)
     \/ Covered /\ InVault([vp EXCEPT !.editing.item = Nothing, !.creating = FALSE], <<>>)
     \/ vp.creating /\ InVault(vp, <<Then("CREATE", "item", Nothing, save)>>)
     \/ Editor("item") /\ InVault(vp, <<Then("UPDATE", "item", vp.editing.item, save)>>)
     \/ Editor("item") /\ InVault(vp, <<Then("DELETE", "item", vp.editing.item, save)>>)

EditPersonas ==
  LET save == <<LoadIdentities>>  p == vp.chosen IN
  /\ vp.tab = "persona"
  /\ \/ ~Covered /\ p = Nothing /\ \E c \in vp.list.persona : InVault([vp EXCEPT !.chosen = c], <<>>)
     \/ ~Covered /\ p = Nothing /\ InVault([vp EXCEPT !.editing.persona = "new"], <<>>)
     \/ /\ ~Covered /\ p = Nothing /\ "GENERATE_IDENTITY" \notin vp.busy
        /\ InVault([vp EXCEPT !.busy = @ \cup {"GENERATE_IDENTITY"}], <<Ask("GENERATE_IDENTITY")>>)
     \/ ~Covered /\ p # Nothing /\ InVault([vp EXCEPT !.chosen = Nothing], <<>>)
     \/ ~Covered /\ p # Nothing /\ InVault([vp EXCEPT !.editing.persona = p], <<>>)
     \/ ~Covered /\ p # Nothing /\ InVault(vp, <<Then("DELETE", "persona", p, save)>>)
     \* ASSIGN_ITEM_TO_IDENTITY, and the same for the other way.
     \/ ~Covered /\ p # Nothing /\ \E i \in vp.list.item :
          InVault(vp, <<Then("ASSIGN", "item", i, <<LoadItems>>)>>)
     \/ Covered /\ InVault([vp EXCEPT !.editing.persona = Nothing], <<>>)
     \/ Covered /\ InVault(vp, <<IF vp.editing.persona = "new" THEN Then("CREATE", "persona", Nothing, save)
                                 ELSE Then("UPDATE", "persona", vp.editing.persona, save)>>)

PagesInit ==
  /\ open \in BOOLEAN /\ stored \in Kept
  /\ wasEmpty = {k \in Kind : stored[k] = {}} /\ raced = {}
  \* One of the two was just opened.
  /\ \E p \in Page :
       /\ pop = [ClosedPopup EXCEPT !.up = p = "popup"]
       /\ vp = [VaultPage(Nothing) EXCEPT !.up = p = "vault"]
       /\ asked = [q \in Page |-> IF q = p THEN SetToBag({Ask("GET_UNLOCKED")}) ELSE EmptyBag]
  /\ clicks = 0

Answers == \E p \in Page : \E c \in BagToSet(asked[p]) : Serve(p, c) \/ Hear(p, c)
PagesNext ==
  \/ Answers \/ AutoLock
  \/ OpenPopup \/ ClosePopup \/ UsePopup \/ PopupSheet \/ Autofill \/ ShowInVault
  \/ UnlockVault \/ Browse \/ EditItems \/ EditPersonas

PagesSpec == PagesInit /\ [][PagesNext]_pagesVars

(***************************************************************************)
(* Properties                                                              *)
(***************************************************************************)
PagesTypeOK ==
  /\ open \in BOOLEAN /\ stored \in [item : SUBSET Item, persona : SUBSET Persona]
  /\ wasEmpty \subseteq Kind /\ raced \subseteq Page /\ clicks \in 0..MaxClicks
  /\ pop.matches \subseteq Item
  /\ pop.found = Nothing \/ pop.found \subseteq Item
  /\ pop.sheet \in Item \cup {Nothing, "new"}
  /\ vp.list \in [item : SUBSET Item, persona : SUBSET Persona]
  /\ vp.editing.item \in Item \cup {Nothing} /\ vp.editing.persona \in Persona \cup {Nothing, "new"}
  /\ vp.link \in Item \cup {Nothing} /\ vp.pending \in {vp.link, Nothing}

\* What is shown of the vault is empty, and no answer is to come that would
\* change it.
PersonasShownEmpty ==
  vp.unlocked /\ vp.tab = "persona" /\ vp.list.persona = {} /\ ~Waits("vault", "GET_IDENTITIES")
MatchesShownEmpty ==
  pop.unlocked /\ ~pop.searching /\ pop.matches = {} /\ ~Waits("popup", "GET_PAGE_MATCHES")
ItemsShownEmpty ==
  \/ vp.unlocked /\ vp.tab = "item" /\ vp.list.item = {} /\ ~Waits("vault", "GET_ITEMS")
  \/ pop.unlocked /\ pop.searching /\ pop.found = {}

\* vault/App.tsx:108-113, for what GET_IDENTITIES and GET_PAGE_MATCHES fill: a
\* vault that is merely locked is not shown as one that holds nothing.  The one
\* case left out is a lock that overtakes the page's last such request in the
\* worker, between its look for the master key and that for the other keys: the
\* refusal does not say "locked", and the page shows nothing.
LockedIsNotEmpty ==
  /\ PersonasShownEmpty => "persona" \in wasEmpty \/ "vault" \in raced
  /\ MatchesShownEmpty => "item" \in wasEmpty \/ "popup" \in raced

\* The same for what GET_ITEMS fills, the search of the popup and the list of
\* the vault page.
ItemsNotShownEmpty == ItemsShownEmpty => "item" \in wasEmpty
===============================================================================
