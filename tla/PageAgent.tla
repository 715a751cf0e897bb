------------------------------ MODULE PageAgent ------------------------------
(***************************************************************************)
(* The content script in a page: which inputs make a form                  *)
(* (content/detect.ts), the menu under a focused field and what it fills   *)
(* (content/index.ts, content/menu.ts), the prompt with a one-time code    *)
(* (content/totp-prompt.ts), and the worker's answers it is built from.    *)
(* A field is one element of the document for good; the site attaches and  *)
(* detaches fields.  Settings are on.                                      *)
(***************************************************************************)
EXTENDS Integers, Sequences, FiniteSets

CONSTANTS
  Field,       \* elements, numbers in document order
  Markup,      \* [Field -> what the site says of it], see Marking
  Layout,      \* sets of fields the site may have attached
  Match,        \* the vault's items that match the page
  MatchOf,      \* [Match -> [kind, user, code]]
  Ranked,      \* Match as a sequence: by strength of the match, then recency
  Personas, Suggestions, None,
  MaxSwaps,    \* bound: changes of the document
  MaxAsks      \* bound: menus being asked for

ItemKind == {"login", "passkey", "totp", "card"}
IdentityRoles == {"fullName", "phone", "street"}
Role == {"username", "email", "password", "newPassword", "passwordConfirm", "totp",
         "cardNumber", "cvv", "unknown"} \cup IdentityRoles
\* auto is the role of the autocomplete token, hint of the texts around it.
Marking == [scope : STRING, type : {"text", "email", "tel", "password", "search"},
            auto : Role \cup {None}, hint : Role \cup {None}]

ASSUME PageAgentAssumption ==
  /\ Field \subseteq Nat /\ IsFiniteSet(Field) /\ Markup \in [Field -> Marking]
  /\ Layout \subseteq SUBSET Field
  /\ Ranked \in Seq(Match) /\ Personas \in Seq(STRING) /\ Suggestions \in Seq(STRING)
  /\ MatchOf \in [Match -> [kind : ItemKind, user : STRING, code : BOOLEAN]]
  /\ MaxSwaps \in Nat /\ MaxAsks \in Nat

VARIABLES
  dom,       \* the fields attached and visible
  swaps,     \* changes of the document so far
  unseen,    \* history: the field of the open menu, if it left unobserved
  forms,     \* the forms of the last scan
  wired,     \* fields whose focus opens the menu
  dirty,     \* the timer of the next scan is set
  early,     \* the timer that opens the menu by itself is set
  focus,     \* document.activeElement
  asks,      \* openMenuFor calls that wait for the worker
  menu,      \* the open menu
  prompt,    \* the one-time code prompt; notes: filling it notes the use
  tries,     \* items with timers left that look for a field for their code
  unlocked,
  recent     \* the items, most recently used first

agentVars == <<dom, swaps, unseen, forms, wired, dirty, early, focus, asks, menu, prompt, tries,
               unlocked, recent>>

(***************************************************************************)
(* Detection                                                               *)
(***************************************************************************)
RoleOf(f) ==
  LET m == Markup[f] IN
  CASE m.type = "search"     -> "unknown"
    [] m.type # "search" /\ m.auto # None -> m.auto
    [] m.type = "password" /\ m.auto = None ->
         IF m.hint \in {"passwordConfirm", "newPassword"} THEN m.hint ELSE "password"
    [] m.type = "email" /\ m.auto = None -> "email"
    [] m.type = "tel" /\ m.auto = None   -> "phone"
    [] m.type = "text" /\ m.auto = None  -> IF m.hint # None THEN m.hint ELSE "unknown"

\* A field with no role before a password is the identifier.
RolesIn(fields) ==
  [f \in fields |->
    LET later == {g \in fields : g > f}
        next == {g \in later : \A h \in later : g <= h}
    IN IF RoleOf(f) = "unknown" /\ Markup[f].type # "search"
          /\ \E g \in next : RoleOf(g) \in {"password", "newPassword"}
       THEN "username" ELSE RoleOf(f)]

Classify(roles, n) ==
  LET identifier == roles \cap {"username", "email"} # {}
      personal == "fullName" \in roles
      fresh == roles \cap {"newPassword", "passwordConfirm"} # {}
      password == "password" \in roles
  IN CASE password /\ fresh /\ ~personal                -> <<"changePassword", 85>>
       [] ~password /\ fresh /\ (identifier \/ personal) -> <<"signup", 90>>
       [] password /\ personal -> IF fresh THEN <<"signup", 90>> ELSE <<"signup", 75>>
       [] password /\ ~fresh /\ ~personal -> <<"login", IF identifier THEN 90 ELSE 65>>
       [] ~password /\ ~(fresh /\ (identifier \/ personal)) ->
            IF identifier /\ n <= 3 THEN <<"login", 55>>
            ELSE IF roles \cap {"cardNumber", "cvv"} # {} THEN <<"payment", 70>>
            ELSE <<"none", 0>>

FormOf(fields) ==
  LET roles == RolesIn(fields)
      class == Classify({roles[f] : f \in fields}, Cardinality(fields))
  IN [kind |-> class[1], score |-> class[2], role |-> roles]

FormsOf ==
  [layout \in Layout |->
    {form \in {FormOf({f \in layout : Markup[f].scope = s}) :
                 s \in {Markup[f].scope : f \in layout}} : form.kind # "none"}]
DetectForms == FormsOf[dom]

Best(set) == {x \in set : \A y \in set : x.score >= y.score}

(***************************************************************************)
(* Scans                                                                   *)
(***************************************************************************)
TriggerRoles == {"username", "email", "password", "newPassword", "totp", "cardNumber"}
WiredBy(found) ==
  {f \in dom : Markup[f].type # "search" /\
     \E form \in found : f \in DOMAIN form.role /\ form.role[f] \in TriggerRoles}

Scanned ==
  /\ forms' = DetectForms
  /\ wired' = wired \cup WiredBy(DetectForms)

\* Fields come or go.  Where the observer sees it, elements added to or removed
\* from the light document, a scan follows when changes have paused; a change of
\* style, or within an open shadow root, it does not see.
Mutate(layout, seen) ==
  /\ layout # dom /\ swaps < MaxSwaps
  /\ dom' = layout /\ swaps' = swaps + 1 /\ dirty' = (dirty \/ seen)
  /\ unseen' = IF menu = None \/ dirty' THEN {} ELSE {menu.anchor} \ layout
  /\ focus' = IF focus \in layout THEN focus ELSE None
  /\ UNCHANGED <<forms, wired, early, asks, menu, prompt, tries, unlocked, recent>>

\* (Mutant of Rescan: the menu closes only if some other field has the focus.)
RescanKeepsMenu ==
  /\ dirty
  /\ Scanned
  /\ menu' = IF menu # None /\ focus # None /\ focus # menu.anchor THEN None ELSE menu
  /\ dirty' = (menu' # menu)
  /\ UNCHANGED <<dom, swaps, unseen, early, focus, asks, prompt, tries, unlocked, recent>>

\* A menu whose field is gone is closed, which is a change of the document.
Rescan ==
  /\ dirty
  /\ Scanned
  /\ menu' = IF menu # None /\ menu.anchor \notin dom THEN None ELSE menu
  /\ dirty' = (menu' # menu)
  /\ UNCHANGED <<dom, swaps, unseen, early, focus, asks, prompt, tries, unlocked, recent>>

(***************************************************************************)
(* Opening the menu                                                        *)
(***************************************************************************)
\* openMenuFor up to its requests, for each of these fields.
Asking(fields, known) ==
  {a \in [field : fields, form : known, matches : {None}, people : {None}] :
     a.field \in DOMAIN a.form.role}

Opened(fields, known) ==
  LET found == IF known = {} THEN DetectForms ELSE known IN
  /\ forms' = IF fields = {} THEN known ELSE found
  /\ asks' = asks \cup Asking(fields, found)
  /\ Cardinality(asks') <= MaxAsks

Focus(f) ==
  /\ f \in dom /\ f # focus
  /\ focus' = f
  /\ Opened({f} \cap wired, forms)
  /\ UNCHANGED <<dom, swaps, unseen, wired, dirty, early, menu, prompt, tries, unlocked, recent>>

\* Once a page, and only if nothing is open.
OpenEarly ==
  /\ early
  /\ LET logins == {g \in forms : g.kind = "login" /\ g.score >= 65}
         at(g) == {f \in DOMAIN g.role : g.role[f] \in TriggerRoles}
         first == {f \in dom : \E g \in Best(logins) :
                     f \in at(g) /\ \A h \in at(g) : f <= h}
     IN /\ early' = FALSE
        /\ Opened(IF menu = None THEN first ELSE {}, forms)
  /\ UNCHANGED <<dom, swaps, unseen, wired, dirty, focus, menu, prompt, tries, unlocked, recent>>

\* GET_PAGE_MATCHES.
AnswerMatches(a) ==
  /\ a.matches = None
  /\ asks' = (asks \ {a}) \cup {[a EXCEPT !.matches = IF unlocked THEN "open" ELSE "locked"]}
  /\ UNCHANGED <<dom, swaps, unseen, forms, wired, dirty, early, focus, menu, prompt, tries,
                 unlocked, recent>>

\* GET_PAGE_IDENTITIES, and GET_IDENTIFIER_SUGGESTIONS with it.
AnswerPeople(a) ==
  /\ a.people = None
  /\ asks' = (asks \ {a}) \cup {[a EXCEPT !.people = IF unlocked THEN "open" ELSE "locked"]}
  /\ UNCHANGED <<dom, swaps, unseen, forms, wired, dirty, early, focus, menu, prompt, tries,
                 unlocked, recent>>

Matches(a) == IF a.matches = "open" THEN Match ELSE {}
CodeItems(a) == {i \in Matches(a) : MatchOf[i].code}
\* A passkey of a login's user stands behind that login.
Standalone(i) ==
  MatchOf[i].kind = "passkey" =>
    ~ \E l \in Match : MatchOf[l].kind = "login" /\ MatchOf[l].user = MatchOf[i].user
                      /\ MatchOf[i].user # ""

\* What s has at these places, in order.
At(s, places) ==
  [n \in 1..Cardinality(places) |->
     s[CHOOSE k \in places : Cardinality({j \in places : j <= k}) = n]]

Entry(what, ref) == [what |-> what, ref |-> ref]
EntriesOf(what, refs) == [n \in DOMAIN refs |-> Entry(what, refs[n])]
Entries(a) ==
  LET roles == {a.form.role[f] : f \in DOMAIN a.form.role}
      open == a.people = "open"
      signup == a.form.kind = "signup"
      listed == {n \in DOMAIN recent : recent[n] \in Matches(a) /\ Standalone(recent[n])}
      items == EntriesOf("item", At(recent, listed))
      people == IF open /\ roles \cap IdentityRoles # {}
                THEN EntriesOf("persona", Personas) ELSE <<>>
      known == IF open /\ signup /\ a.form.role[a.field] \in {"email", "username"}
               THEN EntriesOf("suggestion", Suggestions) ELSE <<>>
      generate == IF a.matches = "open" /\ open /\
                     (a.form.kind \in {"signup", "changePassword"} \/
                      roles \cap {"newPassword", "passwordConfirm"} # {})
                  THEN <<Entry("generate", None)>> ELSE <<>>
  IN IF signup THEN generate \o known \o people \o items ELSE items \o people \o generate

\* showMenu replaces an open menu; its element is a change of the document.
Shown(a) ==
  IF a.matches = "open" /\ a.people = "open" /\ Entries(a) = <<>>
  THEN UNCHANGED <<menu, dirty>>
  ELSE /\ menu' = [anchor |-> a.field, form |-> a.form, entries |-> Entries(a),
                   active |-> 0, query |-> None]
       /\ dirty' = TRUE

Show(a) ==
  /\ a.matches # None /\ a.people # None
  /\ asks' = asks \ {a}
  /\ IF a.form.role[a.field] = "totp" /\ CodeItems(a) # {}
     THEN /\ \E i \in CodeItems(a) : prompt' = [item |-> i, field |-> a.field, notes |-> TRUE]
          /\ dirty' = TRUE
          /\ UNCHANGED menu
     ELSE Shown(a) /\ UNCHANGED prompt
  /\ UNCHANGED <<dom, swaps, unseen, forms, wired, early, focus, tries, unlocked, recent>>

(***************************************************************************)
(* The open menu: keys act on its anchor, which keeps the focus            *)
(***************************************************************************)
Fits(e) == e.what = "generate" \/ menu.query \in {None, e.ref}
VisibleEntries == At(menu.entries, {n \in DOMAIN menu.entries : Fits(menu.entries[n])})
Actionable == Len(VisibleEntries) + 1    \* and the footer

Key(to) ==
  /\ menu # None /\ focus = menu.anchor /\ menu.anchor \in dom
  /\ menu' = [menu EXCEPT !.active = to]
  /\ UNCHANGED <<dom, swaps, unseen, forms, wired, dirty, early, focus, asks, prompt, tries,
                 unlocked, recent>>

ArrowDown == menu # None /\ Key((menu.active % Actionable) + 1)
ArrowUp == menu # None /\ Key(IF menu.active <= 1 THEN Actionable ELSE menu.active - 1)

\* (Mutant of TypeQuery: the highlight keeps its index.)
TypeQueryKeepsIndex(q) ==
  /\ menu # None /\ focus = menu.anchor /\ menu.anchor \in dom
  /\ Markup[menu.anchor].type # "password"
  /\ menu' = [menu EXCEPT !.query = q]
  /\ UNCHANGED <<dom, swaps, unseen, forms, wired, dirty, early, focus, asks, prompt, tries,
                 unlocked, recent>>

\* Typing narrows the list, except in a password field.
TypeQuery(q) ==
  /\ menu # None /\ focus = menu.anchor /\ menu.anchor \in dom
  /\ Markup[menu.anchor].type # "password"
  /\ menu' = [menu EXCEPT !.query = q, !.active = 0]
  /\ UNCHANGED <<dom, swaps, unseen, forms, wired, dirty, early, focus, asks, prompt, tries,
                 unlocked, recent>>

\* Escape, Tab, a press elsewhere, or the footer.
CloseMenu ==
  /\ menu # None
  /\ menu' = None /\ dirty' = TRUE
  /\ UNCHANGED <<dom, swaps, unseen, forms, wired, early, focus, asks, prompt, tries, unlocked,
                 recent>>

(***************************************************************************)
(* Filling                                                                 *)
(***************************************************************************)
\* fillDataForItem, fillDataForIdentity, fillGeneratedPassword.
Datum(e, role) ==
  LET i == e.ref
      login == e.what = "item" /\ MatchOf[i].kind = "login"
      given ==
        CASE login /\ role \in {"username", "email"}       -> "identifier"
          [] login /\ role \in {"password", "newPassword"} -> "password"
          [] login /\ role = "totp" /\ MatchOf[i].code      -> "code"
          [] e.what = "item" /\ MatchOf[i].kind = "totp" /\ role = "totp" -> "code"
          [] e.what = "item" /\ MatchOf[i].kind = "card" /\ role \in {"cardNumber", "cvv"} -> "card"
          [] e.what = "persona" /\ role \in IdentityRoles \cup {"email", "username"} -> "persona"
          [] e.what = "generate" /\ role \in {"password", "newPassword", "passwordConfirm"} -> "generated"
          [] OTHER -> None
  IN IF given = None THEN None ELSE <<given, i>>

\* fillField focuses each field it sets, which opens the menu for a wired one.
Filled(given, on, known) ==
  LET into == {f \in DOMAIN given : given[f] # None} \cap dom
      last == {f \in into : \A g \in into : f >= g}
  IN /\ focus' = IF into = {} THEN focus ELSE CHOOSE f \in last : TRUE
     /\ Opened({f \in into \cap on : f # focus \/ \E g \in into : g < f}, known)

FillOf(e) ==
  CASE e.what = "suggestion" -> [f \in {menu.anchor} |-> <<"identifier", e.ref>>]
    [] e.what = "item" /\ MatchOf[e.ref].kind = "totp" -> [f \in {menu.anchor} |-> <<"code", e.ref>>]
    [] OTHER -> [f \in DOMAIN menu.form.role |-> Datum(e, menu.form.role[f])]

\* UPDATE_ITEM_LAST_USED: the item is before those that were before it.
Used(e) ==
  recent' = IF e.what = "item" /\ unlocked
            THEN [n \in DOMAIN recent |->
                    IF n = 1 THEN e.ref
                    ELSE IF e.ref \in {recent[m] : m \in 1..(n - 1)} THEN recent[n] ELSE recent[n - 1]]
            ELSE recent

CodeFields == {f \in dom : \E g \in forms : f \in DOMAIN g.role /\ g.role[f] = "totp"}

\* An item with a code looks for the field of it, now and three times later.
CodeSought(e) ==
  IF e.what = "item" /\ MatchOf[e.ref].code
  THEN IF CodeFields # {}
       THEN /\ \E f \in CodeFields : prompt' = [item |-> e.ref, field |-> f, notes |-> FALSE]
            /\ UNCHANGED tries
       ELSE tries' = tries \cup {e.ref} /\ UNCHANGED prompt
  ELSE UNCHANGED <<prompt, tries>>

Choose(n) ==
  /\ menu # None /\ n \in DOMAIN VisibleEntries
  /\ menu' = None /\ dirty' = TRUE
  /\ LET e == VisibleEntries[n] IN Filled(FillOf(e), wired, forms) /\ Used(e) /\ CodeSought(e)
  /\ UNCHANGED <<dom, swaps, unseen, wired, early, unlocked>>

\* Enter takes the highlighted entry; on the footer it closes.
Enter ==
  /\ menu # None /\ focus = menu.anchor /\ menu.active > 0
  /\ IF menu.active = Actionable THEN CloseMenu ELSE Choose(menu.active)

\* AUTOFILL from the popup: the best form that is not a payment, after a scan
\* when none is known.  No password goes with it for a box for a new one.
PopupFill(i) ==
  /\ unlocked /\ MatchOf[i].kind = "login"
  /\ LET blind == forms = {}
         known == IF blind THEN DetectForms ELSE forms
         on == IF blind THEN wired \cup WiredBy(known) ELSE wired
         plain == {g \in known : g.kind # "payment"}
         given(r) == IF r = "newPassword" THEN None ELSE Datum(Entry("item", i), r)
     IN /\ \E form \in Best(IF plain = {} THEN known ELSE plain) :
             Filled([f \in DOMAIN form.role |-> given(form.role[f])], on, known)
        /\ wired' = on
        /\ menu' = IF blind /\ menu # None /\ menu.anchor \notin dom THEN None ELSE menu
  /\ dirty' = (dirty \/ menu' # menu)
  /\ UNCHANGED <<dom, swaps, unseen, early, prompt, tries, unlocked, recent>>

(***************************************************************************)
(* The one-time code prompt                                                *)
(***************************************************************************)
\* One of an item's three timers, of which others may be left: they run whether
\* or not an earlier one found the field.
TryCode(i) ==
  /\ i \in tries /\ tries' \in {tries, tries \ {i}}
  /\ IF CodeFields # {}
     THEN /\ \E f \in CodeFields : prompt' = [item |-> i, field |-> f, notes |-> FALSE]
          /\ dirty' = TRUE
     ELSE UNCHANGED <<prompt, dirty>>
  /\ UNCHANGED <<dom, swaps, unseen, forms, wired, early, focus, asks, menu, unlocked, recent>>

PromptFill ==
  /\ prompt # None
  /\ prompt' = None /\ dirty' = TRUE
  /\ Filled([f \in {prompt.field} |-> <<"code", prompt.item>>], wired, forms)
  /\ IF prompt.notes THEN Used(Entry("item", prompt.item)) ELSE UNCHANGED recent
  /\ UNCHANGED <<dom, swaps, unseen, wired, early, menu, tries, unlocked>>

PromptDismiss ==
  /\ prompt # None
  /\ prompt' = None /\ dirty' = TRUE
  /\ UNCHANGED <<dom, swaps, unseen, forms, wired, early, focus, asks, menu, tries, unlocked, recent>>

AgentToggleLock ==
  /\ unlocked' = ~unlocked
  /\ UNCHANGED <<dom, swaps, unseen, forms, wired, dirty, early, focus, asks, menu, prompt, tries,
                 recent>>

AgentInit ==
  /\ dom \in Layout /\ swaps = 0 /\ unseen = {}
  /\ forms = DetectForms /\ wired = WiredBy(DetectForms)
  /\ dirty = FALSE /\ early = TRUE /\ focus = None
  /\ asks = {} /\ menu = None /\ prompt = None /\ tries = {}
  /\ unlocked \in BOOLEAN /\ recent = Ranked

Answering == \E a \in asks : AnswerMatches(a) \/ AnswerPeople(a) \/ Show(a)
AgentNext ==
  \/ \E layout \in Layout, seen \in BOOLEAN : Mutate(layout, seen)
  \/ Rescan \/ OpenEarly \/ Answering
  \/ \E f \in Field : Focus(f)
  \/ ArrowDown \/ ArrowUp \/ Enter \/ CloseMenu
  \/ \E q \in {None} \cup Match : TypeQuery(q)
  \/ menu # None /\ \E n \in DOMAIN menu.entries : Choose(n)
  \/ \E i \in Match : PopupFill(i) \/ TryCode(i)
  \/ PromptFill \/ PromptDismiss \/ AgentToggleLock

\* The document is left alone for 300 ms now and then.
AgentFairness == WF_agentVars(Rescan)
AgentSpec == AgentInit /\ [][AgentNext]_agentVars /\ AgentFairness

(***************************************************************************)
(* Properties                                                              *)
(***************************************************************************)
AgentTypeOK ==
  /\ dom \in Layout /\ swaps \in 0..MaxSwaps /\ unseen \subseteq Field /\ wired \subseteq Field
  /\ dirty \in BOOLEAN /\ early \in BOOLEAN
  /\ focus \in Field \cup {None} /\ unlocked \in BOOLEAN
  /\ \A a \in asks : a.field \in DOMAIN a.form.role
  /\ menu # None => menu.anchor \in Field
  /\ prompt # None => prompt.item \in Match /\ prompt.field \in Field
  /\ tries \subseteq Match
  /\ DOMAIN recent = DOMAIN Ranked

\* However the list was narrowed and walked, the highlight is on an entry that
\* is listed or on the footer, so Enter takes what the user sees.
HighlightIsListed == menu # None => menu.active \in 0..Actionable

\* A menu whose field left the page does not stay, be it that the answers for
\* the menu came after the field had left: its own appearance sets off the scan
\* that finds the field gone.  Only where the field of a menu already open leaves
\* by a change the observer does not see, nothing looks.  (isAnchorAlive.)
DetachedMenuCloses ==
  menu # None /\ menu.anchor \notin dom \cup unseen ~> menu = None \/ menu.anchor \in dom
===============================================================================
