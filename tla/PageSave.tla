------------------------------- MODULE PageSave -------------------------------
(***************************************************************************)
(* A login submitted in a page and the question whether to save it: the    *)
(* content script (content/index.ts, content/save-prompt.ts), the worker's *)
(* handlers for it, and the table of pending saves in session storage, one *)
(* entry a tab, that carries the question over a navigation.  The content  *)
(* script runs in every frame of a tab (manifest.json, all_frames): each   *)
(* asks for the tab's pending save and has a prompt of its own, while the  *)
(* worker tells tabs apart and no frames.                                  *)
(*                                                                         *)
(* Steps of the worker end where it waits for storage.  Looking a login up *)
(* and reading the table are one step: the first reads the vault only, the *)
(* second the table only, so nothing can tell them apart.                  *)
(***************************************************************************)
EXTENDS Domain, FiniteSets

CONSTANTS
  Tab, Frame, Login, None,
  TabOf,         \* the tab of each frame
  Top,           \* the frame of each tab that holds the others
  Gone,          \* a deleted login: its id is never used again
  Site,          \* hosts of the pages
  Name, Blank,   \* identifiers; Blank is the empty one
  Pass,
  Shown,         \* the hosts whose documents come up in each frame
  Typed,         \* what is typed into a host's forms: an identifier and a password
  Edits,         \* what the user makes of a login: an identifier and a URL
  Start,         \* how a run may start: a vault, the Haste around it, and how many
                 \* submissions were made, and are long forgotten, by then
  MaxSubs,       \* bound: submissions
  MaxLoads       \* bound: documents loaded in a frame

\* What may happen at once: the table's writers overlap; a page asks for its
\* tab's pending save while the worker is still storing or removing it; the
\* user answers a prompt while a newer submission is looked up or another frame
\* is told of a pending save, or submits again while an answer is carried out;
\* the worker is stopped with handlers running.
Haste == {"overlap", "quick", "hasty", "eviction"}

\* host is metadata.url, which older logins lack, domain is metadata.domain.
Record == [host : Site \cup {None}, domain : Site \cup {RegistrableDomain(s) : s \in Site},
           url : Site, user : Name, pass : Pass]
Save == [site : Site, user : Name, pass : Pass, item : Login \cup {None}, n : 1..MaxSubs]
Table == [Tab -> Save \cup {None}]

Queueing == [frame : Frame, load : 0..MaxLoads, stage : {"decide", "write", "reply"},
             copy : Table \cup {None}, save : Save]
Telling == [frame : Frame, load : 0..MaxLoads, save : Save]
Clearance == [tab : Tab, copy : Table]
Saving == [save : Save, login : Record \cup {None}]

\* What the extension stores: metadata and login tell of the same host.  A save
\* from a page and an import keep the registrable domain, the editors of the
\* popup and of the vault page the host.
Coherent(login) ==
  /\ login.host \in {None, GetHost(login.url)}
  /\ login.domain \in {RegistrableDomain(login.url), GetHost(login.url)}

\* Hosts have labels, and none starts with "www.www.".
ASSUME SiteAssumption ==
  \A s \in Site :
    /\ s \in Seq(STRING) \ {<<>>}
    /\ GetHost(s) \in Site /\ GetHost(GetHost(s)) = GetHost(s)

ASSUME FrameAssumption ==
  TabOf \in [Frame -> Tab] /\ Top \in [Tab -> Frame] /\ \A t \in Tab : TabOf[Top[t]] = t

ASSUME PageSaveAssumption ==
  /\ None \notin Login \cup Site \cup Save \cup Table \cup Record \cup 1..MaxSubs
  /\ None \notin Typed
  /\ Gone \notin Record /\ Gone # None /\ {"locked", "same"} \cap Login = {}
  /\ Shown \in [Frame -> SUBSET Site] /\ Typed \subseteq [site : Site, user : Name, pass : Pass]
  /\ Edits \subseteq [login : Login, user : Name, url : Site]
  /\ \A b \in Start :
       /\ b.haste \subseteq Haste /\ b.made \in 0..MaxSubs /\ b.vault \in [Login -> Record \cup {None, Gone}]
       /\ \A l \in Login : b.vault[l] \in Record => Coherent(b.vault[l])
  /\ MaxSubs \in Nat /\ MaxLoads \in Nat

VARIABLES
  vault,     \* [Login -> a login, None (never used) or Gone]
  unlocked,
  table,     \* vw_pending_saves
  page,      \* the document of each frame
  closed,    \* tabs that are gone
  queue,     \* QUEUE_SAVE_PROMPT being handled
  told,      \* answers to GET_PENDING_SAVE on their way
  clears,    \* removals of a tab's entry being handled
  saves,     \* SAVE_LOGIN_FROM_PAGE being handled
  stale,     \* submissions whose two minutes are over
  count,     \* submissions so far
  haste,     \* the surroundings, fixed at the start
  due,       \* history: the submission of each tab that waits for an answer
  answered,  \* history: submissions the user answered
  edited,    \* history: logins the user edited
  crowded    \* history: a save was confirmed while another frame showed a prompt

vars == <<vault, unlocked, table, page, closed, queue, told, clears, saves, stale, count,
          haste, due, answered, edited, crowded>>
history == <<haste, due, answered, edited, crowded>>

Document == [open : BOOLEAN, site : Site, load : 0..MaxLoads, asked : BOOLEAN,
             queued : Typed \cup {None}, prompt : Save \cup {None}]

Init ==
  /\ \E b \in Start : vault = b.vault /\ haste = b.haste /\ count = b.made
  /\ unlocked \in BOOLEAN
  /\ table = [t \in Tab |-> None]
  /\ \E s \in [Tab -> Site] :
       /\ \A t \in Tab : s[t] \in Shown[Top[t]]
       /\ page = [f \in Frame |->
                   [open |-> f = Top[TabOf[f]], site |-> s[TabOf[f]], load |-> 0,
                    asked |-> TRUE, queued |-> None, prompt |-> None]]
  /\ closed = {} /\ queue = {} /\ told = {} /\ clears = {} /\ saves = {} /\ stale = {}
  /\ due = [t \in Tab |-> None] /\ answered = {} /\ edited = {} /\ crowded = FALSE

\* readPendingSaves: what has expired is not there.
ReadPendingSaves ==
  [t \in Tab |-> IF table[t] = None \/ table[t].n \in stale THEN None ELSE table[t]]

Storing == {q \in queue : q.stage = "write"}
MayUseTable == (Storing = {} /\ clears = {}) \/ "overlap" \in haste
Settled(t) ==
  ~ ((\E q \in queue : TabOf[q.frame] = t) \/ (\E j \in clears : j.tab = t))
\* The page has its settings and its forms are wired.
Ready(f) == page[f].open /\ page[f].asked

(***************************************************************************)
(* The page                                                                *)
(***************************************************************************)
\* offerToSave: the credentials go out unless they are the last ones sent.
Sent(f, c) ==
  [frame |-> f, load |-> page[f].load, stage |-> "decide", copy |-> None,
   save |-> [site |-> page[f].site, user |-> c.user, pass |-> c.pass,
             item |-> None, n |-> count + 1]]

Submit(f, c) ==
  /\ Ready(f) /\ c.site = page[f].site /\ page[f].queued # c /\ count < MaxSubs
  /\ ~(\E a \in told : a.frame = f) \/ "quick" \in haste
  /\ page' = [page EXCEPT ![f].queued = c]
  /\ queue' = queue \cup {Sent(f, c)}
  /\ count' = count + 1
  /\ UNCHANGED <<vault, unlocked, table, closed, told, clears, saves, stale, history>>

\* pagehide: credentials in the form that were never sent are sent now.
Hide(f, typed) ==
  IF typed = None \/ typed = page[f].queued \/ ~Ready(f)
  THEN UNCHANGED <<queue, count>>
  ELSE /\ typed.site = page[f].site /\ count < MaxSubs
       /\ queue' = queue \cup {Sent(f, typed)}
       /\ count' = count + 1

\* A document goes, the frames inside it before it.
Leave(f, typed) ==
  /\ page[f].open
  /\ f = Top[TabOf[f]] => ~ \E g \in Frame \ {f} : TabOf[g] = TabOf[f] /\ page[g].open
  /\ Hide(f, typed)
  /\ page' = [page EXCEPT ![f] = [@ EXCEPT !.open = FALSE, !.queued = None, !.prompt = None]]
  /\ UNCHANGED <<vault, unlocked, table, closed, told, clears, saves, stale, history>>

\* The next one comes, inside the tab's top document or as it.
Load(f, s) ==
  /\ ~page[f].open /\ page[f].load < MaxLoads /\ TabOf[f] \notin closed
  /\ f = Top[TabOf[f]] \/ page[Top[TabOf[f]]].open
  /\ page' = [page EXCEPT ![f] = [@ EXCEPT !.open = TRUE, !.site = s,
                                            !.load = page[f].load + 1, !.asked = FALSE]]
  /\ UNCHANGED <<vault, unlocked, table, closed, queue, told, clears, saves, stale, count,
                 history>>

\* showPendingSaveFromPreviousPage, once the frame has its settings; an answer
\* of null shows nothing and is left out.
AskHeld(f) ==
  /\ page[f].open /\ ~page[f].asked
  /\ Settled(TabOf[f]) \/ "quick" \in haste
  /\ page' = [page EXCEPT ![f].asked = TRUE]
  /\ told' = told \cup {[frame |-> f, load |-> page[f].load, save |-> s] :
                          s \in {ReadPendingSaves[TabOf[f]]} \ {None}}
  /\ UNCHANGED <<vault, unlocked, table, closed, queue, clears, saves, stale, count, history>>

\* (Mutant of Prompted: a prompt that is already there stays.)
PromptedOnce(f, load, save) ==
  page' = IF page[f].open /\ page[f].load = load /\ page[f].prompt = None
          THEN [page EXCEPT ![f].prompt = save] ELSE page

\* showSavePrompt takes an older prompt off the frame.
Prompted(f, load, save) ==
  page' = IF page[f].open /\ page[f].load = load
          THEN [page EXCEPT ![f].prompt = save] ELSE page

HeldShown(a) ==
  /\ told' = told \ {a}
  /\ Prompted(a.frame, a.load, a.save)
  /\ UNCHANGED <<vault, unlocked, table, closed, queue, clears, saves, stale, count, history>>

Clearing(t) == [tab |-> t, copy |-> ReadPendingSaves]

\* The prompt of one frame; whatever the tab has pending goes with the answer,
\* if it is what another frame asks about, too.
Answered(f) ==
  /\ page[f].open /\ page[f].prompt # None
  /\ \/ Settled(TabOf[f]) /\ ~ \E a \in told : TabOf[a.frame] = TabOf[f]
     \/ "hasty" \in haste
  /\ page' = [page EXCEPT ![f].prompt = None]
  /\ answered' = answered \cup {page[f].prompt.n}
  /\ due' = [due EXCEPT ![TabOf[f]] = None]

Crowd(f) ==
  \E g \in Frame \ {f} : TabOf[g] = TabOf[f] /\ page[g].prompt # None

\* (Mutant of Confirm: the pending save is left to expire.)
ConfirmKeepsPending(f) ==
  /\ Answered(f)
  /\ saves' = saves \cup {[save |-> page[f].prompt, login |-> None]}
  /\ crowded' = (crowded \/ Crowd(f))
  /\ UNCHANGED <<vault, unlocked, table, closed, queue, told, clears, stale, count,
                 haste, edited>>

\* The save and the removal of the pending save are sent together.
Confirm(f) ==
  /\ Answered(f) /\ MayUseTable
  /\ saves' = saves \cup {[save |-> page[f].prompt, login |-> None]}
  /\ clears' = clears \cup {Clearing(TabOf[f])}
  /\ crowded' = (crowded \/ Crowd(f))
  /\ UNCHANGED <<vault, unlocked, table, closed, queue, told, stale, count, haste, edited>>

\* By the user, or by the frame's prompt itself after thirty seconds.
Dismiss(f) ==
  /\ Answered(f) /\ MayUseTable
  /\ clears' = clears \cup {Clearing(TabOf[f])}
  /\ UNCHANGED <<vault, unlocked, table, closed, queue, told, saves, stale, count,
                 haste, edited, crowded>>

\* tabs.onRemoved, once the tab's documents are gone: the worker drops its entry.
CloseTab(t) ==
  /\ t \notin closed /\ MayUseTable
  /\ \A f \in Frame : TabOf[f] = t => ~page[f].open
  /\ closed' = closed \cup {t}
  /\ clears' = clears \cup {Clearing(t)}
  /\ due' = [due EXCEPT ![t] = None]
  /\ UNCHANGED <<vault, unlocked, table, page, queue, told, saves, stale, count,
                 haste, answered, edited, crowded>>

(***************************************************************************)
(* The worker                                                              *)
(***************************************************************************)
Stored == {l \in Login : vault[l] \notin {None, Gone}}
Key(login) == IF login.host # None THEN login.host ELSE login.domain

\* (Mutant of Belongs: any match of the stored host will do.)
BelongsLoosely(l, save) ==
  /\ MatchStrength(Key(vault[l]), save.site) # NoMatch
  /\ save.user # Blank /\ vault[l].user = save.user

\* (Mutant of Belongs: only the stored domain is compared.)
BelongsByDomain(l, save) ==
  /\ MatchStrength(vault[l].domain, save.site) = Exact
  /\ save.user # Blank /\ vault[l].user = save.user

\* The login of this host and identifier.  The match is exact, on the stored
\* URL, the stored domain or the login's own URL.
Belongs(l, save) ==
  /\ MatchStrength(Key(vault[l]), save.site) # NoMatch
  /\ \E h \in {vault[l].host, vault[l].domain, vault[l].url} \ {None} :
       MatchStrength(h, save.site) = Exact
  /\ save.user # Blank /\ vault[l].user = save.user

\* handleFindLoginForSave.  Of several logins whose password differs it is the
\* last of the vault's order, which the model does not keep.
Decisions(save) ==
  LET known == {l \in Stored : Belongs(l, save)} IN
  IF ~unlocked THEN {"locked"}
  ELSE IF \E l \in known : vault[l].pass = save.pass THEN {"same"}
  ELSE IF known = {} THEN {None} ELSE known

\* (Mutant of Actionable: what is saved already is asked about as well.)
ActionableSame(d) == d # "locked"
Actionable(d) == d \notin {"locked", "same"}

\* Submissions of one frame go through the same waits, and storage and messages
\* are served in order: none overtakes another.
First(q) == ~ \E e \in queue : e.frame = q.frame /\ e.stage = q.stage /\ e.save.n < q.save.n

\* handleQueueSavePrompt up to its write.  Locked, or saved already: nothing is
\* held and the page shows nothing.
Decide(q, d) ==
  /\ q.stage = "decide" /\ First(q) /\ d \in Decisions(q.save)
  /\ saves = {} \/ "hasty" \in haste
  /\ IF Actionable(d)
     THEN /\ MayUseTable
          /\ queue' = (queue \ {q}) \cup
               {[q EXCEPT !.stage = "write", !.save.item = d, !.copy = ReadPendingSaves]}
          /\ due' = IF TabOf[q.frame] \in closed THEN due
                    ELSE [due EXCEPT ![TabOf[q.frame]] = q.save.n]
     ELSE queue' = queue \ {q} /\ due' = due
  /\ UNCHANGED <<vault, unlocked, table, page, closed, told, clears, saves, stale, count,
                 haste, answered, edited, crowded>>

\* (Mutant of WritePending: a submission whose page is gone is not held.)
WritePendingHere(q) ==
  /\ q.stage = "write" /\ First(q)
  /\ table' = IF page[q.frame].open /\ page[q.frame].load = q.load
              THEN [q.copy EXCEPT ![TabOf[q.frame]] = q.save] ELSE q.copy
  /\ queue' = (queue \ {q}) \cup {[q EXCEPT !.stage = "reply", !.copy = None]}
  /\ UNCHANGED <<vault, unlocked, page, closed, told, clears, saves, stale, count, history>>

\* The whole table is written back; its two minutes start.
WritePending(q) ==
  /\ q.stage = "write" /\ First(q)
  /\ table' = [q.copy EXCEPT ![TabOf[q.frame]] = q.save]
  /\ queue' = (queue \ {q}) \cup {[q EXCEPT !.stage = "reply", !.copy = None]}
  /\ UNCHANGED <<vault, unlocked, page, closed, told, clears, saves, stale, count, history>>

\* queueAndPrompt goes on, if its document is still there.
Reply(q) ==
  /\ q.stage = "reply" /\ First(q)
  /\ queue' = queue \ {q}
  /\ Prompted(q.frame, q.load, q.save)
  /\ UNCHANGED <<vault, unlocked, table, closed, told, clears, saves, stale, count, history>>

ClearPending(j) ==
  /\ clears' = clears \ {j}
  /\ table' = [j.copy EXCEPT ![j.tab] = None]
  /\ UNCHANGED <<vault, unlocked, page, closed, queue, told, saves, stale, count, history>>

\* handleSaveLoginFromPage: the login to update is opened first.
SaveFind(j) ==
  /\ j.save.item # None /\ j.login = None
  /\ saves' = (saves \ {j}) \cup
       IF unlocked /\ j.save.item \in Stored
       THEN {[j EXCEPT !.login = vault[j.save.item]]} ELSE {}
  /\ UNCHANGED <<vault, unlocked, table, page, closed, queue, told, clears, stale, count, history>>

\* handleUpdateItem: the data found, with the new password, if the login is
\* still there.  The URL goes into the metadata again, of older logins, too.
SaveUpdate(j) ==
  /\ j.login # None
  /\ saves' = saves \ {j}
  /\ vault' = IF unlocked /\ j.save.item \in Stored
              THEN [vault EXCEPT ![j.save.item] =
                     [j.login EXCEPT !.host = GetHost(j.login.url), !.pass = j.save.pass]]
              ELSE vault
  /\ UNCHANGED <<unlocked, table, page, closed, queue, told, clears, stale, count, history>>

\* handleCreateItem; while locked it fails.
SaveCreate(j, l) ==
  /\ j.save.item = None /\ vault[l] = None
  /\ saves' = saves \ {j}
  /\ vault' = IF unlocked
              THEN [vault EXCEPT ![l] =
                     [host |-> GetHost(j.save.site), domain |-> RegistrableDomain(j.save.site),
                      url |-> j.save.site, user |-> j.save.user, pass |-> j.save.pass]]
              ELSE vault
  /\ UNCHANGED <<unlocked, table, page, closed, queue, told, clears, stale, count, history>>

(***************************************************************************)
(* Around them                                                             *)
(***************************************************************************)
\* Two minutes after it was stored, in the table or in a copy of it.
Expire(n) ==
  /\ n \notin stale
  /\ \E c \in {table} \cup {j.copy : j \in {q \in queue : q.stage = "write"} \cup clears} :
       \E t \in Tab : c[t] # None /\ c[t].n = n
  /\ stale' = stale \cup {n}
  /\ due' = [t \in Tab |-> IF due[t] = n THEN None ELSE due[t]]
  /\ UNCHANGED <<vault, unlocked, table, page, closed, queue, told, clears, saves, count,
                 haste, answered, edited, crowded>>

ToggleLock ==
  /\ unlocked' = ~unlocked
  /\ UNCHANGED <<vault, table, page, closed, queue, told, clears, saves, stale, count, history>>

DeleteLogin(l) ==
  /\ unlocked /\ l \in Stored
  /\ vault' = [vault EXCEPT ![l] = Gone]
  /\ UNCHANGED <<unlocked, table, page, closed, queue, told, clears, saves, stale, count, history>>

\* The editors of the popup and of the vault page: the identifier and the URL,
\* and with it both hosts of the metadata.
Edit(e) ==
  /\ unlocked /\ e.login \in Stored \ edited
  /\ vault' = [vault EXCEPT ![e.login] = [@ EXCEPT !.host = GetHost(e.url), !.domain = GetHost(e.url),
                                                   !.url = e.url, !.user = e.user]]
  /\ edited' = edited \cup {e.login}
  /\ UNCHANGED <<unlocked, table, page, closed, queue, told, clears, saves, stale, count,
                 haste, due, answered, crowded>>

\* The worker stops with what it was doing; session storage stays.
Evict ==
  /\ "eviction" \in haste /\ queue \cup told \cup clears \cup saves # {}
  /\ queue' = {} /\ told' = {} /\ clears' = {} /\ saves' = {}
  /\ UNCHANGED <<vault, unlocked, table, page, closed, stale, count, history>>

PageStep ==
  \/ \E f \in Frame, c \in Typed : Submit(f, c)
  \/ \E f \in Frame, c \in Typed \cup {None} : Leave(f, c)
  \/ \E f \in Frame : \E s \in Shown[f] : Load(f, s)
  \/ \E f \in Frame : AskHeld(f) \/ Confirm(f) \/ Dismiss(f)
  \/ \E t \in Tab : CloseTab(t)
  \/ \E a \in told : HeldShown(a)

WorkerStep ==
  \/ \E q \in queue :
       \/ \E d \in Login \cup {None, "locked", "same"} : Decide(q, d)
       \/ WritePending(q)
       \/ Reply(q)
  \/ \E j \in clears : ClearPending(j)
  \/ \E j \in saves : SaveFind(j) \/ SaveUpdate(j) \/ \E l \in Login : SaveCreate(j, l)

Next ==
  \/ PageStep \/ WorkerStep \/ ToggleLock \/ Evict
  \/ \E n \in 1..MaxSubs : Expire(n)
  \/ \E l \in Login : DeleteLogin(l)
  \/ \E e \in Edits : Edit(e)

\* The worker does not stop short of an answer, and a loaded frame asks.
Progress ==
  WorkerStep \/ (\E a \in told : HeldShown(a)) \/ (\E f \in Frame : AskHeld(f))
Fairness == WF_vars(Progress)

Spec == Init /\ [][Next]_vars /\ Fairness

(***************************************************************************)
(* Properties                                                              *)
(***************************************************************************)
TypeOK ==
  /\ vault \in [Login -> Record \cup {None, Gone}] /\ unlocked \in BOOLEAN
  /\ table \in Table /\ page \in [Frame -> Document] /\ closed \subseteq Tab
  /\ queue \subseteq Queueing /\ told \subseteq Telling
  /\ clears \subseteq Clearance /\ saves \subseteq Saving
  /\ stale \subseteq 1..MaxSubs /\ count \in 0..MaxSubs
  /\ haste \subseteq Haste
  /\ due \in [Tab -> 1..MaxSubs \cup {None}]
  /\ answered \subseteq 1..MaxSubs /\ edited \subseteq Login /\ crowded \in BOOLEAN

SameHost(h, k) == GetHost(h) = GetHost(k)

\* Whatever happened between the submission and the answer - other frames and
\* tabs, saves of theirs to the same login, locks, an eviction, a deletion - a
\* save from a page replaces the password only of a login one of whose hosts
\* (the metadata's URL and domain, its own URL) is the page's own, and under the
\* identifier that was submitted, unless the user edited it since.
\* (handleFindLoginForSave's exact match and the item id that travels with the
\* prompt.)
OverwritesMatch ==
  [][\A l \in Login :
       l \in Stored /\ l \in Stored' /\ vault'[l].pass # vault[l].pass =>
         \E j \in saves \ saves' :
           /\ j.save.item = l /\ vault'[l].pass = j.save.pass
           /\ \/ l \in edited
              \/ /\ \E h \in {vault[l].host, vault[l].domain, vault[l].url} \ {None} :
                      SameHost(h, j.save.site)
                 /\ vault[l].user = j.save.user]_vars

\* A submission worth a question is kept until a prompt of its tab is answered,
\* the tab's next one replaces it, its two minutes pass or the tab is closed -
\* across navigations of any frame and whatever other tabs do, as long as the
\* table has one writer at a time and the user does not answer into a lookup.
\* (chrome.storage.session instead of a Map, and one entry a tab: the answer to
\* an older question that another frame still shows, by its thirty seconds too,
\* is one that ends it.)
HeldUntilAnswered ==
  haste = {} => \A t \in Tab : due[t] # None =>
    \/ (table[t] # None /\ table[t].n = due[t])
    \/ \E q \in Storing : TabOf[q.frame] = t /\ q.save.n = due[t]

\* What the user has answered is not asked again: no frame, on this page or on
\* the next, puts up a prompt for it any more.  Prompts other frames had up by
\* then stay.  (CLEAR_PENDING_SAVE goes out with every answer.)
AnswerSticks ==
  [][haste = {} =>
       \A f \in Frame :
         page'[f].prompt \notin {None, page[f].prompt} => page'[f].prompt.n \notin answered]_vars

\* With one tab, as long as no save is confirmed beside another frame's prompt,
\* a login is never saved beside one of the same host and identifier: by the
\* time the answer comes, what was looked up still holds.
NoDuplicate ==
  haste = {} /\ Cardinality(Tab) = 1 /\ edited = {} /\ ~crowded =>
    \A k, l \in Stored :
      k # l /\ vault[k].url = vault[l].url /\ vault[k].user = vault[l].user =>
        vault[l].user = Blank

\* Submission n has a frame that is to ask about it: the one it was made in,
\* still there, or one that has been loaded since.
Owes(f, n) ==
  /\ page[f].open /\ due[TabOf[f]] = n
  /\ \/ ~page[f].asked
     \/ \E q \in queue : q.frame = f /\ q.load = page[f].load /\ q.save.n = n
Shows(f, n) == page[f].prompt # None /\ page[f].prompt.n = n

\* A submission worth a question is asked about, in every frame that owes the
\* question, on this page or on the next, unless a prompt of the tab is answered
\* or the submission is replaced or expires, or the frame goes before.
PromptComes ==
  \A f \in Frame, n \in 1..MaxSubs :
    haste = {} /\ Owes(f, n) ~> Shows(f, n) \/ due[TabOf[f]] # n \/ ~page[f].open
===============================================================================
