# VaultWares identity manager: specifications and proofs

TLA+ modules for the browser extension and the phone app in `src/`: what the
background worker, the pages, the scripts in web pages and the user's other
devices do to one another, model-checked with TLC on small instances, with the
most important results proved by TLAPS for every size. Paths below are relative
to the repository root; `BG` stands for `src/background/index.ts`.

## 1. The system

A vault of logins, cards, notes, passkeys and personas lives encrypted in
`chrome.storage.local`. One background worker holds the keys; everything else
(popup, vault page, onboarding, content scripts) sends it messages. Handlers are
asynchronous functions in one JavaScript thread, so they interleave at every
`await`, and the browser may stop the worker whenever it likes. The phone app
opens the vault of the account by itself and only reads it.

| Component (source) | State it keeps | Operations | Talks to |
|---|---|---|---|
| Vault storage (`utils/storage.ts`, `utils/identity-storage.ts`) | items, identities, cursor, each under one storage key, with caches in memory | whole-key reads and writes | every handler |
| Sync queue (`api/sync-queue.ts`) | queue of edits, processing flag, cursor | enqueue, processQueue every 60 s, fullSync on request | storage, sync server (`api/sync.ts`) |
| Vault handlers (`BG` 370-494, 808-983) | none of their own | create, update, delete, assign, last used | storage, queue, keychain |
| Keychain (`crypto/keychain.ts`, `BG` 97-112, 232-335) | cached master key and deadline, in memory and in session storage; lock timer; plaintext cache | unlock, lock, read, reset the timer | every handler that opens items |
| Accounts (`BG` 259-293, 337-368, 506-549, 1284-1393; `crypto/recovery.ts`, `crypto/enrollment.ts`, `api/warden.ts`) | stored keychain, wrapped key, recovery kits; on the server one account key and rows of sealed keychains | set up, restore a kit, enroll, join with the master password, reset | vault-warden |
| Passkeys (`webauthn/inject.ts`, `bridge.ts`, `consent.ts`, `service.ts`) | pending calls (page), ceremonies in flight and the prompt (bridge) | create, get, abort, consent | window messages, worker |
| Save prompt (`BG` 1090-1282, `content/index.ts` 475-636, `content/save-prompt.ts`) | pending saves per tab in session storage; what each frame sent last, and its prompt | queue, ask again on the next page, show, save, clear | the content scripts of all frames, vault |
| Autofill (`content/detect.ts`, `index.ts`, `menu.ts`, `totp-prompt.ts`) | forms of the last scan, wired fields, the menu, the code prompt, timers | scan, ask, open, narrow, walk, fill | worker |
| Domain matching (`utils/domain.ts`) | none | registrable domain, match strength | save prompt, autofill |
| Popup and vault page (`popup/App.tsx`, `vault/App.tsx`) | what each believes of the lock, and what it has fetched | fetch, search, open, edit, save, delete, assign, sync | worker |
| PIN box (`utils/use-auto-unlock.ts`, `crypto/kdf-async.ts`, `workers/kdf-worker.ts`) | debounce, texts tried, the chain of turns; jobs posted to the KDF worker | try what is typed, Enter | worker's UNLOCK chain |
| Import (`vault/ImportPanel.tsx`, `utils/import.ts`, `BG` CREATE_ITEM) | the file read, its marks and ticks, the count | pick, tick, import | vault page, worker |
| Phone (`mobile/`) | the open vault on the screen; clipboard, its countdown | probe, open, search, copy, lock in the background | vault-warden, clipboard |
| Password generator, TOTP (`utils/`), hosted API client (`api/client.ts`), generation service | none, or two tokens | single calls | - |

**What is hard.** Read-modify-write of whole storage keys by interleaved
handlers; a sync that reads the vault, waits for the network and writes back; a
worker evicted between any two writes; requests whose effect happened and whose
answer is lost; a keychain replaced under a running sync; reads of the session
copy of a key answered after a lock; a timer racing the work it guards; a
ceremony spread over a page, a content script, a user and a worker, aborted at
any moment; a question asked in one document and answered in the next; a page
that changes its forms while answers are on their way; screens that show what
they heard before the vault locked. `PROJECT.json` lists each hazard at its
line.

**What makes each part correct.** Sync: an edit is never undone by an older one,
nothing vanishes without a deletion, every deletion reaches the server, the
cursor never claims more than the vault has, replicas converge. Keychain: an
idle vault is closed to every reader, a locked one stays locked, no plaintext
without a key, no lock while it is in use. Accounts: the PIN opens what is
stored; a kit or sealed keychain opens; the server never loses its only
keychain. Passkeys: nothing is signed without the user's approval of that very
call; an aborted call does nothing; every call is settled. Save prompt: a
submitted login is kept until its tab answers, is asked about, is answered once,
is not saved twice and overwrites only the login it belongs to. Autofill: the
highlight is on something listed, and a menu does not outlive its field. Pages:
a locked vault is never shown as an empty one. PIN box: a try ends. Import: the
count is true, and an import that runs alone saves nothing the vault has. Phone:
no secret is called cleared that is not, and an open vault does not stay open in
the background.

## 2. Plan

| Order | Module | Status |
|---|---|---|
| 1 | `VaultSync`, with the abstract `ReplicaContract` it implements | done; all its safety properties and the refinement proved |
| 2 | `KeychainLock` | done; all its checked properties proved |
| 3 | `Accounts` | done; all its checked properties proved |
| 4 | `Passkeys` | done; all its safety properties proved |
| 5 | `PageSave`, with `Domain` | done; all its safety properties proved |
| 6 | `PageAgent`, `Pages`, `PinBox`, `Phone`, `Import`, composed in `MCSurfaces` | done; all their safety properties proved |

Every safety property and every property of steps that a run checks has a
theorem; what is left to TLC is liveness. Section 8 says why the rest of the
code is left out.

## 3. Modules and the code

**`VaultSync`.** `vault` is the pair of storage keys (an envelope is the time of
its edit and the account that signed it: nothing else is compared), `queue`,
`cursor` and `keys` are the other storage keys, `task` and `run` hold the local
variables of handlers and syncs waiting at an `await`. One action is what runs
between two awaits that reach storage or the network; a sync reads items,
identities and cursor in three steps (`LoadItems`, `LoadIdentities`,
`LoadCursor`). An update of an item opens it first, so this account signed it; a
persona to update and anything to delete come from a page, which may have read
them before a sync or a reset, so any id ever given out (`minted`) will do. The
server and the other devices (`Remote`) are external: last write wins, a
sequence number per record. `Allowed`, chosen at the start from the constant
`Surroundings`, says which of eight hazards the surroundings commit (handlers
during a sync, two syncs, two handlers, evictions, lost requests, failing
storage, resets, keychains replaced), so that each property is stated for the
strongest hazards it survives.

**`ReplicaContract`.** What a replica promises: local edits are not undone,
catching up only takes what the server has, deletions are owed until settled:
the server has buried the id, or holds a later edit, or an envelope of another
account. `VaultSync!KeepsContract` is the refinement.

**`KeychainLock`.** `key`/`lockAt` in memory, `stored`/`storedAt` in session
storage, `timer` and the timers whose handle was overwritten (`strays`), the
chain of UNLOCK requests, `opened` for the plaintext cache, and per message the
step it is at. A session read is answered with what storage held when it was
made. `limit`, `told`, `raced`, `adjusted` are history.

**`Accounts`.** Per device the stored keychain, its device id, the account whose
key the PIN unwraps, and the cached key; on the server the account key and the
rows of sealed keychains. A bundle (kit or row) is the pair of the keychain in
it and the key it is sealed under. `torn` marks devices whose keys may have come
apart, by a stop between two writes or a join without a PIN.

**`Passkeys`.** `page` is the promise of each call, `posted` the window's
messages in order, `inFlight` the bridge's set, `prompt`/`offered`/`shown` the
consent promises and the one card on the page, `job` the worker's step for a
call, `chosen` the decision. Timeouts are timers that may fire at any time while
their prompt is unsettled, which covers every deadline.

**`Domain`.** Hosts as sequences of labels, `RegistrableDomain` and
`MatchStrength` branch for branch; the two lists of suffixes are parameters.

**`PageSave`.** The content script runs in every frame (`manifest.json`,
`all_frames`), the worker tells only tabs apart (`BG` 1524-1531). `page` is each
frame's document (its site, whether it has asked for the tab's pending save, the
credentials it sent last, its prompt), `table` the `vw_pending_saves` of session
storage, one entry a tab. A document goes (`Leave`, with what `pagehide` still
sends, frames inside before the one that holds them) and the next one comes
(`Load`). `queue`, `clears`, `told` and `saves` are the handlers and answers
under way: a QUEUE_SAVE_PROMPT has a login to look up, then a copy of the table
to write back, then a reply; a removal has its copy of the table; a save has the
login it opened, and stores it with `metadata.url` written anew
(`withNormalizedLoginUrl`). A frame's prompt goes by an answer in that frame - a
button, or its own thirty seconds - and takes the tab's entry with it, whatever
other frames show. `Edit` is what the editors of popup and vault page make of a
login: they keep the full host as its domain, where a save from a page keeps the
registrable one (`Coherent`). `due`, `answered`, `edited` and `crowded` (a save
was confirmed beside another frame's prompt) are history. `haste` says what the
user and the browser do at once: two writers of the table (`overlap`), a page
that asks before the worker is done (`quick`), answers into a lookup (`hasty`),
a stopped worker (`eviction`).

**`PageAgent`.** The document's attached fields, the forms of the last scan,
focus, the requests for a menu under way, the menu with its list, filter and
highlight, the code prompt, and the timers. A change of the document is one the
observer sees (elements of the light document come or go) or one it does not (an
open shadow root, a style); `unseen` remembers that the field of the open menu
went by the second kind. Classification follows `detect.ts` rule for rule over
what a site may say of a field. `At(s, places)` is what a filter leaves of an
array.

**`Pages`.** Each page's record of what it shows, and the bag of its messages
under way: a message is served by the worker, then continued by the page, in any
order. Every handler of the two pages that sends or hears something is an
action. A read that needs keys asks the keychain twice, and a lock may come in
between (`ServeLocking`): then GET_ITEMS says "locked" and the others do not,
the reverse of how they answer a vault that is locked from the start
(`Refusal`). `raced` has the pages whose last read for their list met that.
`VaultHears` has one arm for each operation and kind of thing the vault page
waits for; the arms exclude each other, so the definition does not lean on the
order in which a CASE is evaluated.

**`PinBox`.** The box's text, debounce, `attempted`, the promise chain
(`turns`), the worker's chain of UNLOCKs and the KDF worker, which may never
load.

**`Phone`.** The probe, the unlock form, the open vault, and the clipboard:
writes in order, intervals, the one interval whose handle is kept, the banner.
The code's one status for failure is two to the user, and two here:
`clear-failed`, the secret is still there, and `copy-failed`, the last copy did
not get there, which says nothing of the one before. `overran` says that the time to lock came while the
vault was being opened, which is then open in the background.

**`Import`.** The vault as a count per row, the page's own list, the panel,
files being read with the list they will be judged against, imports under way
(each with the indices of the rows it has left, which it takes in order). When a
row is saved, `twice` notes whether the vault held a key of it at that moment,
and `alone` whether another import saved something meanwhile; nothing in the
panel keeps a second import from starting, once the panel was left and shown
again.

`MCVaultSync`, `MCKeychainLock`, `MCAccounts`, `MCPasskeys` and `MCPageSave`
give the constants values; the `.cfg` files choose among them. `MCSurfaces`
composes the five parts that meet the user. They share no state but the lock,
which each sees change under it at any moment, so nothing can tell whether two
of them run side by side; a behaviour of the composition therefore runs one
(`running`), and their state spaces add up instead of multiplying.

## 4. Runs

| Run | Instance | Shows |
|---|---|---|
| `VaultSync` | an item, a persona, two accounts, one handler; three surroundings: any fault but nothing overlapping, lost requests and resets, two syncs at once | `OneDrain`, `OneAccountPerSync`; `NeverOlder`, `NothingVanishes`, `DeletionDelivered` where nothing overlaps; `CursorIsHonest`, `ResetLeavesNothing`, `KeepsContract` (refinement) where storage and worker hold too |
| `VaultSyncLive` | one item; lost requests, keychains replaced | `Converges`, `QueueDrains`, `DrainEnds`, `ForeignSwept` |
| `VaultSyncTwoDeletes` | two items deleted | violates `DeletionDelivered` |
| `VaultSyncPersonaDelete` | a persona deleted elsewhere | violates `CursorIsHonest` |
| `KeychainLock` | two messages, the UNLOCK chain, idle time 1 of clock 2 | `IdleVaultIsClosed`, `LockSticks`, `PlaintextGone`, `ClosesInTimeAlone` |
| `KeychainLockReopens` | one message | violates `StaysClosed` |
| `Accounts` | two devices, two accounts, lost requests, stops at any step | `PinOpens`, `BundlesOpen`, `KeychainNeverVanishes` |
| `Passkeys` | a registration and a sign-in at once; two outside changes | the six properties of the next paragraph, and `CallsSettle` |
| `PasskeysStaleList` | one sign-in, vault locked at first | violates `ListIsFresh` |
| `PageSave` | one tab with a page and a frame inside it, one host each, two logins, two submissions, a navigation of each; three starts: an empty vault, an older login, an older login with hasty answers and evictions | `HeldUntilAnswered`, `AnswerSticks`, `NoDuplicate`, `OverwritesMatch`, `PromptComes` |
| `Surfaces` | the five parts of `MCSurfaces` | `HighlightIsListed`, `LockedIsNotEmpty`, `SurfacesHonest`, `SurfacesSettle` |
| `SurfacesSearchEmpty` | the same | violates `ItemsNotShownEmpty` |

`Passkeys` checks: `ActsAsApproved` (the worker acts only for an approved call,
with the account chosen), `AbortedDoesNothing`, `PromptIsLive` (no prompt for a
ceremony that is over), `SuccessIsReal` (a registered passkey is in the vault),
`ExcludedIsRefused`, and the type invariant.

`PageSave` states `HeldUntilAnswered`, `AnswerSticks`, `NoDuplicate` and
`PromptComes` for `haste = {}`: each of the four kinds of haste breaks one of
them, as section 5 tells. `OverwritesMatch` holds under all of them. What frames
do to one another is part of all five: an answer in any frame ends the wait of
the tab's submission (`HeldUntilAnswered`), after it no frame puts the question
up any more, though one that shows it already keeps it (`AnswerSticks`), and a
save confirmed beside another frame's prompt is the exception of `NoDuplicate`.

`VaultSync` and `VaultSyncLive` state most properties for one piece of work at a
time. `ResetLeavesNothing` allows the queue of a device without an account to
hold deletions: DELETE_ITEM looks nothing up, and a page that outlived the reset
may send it. For that reason `QueueDrains` is about a device with an account:
without one, fullSync refuses and the queue stays. `ForeignSwept` says that a
retired account's envelopes go for good.

`Surfaces` checks: the menu's highlight is on a listed entry or the footer
(`HighlightIsListed`) and a menu whose field left the page closes, unless it
left by a change the observer cannot see; what GET_PAGE_MATCHES and
GET_IDENTITIES fill is never shown empty over a locked vault
(`LockedIsNotEmpty`), unless the lock came between the two keys the page's last
such read needs; the banner tells the truth of the clipboard, except that a
refused copy, which ends the countdown of the one before, speaks of itself only;
the import's count is that of the items made, and an untouched import, judged by
the vault's own list and running alone, makes nothing of a file without
duplicates that the vault held at that moment (`SurfacesHonest`); a try of the
PIN ends, and the phone's open vault does not stay open in the background,
unless it was still being opened when the time to lock came (`SurfacesSettle`).

**Bounds, and why they are enough.** Two of anything that can interfere - two
messages beside the unlock chain, two devices, two ceremonies, two accounts, two
submissions - is the least number that shows every pairwise interleaving, and
the code has no loop over a third. `MaxTime` (2 or 3 edits) lets an edit be
overtaken and the overtaking one be overtaken. In `KeychainLock` the idle time
is 1 and the clock runs to 2, so that a deadline is met, passed and set anew. In
`Accounts`, `MaxRows` 2 lets an enrollment replace a row and race another one.
In `Passkeys`, `MaxMoves` 2 allows any two changes at any step: a lock and the
unlock after it, a deletion and a stop of the worker. In `PageSave`, `MaxSubs` 2
is a submission and the one that replaces it, `MaxLoads` 1 the document that
submits and the one that asks, in the page and in the frame inside it; the two
hosts are a site and its subdomain, one in each frame (`Shown`), with one form
each (`Typed`); the third start has one submission behind it (`made`), and
`Edits` is one edit that empties an identifier. Several tabs, more frames and
any edits are covered by the theorems. In `Surfaces`: one change of the document
(`MaxSwaps`) and one menu being asked for when another is requested (`MaxAsks`),
since answers only meet the form that asked; two messages under way at a click
and two clicks (`MaxCalls`, `MaxClicks`); four changes of the text, a PIN typed,
overtyped and typed again, and two presses (`MaxStrokes`, `MaxPresses`); two
copies, two picked files, two imports. In `Accounts` each device has one handler
at a time; handlers that overlap on one device are covered by the theorems,
which hold for any set of handlers. Symmetry is used only where no liveness is
checked (`VaultSync`, `KeychainLock`, `Accounts`). Deadlock is not an error
where the bounds or the end of all calls let the system come to rest.

**Fairness.** `VaultSyncLive`: the interval fires again and again
(`startAutoSync`), the worker carries on with what it began (weak fairness of
its steps), and a request retried for ever is at last answered (strong
fairness): the code retries on every interval without limit. `Passkeys`: window
messages are delivered, the worker serves or reports an error
(`chrome.runtime.lastError`), and a prompt's timeout fires. `PageSave`
(`Progress`): the worker goes on with its handlers, its answers are delivered,
and a loaded page asks once. `Surfaces`: the scan that a change set off runs
(`Rescan`; the model has finitely many changes, see the debounce in section 5),
the worker's chain of UNLOCKs moves and the KDF worker answers or fails
(`PinProgress`), and the phone's requests and its background timer come due
(`Opening`, `BackgroundLock`, whatever the app is at). No fairness is asked of
users, other devices, or faults.

## 5. Where the code and its documents differ

Each is a run that TLC ends with a counterexample.

- **Two deletions, one lost** (`sync-queue.ts:75`). `enqueueDelete` keeps
  entries that are of another id *and* not deletions; a second deletion before
  the next sync drops the first. `ROADMAP.md:73`: "tombstones propagate
  deletions".
- **Personas are not deleted elsewhere** (`sync-queue.ts:169`). A tombstone has
  no envelope, so a persona's is looked for among the items. `BG:882`: "The
  tombstone is what tells other devices to drop their copy."
- **A closed vault opens again** (`BG:1552`). DELETE_ITEM needs no key but
  counts as activity, so after the deadline it sets a new one over the key
  nobody has read yet. `keychain.ts:170`: "checked on every read, so it holds
  across evictions."
- **No account after an unlock** (`bridge.ts:154`). A sign-in begun with a
  locked vault prepares again after the unlock, but the prompt keeps the list it
  was given, which was empty. `bridge.ts:147`: "Re-prepare: the account list was
  empty while locked."
- **A locked vault shown empty** (`BG:376`). GET_ITEMS of a locked vault fails
  without `locked`, because it asks for the KEM key first, so the popup's search
  says nothing matches and the vault page keeps an empty list.
  `vault/App.tsx:107-112` calls that "the 'no identities yet' empty state over a
  vault that is merely locked, which reads as data loss".

The models show more, which a reader can reproduce by widening an instance.
Sync, keys and passkeys:

- with `opDuringSync` allowed, an edit made while a sync waits is overwritten
  (`sync-queue.ts:194`; `ROADMAP.md:72` promises last-write-wins) and a deletion
  queued meanwhile is cleared unsent;
- with `twoSyncs`, `eviction` or `rekey`, the cursor can run ahead of the vault;
- DELETE_ITEM from a page that outlived a reset queues a tombstone on a device
  without an account (`BG:485`), which the account enrolled next will send;
- two overlapping resets of the lock timer leave a timer nobody can clear, which
  locks a vault in use (drop `raced'` from `ClosesInTimeAlone`);
- `Crashes = TRUE` in `KeychainLock`: a worker stopped between storing the key
  and its deadline leaves a vault that never closes;
- a handler that took the key before a LOCK fills the plaintext cache after it
  (`BG:107`);
- an account stays half enrolled (`BG:1343`): the account key is uploaded first
  and stays when the second upload fails, where `enrollment.ts:7-8` promises "a
  complete, verified set of blobs or fails having changed nothing" (of blobs,
  which is why it is listed here: the promise may be read as one device's);
- aborting one passkey call takes another one's prompt away (`bridge.ts:98`); it
  is settled by its timeout only;
- a passkey stays in the vault when its registration is aborted late;
- if the chosen passkey is deleted in the meantime, a sign-in uses another one
  the site allows (`service.ts:268`; the exemption in `ActsAsApproved`);
- a lock and unlock during a registration hides excluded passkeys
  (`service.ts:196`; the exemption in `ExcludedIsRefused`).

Save prompt and menu:

- two tabs that write the table at once lose or bring back an entry (`overlap`,
  `BG:1123`), and so does closing a tab whose page sends on `pagehide`;
- the worker tells only tabs apart (`BG` 1524-1531) and the script runs in every
  frame: an older question that one frame still shows clears the tab's newer
  submission when it is answered, or when its thirty seconds pass
  (`save-prompt.ts:145`);
- every frame that loads asks the same question (`content/index.ts:686`); the
  answer in one leaves it up in the others, and a login confirmed in two of them
  is stored twice (drop `~crowded` from `NoDuplicate`);
- an answer given while the next submission is being looked up clears that one
  as well (`hasty`);
- the next page asks before the worker has stored the submission (`quick`;
  `content/index.ts:500-502` takes it for held already), and nobody asks again;
- a submission while locked is not asked about later: the page does not send the
  same credentials twice;
- the timers that look for a field for a code (`content/index.ts:366-371`) are
  not cancelled, so a dismissed prompt comes back; a screen with nothing but a
  code is no form to `detect.ts`, so they never find it there;
- a menu stays open when its field leaves by a change the observer is not told
  of: in an open shadow root, or hidden by a style (`content/index.ts:659-673`
  against `detect.ts:95-122`);
- answers out of order can leave the menu on a field the user has left, and
  `fillField` opens the menu again on the next wired field it focuses;
- within one strength the menu is sorted by recency after it was sorted by
  match, so a parent domain's login may stand above the exact one;
- the rescan's trailing debounce starves under a page that never stops changing.

Pages, PIN box, import and phone:

- a lock between the two keys that GET_IDENTITIES and GET_PAGE_MATCHES await
  (`BG` 606-616, 812-820) is answered without `locked`, and the page shows an
  unlocked vault with nothing in it (drop `raced` from `LockedIsNotEmpty`);
- a message that is rejected (no worker) leaves `loading`, `syncing` or `busy`
  up for good; a late GET_UNLOCKED makes an unlocked page believe it is locked;
- a double click on Save in the item editor makes two items; a save refused by a
  lock loses the edits; an editor kept open while a deep link opens another item
  saves one item's data over the other, because React reuses it;
- the end of one batch of requests takes down the spinner of a later one
  (`vault/App.tsx:135-143`), and an empty list can flash;
- the PIN box skips the right PIN when it was put in `attempted` before its turn
  came (`use-auto-unlock.ts:2-3` against 66-74);
- an import drops the rows refused by a lock without naming them; rows are
  judged against the list the page had when the file was picked, so a file
  picked while an import runs, or after a refused GET_ITEMS, is ticked as new
  and doubled; so are the rows of two imports that run at once; rows doubled
  within a file are not noticed;
- on the phone, a lock leaves the secret on the clipboard with no countdown; so
  does a refused second copy, whose banner speaks of the second secret alone
  (`clipboard.ts:49-54`); and two copies at once leave an interval that clears
  the clipboard every second;
- the phone's background timer locks a vault that is not open yet
  (`mobile/App.tsx:478`): an unlock under way opens it afterwards, unseen.

Reading alone shows more, which no property states: an abort signal that is
already aborted is not honoured (`inject.ts:188`); with passkeys switched off, a
request with an unsupported algorithm is refused instead of being handed to the
browser (`service.ts:125`, against `docs/passkeys.md`); the prompt of a locked
vault has no "use browser" button (`consent.ts:306`, against the same document
and `docs/qa-matrix.md:45`); the two branches of `matchStrength` return the same
and MATCH_RELATED is never returned; a login stored for a bare shared suffix
matches every tenant under it; a stored password is filled from the menu into
the new-password box of a change form (`detect.ts:318-319` against
`content/index.ts:78`); the item editor writes `tags: []`; the settings panel
opened before the settings have loaded saves the defaults.

## 6. What is proved

The theorems hold for every value of the constants that satisfies the named
assumption of the module (`ConstantsAssumption`, `LockAssumption`,
`AccountAssumption`, `PasskeysAssumption`, `PageSaveAssumption`,
`FrameAssumption`, `SiteAssumption`, `PageAgentAssumption`, `PagesAssumption`,
`PinBoxAssumption`, `PhoneAssumption`, `ImportAssumption`): any number of items,
personas, accounts, handlers, devices, messages, calls, passkeys, tabs, frames,
submissions, fields, menus, rows, files and copies, any bounds. The assumptions
only say that `None` is none of the other values, that sets which must be
disjoint are, and that bounds are numbers; `PasskeysAssumption` asks for
finitely many calls, because Escape settles all open prompts in some order;
`SiteAssumption` says that hosts are sequences of labels, at least one, none
starting with "www.www."; `FrameAssumption` that every frame is in a tab and
every tab has a top frame; `PageSaveAssumption` that stored logins are coherent:
the host they name, if any, is their URL's, as `withNormalizedLoginUrl` writes
it, and their domain is the registrable domain of that URL, as a save from a
page stores it, or its full host, as the editors do; `PageAgentAssumption` that
a page has finitely many fields, numbered in document order, and that the ranked
matches are matches.

Some theorems ask for more, because without it what they say is false:

- `DeletionsAreDelivered` and `ImplementsContract` are for an instance that ever
  deletes at most one id (`\A i, j \in Deletable : i = j`): with two, a deletion
  is lost, as the run `VaultSyncTwoDeletes` shows. `OnlyADeletionLosesOne` is
  what holds without it: nothing but another deletion loses one.
- `CursorTellsTheTruth` asks besides that it is an item, not a persona, whose
  tombstone finds nothing (`VaultSyncPersonaDelete`). `FetchedStaysHeld` says
  what holds without either: of ids nobody deletes the cursor tells the truth,
  whatever becomes of others.
- `NothingIsSavedTwice` asks that the vaults a behaviour without haste starts
  from hold no pair of one URL and identifier, as nothing here would take it
  away, and that the set of tabs is finite, so that there being one can be said.
  The property is about one tab: two may each look up before the other saves.
  The tab may have any number of frames, as long as no save is confirmed while
  another of them has a prompt up (`crowded`).
- `IdleVaultCloses` asks for `~Crashes` (see section 5).

Each proof has the same shape: an inductive invariant, checked with TLC on the
instance of the run first where it is more than types, then that `Init` implies
it, one lemma per action or group of actions for the step, and that it implies
the property.

| Module | Theorem | Property |
|---|---|---|
| `VaultSync_proofs` | `TypeCorrect` | `TypeOK` |
| | `DrainsAreExclusive` | `OneDrain`: the processing flag is up exactly while one drain runs |
| | `SyncsKeepAccountsApart` | `OneAccountPerSync`: a sync carries envelopes of one account |
| `VaultReplica_proofs` | `LastWriteWins` | `NeverOlder` (a property of steps) |
| | `NothingIsLost` | `NothingVanishes` (a property of steps) |
| | `DeletionsAreDelivered` | `DeletionDelivered` (a property of steps), at most one id deleted |
| | `OnlyADeletionLosesOne` | `LostOnlyToAnother`, any number deleted (no run checks it) |
| | `ResetIsComplete` | `ResetLeavesNothing` |
| | `CursorTellsTheTruth` | `CursorIsHonest`, at most one item deleted |
| | `FetchedStaysHeld` | `FetchedIsHeld`, any number deleted (no run checks it) |
| | `ImplementsContract` | `KeepsContract` (refinement), at most one id deleted |
| `KeychainLock_proofs` | `LockTypeCorrect` | `TypeOK` |
| | `LockedStaysLocked` | `LockSticks` |
| | `PlaintextGoesWithKey` | `PlaintextGone` |
| | `IdleVaultCloses` | `IdleVaultIsClosed`, if `~Crashes` |
| | `ClosesInTime` | `ClosesInTimeAlone` (a property of steps) |
| `Accounts_proofs` | `AccountsTypeCorrect` | `TypeOK` |
| | `PinAlwaysOpens` | `PinOpens` |
| | `DeviceIdAlwaysSet` | `HasDeviceId` (no run checks it) |
| | `BundlesAlwaysOpen` | `BundlesOpen` (a property of steps) |
| | `KeychainAlwaysThere` | `KeychainNeverVanishes` |
| `Passkeys_proofs` | `PasskeysTypeCorrect` | `TypeOK` |
| | `WorkerActsAsApproved` | `ActsAsApproved` |
| | `AbortedIsInert` | `AbortedDoesNothing` |
| | `NobodyIsAskedInVain` | `PromptIsLive` |
| | `PageIsToldTheTruth` | `SuccessIsReal` |
| | `RegistrationHonoursExclusion` | `ExcludedIsRefused` |
| `PageSave_proofs` | `PageSaveTypeCorrect` | `TypeOK` |
| | `SavesOverwriteTheirOwn` | `OverwritesMatch` (a property of steps) |
| | `SubmissionsAreHeld` | `HeldUntilAnswered` |
| | `AnswersStick` | `AnswerSticks` |
| | `NothingIsSavedTwice` | `NoDuplicate`, from a vault without duplicates |
| | `BelongsIsFitting` | the lookup's test of any of three hosts: where a login names a host, it is that one |
| `Phone_proofs` | `ClipboardAlwaysHonest` | `ClipboardHonest`, half of `SurfacesHonest` |
| `Surfaces_proofs` | `ImportsAreHonest` | `ImportHonest`, the other half |
| | `LockedIsNeverEmpty` | `LockedIsNotEmpty` |
| | `HighlightStaysListed` | `HighlightIsListed` |
| | `SurfacesTyped` | `SurfacesTypeOK`, of the composition |
| | `SurfacesAreHonest` | `SurfacesHonest`, of the composition |

Why the invariants have to be stronger than the properties:

- `VaultSync`: `IInv == TypeOK /\ TaskShape /\ SyncInv`. `TypeOK` needs
  `TaskShape` (a handler that queues has an id and an operation to queue).
  `OneDrain` needs `RunShape`: error paths lower the flag from stages only a
  drain reaches. `OneAccountPerSync` needs it too: the keys are read while
  nothing has been gathered yet.
- `VaultSync`, what becomes of the data: `HInv` has four layers over `IInv`,
  each proved with the ones before it. `Always` says what every envelope, queue
  entry and server record is made of whatever overlaps: they are of ids that
  were given out, no later than the clock, and dead or queued for deletion only
  if the id may be deleted; no cursor is ahead of the server. `Order` says what
  one handler (`HandlerKnows`) or one sync (`SyncKnows`) knows of the storage
  while nothing else runs: the copy it will write back is still what is stored,
  and what it is about to take is newer or of another account. That gives
  `NeverOlder` and `NothingVanishes`; `QueueStep` gives what can take a deletion
  out of the queue. `Replica` adds what holds while the worker is not stopped,
  its storage works and its keychain is not replaced (`Benign`): a device
  without a keychain is blank but for deletions that wait in its queue, as its
  handlers do nothing else (`Blank`), all envelopes of another are its own
  account's (`Mine`), and a sync that is saving has saved what its stage says
  (`SyncHolds`). `Honest` says of each id that the vault has whatever the cursor
  covers, or is about to once this sync has saved. The deletion of an id is the
  hard case: between `DELETE_ITEM` and its delivery the vault is behind the
  cursor on purpose.
- `VaultSync` implements `ReplicaContract`: WriteVault is Edit or Remove; Push
  and Remote are ServerMoves; saving items or identities is CatchUp; ClearQueue
  is Settle; BeginReset and the wipes are Forget; InstallKeychain is Enrol;
  every other step stutters. Where the behaviour is not `Benign` the mapped
  variables are blank from the start, and the contract is not claimed.
- `KeychainLock`: `IInv == TypeOK /\ ChainShape /\ LockInv`. A locked vault
  stays locked only if no message in progress still carries a key it saw in
  session storage before the lock; the plaintext cache follows the key only if
  whoever is about to fill it took a key that is still there. An idle vault is
  closed for one of two reasons, and the invariant has both: where no work
  overlapped (`SerialInv`) the deadlines in both places agree with the one due;
  where the idle time was never changed (`UniformInv`) every deadline is set
  from the same one, so one that is out of date is early. `ClosingInv` is why
  the vault does not close before: a timer whose handle is kept is due no
  earlier than the deadline, and no other timer is left.
- `Accounts`: a device at rest is whole because of what handlers know while it
  is not. `ReplacedInv` says how far a setup, restore, join or reset that runs
  undisturbed has come; `AloneInv` that undisturbed means alone, and that
  anything else has torn the device; `ReadInv` that whoever took a key on an
  untorn device took that of its keychain; `RowsInv` that the last row on the
  server is never the one deleted, because a row is remembered before the new
  one is posted.
- `Passkeys`: `CallInv` ties prompt, worker and approval of one call together (a
  ceremony is prepared, asked for, approved, carried out, and nothing twice);
  `MailInv` says a request is its call's first message, so a request delivered
  finds nothing done and an abort never overtakes it; `DataInv` that whatever is
  offered, chosen or excluded is in the vault or was deleted.
- `PageSave`: `MatchInv` says that a submission, wherever it is on its way from
  the form to the vault (queue, table, a copy of the table, an answer, a prompt,
  a save), names a login one of whose hosts is the page's own, under the
  submitted identifier (`Fits`, `IsFor`), unless the user has edited that login
  since; a deleted login's id is not used again. Every save writes a login's
  host anew, and it may have been opened before another one did: what a save has
  opened and what is stored by then differ at most in that host (`CopyFits`,
  `Kin`), and the host written is the URL's (`Coherent`), which one of the three
  was already. `QuietInv`, for `haste = {}`, has five parts. `NumberInv`: a
  submission is of one tab, and one not yet looked up is nowhere else.
  `OneWriter`, `CopiesDue`, `HeldDue`: whoever is about to write the table back
  has read what the other tabs wait for, and that is in the table meanwhile.
  `AnsweredInv`: what has been answered is where no frame is told of it any
  more. `NoDuplicate` rests on these and on `SoloInv`, for one tab whose frames
  never compete: whatever can be asked about, or is being answered, as a new
  login has no login of its URL and identifier beside it in the vault
  (`Unmatched`), because while a save is carried out nothing can be asked about
  (`Askable`), and a lookup comes after it.
- `Phone`: `ClipInv` also speaks of the moments with a clipboard write under
  way.
- `Import`: `ImportInv` says of the panel that its marks are those of the list
  the file was read against and its ticks, while untouched, the rest
  (`PanelOK`); and of an import under way that what it has counted it has made,
  and that one which began from an honest panel and has run alone so far has
  doubled nothing (`GoodRuns`).
- `Pages`: a page that takes the vault for unlocked and shows no persona, or no
  match, either has asked and not been answered, or the vault held none when it
  was, or a lock came between the two keys its last read needed (`PersonasDue`,
  `MatchesDue`). For this every message under way must be one the page really
  sent and, once served, carry an answer that the vault gave (`AskedOK`): a
  refusal sends the page back to the unlock screen, and the answers to a click
  come in any order.
- `PageAgent`: the highlight is within the list only if the menu's entries are a
  sequence and the places that fit the filter are counted (`MenuOK`). The lemmas
  `Least`, `Greatest`, `Ranks` and `AtKeeps` show, for any finite set of places,
  that the filtered list has as many entries as there are places, each from its
  own. `Greatest` also finds the field that a fill leaves the focus on.
- `PinBox`: a text is about to be tried by itself only if it is long enough.
- The composition: `SurfacesInv` is the conjunction; a part that does not run
  stutters.

## 7. What is only model-checked

- Liveness (`Converges`, `QueueDrains`, `DrainEnds`, `ForeignSwept`,
  `CallsSettle`, `PromptComes`, `SurfacesSettle`): proofs under fairness are
  beyond the prover used here.
- The five divergences of section 5, which are counterexamples.

The theorems about `VaultSync`'s data carry over the conditions of its
properties: `NeverOlder`, `NothingVanishes`, `DeletionDelivered` speak of
behaviours in which one piece of work runs at a time (`Orderly`), and
`CursorIsHonest`, `ResetLeavesNothing`, `KeepsContract` of `Benign` ones.
Section 5 says what goes wrong outside them.

## 8. What is not modelled, and why

- **Pure computations**: the password generator, TOTP, the parsers of the import
  formats and the CSV writer. One call, no state, no interleaving; their inputs
  and outputs are bytes, and unit tests reach them. `Import` takes a file as the
  rows its parser finds.
- **Bytes**: ML-KEM, ML-DSA, XChaCha20, Argon2id, CBOR and DER. The models use
  what the callers rely on: what is sealed opens with the key that sealed it and
  with no other, a signature shows who made an envelope, and a derivation tells
  the right PIN from others.
- **Single requests**: the hosted API client (one retry after a refreshed token;
  its item calls have no callers) and the generation service.
- **Forms that send one request**: onboarding, enrollment and kit panels; their
  requests are the actions of `Accounts`. The read-only handlers of the worker
  (badge, known identifiers, device list) answer from one read.
- **Drawing**: where a menu goes, styles, texts, themes, icons.
- **The platform**: `chrome.storage` (and IndexedDB behind the same interface on
  the phone) is taken to serve calls in order, and each call at once or not at
  all; alarms and timers may be late; React's effects run at once. URL parsing
  is the browser's. The servers are modelled as `api/sync.ts` and
  `api/warden.ts` use them; the phone's service worker caches the app's own
  files only.
- **`src-legacy/`**: the previous generation, which is not built any more.
