------------------------------- MODULE Passkeys -------------------------------
(***************************************************************************)
(* A passkey ceremony: navigator.credentials as replaced in the page       *)
(* (webauthn/inject.ts), the content script that asks the user             *)
(* (bridge.ts, consent.ts) and the background worker that holds the keys   *)
(* (service.ts and its handlers).                                          *)
(*                                                                         *)
(* The page and the bridge post messages to one window, which delivers     *)
(* them in order.  The worker serves a call in steps, one for each read or *)
(* write it waits for, and everything else may happen in between.  A       *)
(* passkey is named by the call that made it, or is a member of Cred.      *)
(***************************************************************************)
EXTENDS Naturals, FiniteSets, SequencesExt

CONSTANTS
  Call,      \* calls of navigator.credentials.create and get in one page
  Cred,      \* passkeys that other devices and earlier visits made
  None,
  May,       \* what each call may ask for
  MaxMoves   \* bound: how often anything outside the ceremonies changes

\* A request lists passkeys to allow (get) or to exclude (create).  It is legal
\* when the page's origin may use its rpId and its key algorithm is one the
\* vault issues.
Ask == [kind : {"create", "get"}, wants : SUBSET Cred, legal : BOOLEAN]

ASSUME PasskeysAssumption ==
  /\ IsFiniteSet(Call)
  /\ None \notin Call \cup Cred
  /\ Call \cap Cred = {}
  /\ May \in [Call -> SUBSET Ask]
  /\ MaxMoves \in Nat

Passkey == Call \cup Cred
\* Replies of the bridge; also how a call can end, besides "aborted".
Reply   == {"made", "signed", "native", "error"}
Message == [call : Call, what : Reply \cup {"request", "abort"}]
\* The worker's work for a call: prepare it, prepare it again after an unlock,
\* or carry it out.  `on` and `open` are what it read of the settings and the
\* lock, `list` the passkeys it answers with, `ok` whether it succeeded.
Stage   == {"none", "settings", "unlocked", "list", "store", "touch", "save", "answer"}
Job     == [pc : Stage, task : {"prepare", "refresh", "work"}, on : BOOLEAN,
            open : BOOLEAN, ok : BOOLEAN, list : SUBSET Passkey]
NoJob   == [pc |-> "none", task |-> "prepare", on |-> FALSE, open |-> FALSE,
            ok |-> FALSE, list |-> {}]
Begin(task) == [NoJob EXCEPT !.pc = "settings", !.task = task]

VARIABLES
  page,      \* how each call stands
  ask,       \* what it asked for
  posted,    \* messages the window has still to deliver
  inFlight,  \* the bridge's set of running ceremonies
  job,       \* the worker's work for each call
  prompt,    \* the consent promise of each call: what its card shows
  offered,   \* request.accounts: the accounts the card lists
  prepared,  \* prepared.data.accounts
  shown,     \* the call whose prompt is on the page
  chosen,    \* decision.credentialId
  open,      \* the vault is unlocked
  enabled,   \* settings.passkeysEnabled
  vault,     \* passkeys in the vault
  moves,     \* changes that were not part of a ceremony
  consented, \* history: calls the user approved
  dropped,   \* history: calls aborted before the worker was told to act
  used,      \* history: the passkey each call signed with, or stored
  held,      \* history: excluded passkeys in the vault at the approval
  gone,      \* history: passkeys that were deleted
  blinked    \* history: calls that saw the vault open, and then locked

bridge  == <<inFlight, prompt, offered, prepared, shown, chosen>>
surroundings == <<open, enabled, moves>>
history == <<consented, dropped, used, held, gone, blinked>>
vars    == <<page, ask, posted, bridge, job, surroundings, vault, history>>

\* Every message, prompt and piece of work keeps its shape.
TypeOK ==
  /\ page \in [Call -> {"new", "waiting", "aborted"} \cup Reply]
  /\ ask \in [Call -> Ask]
  /\ posted \in Seq(Message)
  /\ inFlight \subseteq Call
  /\ job \in [Call -> Job]
  /\ prompt \in [Call -> {"none", "locked", "waiting", "ready"}]
  /\ offered \in [Call -> SUBSET Passkey] /\ prepared \in [Call -> SUBSET Passkey]
  /\ shown \in Call \cup {None}
  /\ chosen \in [Call -> Passkey \cup {None}]
  /\ open \in BOOLEAN /\ enabled \in BOOLEAN
  /\ vault \subseteq Passkey
  /\ moves \in 0..MaxMoves
  /\ consented \subseteq Call /\ dropped \subseteq Call /\ blinked \subseteq Call
  /\ used \in [Call -> Passkey \cup {None}]
  /\ held \in [Call -> SUBSET Cred]
  /\ gone \subseteq Passkey

Init ==
  /\ page = [c \in Call |-> "new"]
  /\ ask \in [Call -> Ask] /\ \A c \in Call : ask[c] \in May[c]
  /\ posted = <<>>
  /\ inFlight = {}
  /\ job = [c \in Call |-> NoJob]
  /\ prompt = [c \in Call |-> "none"]
  /\ offered = [c \in Call |-> {}] /\ prepared = [c \in Call |-> {}]
  /\ shown = None
  /\ chosen = [c \in Call |-> None]
  /\ open \in BOOLEAN /\ enabled \in BOOLEAN
  /\ vault \in SUBSET Cred
  /\ moves = 0
  /\ consented = {} /\ dropped = {} /\ gone = {} /\ blinked = {}
  /\ used = [c \in Call |-> None]
  /\ held = [c \in Call |-> {}]

Works(c, j)       == job' = [job EXCEPT ![c] = j]
Step(c, pc)       == Works(c, [job[c] EXCEPT !.pc = pc])
Answers(c, ok)    == Works(c, [job[c] EXCEPT !.pc = "answer", !.ok = ok])
At(c, pc)         == job[c].pc = pc
Msg(c, what)      == [call |-> c, what |-> what]
Post(c, what)     == posted' = Append(posted, Msg(c, what))
IsGet(c)          == ask[c].kind = "get"

-----------------------------------------------------------------------------
(* The page. *)

\* runCeremony: the request is posted.
Start(c) ==
  /\ page[c] = "new"
  /\ page' = [page EXCEPT ![c] = "waiting"]
  /\ Post(c, "request")
  /\ UNCHANGED <<ask, bridge, job, surroundings, vault, history>>

\* The page's AbortSignal: the promise is rejected, the bridge is told.
Abort(c) ==
  /\ page[c] = "waiting"
  /\ page' = [page EXCEPT ![c] = "aborted"]
  /\ Post(c, "abort")
  /\ UNCHANGED <<ask, bridge, job, surroundings, vault, history>>

\* A reply settles the call if it still waits.
DeliverReply ==
  /\ posted # <<>> /\ Head(posted).what \in Reply
  /\ LET c == Head(posted).call IN
     page' = IF page[c] = "waiting" THEN [page EXCEPT ![c] = Head(posted).what] ELSE page
  /\ posted' = Tail(posted)
  /\ UNCHANGED <<ask, bridge, job, surroundings, vault, history>>

-----------------------------------------------------------------------------
(* The bridge. *)

\* handleCeremony: the worker is asked to prepare.
DeliverRequest ==
  /\ posted # <<>> /\ Head(posted).what = "request"
  /\ LET c == Head(posted).call IN
     /\ inFlight' = inFlight \cup {c}
     /\ Works(c, Begin("prepare"))
  /\ posted' = Tail(posted)
  /\ UNCHANGED <<page, ask, prompt, offered, prepared, shown, chosen, surroundings, vault,
                 history>>

\* (Mutants of DeliverAbort: the ceremony stays in flight; the prompt stays.)
DeliverAbortInFlight ==
  /\ posted # <<>> /\ Head(posted).what = "abort"
  /\ LET c == Head(posted).call IN
     dropped' = IF c \in consented THEN dropped ELSE dropped \cup {c}
  /\ shown' = None
  /\ posted' = Tail(posted)
  /\ UNCHANGED <<page, ask, inFlight, job, prompt, offered, prepared, chosen, surroundings,
                 vault, consented, used, held, gone, blinked>>

DeliverAbortPromptStays ==
  /\ posted # <<>> /\ Head(posted).what = "abort"
  /\ LET c == Head(posted).call IN
     /\ inFlight' = inFlight \ {c}
     /\ dropped' = IF c \in consented THEN dropped ELSE dropped \cup {c}
  /\ posted' = Tail(posted)
  /\ UNCHANGED <<page, ask, job, prompt, offered, prepared, shown, chosen, surroundings,
                 vault, consented, used, held, gone, blinked>>

\* An abort takes away the prompt that is shown, whichever call it belongs to;
\* the promise behind it stays, with its timeout and its Escape key.
DeliverAbort ==
  /\ posted # <<>> /\ Head(posted).what = "abort"
  /\ LET c == Head(posted).call IN
     /\ inFlight' = inFlight \ {c}
     /\ dropped' = IF c \in consented THEN dropped ELSE dropped \cup {c}
  /\ shown' = None
  /\ posted' = Tail(posted)
  /\ UNCHANGED <<page, ask, job, prompt, offered, prepared, chosen, surroundings, vault,
                 consented, used, held, gone, blinked>>

\* The bridge ends a ceremony with a reply.
Ends(c, what) ==
  /\ inFlight' = inFlight \ {c}
  /\ Post(c, what)

\* (Mutant of AskUser: the prompt it replaces is forgotten, with its timeout.)
AskUserAlone(c) ==
  /\ prompt' = [d \in Call |-> IF d = c THEN (IF job[c].open THEN "ready" ELSE "locked")
                                        ELSE "none"]
  /\ shown' = c
  /\ offered' = [offered EXCEPT ![c] = job[c].list]
  /\ prepared' = [prepared EXCEPT ![c] = job[c].list]
  /\ UNCHANGED <<inFlight, posted>>

\* requestConsent: its card replaces the one on the page.
AskUser(c) ==
  /\ prompt' = [prompt EXCEPT ![c] = IF job[c].open THEN "ready" ELSE "locked"]
  /\ shown' = c
  /\ offered' = [offered EXCEPT ![c] = job[c].list]
  /\ prepared' = [prepared EXCEPT ![c] = job[c].list]
  /\ UNCHANGED <<inFlight, posted>>

\* The answer to WEBAUTHN_PREPARE.
Prepared(c) ==
  /\ At(c, "answer") /\ job[c].task = "prepare"
  /\ IF c \notin inFlight
       THEN UNCHANGED <<posted, inFlight, prompt, shown, offered, prepared>>
       ELSE \/ /\ job[c].ok /\ job[c].on
               /\ AskUser(c)
            \/ /\ ~(job[c].ok /\ job[c].on)
               /\ Ends(c, IF job[c].ok THEN "native" ELSE "error")
               /\ UNCHANGED <<prompt, shown, offered, prepared>>
  /\ Works(c, NoJob)
  /\ UNCHANGED <<page, ask, chosen, surroundings, vault, history>>

\* The prompt's promise settles with cancel or fallback.
Settles(c) ==
  /\ prompt' = [prompt EXCEPT ![c] = "none"]
  /\ shown' = IF shown = c THEN None ELSE shown
  /\ Works(c, NoJob)
  /\ UNCHANGED <<page, ask, offered, prepared, chosen, surroundings, vault, history>>

GivesUp(c, what) ==
  IF c \in inFlight THEN Ends(c, what) ELSE UNCHANGED <<inFlight, posted>>

\* The cancel button, or a click beside the card.
Cancel(c) == shown = c /\ GivesUp(c, "error") /\ Settles(c)

\* "Use browser or security key": only the card of an unlocked vault has it.
Fallback(c) == shown = c /\ prompt[c] = "ready" /\ GivesUp(c, "native") /\ Settles(c)

\* The ceremony's timeout, which every prompt has, on the page or not.
Expire(c) == prompt[c] # "none" /\ GivesUp(c, "error") /\ Settles(c)

\* Escape reaches every prompt that is not settled; whose promise goes first is
\* left open.
Asking == {c \in Call : prompt[c] # "none"}

Escape ==
  /\ Asking # {}
  /\ \E order \in SetToSeqs(Asking \cap inFlight) :
        posted' = posted \o [i \in DOMAIN order |-> Msg(order[i], "error")]
  /\ inFlight' = inFlight \ Asking
  /\ prompt' = [c \in Call |-> "none"]
  /\ shown' = None
  /\ job' = [c \in Call |-> IF c \in Asking THEN NoJob ELSE job[c]]
  /\ UNCHANGED <<page, ask, offered, prepared, chosen, surroundings, vault, history>>

\* "Open vault": the bridge begins to poll for the unlock.
OpenVault(c) ==
  /\ shown = c /\ prompt[c] = "locked"
  /\ prompt' = [prompt EXCEPT ![c] = "waiting"]
  /\ UNCHANGED <<page, ask, posted, inFlight, offered, prepared, shown, chosen, job,
                 surroundings, vault, history>>

\* A poll finds the vault open: the bridge prepares again.  (Polling ends at the
\* deadline; so does the prompt, see Expire.)
Poll(c) ==
  /\ prompt[c] = "waiting" /\ At(c, "none") /\ open
  /\ Works(c, Begin("refresh"))
  /\ UNCHANGED <<page, ask, posted, bridge, surroundings, vault, history>>

\* ... and shows the card anew, with the accounts it was given at first.
Refreshed(c) ==
  /\ At(c, "answer") /\ job[c].task = "refresh"
  /\ prompt' = [prompt EXCEPT ![c] = "ready"]
  /\ prepared' = IF job[c].ok THEN [prepared EXCEPT ![c] = job[c].list] ELSE prepared
  /\ Works(c, NoJob)
  /\ UNCHANGED <<page, ask, posted, inFlight, offered, shown, chosen, surroundings, vault,
                 history>>

\* The user approves, choosing an account to sign in with.
Approve(c, k) ==
  /\ shown = c /\ prompt[c] = "ready"
  /\ IF IsGet(c) THEN k \in offered[c] ELSE k = None
  /\ prompt' = [prompt EXCEPT ![c] = "none"]
  /\ shown' = None
  /\ consented' = consented \cup {c}
  /\ IF c \in inFlight
       THEN chosen' = [chosen EXCEPT ![c] = k] /\ Works(c, Begin("work"))
       ELSE UNCHANGED <<chosen, job>>
  /\ held' = [held EXCEPT ![c] = IF IsGet(c) THEN {} ELSE ask[c].wants \cap vault]
  /\ UNCHANGED <<page, ask, posted, inFlight, offered, prepared, surroundings, vault, dropped,
                 used, gone, blinked>>

\* (Mutant of Worked: a failure is reported as success.)
WorkedRegardless(c) ==
  /\ At(c, "answer") /\ job[c].task = "work"
  /\ IF c \in inFlight
       THEN Ends(c, IF IsGet(c) THEN "signed" ELSE "made")
       ELSE UNCHANGED <<inFlight, posted>>
  /\ Works(c, NoJob)
  /\ UNCHANGED <<page, ask, prompt, offered, prepared, shown, chosen, surroundings, vault,
                 history>>

\* The answer to WEBAUTHN_CREATE or WEBAUTHN_GET.
Worked(c) ==
  /\ At(c, "answer") /\ job[c].task = "work"
  /\ IF c \in inFlight
       THEN Ends(c, IF ~job[c].ok THEN "error" ELSE IF IsGet(c) THEN "signed" ELSE "made")
       ELSE UNCHANGED <<inFlight, posted>>
  /\ Works(c, NoJob)
  /\ UNCHANGED <<page, ask, prompt, offered, prepared, shown, chosen, surroundings, vault,
                 history>>

-----------------------------------------------------------------------------
(* The background worker. *)

\* The settings are read.  To prepare, the request is checked along
\* with that; to act, passkeys must be switched on.
ReadSettings(c) ==
  /\ At(c, "settings")
  /\ IF job[c].task = "work" THEN IF enabled THEN Step(c, "unlocked") ELSE Answers(c, FALSE)
     ELSE IF ask[c].legal THEN Works(c, [job[c] EXCEPT !.pc = "unlocked", !.on = enabled])
                          ELSE Answers(c, FALSE)
  /\ UNCHANGED <<page, ask, posted, bridge, surroundings, vault, history>>

\* isUnlocked.  The vault's passkeys are listed for a sign-in, and to see
\* whether one the site excludes is there.
SeesLock(c) ==
  /\ At(c, "unlocked")
  /\ IF job[c].task # "work"
       THEN Works(c, [job[c] EXCEPT !.pc = IF open /\ IsGet(c) THEN "list" ELSE "answer",
                                    !.open = open, !.ok = TRUE])
     ELSE IF ~open THEN Answers(c, FALSE)
     ELSE Step(c, IF IsGet(c) \/ ask[c].wants # {} THEN "list" ELSE "store")
  /\ UNCHANGED <<page, ask, posted, bridge, surroundings, vault, history>>

\* (Mutant of Records: items that cannot be opened are listed without one.)
RecordsUnopened == IF open THEN vault ELSE IF vault = {} THEN {} ELSE {None}

\* listPasskeys: a vault locked since lists none.
Records == IF open THEN vault ELSE {}

\* What the site would accept of them.
Allowed(c, records) == IF ask[c].wants = {} THEN records ELSE records \cap ask[c].wants

\* The accounts a prompt is given.
ListAccounts(c) ==
  /\ At(c, "list") /\ job[c].task # "work"
  /\ Works(c, [job[c] EXCEPT !.pc = "answer", !.list = Allowed(c, Records)])
  /\ UNCHANGED <<page, ask, posted, bridge, surroundings, vault, history>>

\* (Mutant of Candidates: the account the user chose is ignored.)
CandidatesAny(c) == Allowed(c, Records)

\* performGet signs with the passkey that was chosen, or, when it is gone, with
\* one the site allows.
Candidates(c) == IF chosen[c] \in Records THEN {chosen[c]} ELSE Allowed(c, Records)

Sign(c) ==
  /\ At(c, "list") /\ job[c].task = "work" /\ IsGet(c)
  /\ IF Candidates(c) = {}
       THEN Answers(c, FALSE) /\ UNCHANGED used
       ELSE Step(c, "touch") /\ \E k \in Candidates(c) : used' = [used EXCEPT ![c] = k]
  /\ UNCHANGED <<page, ask, posted, bridge, surroundings, vault, consented, dropped, held,
                 gone, blinked>>

\* (Mutant of Exclude: the passkeys found are not looked at.)
ExcludeNothing(c) ==
  /\ At(c, "list") /\ job[c].task = "work" /\ ~IsGet(c)
  /\ Step(c, "store")
  /\ blinked' = IF open THEN blinked ELSE blinked \cup {c}
  /\ UNCHANGED <<page, ask, posted, bridge, surroundings, vault, consented, dropped, used,
                 held, gone>>

\* performCreate refuses when a passkey the site excludes is there.
Exclude(c) ==
  /\ At(c, "list") /\ job[c].task = "work" /\ ~IsGet(c)
  /\ IF ask[c].wants \cap Records # {} THEN Answers(c, FALSE) ELSE Step(c, "store")
  /\ blinked' = IF open THEN blinked ELSE blinked \cup {c}
  /\ UNCHANGED <<page, ask, posted, bridge, surroundings, vault, consented, dropped, used,
                 held, gone>>

\* createItem, which needs the keys once more.
StorePasskey(c) ==
  /\ At(c, "store")
  /\ Answers(c, open)
  /\ vault' = IF open THEN vault \cup {c} ELSE vault
  /\ used' = IF open THEN [used EXCEPT ![c] = c] ELSE used
  /\ UNCHANGED <<page, ask, posted, bridge, surroundings, consented, dropped, held, gone,
                 blinked>>

\* touchItem reads the item it signed with ...
Touch(c) ==
  /\ At(c, "touch")
  /\ IF open /\ used[c] \in vault THEN Step(c, "save") ELSE Answers(c, TRUE)
  /\ UNCHANGED <<page, ask, posted, bridge, surroundings, vault, history>>

\* ... and writes it back, also when it was deleted in between.
SaveTouched(c) ==
  /\ At(c, "save")
  /\ vault' = vault \cup {used[c]}
  /\ Answers(c, TRUE)
  /\ UNCHANGED <<page, ask, posted, bridge, surroundings, history>>

Moves == moves < MaxMoves /\ moves' = moves + 1

\* The browser stops the worker: whoever waits for it gets an error.
WorkerStops ==
  /\ Moves
  /\ \E c \in Call : job[c].pc \notin {"none", "answer"}
  /\ job' = [c \in Call |-> IF job[c].pc \in {"none", "answer"} THEN job[c]
                             ELSE [job[c] EXCEPT !.pc = "answer", !.ok = FALSE]]
  /\ UNCHANGED <<page, ask, posted, bridge, open, enabled, vault, history>>

-----------------------------------------------------------------------------
(* The vault for reasons of its own. *)

LockOrUnlock ==
  /\ Moves /\ open' = ~open
  /\ UNCHANGED <<page, ask, posted, bridge, job, enabled, vault, history>>

SwitchPasskeys ==
  /\ Moves /\ enabled' = ~enabled
  /\ UNCHANGED <<page, ask, posted, bridge, job, open, vault, history>>

\* A passkey is deleted in the vault page, here or on another device.
Delete(k) ==
  /\ Moves /\ k \in vault
  /\ vault' = vault \ {k}
  /\ gone' = gone \cup {k}
  /\ UNCHANGED <<page, ask, posted, bridge, job, open, enabled, consented, dropped, used, held,
                 blinked>>

\* A sync or an import brings one.
Arrive(k) ==
  /\ Moves /\ k \in Cred \ (vault \cup gone)
  /\ vault' = vault \cup {k}
  /\ UNCHANGED <<page, ask, posted, bridge, job, open, enabled, history>>

-----------------------------------------------------------------------------

Deliver  == DeliverReply \/ DeliverRequest \/ DeliverAbort
Serve(c) == \/ ReadSettings(c) \/ SeesLock(c) \/ ListAccounts(c) \/ Sign(c) \/ Exclude(c)
            \/ StorePasskey(c) \/ Touch(c) \/ SaveTouched(c)
            \/ Prepared(c) \/ Refreshed(c) \/ Worked(c)
User(c)  == \/ Cancel(c) \/ Fallback(c) \/ OpenVault(c)
            \/ \E k \in Passkey \cup {None} : Approve(c, k)

Next ==
  \/ Deliver
  \/ \E c \in Call : Start(c) \/ Abort(c) \/ User(c) \/ Serve(c) \/ Expire(c) \/ Poll(c)
  \/ Escape
  \/ WorkerStops
  \/ LockOrUnlock \/ SwitchPasskeys
  \/ \E k \in Passkey : Delete(k) \/ Arrive(k)

\* The window delivers what is posted, the worker serves what it is asked, and
\* timers fire; the user need not do anything.
Fairness ==
  /\ WF_vars(Deliver)
  /\ \A c \in Call : WF_vars(Serve(c)) /\ WF_vars(Expire(c))

Spec == Init /\ [][Next]_vars /\ Fairness

-----------------------------------------------------------------------------
(* Properties. *)

\* The worker acts for a call only if the user approved that very call in its
\* prompt, and signs with the account chosen there, unless that passkey was
\* deleted after it was offered (service.ts performGet, bridge.ts: "makes the
\* user approve every ceremony before the background is asked to sign").
ActsAsApproved ==
  \A c \in Call : used[c] # None =>
     /\ c \in consented
     /\ IsGet(c) => used[c] = chosen[c] \/ chosen[c] \in gone

\* A call aborted before the user approved it signs nothing and stores nothing,
\* whatever the bridge was waiting for when the abort came (inFlight).
AbortedDoesNothing == \A c \in dropped : used[c] = None

\* The prompt on the page belongs to a ceremony that still runs and still waits
\* for an answer: nobody is asked about a ceremony that is over.
PromptIsLive == shown # None => prompt[shown] # "none" /\ shown \in inFlight

\* A site that is told of a new passkey finds it in the vault, unless it was
\* deleted there; and one whose sign-in succeeds has a signature.
SuccessIsReal ==
  \A c \in Call : page[c] \in {"made", "signed"} =>
     used[c] # None /\ used[c] \in vault \cup gone

\* A registration is refused if the vault held an excluded passkey when the user
\* approved and still holds it, unless the vault was locked for the moment in
\* which it was looked for (service.ts performCreate, excludeCredentials).
ExcludedIsRefused ==
  \A c \in Call : ~IsGet(c) /\ used[c] # None => held[c] \subseteq gone \/ c \in blinked

\* Every call is settled in the end: answered, handed to the browser, refused or
\* aborted, also when its prompt was replaced or taken away by another call's,
\* and when the worker stops while it is asked.
CallsSettle == \A c \in Call : page[c] = "waiting" ~> page[c] # "waiting"

\* The card of an unlocked vault lists the accounts of the last preparation
\* (bridge.ts: "Re-prepare: the account list was empty while locked.").
ListIsFresh ==
  shown # None /\ prompt[shown] = "ready" => offered[shown] = prepared[shown]
=============================================================================
