-------------------------------- MODULE Phone --------------------------------
(***************************************************************************)
(* The phone app (mobile/App.tsx): what it knows of the account and how it *)
(* opens the vault (mobile/session.ts), its lock after a spell in the      *)
(* background, and the clipboard it copies secrets to and takes them back  *)
(* from (mobile/clipboard.ts).  A copy is known by its number.             *)
(***************************************************************************)
EXTENDS Naturals, Sequences

CONSTANTS
  Blob,       \* what the account holds on the server
  Sort,        \* [Blob -> "sound", "broken", "persona" or "deleted"]
  Absent,
  MaxCopies    \* bound: copies made

ASSUME PhoneAssumption ==
  /\ Sort \in [Blob -> {"sound", "broken", "persona", "deleted"}]
  /\ Absent \notin Blob /\ MaxCopies \in Nat

VARIABLES
  account,     \* "asking", "unreachable", "notEnrolled" or "ready"
  entering,    \* the unlock form: "idle", "deriving", "opening" or "refused"
  shownVault,  \* the open vault: [items, unreadable], or Absent
  chosen,      \* the item in the detail view
  query,       \* the items the search leaves
  hidden,      \* the app is in the background
  away,        \* the timer of the background lock: "off", "set" or "spent"
  overran,     \* history: its time was up while the vault was being opened
  clipboard,   \* the copy on the system's clipboard, 0 if none
  writes,      \* clipboard writes under way, in order: a copy, or 0
  ticking,     \* intervals running: [of, over], over once their time is up
  timer,       \* the interval cancelPendingClear knows of, 0 if none
  status,      \* what the banner says
  copies,
  letGo        \* history: the user locked, or dismissed the banner, since the copy

phoneVars == <<account, entering, shownVault, chosen, query, hidden, away, overran, clipboard,
               writes, ticking, timer, status, copies, letGo>>
clipVars == <<clipboard, writes, ticking, timer, status, copies, letGo>>
screenVars == <<account, entering, shownVault, chosen, query>>
awayVars == <<hidden, away, overran>>

(***************************************************************************)
(* Opening the vault                                                       *)
(***************************************************************************)
\* probeAccount: three requests; any of them fails, or there is no key blob.
Probe ==
  /\ account = "asking"
  /\ account' \in {"unreachable", "notEnrolled", "ready"}
  /\ UNCHANGED <<entering, shownVault, chosen, query, awayVars, clipVars>>

RetryProbe ==
  /\ ~hidden /\ account \in {"unreachable", "notEnrolled"} /\ shownVault = Absent
  /\ account' = "asking"
  /\ UNCHANGED <<entering, shownVault, chosen, query, awayVars, clipVars>>

SubmitPassword ==
  /\ ~hidden /\ account = "ready" /\ shownVault = Absent /\ entering \in {"idle", "refused"}
  /\ entering' = "deriving"
  /\ UNCHANGED <<account, shownVault, chosen, query, awayVars, clipVars>>

\* deriveMasterKey.
DeriveMasterKey(right) ==
  /\ entering = "deriving"
  /\ entering' = IF right THEN "opening" ELSE "refused"
  /\ UNCHANGED <<account, shownVault, chosen, query, awayVars, clipVars>>

\* openVault: no keychain, an incomplete one or a failed pull refuses it; an
\* entry that does not open does not keep the others back.
OpenVault(fails) ==
  /\ entering = "opening"
  /\ entering' = IF fails THEN "refused" ELSE "idle"
  /\ IF fails
     THEN UNCHANGED <<shownVault, query>>
     ELSE /\ shownVault' = [items |-> {e \in Blob : Sort[e] = "sound"},
                            unreadable |-> {e \in Blob : Sort[e] = "broken"}]
          /\ query' = Blob
  /\ UNCHANGED <<account, chosen, awayVars, clipVars>>

SearchItems(left) ==
  /\ ~hidden /\ shownVault # Absent /\ chosen = Absent
  /\ query' = left
  /\ UNCHANGED <<account, entering, shownVault, chosen, awayVars, clipVars>>

Select(e) ==
  /\ ~hidden /\ shownVault # Absent
  /\ e # Absent => chosen = Absent /\ e \in shownVault.items \cap query
  /\ chosen' = e
  /\ UNCHANGED <<account, entering, shownVault, query, awayVars, clipVars>>

(***************************************************************************)
(* The clipboard                                                           *)
(***************************************************************************)
Cancelled == {i \in ticking : i.of # timer}

CopySecret ==
  /\ chosen # Absent /\ ~hidden /\ copies < MaxCopies
  /\ copies' = copies + 1
  /\ ticking' = Cancelled /\ timer' = 0
  /\ writes' = Append(writes, copies')
  /\ UNCHANGED <<screenVars, awayVars, clipboard, status, letGo>>

\* The system grants or refuses the write at the head of the queue.
WriteGranted ==
  /\ writes # <<>>
  /\ LET n == Head(writes) IN
     /\ clipboard' = n
     /\ letGo' = FALSE
     /\ IF n = 0
        THEN status' = "cleared" /\ UNCHANGED <<ticking, timer>>
        ELSE /\ status' = "copied"
             /\ ticking' = ticking \cup {[of |-> n, over |-> FALSE]}
             /\ timer' = n
  /\ writes' = Tail(writes)
  /\ UNCHANGED <<screenVars, awayVars, copies>>

\* (Mutant of WriteRefused: a refused clear is taken for done.)
WriteRefusedUnsaid ==
  /\ writes # <<>>
  /\ status' = IF Head(writes) = 0 THEN "cleared" ELSE "copy-failed"
  /\ writes' = Tail(writes)
  /\ UNCHANGED <<screenVars, awayVars, clipboard, ticking, timer, copies, letGo>>

\* One status for the code, two texts for the user: "the clipboard still holds
\* ..." and "could not copy".
WriteRefused ==
  /\ writes # <<>>
  /\ status' = IF Head(writes) = 0 THEN "clear-failed" ELSE "copy-failed"
  /\ writes' = Tail(writes)
  /\ UNCHANGED <<screenVars, awayVars, clipboard, ticking, timer, copies, letGo>>

\* An interval fires: while its time is not up it says so, after that it stops
\* the interval timer holds - its own, unless another copy has taken over - and
\* writes the clipboard empty.
Tick(i, over) ==
  /\ i.over => over
  /\ IF over
     THEN /\ ticking' = {IF j = i THEN [j EXCEPT !.over = TRUE] ELSE j : j \in Cancelled}
          /\ timer' = 0
          /\ writes' = Append(writes, 0)
          /\ UNCHANGED status
     ELSE status' = "copied" /\ UNCHANGED <<ticking, timer, writes>>
  /\ UNCHANGED <<screenVars, awayVars, clipboard, copies, letGo>>

DismissBanner ==
  /\ ~hidden /\ shownVault # Absent /\ status # "idle"
  /\ status' = "idle" /\ letGo' = (clipboard # 0)
  /\ UNCHANGED <<screenVars, awayVars, clipboard, writes, ticking, timer, copies>>

(***************************************************************************)
(* The lock                                                                *)
(***************************************************************************)
Locked ==
  /\ shownVault' = Absent /\ chosen' = Absent /\ query' = Blob
  /\ ticking' = Cancelled /\ timer' = 0 /\ status' = "idle"
  /\ letGo' = (clipboard # 0)
  /\ UNCHANGED <<account, entering, clipboard, writes, copies>>

LockButton ==
  /\ ~hidden /\ shownVault # Absent /\ chosen = Absent
  /\ Locked
  /\ UNCHANGED awayVars

Hide ==
  /\ ~hidden /\ hidden' = TRUE
  /\ away' = IF away = "off" THEN "set" ELSE away
  /\ UNCHANGED <<screenVars, overran, clipVars>>

\* (Mutant of ComeBack: the timer is stopped but not forgotten.)
ComeBackKeepsHandle ==
  /\ hidden /\ hidden' = FALSE
  /\ away' = "spent" /\ overran' = FALSE
  /\ UNCHANGED <<screenVars, clipVars>>

ComeBack ==
  /\ hidden /\ hidden' = FALSE
  /\ away' = "off" /\ overran' = FALSE
  /\ UNCHANGED <<screenVars, clipVars>>

\* Ten minutes in the background, whatever the app is at: an unlock under way
\* goes on and opens the vault afterwards.
BackgroundLock ==
  /\ away = "set"
  /\ away' = "spent" /\ overran' = (entering \in {"deriving", "opening"})
  /\ Locked
  /\ UNCHANGED hidden

\* The system discards the app in the background; the clipboard is not its own.
Reclaimed ==
  /\ hidden /\ hidden' = FALSE /\ away' = "off" /\ overran' = FALSE
  /\ account' = "asking" /\ entering' = "idle"
  /\ shownVault' = Absent /\ chosen' = Absent /\ query' = Blob
  /\ writes' = <<>> /\ ticking' = {} /\ timer' = 0 /\ status' = "idle"
  /\ letGo' = (clipboard # 0)
  /\ UNCHANGED <<clipboard, copies>>

PhoneInit ==
  /\ account = "asking" /\ entering = "idle"
  /\ shownVault = Absent /\ chosen = Absent /\ query = Blob
  /\ hidden = FALSE /\ away = "off" /\ overran = FALSE
  /\ clipboard = 0 /\ writes = <<>> /\ ticking = {} /\ timer = 0 /\ status = "idle"
  /\ copies = 0 /\ letGo = FALSE

Opening ==
  Probe \/ (\E b \in BOOLEAN : DeriveMasterKey(b) \/ OpenVault(b))
\* A bound: no interval fires again while its last write is still under way.
Clip ==
  \/ CopySecret \/ WriteGranted \/ WriteRefused
  \/ \E i \in ticking, over \in BOOLEAN : Len(writes) < MaxCopies /\ Tick(i, over)

PhoneNext ==
  \/ Opening \/ RetryProbe \/ SubmitPassword
  \/ \E left \in SUBSET Blob : SearchItems(left)
  \/ \E e \in Blob \cup {Absent} : Select(e)
  \/ Clip \/ DismissBanner \/ LockButton \/ Hide \/ ComeBack \/ BackgroundLock \/ Reclaimed

\* The form gets its answer and the timer of the background lock runs down.
PhoneFairness == WF_phoneVars(Opening) /\ WF_phoneVars(BackgroundLock)
PhoneSpec == PhoneInit /\ [][PhoneNext]_phoneVars /\ PhoneFairness

(***************************************************************************)
(* Properties                                                              *)
(***************************************************************************)
PhoneTypeOK ==
  /\ account \in {"asking", "unreachable", "notEnrolled", "ready"}
  /\ entering \in {"idle", "deriving", "opening", "refused"}
  /\ shownVault = Absent \/ shownVault \in [items : SUBSET Blob, unreadable : SUBSET Blob]
  /\ chosen \in Blob \cup {Absent} /\ query \subseteq Blob /\ hidden \in BOOLEAN
  /\ away \in {"off", "set", "spent"} /\ overran \in BOOLEAN
  /\ clipboard \in 0..MaxCopies /\ writes \in Seq(0..MaxCopies)
  /\ ticking \subseteq [of : 1..MaxCopies, over : BOOLEAN] /\ timer \in 0..MaxCopies
  /\ status \in {"idle", "copied", "cleared", "clear-failed", "copy-failed"}
  /\ copies \in 0..MaxCopies /\ letGo \in BOOLEAN

\* Whatever copies, countdowns and refused writes overlap: a secret left on the
\* clipboard is still to be taken back, or the banner says that it is there, and
\* it is never called cleared.  A lock and a dismissed banner are the user's, and
\* the code takes them for the end of it.  So does, in silence, a copy the system
\* refuses: it has stopped the countdown of the one before, and the banner speaks
\* of the refused copy only.  (clipboard.ts:33-38, 49-55.)
ClipboardHonest ==
  clipboard # 0 /\ writes = <<>> =>
    /\ status # "cleared"
    /\ ticking # {} \/ status \in {"clear-failed", "copy-failed"} \/ letGo

\* An open vault does not stay open in the background, except one that was still
\* being opened when the time to lock it came.  (App.tsx:459-497.)
BackgroundLocks ==
  hidden /\ shownVault # Absent /\ ~overran ~> ~hidden \/ shownVault = Absent
===============================================================================
