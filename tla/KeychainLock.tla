----------------------------- MODULE KeychainLock -----------------------------
(***************************************************************************)
(* When the vault is open: the master key cached in the background worker, *)
(* its copy in session storage, and the idle deadline that closes it.      *)
(*                                                                         *)
(* The worker keeps the key in a variable and beside it, in session        *)
(* storage, so that it survives the worker's eviction.  A deadline is kept *)
(* in both places and looked at whenever the key is read; a timer locks    *)
(* promptly while the worker lives.  Messages are asynchronous handlers in *)
(* one thread: a step is what runs between two awaits.  Storage serves     *)
(* calls in the order they are made, so a write is applied when it is made *)
(* and a read is answered, later, with what was there when it was made.    *)
(***************************************************************************)
EXTENDS Integers, Sequences

CONSTANTS
  Msg,         \* messages that may be in progress at once, besides UNLOCKs
  Unlocker,    \* the chain that serves UNLOCK messages one after the other
  Pin, Right,  \* what may be typed, and the PIN that opens the vault
  Idle,        \* autoLockMinutes, when it is not 0
  MaxTime,     \* bound: the clock
  MaxChain,    \* bound: UNLOCK requests waiting
  Crashes,     \* whether the worker may be stopped in the middle of its work
  Prompt       \* whether handlers take no time the clock would show

ASSUME LockAssumption ==
  /\ Unlocker \notin Msg
  /\ Right \in Pin
  /\ Idle \in Nat \ {0}
  /\ MaxTime \in Nat
  /\ MaxChain \in Nat
  /\ Crashes \in BOOLEAN
  /\ Prompt \in BOOLEAN

Proc  == Msg \cup {Unlocker}
Never == -1                     \* no deadline, no timer
When  == Nat \cup {Never}

\* Messages that read the key.  use: opens items at once and counts as activity
\* (GET_ITEMS, UPDATE_ITEM, ...).  look: waits for the vault before it opens
\* items, and is no activity (QUEUE_SAVE_PROMPT, GET_IDENTIFIER_SUGGESTIONS).
\* check: only asks whether the vault is open (GET_UNLOCKED, the tab badge).
Kind  == {"use", "look", "check"}
Stage == {"idle", "cold", "open", "clear", "deadline", "arm", "unarm"}
\* A session read in flight knows for whom it was made and what it saw; a
\* reset past its first step, the idle time it was given.
Job   == [pc : Stage, kind : Kind, sawKey : BOOLEAN, sawAt : When, ms : Nat]
NoJob == [pc |-> "idle", kind |-> "check", sawKey |-> FALSE,
          sawAt |-> Never, ms |-> 0]

VARIABLES
  key,       \* cachedMasterKey is set
  lockAt,    \* its deadline
  opened,    \* openedItems holds decrypted items
  timer,     \* when the timer lockTimer names is due
  strays,    \* when timers are due that no variable names any more
  stored,    \* session storage holds the key
  storedAt,  \* ... and this deadline
  minutes,   \* settings.autoLockMinutes
  chain,     \* PINs of the UNLOCK requests in the chain, the running one first
  job,       \* the work in progress
  now,       \* Date.now()
  limit,     \* history: when the vault should close if it is not used again
  told,      \* history: the user locked it and has not unlocked it since
  raced,     \* history: work in progress overlapped, see Overlaps
  adjusted   \* history: the settings were changed

memory  == <<key, lockAt, opened, timer, strays, chain, job>>
session == <<stored, storedAt>>
history == <<limit, told, raced, adjusted>>
vars    == <<memory, session, minutes, now, history>>

\* Key, deadlines, timers and the work in progress keep their shape.
TypeOK ==
  /\ key \in BOOLEAN /\ stored \in BOOLEAN /\ opened \in BOOLEAN
  /\ told \in BOOLEAN /\ raced \in BOOLEAN /\ adjusted \in BOOLEAN
  /\ lockAt \in When /\ storedAt \in When /\ timer \in When /\ limit \in When
  /\ strays \subseteq Nat
  /\ minutes \in {0, Idle}
  /\ chain \in Seq(Pin)
  /\ job \in [Proc -> Job]
  /\ now \in Nat

Init ==
  /\ key = FALSE /\ stored = FALSE /\ opened = FALSE
  /\ lockAt = Never /\ storedAt = Never /\ timer = Never /\ strays = {}
  /\ minutes \in {0, Idle}
  /\ chain = <<>>
  /\ job = [p \in Proc |-> NoJob]
  /\ now = 0
  /\ limit = Never /\ told = FALSE /\ raced = FALSE /\ adjusted = FALSE

Busy(p) == job[p].pc # "idle"
Passed(at) == at # Never /\ now >= at

\* Whether anything but p is in progress while p takes this step.
Overlaps(p) == raced' = (raced \/ \E q \in Proc \ {p} : Busy(q))

Becomes(p, new) == job' = [job EXCEPT ![p] = new]
At(pc)          == [NoJob EXCEPT !.pc = pc]

-----------------------------------------------------------------------------
(* Reading the key and dropping it. *)

\* (Mutants of Drop: the session copy outlives the lock; the listeners are not
\* told.)
DropMemoryOnly ==
  /\ key' = FALSE
  /\ lockAt' = Never
  /\ opened' = (opened /\ ~key)
  /\ UNCHANGED session

DropSilently ==
  /\ key' = FALSE
  /\ lockAt' = Never
  /\ stored' = FALSE
  /\ storedAt' = Never
  /\ UNCHANGED opened

\* setCachedMasterKey(null): the listeners run only if there was a key.
Drop ==
  /\ key' = FALSE
  /\ lockAt' = Never
  /\ opened' = (opened /\ ~key)
  /\ stored' = FALSE
  /\ storedAt' = Never

\* A handler has the key: it opens items and answers, or waits for the vault.
HasKey(h, kind) ==
  /\ Becomes(h, CASE kind = "use"  -> At("clear")
                  [] kind = "look" -> At("open")
                  [] OTHER         -> NoJob)
  /\ opened' = (opened \/ kind = "use")

\* getCachedMasterKey with the key in memory.
Receive(h, kind) ==
  /\ ~Busy(h) /\ key /\ ~Passed(lockAt)
  /\ HasKey(h, kind)
  /\ Overlaps(h)
  /\ UNCHANGED <<key, lockAt, timer, strays, session, minutes, chain, now, limit, told, adjusted>>

\* ... and past its deadline.
ReceiveLate(h) ==
  /\ ~Busy(h) /\ key /\ Passed(lockAt)
  /\ Drop
  /\ Overlaps(h)
  /\ UNCHANGED <<timer, strays, minutes, chain, job, now, limit, told, adjusted>>

\* ... and without: after an eviction session storage may have it.
ReceiveCold(h, kind) ==
  /\ ~Busy(h) /\ ~key
  /\ Becomes(h, [At("cold") EXCEPT !.kind = kind, !.sawKey = stored,
                                   !.sawAt = IF stored THEN storedAt ELSE Never])
  /\ Overlaps(h)
  /\ UNCHANGED <<key, lockAt, opened, timer, strays, session, minutes, chain, now,
                 limit, told, adjusted>>

\* (Mutant of ColdReturns: the stored deadline is not honoured.)
ColdReturnsUndated(h) ==
  LET j == job[h] IN
  /\ j.pc = "cold"
  /\ IF j.sawKey THEN key' = TRUE /\ lockAt' = Never /\ HasKey(h, j.kind)
                 ELSE Becomes(h, NoJob) /\ UNCHANGED <<key, lockAt, opened>>
  /\ Overlaps(h)
  /\ UNCHANGED <<session, timer, strays, minutes, chain, now, limit, told, adjusted>>

\* The session read is answered with what it saw when it was made.
ColdReturns(h) ==
  LET j == job[h] IN
  /\ j.pc = "cold"
  /\ \/ /\ ~j.sawKey
        /\ Becomes(h, NoJob)
        /\ UNCHANGED <<key, lockAt, opened, session>>
     \/ /\ j.sawKey /\ Passed(j.sawAt)
        /\ Drop
        /\ Becomes(h, NoJob)
     \/ /\ j.sawKey /\ ~Passed(j.sawAt)
        /\ key' = TRUE
        /\ lockAt' = j.sawAt
        /\ HasKey(h, j.kind)
        /\ UNCHANGED session
  /\ Overlaps(h)
  /\ UNCHANGED <<timer, strays, minutes, chain, now, limit, told, adjusted>>

\* The vault is read at last and its items are opened with the key at hand.
OpenItems(h) ==
  /\ job[h].pc = "open"
  /\ opened' = TRUE
  /\ Becomes(h, NoJob)
  /\ Overlaps(h)
  /\ UNCHANGED <<key, lockAt, timer, strays, session, minutes, chain, now, limit, told, adjusted>>

\* DELETE_ITEM asks for no key, and is activity all the same.
ReceiveDelete(h) ==
  /\ ~Busy(h)
  /\ Becomes(h, At("clear"))
  /\ Overlaps(h)
  /\ UNCHANGED <<key, lockAt, opened, timer, strays, session, minutes, chain, now,
                 limit, told, adjusted>>

-----------------------------------------------------------------------------
(* LOCK and UNLOCK. *)

Lock(h) ==
  /\ ~Busy(h)
  /\ Drop
  /\ told' = TRUE
  /\ Becomes(h, At("unarm"))
  /\ Overlaps(h)
  /\ UNCHANGED <<timer, strays, minutes, chain, now, limit, adjusted>>

LockDone(h) ==
  /\ job[h].pc = "unarm"
  /\ timer' = Never
  /\ Becomes(h, NoJob)
  /\ Overlaps(h)
  /\ UNCHANGED <<key, lockAt, opened, strays, session, minutes, chain, now, limit, told,
                 adjusted>>

\* A request for the PIN that is last in the chain shares its answer; another
\* one waits for the chain.
RequestUnlock(pin) ==
  /\ Len(chain) < MaxChain
  /\ ~(chain # <<>> /\ chain[Len(chain)] = pin)
  /\ chain' = Append(chain, pin)
  /\ UNCHANGED <<key, lockAt, opened, timer, strays, session, minutes, job, now, history>>

WrongPin ==
  /\ chain # <<>> /\ ~Busy(Unlocker)
  /\ Head(chain) # Right
  /\ chain' = Tail(chain)
  /\ UNCHANGED <<key, lockAt, opened, timer, strays, session, minutes, job, now, history>>

\* When a vault used at this moment should close.
LimitFrom(ms) == IF ms > 0 THEN now + ms ELSE Never

\* The derivation succeeds: setCachedMasterKey(key), which sets no deadline.
RightPin ==
  /\ chain # <<>> /\ ~Busy(Unlocker)
  /\ Head(chain) = Right
  /\ key' = TRUE
  /\ stored' = TRUE
  /\ told' = FALSE
  /\ Becomes(Unlocker, At("clear"))
  /\ Overlaps(Unlocker)
  /\ UNCHANGED <<lockAt, opened, timer, strays, storedAt, minutes, chain, now, limit, adjusted>>

-----------------------------------------------------------------------------
(* resetLockTimer, run after an activity and at the end of an unlock. *)

\* (Mutant of ClearTimer: the idle time is one short.)
ClearTimerShort(p) ==
  /\ job[p].pc = "clear"
  /\ timer' = Never
  /\ Becomes(p, [job[p] EXCEPT !.pc = "deadline", !.ms = minutes - 1])
  /\ Overlaps(p)
  /\ UNCHANGED <<key, lockAt, opened, strays, session, minutes, chain, now, limit, told,
                 adjusted>>

\* The timer is cleared at once, the settings are asked for.
ClearTimer(p) ==
  /\ job[p].pc = "clear"
  /\ timer' = Never
  /\ Becomes(p, [job[p] EXCEPT !.pc = "deadline", !.ms = minutes])
  /\ Overlaps(p)
  /\ UNCHANGED <<key, lockAt, opened, strays, session, minutes, chain, now, limit, told,
                 adjusted>>

\* The reset ends; so does the unlock it belongs to.
Ends(p) ==
  /\ Becomes(p, NoJob)
  /\ chain' = IF p = Unlocker THEN Tail(chain) ELSE chain

SetDeadline(p) ==
  LET ms == job[p].ms IN
  /\ job[p].pc = "deadline"
  /\ lockAt' = LimitFrom(ms)
  /\ storedAt' = LimitFrom(ms)
  /\ limit' = LimitFrom(ms)
  /\ IF ms > 0 THEN Becomes(p, [job[p] EXCEPT !.pc = "arm"]) /\ UNCHANGED chain
               ELSE Ends(p)
  /\ Overlaps(p)
  /\ UNCHANGED <<key, opened, timer, strays, stored, minutes, now, told, adjusted>>

\* (Mutant of ArmTimer: it is due one unit early.)
ArmTimerShort(p) ==
  /\ job[p].pc = "arm"
  /\ timer' = now + job[p].ms - 1
  /\ strays' = strays \cup ({timer} \ {Never})
  /\ Ends(p)
  /\ Overlaps(p)
  /\ UNCHANGED <<key, lockAt, opened, session, minutes, now, limit, told, adjusted>>

\* A timer another reset has set meanwhile is named by nothing from here on.
ArmTimer(p) ==
  /\ job[p].pc = "arm"
  /\ timer' = now + job[p].ms
  /\ strays' = strays \cup ({timer} \ {Never})
  /\ Ends(p)
  /\ Overlaps(p)
  /\ UNCHANGED <<key, lockAt, opened, session, minutes, now, limit, told, adjusted>>

\* A timer that is due, named or not, locks.
TimerFires ==
  /\ \/ Passed(timer) /\ timer' = Never /\ UNCHANGED strays
     \/ \E t \in strays : Passed(t) /\ strays' = strays \ {t} /\ UNCHANGED timer
  /\ Drop
  /\ raced' = (raced \/ \E q \in Proc : Busy(q))
  /\ UNCHANGED <<minutes, chain, job, now, limit, told, adjusted>>

-----------------------------------------------------------------------------
(* The surroundings. *)

\* SAVE_SETTINGS: nothing is re-armed until the next activity.
SaveSettings(m) ==
  /\ minutes' = m
  /\ adjusted' = TRUE
  /\ UNCHANGED <<memory, session, now, limit, told, raced>>

\* The browser stops an idle worker, and starts it for the next message.
Evict ==
  /\ Crashes \/ (chain = <<>> /\ \A p \in Proc : ~Busy(p))
  /\ key' = FALSE /\ opened' = FALSE
  /\ lockAt' = Never /\ timer' = Never /\ strays' = {}
  /\ chain' = <<>>
  /\ job' = [p \in Proc |-> NoJob]
  /\ UNCHANGED <<session, minutes, now, history>>

Tick ==
  /\ now < MaxTime
  /\ Prompt => \A p \in Proc : ~Busy(p)
  /\ now' = now + 1
  /\ UNCHANGED <<memory, session, minutes, history>>

Message(h) ==
  \/ \E kind \in Kind : Receive(h, kind) \/ ReceiveCold(h, kind)
  \/ ReceiveLate(h) \/ ReceiveDelete(h) \/ Lock(h)
  \/ ColdReturns(h) \/ OpenItems(h) \/ LockDone(h)

Reset(p) == ClearTimer(p) \/ SetDeadline(p) \/ ArmTimer(p)

Next ==
  \/ \E h \in Msg : Message(h)
  \/ \E p \in Proc : Reset(p)
  \/ \E pin \in Pin : RequestUnlock(pin)
  \/ WrongPin \/ RightPin \/ TimerFires
  \/ \E m \in {0, Idle} : SaveSettings(m)
  \/ Evict \/ Tick

Spec == Init /\ [][Next]_vars

-----------------------------------------------------------------------------

\* What the next read of the key would find.
Readable == IF key THEN ~Passed(lockAt) ELSE stored /\ ~Passed(storedAt)

\* No new deadline is about to be set.
Settled == \A p \in Proc : job[p].pc \notin {"clear", "deadline"}

\* A vault left alone for the idle time is closed to every reader, through
\* evictions and whatever messages overlap: the deadline is in both places.
IdleVaultIsClosed ==
  Settled /\ Passed(limit) /\ ~(raced /\ adjusted) => ~Readable

\* A vault the user locked stays locked until it is unlocked, in memory and
\* after an eviction - while no two pieces of work have overlapped.
LockSticks == told /\ ~raced => ~Readable

\* Decrypted items are dropped with the key.
PlaintextGone == opened => key \/ raced

\* The vault closes by itself only when it has not been used for the idle time.
Closes == Readable /\ ~Readable'
InTime == told' \/ (limit # Never /\ now' >= limit)
ClosesInTimeAlone == [][Closes => InTime \/ raced']_vars

\* A vault that has closed is opened by an unlock and by nothing else, in the
\* worker that closed it and after an eviction.
Opens       == ~Readable /\ Readable'
StaysClosed == [][Opens => Busy(Unlocker) \/ Busy(Unlocker)']_vars
=============================================================================
