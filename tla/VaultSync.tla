------------------------------ MODULE VaultSync ------------------------------
(***************************************************************************)
(* One device's encrypted vault and the queue that replicates it.          *)
(*                                                                         *)
(* The background worker serves messages that edit the vault (create,      *)
(* update, delete, "last used", reset) and runs syncs: processQueue on a   *)
(* 60 s interval, and processQueue followed by a plain fullSync when the   *)
(* user asks for one.  Both kinds of work are asynchronous functions in    *)
(* one JavaScript thread, so a step here is what runs between two awaits   *)
(* that reach storage or the network, and steps of different handlers      *)
(* interleave.  The sync server and the account's other devices are        *)
(* external and modelled by what this client sends and expects.            *)
(*                                                                         *)
(* An envelope is abstracted to the time of its last edit and the account  *)
(* that signed it: the merge rules compare nothing else.                   *)
(***************************************************************************)
EXTENDS Integers, FiniteSets

CONSTANTS
  Item,        \* client ids of logins, cards, notes, passkeys...
  Identity,    \* client ids of personas, kept under a storage key of their own
  Account,     \* accounts, each standing for its signing key pair
  None,        \* no account, no id
  Handler,     \* message handlers that may be in progress at once
  MaxTime,     \* bound: edits made anywhere, each at a time of its own
  Deletable,   \* ids that are ever deleted in this instance
  Surroundings \* sets of hazards: a behaviour meets those of one of them

Id == Item \cup Identity

(***************************************************************************)
(* opDuringSync  a handler and a sync may be in progress together          *)
(* twoSyncs      the manual sync and the timer's may be                    *)
(* twoOps        two handlers may be                                       *)
(* eviction      the browser may stop the worker between any two steps     *)
(* offline       requests and responses may be lost                        *)
(* storage       a storage call may reject                                 *)
(* reset         the user may reset the device                             *)
(* rekey         a keychain may be installed over another one              *)
(***************************************************************************)
Hazard == {"opDuringSync", "twoSyncs", "twoOps", "eviction", "offline",
           "storage", "reset", "rekey"}

ASSUME ConstantsAssumption ==
  /\ Item \cap Identity = {}
  /\ None \notin Id \cup Account
  /\ MaxTime \in Nat
  /\ Deletable \subseteq Id
  /\ Surroundings \subseteq SUBSET Hazard

-----------------------------------------------------------------------------
(* Data. *)

Signer   == Account \cup {None}
Envelope == [at : Nat, by : Signer]
Absent   == [at |-> 0, by |-> None]        \* no envelope stored under an id

Vault      == [Id -> Envelope]
EmptyVault == [i \in Id |-> Absent]

\* Times start at 1, so an absent envelope is older than any other.
Present(e) == e.at > 0

\* Queue entries.  The envelope an entry carries is written and never read:
\* a sync pushes the vault itself, so only the kind and the id matter.
Op    == {"create", "update", "delete"}
Entry == [op : Op, id : Id]
Deletes(q) == {e.id : e \in {d \in q : d.op = "delete"}}

\* What the server keeps for an id; seq 0 means it has never heard of it.
Record   == [at : Nat, by : Signer, seq : Nat, dead : BOOLEAN]
NoRecord == [at |-> 0, by |-> None, seq |-> 0, dead |-> FALSE]

Run == {"timer", "manual"}

VARIABLES
  keychain,    \* vw_keychain: the account this device holds, or None
  vault,       \* vw_vault_items and vw_identities
  queue,       \* vw_sync_queue
  cursor,      \* vw_sync_cursor, 0 before the first sync and after a reset
  processing,  \* the flag that keeps two processQueue runs apart
  status,      \* syncStatus.state
  task,        \* the message handlers in progress
  run,         \* the syncs in progress
  server,      \* external: the vault on the sync server
  serverSeq,   \* external: its change counter
  clock,       \* the time of the last edit anywhere
  minted,      \* ids that have been given out (crypto.randomUUID)
  allowed      \* the hazards of this behaviour, the same in all its states

disk     == <<keychain, vault, queue, cursor>>
memory   == <<processing, status, task, run>>
external == <<server, serverSeq, clock, minted, allowed>>
vars     == <<disk, memory, external>>

TaskStage == {"idle", "loadVault", "writeVault", "loadQueue", "writeQueue",
              "wipeItems", "wipeIdentities", "wipeQueue", "wipeCursor"}
TaskOp == Op \cup {"touch", "reset"}
Task == [pc : TaskStage, op : TaskOp, id : Id \cup {None},
         env : Envelope, view : Vault, seen : SUBSET Entry]
IdleTask == [pc |-> "idle", op |-> "create", id |-> None,
             env |-> Absent, view |-> EmptyVault, seen |-> {}]

RunStage == {"idle", "readQueue", "readKeys", "loadItems", "loadIdentities",
             "loadCursor", "push", "saveEcho", "pull", "saveCursor",
             "saveItems", "saveIdentities", "clearQueue"}
SyncRun == [pc : RunStage, drain : BOOLEAN, key : Signer, snap : Vault,
            tombs : SUBSET Id, deletedAt : Nat, from : Nat, upto : Nat]
IdleRun == [pc |-> "idle", drain |-> FALSE, key |-> None,
            snap |-> EmptyVault, tombs |-> {}, deletedAt |-> 0,
            from |-> 0, upto |-> 0]

\* The vault stays a map from ids to envelopes, the queue a set of entries for
\* known ids, and a cursor never falls below the start of the server's history.
TypeOK ==
  /\ keychain \in Signer
  /\ vault \in Vault
  /\ queue \subseteq Entry
  /\ cursor \in Nat
  /\ processing \in BOOLEAN
  /\ status \in {"idle", "syncing", "ok", "error"}
  /\ task \in [Handler -> Task]
  /\ run \in [Run -> SyncRun]
  /\ server \in [Id -> Record]
  /\ serverSeq \in Nat
  /\ clock \in Nat
  /\ minted \subseteq Id
  /\ allowed \in Surroundings

Init ==
  /\ keychain \in Signer
  /\ vault = EmptyVault
  /\ queue = {}
  /\ cursor = 0
  /\ processing = FALSE
  /\ status = "idle"
  /\ task = [h \in Handler |-> IdleTask]
  /\ run = [r \in Run |-> IdleRun]
  /\ server = [i \in Id |-> NoRecord]
  /\ serverSeq = 0
  /\ clock = 0
  /\ minted = {}
  /\ allowed \in Surroundings

NoTask == \A h \in Handler : task[h].pc = "idle"
NoSync == \A r \in Run : run[r].pc = "idle"

-----------------------------------------------------------------------------
(* Message handlers that edit the vault. *)

MayBegin(h) ==
  /\ task[h].pc = "idle"
  /\ "twoOps" \in allowed \/ NoTask
  /\ "opDuringSync" \in allowed \/ NoSync

\* The handler has read the keys it needs and sealed envelope e for id i.
Begin(h, op, i, e) ==
  task' = [task EXCEPT ![h] = [IdleTask EXCEPT !.pc = "loadVault", !.op = op,
                                               !.id = i, !.env = e]]

\* An edit of this moment, signed by account a.
Sealed(a) == [at |-> clock + 1, by |-> a]

BeginCreate(h, i) ==
  /\ MayBegin(h)
  /\ keychain # None
  /\ clock < MaxTime
  /\ i \notin minted
  /\ Begin(h, "create", i, Sealed(keychain))
  /\ clock' = clock + 1
  /\ minted' = minted \cup {i}
  /\ UNCHANGED <<disk, processing, status, run, server, serverSeq, allowed>>

\* Also the handlers that assign an item to a persona and take it back.  An item
\* is opened before it is edited, so this account signed it; a persona comes
\* whole from a page, which may have read it before a sync or a reset.
BeginUpdate(h, i) ==
  /\ MayBegin(h)
  /\ keychain # None
  /\ clock < MaxTime
  /\ IF i \in Item THEN vault[i].by = keychain ELSE i \in minted
  /\ Begin(h, "update", i, Sealed(keychain))
  /\ clock' = clock + 1
  /\ UNCHANGED <<disk, processing, status, run, server, serverSeq, minted,
                 allowed>>

\* (Mutant of BeginTouch: the creation time is sealed in place of updatedAt.)
BeginTouchRestamped(h, i) ==
  /\ MayBegin(h)
  /\ keychain # None
  /\ i \in Item
  /\ vault[i].by = keychain
  /\ Begin(h, "touch", i, [vault[i] EXCEPT !.at = 1])
  /\ UNCHANGED <<disk, processing, status, run, external>>

\* "Last used": the envelope that was read is sealed again, its updatedAt as
\* it was, and nothing is queued for it.
BeginTouch(h, i) ==
  /\ MayBegin(h)
  /\ keychain # None
  /\ i \in Item
  /\ vault[i].by = keychain
  /\ Begin(h, "touch", i, vault[i])
  /\ UNCHANGED <<disk, processing, status, run, external>>

\* Nothing is looked up: the id may be gone, or the keychain, since the page that
\* asks was loaded.  Any id given out stands for one that page has read.
BeginDelete(h, i) ==
  /\ MayBegin(h)
  /\ i \in Deletable \cap minted
  /\ Begin(h, "delete", i, Absent)
  /\ UNCHANGED <<disk, processing, status, run, external>>

Stage(h, from, to) ==
  /\ task[h].pc = from
  /\ task' = [task EXCEPT ![h].pc = to]

\* getEncryptedItems or getEncryptedIdentities, by the kind of the id.
LoadVault(h) ==
  /\ task[h].pc = "loadVault"
  /\ task' = [task EXCEPT ![h].pc = "writeVault", ![h].view = vault]
  /\ UNCHANGED <<disk, processing, status, run, external>>

Portion(i) == IF i \in Item THEN Item ELSE Identity

\* The whole storage key is written back from what was read.
Overwrite(part, with) == [i \in Id |-> IF i \in part THEN with[i] ELSE vault[i]]

WriteVault(h) ==
  LET t == task[h] IN
  /\ t.pc = "writeVault"
  /\ vault' = Overwrite(Portion(t.id), [t.view EXCEPT ![t.id] = t.env])
  /\ task' = [task EXCEPT ![h] = IF t.op = "touch" THEN IdleTask
                                 ELSE [t EXCEPT !.pc = "loadQueue"]]
  /\ UNCHANGED <<keychain, queue, cursor, processing, status, run, external>>

LoadQueue(h) ==
  /\ task[h].pc = "loadQueue"
  /\ task' = [task EXCEPT ![h].pc = "writeQueue", ![h].seen = queue]
  /\ UNCHANGED <<disk, processing, status, run, external>>

\* An update of an item whose creation is still queued is folded into it.  A
\* deletion takes out the entries of its id - and every other deletion.
Enqueued(q, op, i) ==
  CASE op = "create" -> q \cup {[op |-> "create", id |-> i]}
    [] op = "update" -> IF [op |-> "create", id |-> i] \in q THEN q
                        ELSE q \cup {[op |-> "update", id |-> i]}
    [] OTHER -> {e \in q : e.id # i /\ e.op # "delete"}
                  \cup {[op |-> "delete", id |-> i]}

WriteQueue(h) ==
  LET t == task[h] IN
  /\ t.pc = "writeQueue"
  /\ queue' = Enqueued(t.seen, t.op, t.id)
  /\ task' = [task EXCEPT ![h] = IdleTask]
  /\ UNCHANGED <<keychain, vault, cursor, processing, status, run, external>>

-----------------------------------------------------------------------------
(* Device reset, and the handlers that install a keychain. *)

BeginReset(h) ==
  /\ "reset" \in allowed
  /\ MayBegin(h)
  /\ keychain' = None
  /\ task' = [task EXCEPT ![h] = [IdleTask EXCEPT !.pc = "wipeItems",
                                                  !.op = "reset"]]
  /\ UNCHANGED <<vault, queue, cursor, processing, status, run, external>>

WipeItems(h) ==
  /\ Stage(h, "wipeItems", "wipeIdentities")
  /\ vault' = Overwrite(Item, EmptyVault)
  /\ UNCHANGED <<keychain, queue, cursor, processing, status, run, external>>

WipeIdentities(h) ==
  /\ Stage(h, "wipeIdentities", "wipeQueue")
  /\ vault' = Overwrite(Identity, EmptyVault)
  /\ UNCHANGED <<keychain, queue, cursor, processing, status, run, external>>

WipeQueue(h) ==
  /\ Stage(h, "wipeQueue", "wipeCursor")
  /\ queue' = {}
  /\ UNCHANGED <<keychain, vault, cursor, processing, status, run, external>>

\* (Mutant of WipeCursor: the cursor survives the reset.)
WipeCursorKept(h) ==
  /\ task[h].pc = "wipeCursor"
  /\ task' = [task EXCEPT ![h] = IdleTask]
  /\ UNCHANGED <<disk, processing, status, run, external>>

WipeCursor(h) ==
  /\ task[h].pc = "wipeCursor"
  /\ cursor' = 0
  /\ task' = [task EXCEPT ![h] = IdleTask]
  /\ UNCHANGED <<keychain, vault, queue, processing, status, run, external>>

\* Account setup, recovery-kit restore and master-password bootstrap each end
\* in one write of vw_keychain; none of them touches vault, queue or cursor.
InstallKeychain(a) ==
  /\ keychain = None \/ ("rekey" \in allowed /\ keychain # a)
  /\ "twoOps" \in allowed \/ NoTask
  /\ "opDuringSync" \in allowed \/ NoSync
  /\ keychain' = a
  /\ UNCHANGED <<vault, queue, cursor, memory, external>>

-----------------------------------------------------------------------------
(* The sync server. *)

\* The newer of what the server has and what it is sent; a deletion at the
\* time of an edit beats it.
Accept(rec, env, seq) ==
  IF env.at > rec.at
  THEN [at |-> env.at, by |-> env.by, seq |-> seq, dead |-> FALSE] ELSE rec

Bury(rec, deletedAt, seq) ==
  IF ~rec.dead /\ deletedAt >= rec.at
  THEN [at |-> deletedAt, by |-> rec.by, seq |-> seq, dead |-> TRUE] ELSE rec

\* A pushed batch: envelopes first, the tombstones after them.
Received(snap, tombs, deletedAt, seq) ==
  [i \in Id |->
     LET rec == Accept(server[i], snap[i], seq)
     IN  IF i \in tombs THEN Bury(rec, deletedAt, seq) ELSE rec]

\* Another device of account a creates or edits.
RemoteWrite(i, a) ==
  /\ clock < MaxTime
  /\ \/ i \notin minted
     \/ server[i].seq > 0 /\ ~server[i].dead /\ server[i].by = a
  /\ server' = [server EXCEPT ![i] = Accept(@, Sealed(a), serverSeq + 1)]
  /\ serverSeq' = serverSeq + 1
  /\ clock' = clock + 1
  /\ minted' = minted \cup {i}
  /\ UNCHANGED <<disk, memory, allowed>>

\* Another device deletes.
RemoteDelete(i) ==
  /\ i \in Deletable
  /\ server[i].seq > 0 /\ ~server[i].dead
  /\ server' = [server EXCEPT ![i] = Bury(@, clock, serverSeq + 1)]
  /\ serverSeq' = serverSeq + 1
  /\ UNCHANGED <<disk, memory, clock, minted, allowed>>

-----------------------------------------------------------------------------
(* Synchronisation: processQueue, fullSync and the SYNC message. *)

MaySync(r) ==
  /\ run[r].pc = "idle"
  /\ "twoSyncs" \in allowed \/ NoSync
  /\ "opDuringSync" \in allowed \/ NoTask

Drain    == [IdleRun EXCEPT !.pc = "readQueue", !.drain = TRUE]
PlainRun == [IdleRun EXCEPT !.pc = "readKeys"]

\* (Mutant of StartTimer: the processing flag is not looked at.)
StartTimerUnguarded ==
  /\ MaySync("timer")
  /\ processing' = TRUE
  /\ run' = [run EXCEPT !["timer"] = Drain]
  /\ UNCHANGED <<disk, status, task, external>>

\* The interval fires.  A run that finds another one processing returns.
StartTimer ==
  /\ MaySync("timer")
  /\ ~processing
  /\ processing' = TRUE
  /\ run' = [run EXCEPT !["timer"] = Drain]
  /\ UNCHANGED <<disk, status, task, external>>

\* SYNC: processQueue, which returns at once if another is in progress, and
\* then a fullSync whatever that returned.
StartManual ==
  /\ MaySync("manual")
  /\ status' = "syncing"
  /\ processing' = TRUE
  /\ run' = [run EXCEPT !["manual"] = IF processing THEN PlainRun ELSE Drain]
  /\ UNCHANGED <<disk, task, external>>

ReadQueue(r) ==
  /\ run[r].pc = "readQueue"
  /\ run' = [run EXCEPT ![r].pc = "readKeys", ![r].tombs = Deletes(queue),
                        ![r].deletedAt = clock]
  /\ UNCHANGED <<disk, processing, status, task, external>>

AfterDrain(r) == IF r = "manual" THEN PlainRun ELSE IdleRun

\* (Mutants of Returns: the queue is cleared whatever fullSync returned; the
\* flag is left up when it failed.)
ReturnsAlwaysClears(r, ok) ==
  \/ /\ run[r].drain
     /\ run' = [run EXCEPT ![r].pc = "clearQueue"]
     /\ UNCHANGED <<processing, status>>
  \/ /\ ~run[r].drain
     /\ status' = IF ok THEN "ok" ELSE "error"
     /\ run' = [run EXCEPT ![r] = IdleRun]
     /\ UNCHANGED processing

ReturnsFlagUp(r, ok) ==
  \/ /\ run[r].drain /\ ok
     /\ run' = [run EXCEPT ![r].pc = "clearQueue"]
     /\ UNCHANGED <<processing, status>>
  \/ /\ ~(run[r].drain /\ ok)
     /\ run' = [run EXCEPT ![r] = IdleRun]
     /\ UNCHANGED <<processing, status>>

\* fullSync returns ok to whoever called it.
Returns(r, ok) ==
  \/ /\ run[r].drain /\ ok
     /\ run' = [run EXCEPT ![r].pc = "clearQueue"]
     /\ UNCHANGED <<processing, status>>
  \/ /\ run[r].drain /\ ~ok
     /\ processing' = FALSE
     /\ run' = [run EXCEPT ![r] = AfterDrain(r)]
     /\ UNCHANGED status
  \/ /\ ~run[r].drain
     /\ status' = IF ok THEN "ok" ELSE "error"
     /\ run' = [run EXCEPT ![r] = IdleRun]
     /\ UNCHANGED processing

ReadKeys(r) ==
  /\ run[r].pc = "readKeys"
  /\ \/ /\ keychain # None
        /\ run' = [run EXCEPT ![r].pc = "loadItems", ![r].key = keychain]
        /\ UNCHANGED <<processing, status>>
     \/ /\ keychain = None
        /\ Returns(r, FALSE)
  /\ UNCHANGED <<disk, task, external>>

\* (Mutant of Ours: foreign envelopes are not filtered out.)
OursUnfiltered(a) == vault

\* What is stored and signed by this account.
Ours(a) == [i \in Id |-> IF vault[i].by = a THEN vault[i] ELSE Absent]

\* The ids of one storage key are read, those of the other stay as gathered.
Gathered(s, part) == [i \in Id |-> IF i \in part THEN Ours(s.key)[i] ELSE s.snap[i]]

LoadItems(r) ==
  /\ run[r].pc = "loadItems"
  /\ run' = [run EXCEPT ![r].pc = "loadIdentities", ![r].snap = Gathered(run[r], Item)]
  /\ UNCHANGED <<disk, processing, status, task, external>>

LoadIdentities(r) ==
  /\ run[r].pc = "loadIdentities"
  /\ run' = [run EXCEPT ![r].pc = "loadCursor", ![r].snap = Gathered(run[r], Identity)]
  /\ UNCHANGED <<disk, processing, status, task, external>>

LoadCursor(r) ==
  /\ run[r].pc = "loadCursor"
  /\ run' = [run EXCEPT ![r].pc = "push", ![r].from = cursor]
  /\ UNCHANGED <<disk, processing, status, task, external>>

\* The server takes the batch in.
Push(r) ==
  LET s == run[r] IN
  /\ s.pc = "push"
  /\ server' = Received(s.snap, s.tombs, s.deletedAt, serverSeq + 1)
  /\ serverSeq' = serverSeq + (IF server' = server THEN 0 ELSE 1)
  /\ run' = [run EXCEPT ![r].pc = "saveEcho"]
  /\ UNCHANGED <<disk, processing, status, task, clock, minted, allowed>>

\* (Mutant of SaveEcho: the cursor is taken past what was not pulled yet.)
SaveEchoAhead(r) ==
  /\ run[r].pc = "saveEcho"
  /\ cursor' = serverSeq
  /\ run' = [run EXCEPT ![r].pc = "pull"]
  /\ UNCHANGED <<keychain, vault, queue, processing, status, task, external>>

\* The response to the push arrives and its cursor is stored.
SaveEcho(r) ==
  /\ run[r].pc = "saveEcho"
  /\ cursor' = run[r].from
  /\ run' = [run EXCEPT ![r].pc = "pull"]
  /\ UNCHANGED <<keychain, vault, queue, processing, status, task, external>>

\* (Mutant of MergeOne: tombstones are skipped.)
MergeOneNoTombstones(i, local, rec, a) ==
  IF ~rec.dead /\ rec.by = a /\ rec.at > local.at
  THEN [at |-> rec.at, by |-> rec.by] ELSE local

\* One pulled record against the local envelope.  A tombstone carries no
\* envelope, so it is never routed to the identities.
MergeOne(i, local, rec, a) ==
  CASE rec.dead /\ i \in Item -> Absent
    [] ~rec.dead /\ rec.by = a /\ rec.at > local.at -> [at |-> rec.at, by |-> rec.by]
    [] OTHER -> local

\* (Mutant of Merged: the changes pulled are taken for the whole vault.)
MergedAsWhole(s) ==
  [i \in Id |-> IF server[i].seq > s.from
                THEN MergeOne(i, s.snap[i], server[i], s.key) ELSE Absent]

Merged(s) ==
  [i \in Id |-> IF server[i].seq > s.from
                THEN MergeOne(i, s.snap[i], server[i], s.key) ELSE s.snap[i]]

\* The server answers with everything after the cursor it was sent.
Pull(r) ==
  /\ run[r].pc = "pull"
  /\ run' = [run EXCEPT ![r].pc = "saveCursor", ![r].snap = Merged(run[r]),
                        ![r].upto = serverSeq]
  /\ UNCHANGED <<disk, processing, status, task, external>>

\* (Mutant of SaveCursor: off by one.)
SaveCursorOffByOne(r) ==
  /\ run[r].pc = "saveCursor"
  /\ cursor' = run[r].upto - 1
  /\ run' = [run EXCEPT ![r].pc = "saveItems"]
  /\ UNCHANGED <<keychain, vault, queue, processing, status, task, external>>

SaveCursor(r) ==
  /\ run[r].pc = "saveCursor"
  /\ cursor' = run[r].upto
  /\ run' = [run EXCEPT ![r].pc = "saveItems"]
  /\ UNCHANGED <<keychain, vault, queue, processing, status, task, external>>

SaveItems(r) ==
  /\ run[r].pc = "saveItems"
  /\ vault' = Overwrite(Item, run[r].snap)
  /\ run' = [run EXCEPT ![r].pc = "saveIdentities"]
  /\ UNCHANGED <<keychain, queue, cursor, processing, status, task, external>>

SaveIdentities(r) ==
  /\ run[r].pc = "saveIdentities"
  /\ vault' = Overwrite(Identity, run[r].snap)
  /\ Returns(r, TRUE)
  /\ UNCHANGED <<keychain, queue, cursor, task, external>>

\* (Mutant of ClearQueue: what was pushed stays queued.)
ClearQueueKept(r) ==
  /\ run[r].pc = "clearQueue"
  /\ processing' = FALSE
  /\ run' = [run EXCEPT ![r] = AfterDrain(r)]
  /\ UNCHANGED <<disk, status, task, external>>

\* processQueue after a successful fullSync.
ClearQueue(r) ==
  /\ run[r].pc = "clearQueue"
  /\ queue' = {}
  /\ processing' = FALSE
  /\ run' = [run EXCEPT ![r] = AfterDrain(r)]
  /\ UNCHANGED <<keychain, vault, cursor, status, task, external>>

-----------------------------------------------------------------------------
(* Faults. *)

\* The push or its response or the pull is lost; fullSync swallows the error.
Offline(r) ==
  /\ "offline" \in allowed
  /\ run[r].pc \in {"push", "saveEcho", "pull"}
  /\ Returns(r, FALSE)
  /\ UNCHANGED <<disk, task, external>>

\* A storage call inside fullSync rejects; the same catch takes it.
SyncStorageFails(r) ==
  /\ "storage" \in allowed
  /\ run[r].pc \in {"readKeys", "loadItems", "loadIdentities", "loadCursor",
                    "saveEcho", "saveCursor", "saveItems", "saveIdentities"}
  /\ Returns(r, FALSE)
  /\ UNCHANGED <<disk, task, external>>

\* A storage call of processQueue itself rejects: its finally clause runs and
\* the error reaches handleSync, which goes no further.
QueueStorageFails(r) ==
  /\ "storage" \in allowed
  /\ run[r].pc \in {"readQueue", "clearQueue"}
  /\ processing' = FALSE
  /\ run' = [run EXCEPT ![r] = IdleRun]
  /\ status' = IF r = "manual" THEN "error" ELSE status
  /\ UNCHANGED <<disk, task, external>>

\* A storage call of a message handler rejects: the handler reports failure.
TaskStorageFails(h) ==
  /\ "storage" \in allowed
  /\ task[h].pc # "idle"
  /\ task' = [task EXCEPT ![h] = IdleTask]
  /\ UNCHANGED <<disk, processing, status, run, external>>

\* The worker is stopped and started again: everything in memory is gone.
Evict ==
  /\ "eviction" \in allowed
  /\ ~NoTask \/ ~NoSync
  /\ processing' = FALSE
  /\ status' = "idle"
  /\ task' = [h \in Handler |-> IdleTask]
  /\ run' = [r \in Run |-> IdleRun]
  /\ UNCHANGED <<disk, external>>

-----------------------------------------------------------------------------

TaskBegins(h) ==
  \/ \E i \in Id : \/ BeginCreate(h, i) \/ BeginUpdate(h, i)
                   \/ BeginTouch(h, i)  \/ BeginDelete(h, i)
  \/ BeginReset(h)

TaskStep(h) ==
  \/ LoadVault(h) \/ WriteVault(h) \/ LoadQueue(h) \/ WriteQueue(h)
  \/ WipeItems(h) \/ WipeIdentities(h) \/ WipeQueue(h) \/ WipeCursor(h)

SyncStep(r) ==
  \/ ReadQueue(r) \/ ReadKeys(r)
  \/ LoadItems(r) \/ LoadIdentities(r) \/ LoadCursor(r)
  \/ Push(r) \/ SaveEcho(r) \/ Pull(r)
  \/ SaveCursor(r) \/ SaveItems(r) \/ SaveIdentities(r) \/ ClearQueue(r)

Remote == \E i \in Id : RemoteDelete(i) \/ \E a \in Account : RemoteWrite(i, a)

Fault ==
  \/ \E r \in Run : Offline(r) \/ SyncStorageFails(r) \/ QueueStorageFails(r)
  \/ \E h \in Handler : TaskStorageFails(h)
  \/ Evict

Next ==
  \/ \E h \in Handler : TaskBegins(h) \/ TaskStep(h)
  \/ \E a \in Account : InstallKeychain(a)
  \/ StartTimer \/ StartManual
  \/ \E r \in Run : SyncStep(r)
  \/ Remote
  \/ Fault

Spec == Init /\ [][Next]_vars

(***************************************************************************)
(* Fairness.  The interval keeps firing and the event loop keeps running   *)
(* what is ready; the network is not down for ever, so a request retried   *)
(* again and again is answered at last.  Users, other devices and faults   *)
(* are under no obligation.                                                *)
(***************************************************************************)
Fairness ==
  /\ SF_vars(StartTimer)
  /\ \A r \in Run : /\ WF_vars(SyncStep(r))
                    /\ SF_vars(Push(r)) /\ SF_vars(SaveEcho(r)) /\ SF_vars(Pull(r))
  /\ \A h \in Handler : WF_vars(TaskStep(h))

FairSpec == Spec /\ Fairness

-----------------------------------------------------------------------------
(* What holds whatever overlaps and whatever fails. *)

\* The processing flag is up exactly while some processQueue is running, and
\* never are two: no error path, no eviction leaves it stuck or drops it early.
OneDrain ==
  /\ processing <=> \E r \in Run : run[r].pc # "idle" /\ run[r].drain
  /\ \A r, q \in Run : run[r].drain /\ run[q].drain => r = q

\* Whatever a sync has gathered to push or to store was signed by the account
\* it started under, so a rotation cannot make it mix two accounts' items.
OneAccountPerSync ==
  \A r \in Run : \A i \in Id :
    Present(run[r].snap[i]) => run[r].snap[i].by = run[r].key

-----------------------------------------------------------------------------
(* What holds while the steps of two pieces of work do not interleave. *)

Orderly == allowed \cap {"opDuringSync", "twoSyncs", "twoOps"} = {}

\* Last write wins: an envelope on this device is never replaced by an older
\* one of the same account.
NeverOlder ==
  [][Orderly =>
       \A i \in Id : Present(vault'[i]) /\ vault'[i].by = vault[i].by
                      => vault'[i].at >= vault[i].at]_vars

\* An item of the account this device holds disappears only because it was
\* deleted here, because the server says it was deleted, or in a reset.
NothingVanishes ==
  [][\A i \in Id : Orderly /\ Present(vault[i]) /\ vault[i].by = keychain /\ ~Present(vault'[i])
       => \/ server[i].dead
          \/ \E h \in Handler : task[h].op = "delete" /\ task[h].id = i
          \/ \E h \in Handler : task[h].op = "reset"]_vars

\* A queued deletion leaves the queue only once the server has buried the id,
\* or has never heard of it, or holds an edit made after the deletion was
\* stamped.
DeletionDelivered ==
  [][\A i \in Deletes(queue) \ Deletes(queue') :
       \/ ~Orderly
       \/ server[i].dead \/ server[i].seq = 0
       \/ \E r \in Run : i \in run[r].tombs /\ server[i].at > run[r].deletedAt
       \/ \E h \in Handler : task[h].op = "reset"]_vars

DeletingHere(i) ==
  \/ i \in Deletes(queue)
  \/ \E h \in Handler : task[h].op = "delete" /\ task[h].id = i

\* And the worker is neither stopped nor given another account meanwhile, and
\* its storage works.
Benign == allowed \subseteq {"offline", "reset"}

\* Whenever no sync is running, everything the cursor says has been fetched is
\* on this device: the envelope or a newer one, unless it was deleted here; and
\* what was deleted elsewhere is gone.
CursorIsHonest ==
  Benign /\ NoSync /\ keychain # None =>
    \A i \in Id : server[i].seq \in 1..cursor =>
      /\ ~server[i].dead /\ server[i].by = keychain =>
            vault[i].at >= server[i].at \/ DeletingHere(i)
      /\ server[i].dead => ~Present(vault[i])

\* A reset device, until it is given a keychain again, holds no envelope and no
\* cursor; what it queues is only what pages that outlived the reset delete, and
\* no edit made before it is left to be sent for the next account.
ResetLeavesNothing ==
  Benign /\ keychain = None /\ NoTask =>
    /\ vault = EmptyVault /\ cursor = 0
    /\ \A e \in queue : e.op = "delete" /\ e.id \in Deletable

\* Deletions the server is still owed: queued, or out of the vault and about
\* to be queued.
Owed == Deletes(queue) \cup
        {task[h].id : h \in {g \in Handler : /\ task[g].op = "delete"
                                           /\ task[g].pc \in {"loadQueue", "writeQueue"}}}

\* The replica a device shows.  One whose surroundings the contract does not
\* speak of shows a blank one.
Shown(x, blank) == IF Benign THEN x ELSE blank

Contract == INSTANCE ReplicaContract
              WITH holder <- Shown(keychain, None),
                   here <- Shown(vault, EmptyVault),
                   there <- Shown(server, [i \in Id |-> NoRecord]),
                   pending <- Shown(Owed, {})

\* While nothing interleaves, the handlers, processQueue and fullSync implement
\* the replica contract: edits stick, the device only catches up with the
\* server, last write wins, no deletion is dropped before the server has it.
KeepsContract == Contract!Spec

-----------------------------------------------------------------------------
(* Liveness. *)

\* This device and the server agree on everything of this account.
InSync ==
  \A i \in Id :
    IF server[i].dead \/ server[i].by # keychain
    THEN ~Present(vault[i])
    ELSE vault[i] = [at |-> server[i].at, by |-> keychain]

\* Once edits stop, a device that keeps its account and the server come to
\* agree and stay so: every request fullSync loses is made good by a later one.
Converges == \A a \in Account : Orderly /\ [](keychain = a) => <>[]InSync

\* On a device with an account, queued work is eventually pushed and the queue
\* cleared, since processQueue keeps it across failures and the interval retries.
QueueDrains == []<>(queue = {} \/ keychain = None)

\* A processQueue in progress always lowers its flag again, whatever fails, so
\* the interval is never locked out.
DrainEnds == processing ~> ~processing

\* Once one account stays in possession, a sync sweeps the envelopes another
\* account signed off this device for good, however many syncs before it fail at
\* whatever step.  (Syncs and handlers come one after the other here: an edit that
\* read the vault before the sweep and writes it after would bring them back.)
ForeignSwept ==
  \A a \in Account : Orderly /\
    <>[](keychain = a) => <>[](\A i \in Id : vault[i].by \in {a, None})

=============================================================================
